---------------------------- MODULE PricingProofs ----------------------------
(***************************************************************************)
(* Proofs about Pricing, for every fee rule, price and customer share: the *)
(* rules stay solvable, an invoice never costs OrderxPay more than it      *)
(* earns nor takes more than it collects, the merchant banks what they ask *)
(* for, a dearer order never costs less, and the parts of a payment come   *)
(* to the whole.                                                           *)
(***************************************************************************)
EXTENDS Pricing, SumLemmas, TLAPS

\* Bps truncates a product of naturals: a natural number.
LEMMA BpsNat ==
    ASSUME NEW amount \in Nat, NEW bps \in Nat
    PROVE  Bps(amount, bps) \in Nat
<1>1. amount * bps \in Nat
  OBVIOUS
<1>2. ASSUME NEW x \in Nat PROVE x \div 10000 \in Nat
  OBVIOUS
<1> QED BY <1>1, <1>2 DEF Bps

\* A rate of at most 100% leaves at most the amount.
LEMMA BpsAtMost ==
    ASSUME NEW amount \in Nat, NEW bps \in Nat, bps <= 10000
    PROVE  Bps(amount, bps) <= amount
<1>1. amount * bps \in Nat /\ amount * bps <= amount * 10000
  OBVIOUS
<1>2. ASSUME NEW x \in Nat, x <= amount * 10000 PROVE x \div 10000 <= amount
  BY <1>2
<1> QED BY <1>1, <1>2 DEF Bps

\* A share of a rate under 100% is again one.
LEMMA ShareOfRate ==
    ASSUME NEW rate \in Nat, rate < 10000, NEW share \in Nat, share <= 10000
    PROVE  Bps(rate, share) \in Nat /\ Bps(rate, share) < 10000
<1>1. Bps(rate, share) \in Nat
  BY BpsNat
<1>2. Bps(rate, share) <= rate
  BY BpsAtMost
<1> QED BY <1>1, <1>2

\* A natural number divided by one no larger than it is not zero.
LEMMA QuotientPositive ==
    ASSUME NEW x \in Nat, NEW d \in Nat, d > 0, x >= d
    PROVE  x \div d \in Nat /\ x \div d > 0
<1>1. x = d * (x \div d) + (x % d) /\ x \div d \in Int /\ x % d \in Int /\ 0 <= x % d /\ x % d < d
  OBVIOUS
<1>2. x \div d > 0
  BY <1>1
<1> QED BY <1>1, <1>2

\* Grossing up a price by a rate under 100% yields a positive total.
LEMMA GrossUpPositive ==
    ASSUME NEW amount \in Nat, amount > 0, NEW bps \in Nat, bps < 10000
    PROVE  GrossUp(amount, bps) \in Nat /\ GrossUp(amount, bps) > 0
<1> DEFINE rest == 10000 - bps
           x    == amount * 10000 + rest \div 2
<1>1. rest \in Nat /\ rest > 0 /\ rest <= 10000
  OBVIOUS
<1>2. rest \div 2 \in Nat
  BY <1>1
<1>3. x \in Nat /\ x >= rest
  BY <1>1, <1>2
<1>4. GrossUp(amount, bps) = IF bps = 0 THEN amount ELSE x \div rest
  BY DEF GrossUp
<1> HIDE DEF x, rest
<1>5. x \div rest \in Nat /\ x \div rest > 0
  BY <1>1, <1>3, QuotientPositive
<1> QED BY <1>4, <1>5

\* A clamped margin is a natural number within the clamps.
LEMMA ClampWithin ==
    ASSUME NEW rule, Solvable(rule), NEW margin \in Nat
    PROVE  /\ Clamp(rule, margin) \in Nat
           /\ Clamp(rule, margin) >= rule.floor
           /\ rule.cap > 0 => Clamp(rule, margin) <= rule.cap
BY DEF Solvable, FeeRule, Clamp

\* The fields of a rule an invoice can be priced with.
LEMMA RuleFields ==
    ASSUME NEW rule, Solvable(rule)
    PROVE  /\ rule.collection \in Nat /\ rule.collection < 10000
           /\ rule.collection <= 10000
           /\ rule.margin \in Nat /\ rule.floor \in Nat /\ rule.cap \in Nat
           /\ rule.collection + rule.margin \in Nat /\ rule.collection + rule.margin < 10000
BY DEF Solvable, FeeRule

\* The total of an invoice is positive.
LEMMA TotalPositive ==
    ASSUME NEW rule, Solvable(rule), NEW base \in Nat, base > 0, NEW share \in Nat, share <= 10000
    PROVE  InvoiceTotal(rule, base, share) \in Nat /\ InvoiceTotal(rule, base, share) > 0
<1> DEFINE rate   == rule.collection + rule.margin
           plain  == GrossUp(base, Bps(rate, share))
           margin == Bps(plain, rule.margin)
           clamp  == Clamp(rule, margin)
           more   == base + Bps(clamp, share)
           again  == GrossUp(more, Bps(rule.collection, share))
<1>1. InvoiceTotal(rule, base, share) = IF clamp = margin THEN plain ELSE again
  BY DEF InvoiceTotal
<1>2. rate \in Nat /\ rate < 10000
  BY RuleFields
<1>a. rule.collection \in Nat
  BY RuleFields
<1>b. rule.collection < 10000
  BY RuleFields
<1>c. rule.margin \in Nat
  BY RuleFields
<1>4. Bps(rate, share) \in Nat /\ Bps(rate, share) < 10000
  <2> HIDE DEF rate
  <2> QED BY <1>2, ShareOfRate
<1>5. Bps(rule.collection, share) \in Nat /\ Bps(rule.collection, share) < 10000
  <2> DEFINE collection == rule.collection
  <2>1. collection \in Nat /\ collection < 10000
    BY <1>a, <1>b
  <2> HIDE DEF collection
  <2>2. Bps(collection, share) \in Nat /\ Bps(collection, share) < 10000
    BY <2>1, ShareOfRate
  <2> QED BY <2>2 DEF collection
<1>6. plain \in Nat /\ plain > 0
  BY <1>4, GrossUpPositive
<1>7. margin \in Nat
  <2> DEFINE bps == rule.margin
  <2>1. plain \in Nat /\ bps \in Nat
    BY <1>c, <1>6
  <2> HIDE DEF plain, bps
  <2>2. Bps(plain, bps) \in Nat
    BY <2>1, BpsNat
  <2> QED BY <2>2 DEF bps
<1>8. clamp \in Nat
  <2> HIDE DEF margin
  <2> QED BY <1>7, ClampWithin
<1>9. more \in Nat /\ more > 0
  <2> HIDE DEF clamp
  <2>1. Bps(clamp, share) \in Nat
    BY <1>8, BpsNat
  <2> QED BY <2>1
<1>10. again \in Nat /\ again > 0
  <2> HIDE DEF more
  <2> QED BY <1>5, <1>9, GrossUpPositive
<1> HIDE DEF clamp, margin, plain, again
<1> QED BY <1>1, <1>6, <1>10

\* The commission covers the PSP's cost, fits in the total, and leaves a margin
\* within the clamps wherever it does not take the whole invoice.
LEMMA CommissionBounds ==
    ASSUME NEW rule, Solvable(rule), NEW total \in Nat
    PROVE  /\ InvoiceCommission(rule, total) \in Nat
           /\ Bps(total, rule.collection) \in Nat
           /\ Bps(total, rule.collection) <= InvoiceCommission(rule, total)
           /\ InvoiceCommission(rule, total) <= total
           /\ rule.cap > 0 =>
                InvoiceCommission(rule, total) - Bps(total, rule.collection) <= rule.cap
           /\ \/ InvoiceCommission(rule, total) - Bps(total, rule.collection) >= rule.floor
              \/ InvoiceCommission(rule, total) = total
<1> DEFINE cost   == Bps(total, rule.collection)
           share  == Bps(total, rule.margin)
           margin == Clamp(rule, share)
<1>a. rule.collection \in Nat
  BY RuleFields
<1>b. rule.collection <= 10000
  BY RuleFields
<1>c. rule.margin \in Nat
  BY RuleFields
<1>d. cost \in Nat
  BY <1>a, BpsNat
<1>e. cost <= total
  <2> DEFINE collection == rule.collection
  <2>1. collection \in Nat /\ collection <= 10000
    BY <1>a, <1>b
  <2> HIDE DEF collection
  <2>2. Bps(total, collection) <= total
    BY <2>1, BpsAtMost
  <2> QED BY <2>2 DEF collection
<1>1. cost \in Nat /\ cost <= total
  BY <1>d, <1>e
<1>2. share \in Nat
  BY <1>c, BpsNat
<1>3. /\ margin \in Nat /\ margin >= rule.floor
      /\ rule.cap > 0 => margin <= rule.cap
  <2> HIDE DEF share
  <2> QED BY <1>2, ClampWithin
<1>4. InvoiceCommission(rule, total) = IF cost + margin > total THEN total ELSE cost + margin
  BY DEF InvoiceCommission
<1>5. rule.floor \in Nat /\ rule.cap \in Nat
  BY RuleFields
<1> HIDE DEF share, margin
<1> QED BY <1>1, <1>3, <1>4, <1>5

\* A rule the merchant may set is one an invoice can be priced with, and so is any
\* rule Back Office may submit.
LEMMA OwnRuleSolvable ==
    ASSUME NEW rule, Solvable(rule), NEW rate \in Nat, rate >= rule.collection,
           rate <= merchantSetRateCapBps
    PROVE  Solvable([rule EXCEPT !.margin = rate - rule.collection])
BY DEF Solvable, FeeRule, merchantSetRateCapBps

LEMMA RequestSolvable ==
    ASSUME NEW rule \in FeeRule, Saleable(rule)
    PROVE  Solvable(rule) /\ rule # NoRule
BY DEF Saleable, Solvable, FeeRule, NoRule

LEMMA NoRuleUnsolvable == ~Solvable(NoRule)
BY DEF Solvable, FeeRule, NoRule

LEMMA RuleInForceSolvable == PricingTypeOK => Solvable(RuleInForce)
BY DEF PricingTypeOK, RuleInForce

-----------------------------------------------------------------------------
(* The invariant.                                                          *)

AmountsInv == PricingTypeOK /\ PlatformNeverLosesMoney /\ MarginIsClamped

LEMMA InitAmounts == Init => AmountsInv
<1> SUFFICES ASSUME Init PROVE AmountsInv
  OBVIOUS
<1>1. Solvable(default)
  BY RulesAssumption, SeedAssumption, RequestSolvable DEF Init
<1>2. PricingTypeOK
  BY <1>1 DEF Init, PricingTypeOK
<1>3. Bps(invoice.total, invoice.rule.collection) = 0
  BY DEF Init, NoInvoice, NoRule, Bps
<1>4. PlatformNeverLosesMoney /\ MarginIsClamped
  BY <1>3 DEF Init, NoInvoice, NoRule, PlatformNeverLosesMoney, MarginIsClamped
<1> QED BY <1>2, <1>4 DEF AmountsInv

\* A step that leaves the invoice alone keeps its bounds.
LEMMA SameInvoice ==
    ASSUME AmountsInv, UNCHANGED invoice, PricingTypeOK'
    PROVE  AmountsInv'
BY DEF AmountsInv, PlatformNeverLosesMoney, MarginIsClamped, Bps

\* Every rule that comes into force can be solved.
LEMMA RulesStep ==
    ASSUME AmountsInv,
           \/ \E rule \in RuleRequests : UpsertGlobalFeeRule(rule) \/ UpsertMerchantFeeRule(rule)
           \/ DeleteMerchantFeeRule
    PROVE  AmountsInv'
<1>1. PricingTypeOK
  BY DEF AmountsInv
<1>2. PricingTypeOK'
  <2>1. CASE \E rule \in RuleRequests : UpsertGlobalFeeRule(rule) \/ UpsertMerchantFeeRule(rule)
    <3> PICK rule \in RuleRequests : UpsertGlobalFeeRule(rule) \/ UpsertMerchantFeeRule(rule)
      BY <2>1
    <3>1. rule \in FeeRule
      BY RulesAssumption
    <3>2. Solvable(rule)
      BY <3>1, RequestSolvable DEF UpsertGlobalFeeRule, UpsertMerchantFeeRule
    <3> QED BY <1>1, <3>2 DEF PricingTypeOK, UpsertGlobalFeeRule, UpsertMerchantFeeRule
  <2>2. CASE DeleteMerchantFeeRule
    BY <1>1, <2>2 DEF PricingTypeOK, DeleteMerchantFeeRule
  <2> QED BY <2>1, <2>2
<1> QED BY <1>2, SameInvoice
        DEF UpsertGlobalFeeRule, UpsertMerchantFeeRule, DeleteMerchantFeeRule

\* The merchant's own rate, whatever became of the rule it was checked against.
LEMMA OwnRateStep ==
    ASSUME AmountsInv,
           (\E rate \in OwnRates : AskOwnRate(rate)) \/ SetOwnRate
    PROVE  AmountsInv'
<1>1. PricingTypeOK
  BY DEF AmountsInv
<1>2. CASE \E rate \in OwnRates : AskOwnRate(rate)
  <2> PICK rate \in OwnRates : AskOwnRate(rate)
    BY <1>2
  <2>1. rate \in Nat
    BY AmountsAssumption
  <2>2. Solvable(RuleInForce)
    BY <1>1, RuleInForceSolvable
  <2>3. PricingTypeOK'
    BY <1>1, <2>1, <2>2 DEF PricingTypeOK, AskOwnRate
  <2> QED BY <2>3, SameInvoice DEF AskOwnRate
<1>3. CASE SetOwnRate
  <2>1. /\ Solvable(asked.current) /\ asked.rate \in Nat
        /\ Settable(asked.rate, asked.current.collection)
    BY <1>1, <1>3 DEF PricingTypeOK, SetOwnRate, Idle
  <2>2. Solvable(override')
    BY <1>3, <2>1, OwnRuleSolvable DEF SetOwnRate, Settable
  <2>3. PricingTypeOK'
    BY <1>1, <1>3, <2>2 DEF PricingTypeOK, SetOwnRate
  <2> QED BY <1>3, <2>3, SameInvoice DEF SetOwnRate
<1> QED BY <1>2, <1>3

\* The base and the share of an invoice that is raised.
LEMMA RaisedFrom ==
    ASSUME NEW base \in Bases, NEW share \in CustomerShares
    PROVE  base \in Nat /\ share \in Nat /\ share <= 10000
<1>1. base \in Nat
  <2>1. Bases \subseteq Nat
    BY AmountsAssumption, SMTT(30)
  <2> QED BY <2>1
<1>2. share \in 0..10000
  <2>1. CustomerShares \subseteq 0..10000
    BY AmountsAssumption, SMTT(30)
  <2> QED BY <2>1
<1>3. \A n \in 0..10000 : n \in Nat /\ n <= 10000
  OBVIOUS
<1> QED BY <1>1, <1>2, <1>3

\* An invoice raised under a solvable rule is within bounds.
LEMMA InvoiceStep ==
    ASSUME AmountsInv, NEW base \in Bases, NEW share \in CustomerShares,
           CreateInvoice(base, share)
    PROVE  AmountsInv'
<1> DEFINE amounts    == computeInvoiceAmounts(RuleInForce, base, share)
           total      == amounts.total
           commission == amounts.commission
           cost       == Bps(total, RuleInForce.collection)
<1>1. PricingTypeOK /\ Solvable(RuleInForce)
  BY RuleInForceSolvable DEF AmountsInv
<1>2. base \in Nat /\ share \in Nat /\ share <= 10000
  BY RaisedFrom
<1>3. total \in Nat /\ (base > 0 <=> total > 0)
  <2>1. CASE base = 0
    BY <2>1 DEF computeInvoiceAmounts
  <2>2. CASE base > 0
    <3>1. total = InvoiceTotal(RuleInForce, base, share)
      BY <1>2, <2>2 DEF computeInvoiceAmounts
    <3> QED BY <1>1, <1>2, <2>2, <3>1, TotalPositive
  <2> QED BY <1>2, <2>1, <2>2
<1>4. /\ commission \in Nat /\ cost \in Nat /\ cost <= commission /\ commission <= total
      /\ RuleInForce.cap > 0 => commission - cost <= RuleInForce.cap
      /\ commission - cost >= RuleInForce.floor \/ commission = total
  <2>1. CASE base = 0
    <3>1. total = 0 /\ commission = 0 /\ cost = 0
      BY <1>1, <2>1 DEF computeInvoiceAmounts, Bps, Solvable, FeeRule
    <3> QED BY <1>1, <3>1 DEF Solvable, FeeRule
  <2>2. CASE base # 0
    <3>1. commission = InvoiceCommission(RuleInForce, total)
      BY <2>2 DEF computeInvoiceAmounts
    <3> HIDE DEF commission, total
    <3> QED BY <1>1, <1>3, <3>1, CommissionBounds
  <2> QED BY <2>1, <2>2
<1>5. /\ invoice'.base = base /\ invoice'.share = share /\ invoice'.rule = RuleInForce
      /\ invoice'.total = total /\ invoice'.commission = commission
      /\ UNCHANGED <<default, override, asked>>
  BY DEF CreateInvoice
<1> HIDE DEF total, commission
<1>6. PricingTypeOK'
  <2>1. /\ Solvable(default') /\ (override' # NoRule => Solvable(override'))
        /\ asked' # Idle =>
             /\ asked'.pc = "set" /\ Solvable(asked'.current)
             /\ asked'.rate \in Nat /\ Settable(asked'.rate, asked'.current.collection)
    BY <1>1, <1>5 DEF PricingTypeOK
  <2>2. Solvable(invoice'.rule)
    BY <1>1, <1>5
  <2>3. {invoice'.base, invoice'.total, invoice'.commission, invoice'.share} \subseteq Nat
    BY <1>2, <1>3, <1>4, <1>5
  <2>4. (invoice'.base > 0 <=> invoice'.total > 0) /\ invoice'.share <= 10000
    BY <1>2, <1>3, <1>5
  <2> QED BY <2>1, <2>2, <2>3, <2>4 DEF PricingTypeOK
<1>7. PlatformNeverLosesMoney' /\ MarginIsClamped'
  BY <1>4, <1>5 DEF PlatformNeverLosesMoney, MarginIsClamped
<1> QED BY <1>6, <1>7 DEF AmountsInv

LEMMA NextAmounts == AmountsInv /\ [Next]_vars => AmountsInv'
<1> SUFFICES ASSUME AmountsInv, [Next]_vars PROVE AmountsInv'
  OBVIOUS
<1>1. CASE \/ \E rule \in RuleRequests :
                UpsertGlobalFeeRule(rule) \/ UpsertMerchantFeeRule(rule)
           \/ DeleteMerchantFeeRule
  BY <1>1, RulesStep
<1>2. CASE (\E rate \in OwnRates : AskOwnRate(rate)) \/ SetOwnRate
  BY <1>2, OwnRateStep
<1>3. CASE \E base \in Bases, share \in CustomerShares : CreateInvoice(base, share)
  BY <1>3, InvoiceStep
<1>4. CASE \E part \in Parts, split \in BOOLEAN : Pay(part, split)
  <2>1. UNCHANGED <<default, override, asked, invoice>>
    BY <1>4 DEF Pay
  <2> QED BY <2>1, SameInvoice DEF AmountsInv, PricingTypeOK
<1>5. CASE UNCHANGED vars
  BY <1>5, SameInvoice DEF vars, AmountsInv, PricingTypeOK
<1> QED BY <1>1, <1>2, <1>3, <1>4, <1>5 DEF Next

\* The rules in force can be solved and the invoice is within bounds, whatever is submitted.
THEOREM AmountsInvariant == Spec => []AmountsInv
<1> QED BY InitAmounts, NextAmounts, PTL DEF Spec

\* Whatever Back Office and the merchant submit, and in whatever order, every rule in
\* force can be solved for a total (UpsertGlobalFeeRule, UpsertMerchantFeeRule,
\* SetMerchantOwnFeeRule).
THEOREM RulesStaySolvable == Spec => []PricingTypeOK
<1>1. AmountsInv => PricingTypeOK
  BY DEF AmountsInv
<1> QED BY <1>1, AmountsInvariant, PTL

\* No invoice costs OrderxPay more at the PSP than it charges, and none charges more
\* than it collects (computeInvoiceAmounts).
THEOREM CostIsCovered == Spec => []PlatformNeverLosesMoney
<1>1. AmountsInv => PlatformNeverLosesMoney
  BY DEF AmountsInv
<1> QED BY <1>1, AmountsInvariant, PTL

\* OrderxPay's margin on every invoice lies within its clamps (computeInvoiceAmounts).
THEOREM MarginWithinClamps == Spec => []MarginIsClamped
<1>1. AmountsInv => MarginIsClamped
  BY DEF AmountsInv
<1> QED BY <1>1, AmountsInvariant, PTL

-----------------------------------------------------------------------------
(* Rounding: how far Bps and GrossUp are from exact.                       *)

\* A truncated rate leaves less than one pesewa.
LEMMA BpsNear ==
    ASSUME NEW amount \in Nat, NEW bps \in Nat
    PROVE  /\ Bps(amount, bps) \in Nat
           /\ 10000 * Bps(amount, bps) <= amount * bps
           /\ amount * bps < 10000 * Bps(amount, bps) + 10000
<1>1. amount * bps \in Nat
  OBVIOUS
<1>2. ASSUME NEW x \in Nat
      PROVE  x \div 10000 \in Nat /\ 10000 * (x \div 10000) <= x /\ x < 10000 * (x \div 10000) + 10000
  OBVIOUS
<1> QED BY <1>1, <1>2 DEF Bps

\* The same, for use where the rate and the amount are not plain names.
BpsIs(part, amount, bps) ==
    part \in Nat /\ 10000 * part <= amount * bps /\ amount * bps < 10000 * part + 10000

LEMMA BpsTruncates ==
    ASSUME NEW amount \in Nat, NEW bps \in Nat PROVE BpsIs(Bps(amount, bps), amount, bps)
BY BpsNear DEF BpsIs

LEMMA BpsMonotone ==
    ASSUME NEW a \in Nat, NEW b \in Nat, a <= b, NEW bps \in Nat
    PROVE  Bps(a, bps) <= Bps(b, bps)
<1>1. a * bps <= b * bps
  OBVIOUS
<1>2. a * bps \in Nat /\ b * bps \in Nat
  OBVIOUS
<1> DEFINE x == a * bps
           y == b * bps
           p == Bps(a, bps)
           q == Bps(b, bps)
<1>3. p \in Nat /\ q \in Nat /\ 10000 * p <= x /\ y < 10000 * q + 10000
  <2>1. p \in Nat /\ 10000 * p <= a * bps
    BY BpsNear
  <2>2. q \in Nat /\ b * bps < 10000 * q + 10000
    BY BpsNear
  <2> QED BY <2>1, <2>2
<1> HIDE DEF x, y, p, q
<1>4. p <= q
  BY <1>1, <1>2, <1>3 DEF x, y
<1> QED BY <1>4 DEF p, q

\* All of an amount, and none of it.
LEMMA BpsAll == ASSUME NEW amount \in Nat PROVE Bps(amount, 10000) = amount
BY DEF Bps

LEMMA BpsNone == ASSUME NEW amount \in Nat PROVE Bps(amount, 0) = 0
<1>1. amount * 0 = 0
  OBVIOUS
<1> QED BY <1>1 DEF Bps

LEMMA GrossUpNone == ASSUME NEW amount PROVE GrossUp(amount, 0) = amount
BY DEF GrossUp

\* What is left of a grossed-up total is the amount to the nearest pesewa, at either
\* end: half of the divisor, 10000 - bps.
LEMMA GrossUpNear ==
    ASSUME NEW amount \in Nat, NEW bps \in Nat, bps < 10000
    PROVE  /\ GrossUp(amount, bps) \in Nat
           /\ 2 * (10000 * GrossUp(amount, bps) - bps * GrossUp(amount, bps))
                <= 20000 * amount + (10000 - bps)
           /\ 20000 * amount
                <= 2 * (10000 * GrossUp(amount, bps) - bps * GrossUp(amount, bps)) + (10000 - bps)
<1>1. CASE bps = 0
  <2>1. GrossUp(amount, bps) = amount /\ bps * amount = 0
    BY <1>1 DEF GrossUp
  <2> QED BY <1>1, <2>1
<1>2. CASE bps # 0
  <2> DEFINE rest == 10000 - bps
             x    == amount * 10000 + rest \div 2
             t    == x \div rest
  <2>1. rest \in Nat /\ rest > 0
    OBVIOUS
  <2>2. GrossUp(amount, bps) = t
    BY <1>2 DEF GrossUp
  <2> HIDE DEF rest
  <2>3. rest \div 2 \in Nat /\ 2 * (rest \div 2) <= rest /\ rest <= 2 * (rest \div 2) + 1
    BY <2>1
  <2> DEFINE half == rest \div 2
  <2> HIDE DEF half
  <2>4. x = amount * 10000 + half /\ x \in Nat
    BY <2>3 DEF half
  <2> HIDE DEF x
  <2>5. t \in Nat /\ rest * t <= x /\ x <= rest * t + rest - 1
    BY <2>1, <2>4
  <2> HIDE DEF t
  <2>6. rest * t \in Nat
    BY <2>1, <2>5
  <2> DEFINE left == rest * t
  <2> HIDE DEF left
  <2>7. 2 * left <= 20000 * amount + rest /\ 20000 * amount <= 2 * left + rest
    <3>1. half \in Nat /\ 2 * half <= rest /\ rest <= 2 * half + 1
      BY <2>3 DEF half
    <3>2. left \in Nat /\ left <= amount * 10000 + half /\ amount * 10000 + half <= left + rest - 1
      BY <2>4, <2>5, <2>6 DEF left
    <3> QED BY <2>1, <3>1, <3>2
  <2>8. left = 10000 * t - bps * t
    BY <2>5 DEF left, rest
  <2> QED BY <2>2, <2>5, <2>7, <2>8 DEF rest
<1> QED BY <1>1, <1>2

GrossUpIs(total, amount, bps) ==
    /\ total \in Nat
    /\ 2 * (10000 * total - bps * total) <= 20000 * amount + (10000 - bps)
    /\ 20000 * amount <= 2 * (10000 * total - bps * total) + (10000 - bps)

LEMMA GrossUpRounds ==
    ASSUME NEW amount \in Nat, NEW bps \in Nat, bps < 10000
    PROVE  GrossUpIs(GrossUp(amount, bps), amount, bps)
BY GrossUpNear DEF GrossUpIs

LEMMA GrossUpMonotone ==
    ASSUME NEW a \in Nat, NEW b \in Nat, a <= b, NEW bps \in Nat, bps < 10000
    PROVE  GrossUp(a, bps) <= GrossUp(b, bps)
<1>1. CASE bps = 0
  BY <1>1 DEF GrossUp
<1>2. CASE bps # 0
  <2> DEFINE rest == 10000 - bps
  <2>1. rest \in Nat /\ rest > 0 /\ rest \div 2 \in Nat
    OBVIOUS
  <2>2. GrossUp(a, bps) = (a * 10000 + rest \div 2) \div rest
    BY <1>2 DEF GrossUp
  <2>3. GrossUp(b, bps) = (b * 10000 + rest \div 2) \div rest
    BY <1>2 DEF GrossUp
  <2> HIDE DEF rest
  <2>4. ASSUME NEW x \in Nat, NEW y \in Nat, x <= y
        PROVE  x \div rest <= y \div rest
    <3> DEFINE p == x \div rest
               q == y \div rest
    <3>1. p \in Nat /\ q \in Nat /\ rest * p <= x /\ y < rest * q + rest
      BY <2>1
    <3> HIDE DEF p, q
    <3>2. ~(q + 1 <= p)
      <4> SUFFICES ASSUME q + 1 <= p PROVE FALSE
        OBVIOUS
      <4>1. rest * (q + 1) <= rest * p
        BY <2>1, <3>1
      <4>2. rest * (q + 1) = rest * q + rest
        BY <2>1, <3>1
      <4>3. rest * q \in Nat /\ rest * p \in Nat
        BY <2>1, <3>1
      <4> QED BY <2>1, <2>4, <3>1, <4>1, <4>2, <4>3
    <3>3. p <= q
      BY <3>1, <3>2
    <3> QED BY <3>3 DEF p, q
  <2>5. a * 10000 + rest \div 2 \in Nat /\ b * 10000 + rest \div 2 \in Nat
    BY <2>1
  <2>6. a * 10000 + rest \div 2 <= b * 10000 + rest \div 2
    BY <2>1
  <2> QED BY <2>2, <2>3, <2>4, <2>5, <2>6
<1> QED BY <1>1, <1>2

-----------------------------------------------------------------------------
(* The merchant is left whole.  x and y stand for the total times a rate,  *)
(* left and rest for what the rates leave of 10000.                        *)

\* Solved for the plain rate: the two truncated parts leave the base, and at most two
\* pesewas.
LEMMA PlainLeaves ==
    ASSUME NEW t \in Nat, NEW base \in Nat, NEW rest \in Nat, rest <= 10000,
           NEW x \in Nat, NEW y \in Nat, NEW cost \in Nat, NEW margin \in Nat,
           2 * (10000 * t - (x + y)) <= 20000 * base + rest,
           20000 * base <= 2 * (10000 * t - (x + y)) + rest,
           10000 * cost <= x, x < 10000 * cost + 10000,
           10000 * margin <= y, y < 10000 * margin + 10000
    PROVE  /\ cost + margin + base <= t
           /\ t <= cost + margin + base + 2
OBVIOUS

\* Solved for a constant margin.
LEMMA ClampLeaves ==
    ASSUME NEW t \in Nat, NEW base \in Nat, NEW rest \in Nat, rest <= 10000,
           NEW x \in Nat, NEW cost \in Nat, NEW margin \in Nat,
           2 * (10000 * t - x) <= 20000 * (base + margin) + rest,
           20000 * (base + margin) <= 2 * (10000 * t - x) + rest,
           10000 * cost <= x, x < 10000 * cost + 10000
    PROVE  /\ cost + margin + base <= t
           /\ t <= cost + margin + base + 1
OBVIOUS

\* A margin below the floor on the plain total is not above it on the total that
\* carries the floor.
LEMMA FloorHolds ==
    ASSUME NEW plain \in Nat, NEW t \in Nat, NEW base \in Nat, NEW floor \in Nat,
           NEW rate \in Nat, NEW left \in Nat, left > 0, NEW rest, rest = left + rate,
           20000 * base <= 2 * (left * plain) + left,
           2 * (rest * t) <= 20000 * (base + floor) + rest,
           rate * plain < 10000 * floor
    PROVE  rate * t < 10000 * floor + rate
<1> DEFINE x == rate * t
           y == rate * plain
           b == rate * base
           f == rate * floor
           s == rate * rest
           l == rate * left
           p == left * plain
<1>1. rest \in Nat /\ rest > 0 /\ left <= rest
  OBVIOUS
<1>2. x \in Nat /\ y \in Nat /\ b \in Nat /\ f \in Nat /\ s \in Nat /\ l \in Nat /\ p \in Nat
  BY <1>1
<1>3. rate * (2 * (rest * t)) <= rate * (20000 * (base + floor) + rest)
  <2>1. ASSUME NEW i \in Nat, NEW j \in Nat, i <= j PROVE rate * i <= rate * j
    BY <2>1
  <2>2. 2 * (rest * t) \in Nat /\ 20000 * (base + floor) + rest \in Nat
    BY <1>1
  <2> QED BY <2>1, <2>2
<1>4. rate * (20000 * base) <= rate * (2 * p + left)
  <2>1. ASSUME NEW i \in Nat, NEW j \in Nat, i <= j PROVE rate * i <= rate * j
    BY <2>1
  <2>2. 20000 * base \in Nat /\ 2 * p + left \in Nat
    BY <1>2
  <2> QED BY <2>1, <2>2
<1>5. rate * (2 * (rest * t)) = 2 * (rest * x)
  BY <1>1
<1>6. rate * (20000 * (base + floor) + rest) = 20000 * b + 20000 * f + s
  BY <1>1
<1>7. rate * (20000 * base) = 20000 * b
  OBVIOUS
<1>8. rate * (2 * p + left) = 2 * (left * y) + l
  OBVIOUS
<1>9. left * y <= left * (10000 * floor - 1)
  <2>1. ASSUME NEW i \in Nat, NEW j \in Nat, i <= j PROVE left * i <= left * j
    BY <2>1
  <2>2. y <= 10000 * floor - 1 /\ 10000 * floor - 1 \in Nat
    BY <1>2
  <2> QED BY <1>2, <2>1, <2>2
<1> DEFINE lf == left * floor
           rx == rest * x
           ly == left * y
<1>10. left * (10000 * floor - 1) = 10000 * lf - left
  OBVIOUS
<1>11. rx \in Nat /\ lf \in Nat /\ ly \in Nat
  BY <1>1, <1>2
<1>12. 2 * rx <= 20000 * lf - 2 * left + l + 20000 * f + s
  <2> HIDE DEF rx, lf, ly, b, f, s, l, p, x, y
  <2>1. 2 * rx <= 20000 * b + 20000 * f + s
    BY <1>3, <1>5, <1>6 DEF rx
  <2>2. 20000 * b <= 2 * ly + l
    BY <1>4, <1>7, <1>8 DEF ly
  <2>3. ly <= 10000 * lf - left
    BY <1>9, <1>10 DEF ly
  <2> QED BY <1>2, <1>11, <2>1, <2>2, <2>3
<1>13. SUFFICES ASSUME x >= 10000 * floor + rate PROVE FALSE
  BY <1>2
<1>14. rest * (10000 * floor + rate) <= rx
  <2>1. ASSUME NEW i \in Nat, NEW j \in Nat, i <= j PROVE rest * i <= rest * j
    BY <1>1, <2>1
  <2>2. 10000 * floor + rate \in Nat
    OBVIOUS
  <2> HIDE DEF x
  <2> QED BY <1>2, <1>13, <2>1, <2>2
<1>15. rest * (10000 * floor + rate) = 10000 * (lf + f) + s
  BY <1>1
<1>16. l <= s
  <2>1. ASSUME NEW i \in Nat, NEW j \in Nat, i <= j PROVE rate * i <= rate * j
    BY <2>1
  <2> QED BY <1>1, <2>1
<1> HIDE DEF rx, lf, ly, b, f, s, l, p, x, y
<1>17. 10000 * (lf + f) + s <= rx
  BY <1>14, <1>15
<1> QED BY <1>1, <1>2, <1>11, <1>12, <1>16, <1>17

\* A margin above the cap on the plain total is at most a pesewa below it on the total
\* that carries the cap.
LEMMA CapHolds ==
    ASSUME NEW plain \in Nat, NEW t \in Nat, NEW base \in Nat, NEW cap \in Nat,
           NEW rate \in Nat, NEW left \in Nat, left > 0, NEW rest, rest = left + rate,
           2 * (left * plain) <= 20000 * base + left,
           20000 * (base + cap) <= 2 * (rest * t) + rest,
           10000 * (cap + 1) <= rate * plain
    PROVE  10000 * cap < rate * t + rate
<1> DEFINE x == rate * t
           y == rate * plain
           b == rate * base
           c == rate * cap
           s == rate * rest
           l == rate * left
           p == left * plain
           q == rest * t
<1>1. rest \in Nat /\ rest > 0 /\ left <= rest
  OBVIOUS
<1>2. /\ x \in Nat /\ y \in Nat /\ b \in Nat /\ c \in Nat /\ s \in Nat /\ l \in Nat /\ p \in Nat
      /\ q \in Nat
  BY <1>1
<1>3. rate * (20000 * (base + cap)) <= rate * (2 * q + rest)
  <2>1. ASSUME NEW i \in Nat, NEW j \in Nat, i <= j PROVE rate * i <= rate * j
    BY <2>1
  <2>2. 2 * q + rest \in Nat /\ 20000 * (base + cap) \in Nat
    BY <1>1, <1>2
  <2> QED BY <2>1, <2>2
<1>4. rate * (2 * p) <= rate * (20000 * base + left)
  <2>1. ASSUME NEW i \in Nat, NEW j \in Nat, i <= j PROVE rate * i <= rate * j
    BY <2>1
  <2>2. 20000 * base + left \in Nat /\ 2 * p \in Nat
    BY <1>2
  <2> QED BY <2>1, <2>2
<1>5. rate * (2 * q + rest) = 2 * (rest * x) + s
  BY <1>1
<1>6. rate * (20000 * (base + cap)) = 20000 * b + 20000 * c
  OBVIOUS
<1>7. rate * (20000 * base + left) = 20000 * b + l
  OBVIOUS
<1>8. rate * (2 * p) = 2 * (left * y)
  OBVIOUS
<1>9. left * (10000 * (cap + 1)) <= left * y
  <2>1. ASSUME NEW i \in Nat, NEW j \in Nat, i <= j PROVE left * i <= left * j
    BY <2>1
  <2>2. 10000 * (cap + 1) <= y /\ 10000 * (cap + 1) \in Nat
    BY <1>2
  <2> QED BY <1>2, <2>1, <2>2
<1> DEFINE lc == left * cap
           rx == rest * x
           ly == left * y
<1>10. left * (10000 * (cap + 1)) = 10000 * lc + 10000 * left
  OBVIOUS
<1>11. rx \in Nat /\ lc \in Nat /\ ly \in Nat
  BY <1>1, <1>2
<1>12. 20000 * lc + 20000 * left + 20000 * c <= 2 * rx + s + l
  <2> HIDE DEF rx, lc, ly, b, c, s, l, p, x, y, q
  <2>1. 20000 * b + 20000 * c <= 2 * rx + s
    BY <1>3, <1>5, <1>6 DEF rx
  <2>2. 2 * ly <= 20000 * b + l
    BY <1>4, <1>7, <1>8 DEF ly
  <2>3. 10000 * lc + 10000 * left <= ly
    BY <1>9, <1>10 DEF ly
  <2> QED BY <1>2, <1>11, <2>1, <2>2, <2>3
<1>13. SUFFICES ASSUME 10000 * cap >= x + rate PROVE FALSE
  BY <1>2
<1>14. rest * (x + rate) <= rest * (10000 * cap)
  <2>1. ASSUME NEW i \in Nat, NEW j \in Nat, i <= j PROVE rest * i <= rest * j
    BY <1>1, <2>1
  <2>2. 10000 * cap \in Nat /\ x + rate \in Nat
    BY <1>2
  <2> HIDE DEF x
  <2> QED BY <1>2, <1>13, <2>1, <2>2
<1>15. rest * (x + rate) = rx + s
  BY <1>1, <1>2
<1>16. rest * (10000 * cap) = 10000 * (lc + c)
  BY <1>1
<1>17. l <= s
  <2>1. ASSUME NEW i \in Nat, NEW j \in Nat, i <= j PROVE rate * i <= rate * j
    BY <2>1
  <2> QED BY <1>1, <2>1
<1> HIDE DEF rx, lc, ly, b, c, s, l, p, x, y, q
<1>18. rx + s <= 10000 * (lc + c)
  BY <1>14, <1>15, <1>16
<1> QED BY <1>1, <1>2, <1>11, <1>12, <1>17, <1>18

\* What solving for a total yields, by the side of the clamps it falls on, where the
\* customer bears the whole commission.
LEMMA TotalForCustomer ==
    ASSUME NEW rule, Solvable(rule), NEW base \in Nat, base > 0
    PROVE  LET plain  == GrossUp(base, rule.collection + rule.margin)
               margin == Bps(plain, rule.margin)
           IN  /\ plain \in Nat /\ margin \in Nat
               /\ Clamp(rule, margin) \in Nat
               /\ InvoiceTotal(rule, base, 10000) =
                    IF Clamp(rule, margin) = margin THEN plain
                    ELSE GrossUp(base + Clamp(rule, margin), rule.collection)
<1> DEFINE collection == rule.collection
           bps        == rule.margin
           rate       == collection + bps
           plain      == GrossUp(base, rate)
           margin     == Bps(plain, bps)
           clamp      == Clamp(rule, margin)
<1>1. collection \in Nat /\ bps \in Nat /\ rate \in Nat /\ rate < 10000
  BY RuleFields
<1>2. Bps(rate, 10000) = rate /\ Bps(collection, 10000) = collection
  <2> HIDE DEF rate, collection
  <2> QED BY <1>1, BpsAll
<1>3. plain \in Nat
  <2> HIDE DEF rate
  <2>1. GrossUpIs(GrossUp(base, rate), base, rate)
    BY <1>1, GrossUpRounds
  <2> QED BY <2>1 DEF GrossUpIs
<1>4. margin \in Nat
  <2> HIDE DEF plain, bps
  <2>1. BpsIs(Bps(plain, bps), plain, bps)
    BY <1>1, <1>3, BpsTruncates
  <2> QED BY <2>1 DEF BpsIs
<1>5. clamp \in Nat
  <2> HIDE DEF margin
  <2> QED BY <1>4, ClampWithin
<1>6. Bps(clamp, 10000) = clamp
  <2> HIDE DEF clamp
  <2> QED BY <1>5, BpsAll
<1>7. InvoiceTotal(rule, base, 10000) =
        IF clamp = margin THEN plain ELSE GrossUp(base + clamp, collection)
  BY <1>2, <1>6 DEF InvoiceTotal
<1> QED BY <1>3, <1>4, <1>5, <1>7

\* A customer who bears nothing pays the base.
LEMMA TotalForMerchant ==
    ASSUME NEW rule, Solvable(rule), NEW base \in Nat, base > 0
    PROVE  InvoiceTotal(rule, base, 0) = base
<1> DEFINE plain == GrossUp(base, 0)
           clamp == Clamp(rule, Bps(base, rule.margin))
<1>1. rule.collection \in Nat /\ rule.margin \in Nat /\ rule.collection + rule.margin \in Nat
  BY RuleFields
<1>2. Bps(rule.collection + rule.margin, 0) = 0 /\ Bps(rule.collection, 0) = 0
  BY <1>1, BpsNone
<1>3. plain = base
  BY GrossUpNone
<1>4. Bps(base, rule.margin) \in Nat
  BY <1>1, BpsNat
<1>5. clamp \in Nat
  BY <1>4, ClampWithin
<1>6. Bps(clamp, 0) = 0
  <2> HIDE DEF clamp
  <2> QED BY <1>5, BpsNone
<1>7. InvoiceTotal(rule, base, 0) =
        IF clamp = Bps(base, rule.margin) THEN base ELSE GrossUp(base + Bps(clamp, 0), 0)
  BY <1>2, <1>3 DEF InvoiceTotal
<1> HIDE DEF clamp
<1>8. GrossUp(base + Bps(clamp, 0), 0) = base
  BY <1>6, GrossUpNone
<1> QED BY <1>7, <1>8

\* The merchant banks what they ask for, and at most two pesewas more.
LEMMA WholeForCustomer ==
    ASSUME NEW rule, Solvable(rule), NEW base \in Nat, base > 0
    PROVE  LET total == InvoiceTotal(rule, base, 10000)
           IN  /\ total \in Nat
               /\ InvoiceCommission(rule, total) \in Nat
               /\ total - InvoiceCommission(rule, total) - base \in 0..2
<1> DEFINE c      == rule.collection
           m      == rule.margin
           rest   == 10000 - c
           left   == 10000 - (c + m)
           plain  == GrossUp(base, c + m)
           before == Bps(plain, m)
           clamp  == Clamp(rule, before)
           total  == InvoiceTotal(rule, base, 10000)
           cost   == Bps(total, c)
           margin == Bps(total, m)
           after  == Clamp(rule, margin)
<1>1. c \in Nat /\ m \in Nat /\ c + m < 10000 /\ rule.floor \in Nat /\ rule.cap \in Nat
  BY RuleFields
<1>2. rule.cap > 0 => rule.cap >= rule.floor
  BY DEF Solvable
<1>3. /\ plain \in Nat /\ before \in Nat /\ clamp \in Nat
      /\ total = IF clamp = before THEN plain ELSE GrossUp(base + clamp, c)
  BY TotalForCustomer
<1>4. InvoiceCommission(rule, total) = IF cost + after > total THEN total ELSE cost + after
  BY DEF InvoiceCommission
<1>5. total \in Nat
  BY TotalPositive
<1>6. /\ 10000 * before <= plain * m
      /\ plain * m < 10000 * before + 10000
  <2> HIDE DEF m, plain
  <2>1. BpsIs(Bps(plain, m), plain, m)
    BY <1>1, <1>3, BpsTruncates
  <2> QED BY <2>1 DEF BpsIs
<1>7. /\ cost \in Nat /\ 10000 * cost <= total * c /\ total * c < 10000 * cost + 10000
  <2> HIDE DEF c, total
  <2>1. BpsIs(Bps(total, c), total, c)
    BY <1>1, <1>5, BpsTruncates
  <2> QED BY <2>1 DEF BpsIs
<1>8. /\ margin \in Nat /\ 10000 * margin <= total * m /\ total * m < 10000 * margin + 10000
  <2> HIDE DEF m, total
  <2>1. BpsIs(Bps(total, m), total, m)
    BY <1>1, <1>5, BpsTruncates
  <2> QED BY <2>1 DEF BpsIs
<1>9. after \in Nat
  <2> HIDE DEF margin
  <2> QED BY <1>8, ClampWithin
<1>10. /\ 2 * (10000 * plain - (c + m) * plain) <= 20000 * base + left
       /\ 20000 * base <= 2 * (10000 * plain - (c + m) * plain) + left
  <2> DEFINE bps == c + m
  <2>1. bps \in Nat /\ bps < 10000
    BY <1>1
  <2> HIDE DEF bps
  <2>2. GrossUpIs(GrossUp(base, bps), base, bps)
    BY <2>1, GrossUpRounds
  <2>3. GrossUpIs(plain, base, bps)
    BY <2>2 DEF bps
  <2> HIDE DEF plain
  <2> QED BY <2>3 DEF GrossUpIs, bps
<1>11. clamp # before =>
         /\ total = GrossUp(base + clamp, c)
         /\ 2 * (10000 * total - c * total) <= 20000 * (base + clamp) + rest
         /\ 20000 * (base + clamp) <= 2 * (10000 * total - c * total) + rest
  <2> SUFFICES ASSUME clamp # before
               PROVE  /\ total = GrossUp(base + clamp, c)
                      /\ 2 * (10000 * total - c * total) <= 20000 * (base + clamp) + rest
                      /\ 20000 * (base + clamp) <= 2 * (10000 * total - c * total) + rest
    OBVIOUS
  <2>1. total = GrossUp(base + clamp, c)
    BY <1>3
  <2> DEFINE more == base + clamp
  <2> HIDE DEF clamp
  <2>2. more \in Nat /\ c < 10000
    BY <1>1, <1>3
  <2> HIDE DEF more, c, total
  <2>3. GrossUpIs(GrossUp(more, c), more, c)
    BY <1>1, <2>2, GrossUpRounds
  <2>4. GrossUpIs(total, more, c)
    BY <2>1, <2>3 DEF more
  <2> QED BY <2>1, <2>4 DEF GrossUpIs, more
<1>12. /\ clamp = IF before < rule.floor THEN rule.floor
                  ELSE IF rule.cap > 0 /\ before > rule.cap THEN rule.cap ELSE before
       /\ after = IF margin < rule.floor THEN rule.floor
                  ELSE IF rule.cap > 0 /\ margin > rule.cap THEN rule.cap ELSE margin
  BY DEF Clamp
<1> DEFINE floor == rule.floor
           cap   == rule.cap
<1> HIDE DEF c, m, plain, before, clamp, total, cost, margin, after, floor, cap
<1>13. SUFFICES cost + after + base <= total /\ total <= cost + after + base + 2
  BY <1>4, <1>5, <1>7, <1>9 DEF total
<1>14. total * c \in Nat /\ total * m \in Nat
  BY <1>1, <1>5
<1>15. CASE clamp = before
  <2>1. total = plain /\ margin = before
    BY <1>3, <1>15 DEF margin, before
  <2>2. after = margin
    BY <1>15, <2>1 DEF after, clamp
  <2>3. (c + m) * plain = total * c + total * m
    BY <1>1, <1>5, <2>1
  <2>4. left \in Nat /\ left <= 10000
    BY <1>1
  <2>5. /\ 2 * (10000 * total - (total * c + total * m)) <= 20000 * base + left
        /\ 20000 * base <= 2 * (10000 * total - (total * c + total * m)) + left
    BY <1>10, <2>1, <2>3
  <2> HIDE DEF left
  <2>6. cost + margin + base <= total /\ total <= cost + margin + base + 2
    BY <1>5, <1>7, <1>8, <1>14, <2>4, <2>5, PlainLeaves
  <2> QED BY <2>2, <2>6
<1>16. CASE clamp # before
  <2>1. rest \in Nat /\ rest <= 10000
    BY <1>1
  <2>2. c * total = total * c
    BY <1>1, <1>5
  <2>3. /\ 2 * (10000 * total - total * c) <= 20000 * (base + clamp) + rest
        /\ 20000 * (base + clamp) <= 2 * (10000 * total - total * c) + rest
    BY <1>11, <1>16, <2>2
  <2>4. cost + clamp + base <= total /\ total <= cost + clamp + base + 1
    <3> HIDE DEF rest
    <3> QED BY <1>3, <1>5, <1>7, <1>14, <2>1, <2>3, ClampLeaves
  <2>5. after <= clamp /\ clamp <= after + 1
    <3>1. /\ left \in Nat /\ left > 0 /\ rest = left + m
      BY <1>1
    <3>2. /\ m * plain = plain * m /\ m * total = total * m
          /\ 10000 * plain - (c + m) * plain = left * plain
          /\ 10000 * total - c * total = rest * total
      BY <1>1, <1>3, <1>5
    <3>3. /\ 2 * (left * plain) <= 20000 * base + left
          /\ 20000 * base <= 2 * (left * plain) + left
      BY <1>10, <3>2
    <3>4. /\ 2 * (rest * total) <= 20000 * (base + clamp) + rest
          /\ 20000 * (base + clamp) <= 2 * (rest * total) + rest
      BY <1>11, <1>16, <3>2
    <3> HIDE DEF left, rest
    <3>5. CASE before < floor
      <4>1. clamp = floor
        BY <1>12, <3>5 DEF floor
      <4>2. m * plain < 10000 * floor
        BY <1>1, <1>3, <1>6, <3>2, <3>5 DEF floor
      <4>3. m * total < 10000 * floor + m
        BY <1>1, <1>3, <1>5, <3>1, <3>3, <3>4, <4>1, <4>2, FloorHolds
      <4>4. margin <= floor
        BY <1>1, <1>3, <1>8, <3>2, <4>1, <4>3, <1>14
      <4> QED BY <1>1, <1>2, <1>8, <1>12, <4>1, <4>4 DEF floor
    <3>6. CASE ~(before < floor)
      <4>1. clamp = cap /\ cap > 0 /\ before > cap /\ cap \in Nat /\ floor <= cap /\ floor \in Nat
        BY <1>1, <1>2, <1>12, <1>16, <3>6 DEF floor, cap
      <4>2. 10000 * (cap + 1) <= m * plain
        <5>1. before \in Nat /\ before >= cap + 1
          BY <1>3, <4>1
        <5>2. plain * m \in Nat /\ 10000 * before <= plain * m
          BY <1>1, <1>3, <1>6
        <5>3. 10000 * (cap + 1) <= plain * m
          <6> DEFINE y == plain * m
          <6> HIDE DEF y
          <6>1. y \in Nat /\ 10000 * before <= y
            BY <5>2 DEF y
          <6>2. 10000 * (cap + 1) <= y
            BY <4>1, <5>1, <6>1
          <6> QED BY <6>2 DEF y
        <5> QED BY <3>2, <5>3
      <4>3. 10000 * cap < m * total + m
        <5>1. 20000 * (base + cap) <= 2 * (rest * total) + rest
          BY <3>4, <4>1
        <5>2. 2 * (left * plain) <= 20000 * base + left
          BY <3>3
        <5> QED BY <1>1, <1>3, <1>5, <3>1, <4>1, <4>2, <5>1, <5>2, CapHolds
      <4>4. cap <= margin + 1
        BY <1>1, <1>8, <1>14, <3>2, <4>1, <4>3
      <4>5. after = IF margin < floor THEN floor ELSE IF margin > cap THEN cap ELSE margin
        BY <1>12, <4>1 DEF floor, cap
      <4> HIDE DEF after
      <4> QED BY <1>8, <4>1, <4>4, <4>5
    <3> QED BY <3>5, <3>6
  <2> QED BY <1>3, <1>5, <1>7, <1>9, <2>4, <2>5
<1> QED BY <1>15, <1>16

-----------------------------------------------------------------------------
(* A dearer order never costs the customer less.                           *)

\* Leaving the floor: the plain total of the next pesewa is past the floored one.
LEMMA FloorToPlain ==
    ASSUME NEW base \in Nat, NEW floor \in Nat, NEW rate \in Nat, NEW left \in Nat,
           NEW rest \in Nat, rest = left + rate, 0 < rest, rest <= 10000,
           NEW t \in Nat, NEW next \in Nat,
           2 * (rest * t) <= 20000 * (base + floor) + rest,
           20000 * (base + 1) <= 2 * (left * next) + left,
           10000 * floor <= rate * next
    PROVE  t <= next
<1>1. rest * next = left * next + rate * next
  OBVIOUS
<1> DEFINE x == rest * t
           y == left * next
           z == rate * next
<1>2. x \in Nat /\ y \in Nat /\ z \in Nat
  OBVIOUS
<1>3. x <= rest * next
  <2> HIDE DEF x, y, z
  <2>1. 2 * x <= 20000 * (base + floor) + rest
    BY DEF x
  <2>2. 20000 * (base + 1) <= 2 * y + left
    BY DEF y
  <2>3. 10000 * floor <= z
    BY DEF z
  <2>4. x <= y + z
    BY <1>2, <2>1, <2>2, <2>3
  <2> QED BY <1>1, <2>4 DEF y, z
<1>4. SUFFICES ASSUME next + 1 <= t PROVE FALSE
  OBVIOUS
<1>5. rest * (next + 1) <= rest * t
  BY <1>4
<1>6. rest * (next + 1) = rest * next + rest
  OBVIOUS
<1>7. rest * next \in Nat
  OBVIOUS
<1> HIDE DEF x
<1>8. rest * next + rest <= x
  BY <1>5, <1>6 DEF x
<1> QED BY <1>2, <1>3, <1>7, <1>8

\* Reaching the cap: the capped total of the next pesewa is not below the plain one.
LEMMA PlainToCap ==
    ASSUME NEW base \in Nat, NEW cap \in Nat, NEW rate \in Nat, NEW left \in Nat,
           NEW rest \in Nat, rest = left + rate, 0 < rest, rest <= 10000,
           NEW t \in Nat, NEW next \in Nat,
           2 * (left * t) <= 20000 * base + left,
           rate * t < 10000 * cap + 10000,
           20000 * (base + 1 + cap) <= 2 * (rest * next) + rest
    PROVE  t <= next
<1>1. rest * t = left * t + rate * t
  OBVIOUS
<1> DEFINE x == rest * next
           y == left * t
           z == rate * t
<1>2. x \in Nat /\ y \in Nat /\ z \in Nat
  OBVIOUS
<1>3. rest * t < x + rest
  <2> HIDE DEF x, y, z
  <2>1. 20000 * (base + 1 + cap) <= 2 * x + rest
    BY DEF x
  <2>2. 2 * y <= 20000 * base + left
    BY DEF y
  <2>3. z < 10000 * cap + 10000
    BY DEF z
  <2>4. y + z < x + rest
    BY <1>2, <2>1, <2>2, <2>3
  <2> QED BY <1>1, <2>4 DEF y, z
<1>4. SUFFICES ASSUME next + 1 <= t PROVE FALSE
  OBVIOUS
<1>5. rest * (next + 1) <= rest * t
  BY <1>4
<1>6. rest * (next + 1) = x + rest
  OBVIOUS
<1>7. rest * t \in Nat
  OBVIOUS
<1> HIDE DEF x
<1> QED BY <1>2, <1>3, <1>5, <1>6, <1>7

LEMMA DearerForCustomer ==
    ASSUME NEW rule, Solvable(rule), NEW base \in Nat, base > 0
    PROVE  InvoiceTotal(rule, base, 10000) <= InvoiceTotal(rule, base + 1, 10000)
<1> DEFINE c      == rule.collection
           m      == rule.margin
           floor  == rule.floor
           cap    == rule.cap
           rest   == 10000 - c
           left   == 10000 - (c + m)
           dearer == base + 1
           p1     == GrossUp(base, c + m)
           p2     == GrossUp(dearer, c + m)
           v1     == Bps(p1, m)
           v2     == Bps(p2, m)
           l1     == Clamp(rule, v1)
           l2     == Clamp(rule, v2)
           t1     == InvoiceTotal(rule, base, 10000)
           t2     == InvoiceTotal(rule, dearer, 10000)
<1>1. c \in Nat /\ m \in Nat /\ c + m < 10000 /\ floor \in Nat /\ cap \in Nat
  BY RuleFields
<1>2. cap > 0 => cap >= floor
  BY DEF Solvable
<1>3. dearer \in Nat /\ dearer > 0
  OBVIOUS
<1>4. /\ p1 \in Nat /\ v1 \in Nat /\ l1 \in Nat
      /\ t1 = IF l1 = v1 THEN p1 ELSE GrossUp(base + l1, c)
  BY TotalForCustomer
<1>5. /\ p2 \in Nat /\ v2 \in Nat /\ l2 \in Nat
      /\ t2 = IF l2 = v2 THEN p2 ELSE GrossUp(dearer + l2, c)
  <2> HIDE DEF dearer
  <2> QED BY <1>3, TotalForCustomer
<1>6. /\ l1 = IF v1 < floor THEN floor ELSE IF cap > 0 /\ v1 > cap THEN cap ELSE v1
      /\ l2 = IF v2 < floor THEN floor ELSE IF cap > 0 /\ v2 > cap THEN cap ELSE v2
  BY DEF Clamp
<1>7. p1 <= p2
  <2> DEFINE bps == c + m
  <2>1. bps \in Nat /\ bps < 10000 /\ base <= dearer
    BY <1>1
  <2> HIDE DEF bps, dearer
  <2>2. GrossUp(base, bps) <= GrossUp(dearer, bps)
    BY <1>3, <2>1, GrossUpMonotone
  <2> QED BY <2>2 DEF bps
<1>8. v1 <= v2
  <2> HIDE DEF p1, p2, m
  <2> QED BY <1>1, <1>4, <1>5, <1>7, BpsMonotone
<1>9. GrossUpIs(p1, base, c + m) /\ GrossUpIs(p2, dearer, c + m)
  <2> DEFINE bps == c + m
  <2>1. bps \in Nat /\ bps < 10000
    BY <1>1
  <2> HIDE DEF bps, dearer
  <2>2. GrossUpIs(GrossUp(base, bps), base, bps) /\ GrossUpIs(GrossUp(dearer, bps), dearer, bps)
    BY <1>3, <2>1, GrossUpRounds
  <2> QED BY <2>2 DEF bps
<1>10. BpsIs(v1, p1, m) /\ BpsIs(v2, p2, m)
  <2> HIDE DEF p1, p2, m
  <2> QED BY <1>1, <1>4, <1>5, BpsTruncates
<1> HIDE DEF c, m, floor, cap, p1, p2, v1, v2, l1, l2, t1, t2
<1>11. ASSUME NEW a \in Nat, NEW b \in Nat, a <= b
       PROVE  GrossUp(a, c) <= GrossUp(b, c)
  BY <1>1, <1>11, GrossUpMonotone
<1>12. ASSUME NEW a \in Nat PROVE GrossUpIs(GrossUp(a, c), a, c)
  BY <1>1, GrossUpRounds
<1>13. left \in Nat /\ rest \in Nat /\ rest = left + m /\ 0 < rest /\ rest <= 10000
  BY <1>1
<1>14. /\ 2 * (left * p1) <= 20000 * base + left
       /\ 20000 * dearer <= 2 * (left * p2) + left
  <2>1. 10000 * p1 - (c + m) * p1 = left * p1 /\ 10000 * p2 - (c + m) * p2 = left * p2
    BY <1>1, <1>4, <1>5
  <2>2. /\ 2 * (10000 * p1 - (c + m) * p1) <= 20000 * base + left
        /\ 20000 * dearer <= 2 * (10000 * p2 - (c + m) * p2) + left
    BY <1>9 DEF GrossUpIs
  <2> QED BY <2>1, <2>2
<1>15. ASSUME NEW a \in Nat
       PROVE  /\ GrossUp(a, c) \in Nat
              /\ 2 * (rest * GrossUp(a, c)) <= 20000 * a + rest
              /\ 20000 * a <= 2 * (rest * GrossUp(a, c)) + rest
  <2> DEFINE t == GrossUp(a, c)
  <2>1. GrossUpIs(t, a, c)
    BY <1>12
  <2> HIDE DEF t
  <2>2. t \in Nat
    BY <2>1 DEF GrossUpIs
  <2>3. 10000 * t - c * t = rest * t
    BY <1>1, <2>2
  <2>4. /\ 2 * (rest * t) <= 20000 * a + rest
        /\ 20000 * a <= 2 * (rest * t) + rest
    BY <2>1, <2>3 DEF GrossUpIs
  <2> QED BY <2>2, <2>4 DEF t
<1>16. m * p1 < 10000 * v1 + 10000 /\ 10000 * v2 <= m * p2
  <2>1. p1 * m < 10000 * v1 + 10000 /\ 10000 * v2 <= p2 * m
    BY <1>10 DEF BpsIs
  <2>2. p1 * m = m * p1 /\ p2 * m = m * p2
    BY <1>1, <1>4, <1>5
  <2> QED BY <2>1, <2>2
<1> HIDE DEF left, rest
<1>17. CASE l1 = v1 /\ l2 = v2
  BY <1>4, <1>5, <1>7, <1>17 DEF t1, t2
<1>18. CASE l1 # v1 /\ l2 # v2
  <2>1. base + l1 <= dearer + l2
    BY <1>1, <1>2, <1>3, <1>4, <1>5, <1>6, <1>8, <1>18
  <2>2. GrossUp(base + l1, c) <= GrossUp(dearer + l2, c)
    <3>1. base + l1 \in Nat /\ dearer + l2 \in Nat
      BY <1>3, <1>4, <1>5
    <3> QED BY <1>11, <2>1, <3>1
  <2> QED BY <1>4, <1>5, <1>18, <2>2 DEF t1, t2
<1>19. CASE l1 # v1 /\ l2 = v2
  <2>1. l1 = floor /\ floor <= v2
    BY <1>1, <1>4, <1>5, <1>6, <1>8, <1>19
  <2>2. t1 = GrossUp(base + floor, c) /\ t2 = p2
    BY <1>4, <1>5, <1>19, <2>1
  <2>3. t1 \in Nat /\ 2 * (rest * t1) <= 20000 * (base + floor) + rest
    BY <1>1, <1>15, <2>2
  <2>4. 10000 * floor <= m * p2
    <3>1. m * p2 \in Nat
      BY <1>1, <1>5
    <3> DEFINE y == m * p2
    <3> HIDE DEF y
    <3>2. 10000 * v2 <= y /\ y \in Nat
      BY <1>16, <3>1 DEF y
    <3>3. 10000 * floor <= y
      BY <1>1, <1>5, <2>1, <3>2
    <3> QED BY <3>3 DEF y
  <2>5. 20000 * (base + 1) <= 2 * (left * p2) + left
    BY <1>14
  <2>6. t1 <= p2
    BY <1>1, <1>5, <1>13, <2>3, <2>4, <2>5, FloorToPlain
  <2> QED BY <2>2, <2>6 DEF t1, t2
<1>20. CASE l1 = v1 /\ l2 # v2
  <2>1. l2 = cap /\ v1 <= cap
    BY <1>1, <1>4, <1>5, <1>6, <1>8, <1>20
  <2>2. t1 = p1 /\ t2 = GrossUp(dearer + cap, c)
    BY <1>4, <1>5, <1>20, <2>1
  <2>3. t2 \in Nat /\ 20000 * (base + 1 + cap) <= 2 * (rest * t2) + rest
    BY <1>1, <1>15, <2>2
  <2>4. m * p1 < 10000 * cap + 10000
    <3>1. m * p1 \in Nat
      BY <1>1, <1>4
    <3> DEFINE y == m * p1
    <3> HIDE DEF y
    <3>2. y < 10000 * v1 + 10000 /\ y \in Nat
      BY <1>16, <3>1 DEF y
    <3>3. y < 10000 * cap + 10000
      BY <1>1, <1>4, <2>1, <3>2
    <3> QED BY <3>3 DEF y
  <2>5. 2 * (left * p1) <= 20000 * base + left
    BY <1>14
  <2>6. p1 <= t2
    BY <1>1, <1>4, <1>13, <2>3, <2>4, <2>5, PlainToCap
  <2> QED BY <2>2, <2>6 DEF t1, t2
<1> QED BY <1>17, <1>18, <1>19, <1>20 DEF t1, t2

-----------------------------------------------------------------------------
(* The theorems about solving for a total.                                 *)

WholeInv == AmountsInv /\ MerchantLeftWhole

LEMMA InitWhole == Init => WholeInv
<1> SUFFICES ASSUME Init PROVE WholeInv
  OBVIOUS
<1>1. AmountsInv
  BY InitAmounts
<1>2. MerchantLeftWhole
  BY DEF Init, NoInvoice, MerchantLeftWhole
<1> QED BY <1>1, <1>2 DEF WholeInv

LEMMA NextWhole == WholeInv /\ [Next]_vars => WholeInv'
<1> SUFFICES ASSUME WholeInv, [Next]_vars PROVE WholeInv'
  OBVIOUS
<1>1. AmountsInv'
  BY NextAmounts DEF WholeInv
<1>2. CASE \E base \in Bases, share \in CustomerShares : CreateInvoice(base, share)
  <2> PICK base \in Bases, share \in CustomerShares : CreateInvoice(base, share)
    BY <1>2
  <2> DEFINE rule  == RuleInForce
             amounts == computeInvoiceAmounts(rule, base, share)
             total == amounts.total
             commission == amounts.commission
  <2>1. Solvable(rule)
    BY RuleInForceSolvable DEF WholeInv, AmountsInv
  <2>2. base \in Nat
    BY RaisedFrom
  <2>3. /\ invoice'.share = share /\ invoice'.base = base /\ invoice'.total = total
        /\ invoice'.commission = commission
    BY DEF CreateInvoice
  <2> HIDE DEF rule
  <2>4. share = 10000 => total - commission - base \in 0..2
    <3>1. CASE base = 0
      BY <3>1 DEF computeInvoiceAmounts
    <3>2. CASE base > 0
      <4> DEFINE t == InvoiceTotal(rule, base, share)
      <4>1. total = t /\ commission = InvoiceCommission(rule, t)
        BY <2>2, <3>2 DEF computeInvoiceAmounts
      <4>2. share = 10000 => t - InvoiceCommission(rule, t) - base \in 0..2
        BY <2>1, <2>2, <3>2, WholeForCustomer
      <4> HIDE DEF t, total, commission
      <4> QED BY <4>1, <4>2
    <3> QED BY <2>2, <3>1, <3>2
  <2>5. share = 0 => total = base
    <3>1. CASE base = 0
      BY <3>1 DEF computeInvoiceAmounts
    <3>2. CASE base > 0
      BY <2>1, <2>2, <3>2, TotalForMerchant DEF computeInvoiceAmounts
    <3> QED BY <2>2, <3>1, <3>2
  <2> HIDE DEF total, commission
  <2>6. MerchantLeftWhole'
    BY <2>3, <2>4, <2>5 DEF MerchantLeftWhole
  <2> QED BY <1>1, <2>6 DEF WholeInv
<1>3. CASE UNCHANGED invoice
  <2>1. MerchantLeftWhole'
    BY <1>3 DEF WholeInv, MerchantLeftWhole
  <2> QED BY <1>1, <2>1 DEF WholeInv
<1>4. \/ UNCHANGED invoice
      \/ \E base \in Bases, share \in CustomerShares : CreateInvoice(base, share)
  BY DEF Next, vars, UpsertGlobalFeeRule, UpsertMerchantFeeRule, DeleteMerchantFeeRule,
         AskOwnRate, SetOwnRate, Pay
<1> QED BY <1>2, <1>3, <1>4

\* Where the customer bears the commission, the merchant banks what they ask for, and at
\* most two pesewas more, under every fee rule and on every side of its clamps; where
\* they bear none of it, they pay just that (computeInvoiceAmounts).
THEOREM MerchantIsLeftWhole == Spec => []MerchantLeftWhole
<1>1. WholeInv => MerchantLeftWhole
  BY DEF WholeInv
<1> QED BY <1>1, InitWhole, NextWhole, PTL DEF Spec

\* Under every fee rule that comes into force, a dearer order costs no less
\* (computeInvoiceAmounts).
THEOREM NoCheaperForMore == Spec => []DearerOrderCostsMore
<1>1. PricingTypeOK => DearerOrderCostsMore
  <2> SUFFICES ASSUME PricingTypeOK, NEW base \in Bases, NEW share \in CustomerShares \cap {0, 10000}
               PROVE  computeInvoiceAmounts(RuleInForce, base, share).total
                        <= computeInvoiceAmounts(RuleInForce, base + 1, share).total
    BY DEF DearerOrderCostsMore
  <2> DEFINE rule == RuleInForce
  <2>1. Solvable(rule)
    BY RuleInForceSolvable
  <2> HIDE DEF rule
  <2>2. base \in Nat /\ base + 1 \in Nat /\ base + 1 > 0 /\ share \in Nat /\ share <= 10000
    BY RaisedFrom
  <2> DEFINE dearer == base + 1
             Total(b) == InvoiceTotal(rule, b, share)
  <2>3. computeInvoiceAmounts(rule, dearer, share).total = Total(dearer)
    BY <2>2 DEF computeInvoiceAmounts
  <2>4. CASE base = 0
    <3>1. computeInvoiceAmounts(rule, base, share).total = 0
      BY <2>4 DEF computeInvoiceAmounts
    <3>2. dearer \in Nat /\ dearer > 0
      BY <2>2
    <3> HIDE DEF dearer
    <3>3. Total(dearer) \in Nat
      BY <2>1, <2>2, <3>2, TotalPositive
    <3> HIDE DEF Total
    <3> QED BY <2>3, <3>1, <3>3 DEF rule, dearer
  <2>5. CASE base > 0
    <3>1. computeInvoiceAmounts(rule, base, share).total = Total(base)
      BY <2>2, <2>5 DEF computeInvoiceAmounts
    <3>2. CASE share = 10000
      <4>1. Total(base) <= Total(dearer)
        BY <2>1, <2>2, <2>5, <3>2, DearerForCustomer
      <4> HIDE DEF Total
      <4> QED BY <2>3, <3>1, <4>1 DEF rule
    <3>3. CASE share = 0
      <4>1. Total(base) = base
        BY <2>1, <2>2, <2>5, <3>3, TotalForMerchant
      <4>2. dearer \in Nat /\ dearer > 0
        BY <2>2
      <4> HIDE DEF dearer
      <4>3. Total(dearer) = dearer
        BY <2>1, <3>3, <4>2, TotalForMerchant
      <4> HIDE DEF Total
      <4> QED BY <2>2, <2>3, <3>1, <4>1, <4>3 DEF rule, dearer
    <3> QED BY <3>2, <3>3
  <2> QED BY <2>2, <2>4, <2>5
<1> QED BY <1>1, RulesStaySolvable, PTL

-----------------------------------------------------------------------------
(* The parts of an invoice add up.                                         *)

\* One more part at the end adds its amount to the sum.
LEMMA SumAppend ==
    ASSUME NEW n \in Nat, NEW f, NEW e,
           \A k \in 1..n : f[k] \in Int /\ e[k] = f[k],
           e[n + 1] \in Int
    PROVE  SumFunctionOnSet(e, 1..(n + 1)) = SumFunctionOnSet(f, 1..n) + e[n + 1]
<1> DEFINE S == 1..n
<1>1. IsFiniteSet(S) /\ n + 1 \notin S /\ 1..(n + 1) = S \cup {n + 1}
  <2>1. IsFiniteSet(S)
    BY FS_Interval
  <2> QED BY <2>1
<1>2. SumFunctionOnSet(e, S) = SumFunctionOnSet(f, S)
  <2> HIDE DEF S
  <2>1. \A k \in S : e[k] = f[k]
    BY DEF S
  <2> QED BY <1>1, <2>1, SumEqual
<1>3. \A k \in S \cup {n + 1} : e[k] \in Int
  OBVIOUS
<1> HIDE DEF S
<1>4. SumFunctionOnSet(e, S \cup {n + 1}) = SumFunctionOnSet(e, S) + e[n + 1]
  <2> DEFINE last == n + 1
  <2>1. last \notin S /\ \A k \in S \cup {last} : e[k] \in Int
    BY <1>1, <1>3
  <2> HIDE DEF last
  <2>2. SumFunctionOnSet(e, S \cup {last}) = SumFunctionOnSet(e, S) + e[last]
    BY <1>1, <2>1, SumAdd
  <2> QED BY <2>2 DEF last
<1> QED BY <1>1, <1>2, <1>4 DEF S

\* Truncation by the total leaves less than the total.
LEMMA ProratedNear ==
    ASSUME NEW amount \in Nat, NEW of \in Nat, NEW total \in Nat, total > 0
    PROVE  /\ (amount * of) \div total \in Nat
           /\ total * ((amount * of) \div total) <= amount * of
           /\ amount * of <= total * ((amount * of) \div total) + (total - 1)
<1> DEFINE x == amount * of
           q == x \div total
<1>1. x \in Nat
  OBVIOUS
<1> HIDE DEF x
<1>2. q \in Nat /\ total * q <= x /\ x <= total * q + (total - 1)
  BY <1>1
<1> QED BY <1>2 DEF x

\* One part, split or not, against the merchant's part of the invoice.
LEMMA PartNear ==
    ASSUME NEW amount \in Nat, NEW commission \in Nat, NEW total \in Nat, total > 0,
           commission <= total
    PROVE  LET taken == (amount * commission) \div total
               given == (amount * (total - commission)) \div total
               owed  == amount * (total - commission)
           IN  /\ taken \in Nat /\ given \in Nat
               /\ total * taken <= amount * commission
               /\ owed <= total * (amount - taken)
               /\ total * (amount - taken) <= owed + (total - 1)
               /\ total * given <= owed
               /\ owed <= total * given + (total - 1)
<1> DEFINE share == total - commission
           taken == (amount * commission) \div total
           given == (amount * share) \div total
<1>1. share \in Nat
  OBVIOUS
<1>2. /\ taken \in Nat /\ total * taken <= amount * commission
      /\ amount * commission <= total * taken + (total - 1)
  BY ProratedNear
<1>3. /\ given \in Nat /\ total * given <= amount * share
      /\ amount * share <= total * given + (total - 1)
  <2> HIDE DEF share
  <2> QED BY <1>1, ProratedNear
<1> HIDE DEF taken, given
<1>4. /\ amount * share = amount * total - amount * commission
      /\ total * (amount - taken) = amount * total - total * taken
  BY <1>2
<1>5. amount * total \in Nat /\ amount * commission \in Nat /\ total * taken \in Nat
  BY <1>2
<1> DEFINE at == amount * total
           ac == amount * commission
           tt == total * taken
<1> HIDE DEF at, ac, tt
<1>6. at - ac <= at - tt /\ at - tt <= (at - ac) + (total - 1)
  BY <1>2, <1>5 DEF at, ac, tt
<1> QED BY <1>2, <1>3, <1>4, <1>6 DEF taken, given, at, ac, tt

PartsBooks == AmountsInv /\ PartsInv

\* The amounts of the invoice, raised or not.
LEMMA InvoiceAmounts ==
    ASSUME AmountsInv
    PROVE  /\ invoice.total \in Nat /\ invoice.commission \in Nat
           /\ invoice.commission <= invoice.total
<1>1. CASE invoice = NoInvoice
  BY <1>1 DEF NoInvoice
<1>2. CASE invoice # NoInvoice
  BY <1>2 DEF AmountsInv, PricingTypeOK, PlatformNeverLosesMoney
<1> QED BY <1>1, <1>2

LEMMA NoPartsYet ==
    ASSUME NEW f PROVE SumFunctionOnSet(f, DOMAIN << >>) = 0
<1>1. DOMAIN << >> = {}
  OBVIOUS
<1> QED BY <1>1, SumEmpty

\* Without parts the books are square.
LEMMA NothingPaid ==
    ASSUME invoice.total \in Nat, invoice.commission \in Nat, parts = << >>
    PROVE  PartsInv
<1>1. PaidSoFar = 0 /\ Received = 0 /\ Charged = 0
  BY NoPartsYet DEF PaidSoFar, Received, Charged, OverParts
<1>2. Len(parts) = 0 /\ parts \in Seq([amount : Nat \ {0}, split : BOOLEAN])
  OBVIOUS
<1> QED BY <1>1, <1>2 DEF PartsInv

\* The sums over the parts are whole numbers.
LEMMA PartSums ==
    ASSUME AmountsInv, PartsInv
    PROVE  Charged \in Int /\ Received \in Int
<1> DEFINE total    == invoice.total
           n        == Len(parts)
           taken(a) == (a * invoice.commission) \div total
           given(a) == (a * (total - invoice.commission)) \div total
           due(a, s) == IF s THEN a - taken(a) ELSE given(a)
           f == [k \in DOMAIN parts |-> IF parts[k].split THEN taken(parts[k].amount) ELSE 0]
           e == [k \in DOMAIN parts |-> due(parts[k].amount, parts[k].split)]
           S == DOMAIN parts
<1>1. CASE parts = << >>
  <2>1. Charged = 0 /\ Received = 0
    BY <1>1, NoPartsYet DEF Charged, Received, OverParts
  <2> QED BY <2>1
<1>2. CASE parts # << >>
  <2>1. total \in Nat /\ invoice.commission \in Nat /\ invoice.commission <= total /\ total > 0
    BY <1>2, InvoiceAmounts DEF PartsInv
  <2>2. \A k \in S : parts[k].amount \in Nat /\ parts[k].split \in BOOLEAN
    <3> DEFINE Part == [amount : Nat \ {0}, split : BOOLEAN]
    <3>1. parts \in Seq(Part)
      BY DEF PartsInv
    <3>2. \A k \in S : parts[k] \in Part
      <4> HIDE DEF Part
      <4> QED BY <3>1
    <3> QED BY <3>2
  <2>3. IsFiniteSet(S)
    <3>1. S = 1..n /\ n \in Nat
      BY DEF PartsInv
    <3> QED BY <3>1, FS_Interval
  <2>4. ASSUME NEW a \in Nat PROVE taken(a) \in Int /\ given(a) \in Int
    BY <2>1, <2>4, PartNear
  <2>5. Charged = SumFunctionOnSet(f, S)
    BY DEF Charged, OverParts, CommissionOf, Prorated
  <2>6. Received = SumFunctionOnSet(e, S)
    BY DEF Received, OverParts, ToMerchant, CommissionOf, EntitlementOf, Prorated
  <2> HIDE DEF total, taken, given, S
  <2>7. \A k \in S : f[k] \in Int
    BY <2>2, <2>4 DEF S
  <2>8. \A k \in S : e[k] \in Int
    <3>1. ASSUME NEW a \in Nat, NEW s \in BOOLEAN PROVE due(a, s) \in Int
      BY <2>4
    <3> HIDE DEF due
    <3>2. ASSUME NEW k \in S PROVE e[k] = due(parts[k].amount, parts[k].split)
      BY DEF S
    <3> QED BY <2>2, <3>1, <3>2
  <2> HIDE DEF f, e
  <2> QED BY <2>3, <2>5, <2>6, <2>7, <2>8, SumIsInt
<1> QED BY <1>1, <1>2

\* What a further part does to the three sums.
LEMMA OnePartMore ==
    ASSUME AmountsInv, PartsInv, NEW part \in Parts, NEW split \in BOOLEAN, Pay(part, split)
    PROVE  \E amount \in Nat \ {0}, isSplit \in BOOLEAN :
             LET taken == (amount * invoice.commission) \div invoice.total
                 given == (amount * (invoice.total - invoice.commission)) \div invoice.total
             IN  /\ parts' = Append(parts, [amount |-> amount, split |-> isSplit])
                 /\ PaidSoFar' = PaidSoFar + amount
                 /\ PaidSoFar + amount <= invoice.total
                 /\ Charged \in Int /\ Received \in Int
                 /\ Charged' = Charged + (IF isSplit THEN taken ELSE 0)
                 /\ Received' = Received + (IF isSplit THEN amount - taken ELSE given)
<1> DEFINE total  == invoice.total
           left   == total - PaidSoFar
           amount == IF part = 0 THEN left ELSE part
           isSplit == Splits(amount, split)
           new    == [amount |-> amount, split |-> isSplit]
           Part   == [amount : Nat \ {0}, split : BOOLEAN]
           n      == Len(parts)
           taken(a) == (a * invoice.commission) \div total
           given(a) == (a * (total - invoice.commission)) \div total
<1>1. total \in Nat /\ invoice.commission \in Nat /\ invoice.commission <= total
  BY InvoiceAmounts
<1>2. parts \in Seq(Part) /\ PaidSoFar \in 0..total
  BY DEF PartsInv
<1>3. part \in Nat
  BY AmountsAssumption
<1>4. amount \in Nat \ {0} /\ amount <= left /\ total > 0
  BY <1>1, <1>2, <1>3 DEF Pay
<1>5. isSplit \in BOOLEAN
  BY DEF Splits
<1>6. parts' = Append(parts, new) /\ invoice' = invoice
  BY DEF Pay
<1> HIDE DEF amount, isSplit
<1>7. new \in Part
  BY <1>4, <1>5
<1>8. /\ n \in Nat /\ DOMAIN parts = 1..n /\ DOMAIN parts' = 1..(n + 1)
      /\ \A k \in 1..n : parts'[k] = parts[k] /\ parts[k] \in Part
      /\ parts'[n + 1] = new
  <2> HIDE DEF Part, new
  <2> QED BY <1>2, <1>6, <1>7
<1>9. ASSUME NEW a \in Nat PROVE taken(a) \in Int /\ given(a) \in Int
  BY <1>1, <1>4, <1>9, PartNear
<1>10. \A k \in 1..n : parts[k].amount \in Nat /\ parts[k].split \in BOOLEAN
  BY <1>8
<1>11. new.amount = amount /\ new.split = isSplit
  OBVIOUS
<1> HIDE DEF total, taken, given, n, Part, new
<1>12. PaidSoFar' = PaidSoFar + amount
  <2> DEFINE f == [k \in 1..n |-> parts[k].amount]
             e == [k \in 1..(n + 1) |-> parts'[k].amount]
  <2>1. PaidSoFar = SumFunctionOnSet(f, 1..n) /\ PaidSoFar' = SumFunctionOnSet(e, 1..(n + 1))
    BY <1>8 DEF PaidSoFar, OverParts
  <2>2. \A k \in 1..n : f[k] \in Int /\ e[k] = f[k]
    BY <1>8, <1>10
  <2>3. e[n + 1] = amount
    BY <1>8, <1>11
  <2> HIDE DEF f, e
  <2>4. SumFunctionOnSet(e, 1..(n + 1)) = SumFunctionOnSet(f, 1..n) + e[n + 1]
    <3>1. n \in Nat /\ e[n + 1] \in Int
      BY <1>4, <1>8, <2>3
    <3> QED BY ONLY <2>2, <3>1, SumAppend
  <2> QED BY <2>1, <2>3, <2>4
<1>13. Charged' = Charged + (IF isSplit THEN taken(amount) ELSE 0)
  <2> DEFINE f == [k \in 1..n |-> IF parts[k].split THEN taken(parts[k].amount) ELSE 0]
             e == [k \in 1..(n + 1) |-> IF parts'[k].split THEN taken(parts'[k].amount) ELSE 0]
  <2>1. Charged = SumFunctionOnSet(f, 1..n) /\ Charged' = SumFunctionOnSet(e, 1..(n + 1))
    BY <1>6, <1>8 DEF Charged, OverParts, CommissionOf, Prorated, taken, total
  <2>2. \A k \in 1..n : f[k] \in Int /\ e[k] = f[k]
    <3>1. ASSUME NEW k \in 1..n PROVE taken(parts[k].amount) \in Int
      BY <1>9, <1>10
    <3>2. ASSUME NEW k \in 1..n PROVE f[k] \in Int
      BY <3>1
    <3>3. ASSUME NEW k \in 1..n PROVE e[k] = f[k]
      BY <1>8
    <3> QED BY <3>2, <3>3
  <2>3. e[n + 1] = (IF isSplit THEN taken(amount) ELSE 0)
    BY <1>8, <1>11
  <2>4. e[n + 1] \in Int
    BY <1>4, <1>9, <2>3
  <2> HIDE DEF f, e
  <2>5. SumFunctionOnSet(e, 1..(n + 1)) = SumFunctionOnSet(f, 1..n) + e[n + 1]
    <3>1. n \in Nat
      BY <1>8
    <3> QED BY ONLY <2>2, <2>4, <3>1, SumAppend
  <2> QED BY <2>1, <2>3, <2>5
<1>14. Received' = Received + (IF isSplit THEN amount - taken(amount) ELSE given(amount))
  <2> DEFINE due(a, s) == IF s THEN a - taken(a) ELSE given(a)
             f == [k \in 1..n |-> due(parts[k].amount, parts[k].split)]
             e == [k \in 1..(n + 1) |-> due(parts'[k].amount, parts'[k].split)]
  <2>1. Received = SumFunctionOnSet(f, 1..n) /\ Received' = SumFunctionOnSet(e, 1..(n + 1))
    BY <1>6, <1>8
       DEF Received, OverParts, ToMerchant, CommissionOf, EntitlementOf, Prorated, taken, given, total
  <2>2. \A k \in 1..n : f[k] \in Int /\ e[k] = f[k]
    <3>1. ASSUME NEW a \in Nat, NEW s \in BOOLEAN PROVE due(a, s) \in Int
      BY <1>9
    <3> HIDE DEF due
    <3>2. ASSUME NEW k \in 1..n
          PROVE  f[k] = due(parts[k].amount, parts[k].split) /\ e[k] = f[k]
      BY <1>8, <3>2
    <3> QED BY <1>10, <3>1, <3>2
  <2>3. e[n + 1] = due(amount, isSplit)
    BY <1>8, <1>11
  <2>4. e[n + 1] \in Int
    BY <1>4, <1>9, <2>3
  <2> HIDE DEF f, e
  <2>5. SumFunctionOnSet(e, 1..(n + 1)) = SumFunctionOnSet(f, 1..n) + e[n + 1]
    <3>1. n \in Nat
      BY <1>8
    <3> QED BY ONLY <2>2, <2>4, <3>1, SumAppend
  <2> QED BY <2>1, <2>3, <2>5
<1>15. PaidSoFar + amount <= total
  BY <1>1, <1>2, <1>4
<1> QED
  BY <1>4, <1>5, <1>6, <1>12, <1>13, <1>14, <1>15, PartSums DEF total, taken, given, new

\* A further part keeps the books: its rounding is less than one pesewa.
LEMMA PartsStep ==
    ASSUME PartsBooks, NEW part \in Parts, NEW split \in BOOLEAN, Pay(part, split)
    PROVE  PartsInv'
<1> DEFINE total      == invoice.total
           commission == invoice.commission
           share      == total - commission
           Part       == [amount : Nat \ {0}, split : BOOLEAN]
<1>1. total \in Nat /\ commission \in Nat /\ commission <= total
  BY InvoiceAmounts DEF PartsBooks
<1>2. /\ parts \in Seq(Part) /\ PaidSoFar \in 0..total
      /\ total * Charged <= PaidSoFar * commission
      /\ total * Received <= PaidSoFar * share + Len(parts) * (total - 1)
      /\ PaidSoFar * share <= total * Received + Len(parts) * (total - 1)
  BY DEF PartsBooks, PartsInv
<1>3. PICK amount \in Nat \ {0}, isSplit \in BOOLEAN :
        LET taken == (amount * commission) \div total
            given == (amount * (total - commission)) \div total
        IN  /\ parts' = Append(parts, [amount |-> amount, split |-> isSplit])
            /\ PaidSoFar' = PaidSoFar + amount
            /\ PaidSoFar + amount <= total
            /\ Charged \in Int /\ Received \in Int
            /\ Charged' = Charged + (IF isSplit THEN taken ELSE 0)
            /\ Received' = Received + (IF isSplit THEN amount - taken ELSE given)
  BY OnePartMore DEF PartsBooks
<1> DEFINE taken == (amount * commission) \div total
           given == (amount * share) \div total
           new   == [amount |-> amount, split |-> isSplit]
           n     == Len(parts)
<1>4. invoice'.total = total /\ invoice'.commission = commission
  BY DEF Pay
<1>5. parts' \in Seq(Part) /\ n \in Nat /\ Len(parts') = n + 1
  <2>1. new \in Part
    BY <1>3
  <2>2. parts' = Append(parts, new)
    BY <1>3
  <2> HIDE DEF Part, new
  <2> QED BY <1>2, <2>1, <2>2
<1>6. total > 0 /\ share \in Nat
  <2> DEFINE paid == PaidSoFar
  <2>1. paid \in 0..total /\ paid + amount <= total
    BY <1>2, <1>3
  <2> HIDE DEF paid, total, commission
  <2> QED BY <1>1, <1>3, <2>1
<1>7. /\ taken \in Nat /\ given \in Nat
      /\ total * taken <= amount * commission
      /\ amount * share <= total * (amount - taken)
      /\ total * (amount - taken) <= amount * share + (total - 1)
      /\ total * given <= amount * share
      /\ amount * share <= total * given + (total - 1)
  <2> HIDE DEF total, commission
  <2> QED BY <1>1, <1>6, PartNear
<1> HIDE DEF total, commission, taken, given, n, Part, new
<1>8. /\ PaidSoFar \in Nat /\ PaidSoFar' = PaidSoFar + amount /\ PaidSoFar' \in 0..total
      /\ PaidSoFar' * commission = PaidSoFar * commission + amount * commission
      /\ PaidSoFar' * share = PaidSoFar * share + amount * share
  <2> HIDE DEF share
  <2> DEFINE paid == PaidSoFar
  <2>1. paid \in Nat /\ PaidSoFar' = paid + amount /\ paid + amount <= total
    BY <1>1, <1>2, <1>3
  <2> HIDE DEF paid
  <2>2. (paid + amount) * commission = paid * commission + amount * commission
    BY <1>1, <2>1
  <2>3. (paid + amount) * share = paid * share + amount * share
    BY <1>6, <2>1
  <2> QED BY <1>1, <2>1, <2>2, <2>3 DEF paid
<1>9. total * Charged' <= PaidSoFar' * commission
  <2> DEFINE more == IF isSplit THEN taken ELSE 0
  <2>1. Charged \in Int /\ Charged' = Charged + more
    BY <1>3 DEF taken
  <2>2. more \in Nat /\ total * more <= amount * commission
    <3>1. total * 0 = 0 /\ amount * commission \in Nat
      BY <1>1
    <3>2. CASE isSplit
      BY <1>7, <3>2
    <3>3. CASE ~isSplit
      BY <3>1, <3>3
    <3> QED BY <3>2, <3>3
  <2> HIDE DEF more
  <2>3. total * (Charged + more) = total * Charged + total * more
    BY <1>1, <2>1, <2>2
  <2>4. total * Charged \in Int /\ total * more \in Int /\ PaidSoFar * commission \in Int /\ amount * commission \in Int
    BY <1>1, <1>8, <2>1, <2>2
  <2>5. total * Charged' = total * Charged + total * more
    BY <2>1, <2>3
  <2> DEFINE a == total * Charged
             b == total * more
             x == PaidSoFar * commission
             y == amount * commission
  <2>6. a \in Int /\ b \in Int /\ x \in Int /\ y \in Int /\ a <= x /\ b <= y
    BY <1>2, <2>2, <2>4
  <2>7. total * Charged' = a + b /\ PaidSoFar' * commission = x + y
    BY <1>8, <2>5
  <2> HIDE DEF a, b, x, y
  <2> QED BY <2>6, <2>7
<1>10. /\ total * Received' <= PaidSoFar' * share + Len(parts') * (total - 1)
       /\ PaidSoFar' * share <= total * Received' + Len(parts') * (total - 1)
  <2> DEFINE more == IF isSplit THEN amount - taken ELSE given
  <2>1. Received \in Int /\ Received' = Received + more
    BY <1>3 DEF taken, given, share
  <2>2. /\ more \in Int
        /\ total * more <= amount * share + (total - 1)
        /\ amount * share <= total * more + (total - 1)
    <3>1. amount * share \in Nat /\ total * given \in Nat /\ total * (amount - taken) \in Int
      BY <1>1, <1>6, <1>7
    <3>2. CASE isSplit
      <4>1. more = amount - taken
        BY <3>2
      <4> QED BY <1>1, <1>6, <1>7, <3>1, <4>1
    <3>3. CASE ~isSplit
      <4>1. more = given
        BY <3>3
      <4> QED BY <1>1, <1>6, <1>7, <3>1, <4>1
    <3> QED BY <3>2, <3>3
  <2> HIDE DEF more, share
  <2>3. total * (Received + more) = total * Received + total * more
    BY <1>1, <2>1, <2>2
  <2>4. (n + 1) * (total - 1) = n * (total - 1) + (total - 1)
    BY <1>1, <1>5
  <2> DEFINE a == total * Received
             b == total * more
             x == PaidSoFar * share
             y == amount * share
             z == n * (total - 1)
  <2>5. a \in Int /\ b \in Int /\ x \in Int /\ y \in Int /\ z \in Int
    BY <1>1, <1>5, <1>6, <1>8, <2>1, <2>2
  <2>6. a <= x + z /\ x <= a + z
    BY <1>2 DEF n
  <2>7. b <= y + (total - 1) /\ y <= b + (total - 1)
    BY <2>2
  <2>8. /\ total * Received' = a + b /\ PaidSoFar' * share = x + y
        /\ Len(parts') * (total - 1) = z + (total - 1)
    BY <1>5, <1>8, <2>1, <2>3, <2>4
  <2> HIDE DEF a, b, x, y, z
  <2> QED BY <1>1, <2>5, <2>6, <2>7, <2>8
<1> QED BY <1>4, <1>5, <1>6, <1>8, <1>9, <1>10 DEF PartsInv, Part, share

LEMMA InitParts == Init => PartsBooks
<1> SUFFICES ASSUME Init PROVE PartsBooks
  OBVIOUS
<1>1. AmountsInv
  BY InitAmounts
<1>2. PartsInv
  BY <1>1, InvoiceAmounts, NothingPaid DEF Init
<1> QED BY <1>1, <1>2 DEF PartsBooks

LEMMA SameParts ==
    ASSUME PartsInv, UNCHANGED <<invoice, parts>> PROVE PartsInv'
BY DEF PartsInv, PaidSoFar, Received, Charged, OverParts, ToMerchant, CommissionOf, EntitlementOf, Prorated

\* A new invoice starts without parts.
LEMMA FreshParts ==
    ASSUME AmountsInv', parts' = << >> PROVE PartsInv'
<1>1. invoice'.total \in Nat /\ invoice'.commission \in Nat
  <2>1. CASE invoice' = NoInvoice
    BY <2>1 DEF NoInvoice
  <2>2. CASE invoice' # NoInvoice
    BY <2>2 DEF AmountsInv, PricingTypeOK
  <2> QED BY <2>1, <2>2
<1>2. PaidSoFar' = 0 /\ Received' = 0 /\ Charged' = 0
  BY NoPartsYet DEF PaidSoFar, Received, Charged, OverParts
<1>3. Len(parts') = 0 /\ parts' \in Seq([amount : Nat \ {0}, split : BOOLEAN])
  OBVIOUS
<1> QED BY <1>1, <1>2, <1>3 DEF PartsInv

LEMMA NextParts == PartsBooks /\ [Next]_vars => PartsBooks'
<1> SUFFICES ASSUME PartsBooks, [Next]_vars PROVE PartsBooks'
  OBVIOUS
<1>1. AmountsInv'
  BY NextAmounts DEF PartsBooks
<1>2. CASE UNCHANGED <<invoice, parts>>
  BY <1>1, <1>2, SameParts DEF PartsBooks
<1>3. CASE \E base \in Bases, share \in CustomerShares : CreateInvoice(base, share)
  <2>1. parts' = << >>
    BY <1>3 DEF CreateInvoice
  <2> QED BY <1>1, <2>1, FreshParts DEF PartsBooks
<1>4. CASE \E part \in Parts, split \in BOOLEAN : Pay(part, split)
  BY <1>1, <1>4, PartsStep DEF PartsBooks
<1> QED
  BY <1>2, <1>3, <1>4
     DEF Next, vars, UpsertGlobalFeeRule, UpsertMerchantFeeRule, DeleteMerchantFeeRule,
         AskOwnRate, SetOwnRate

\* Each part of an invoice rounds off less than a pesewa, in OrderxPay's disfavour where
\* it is split and in the merchant's where it is not (proratedCommissionPesewas,
\* ComputeSettlementAggregate).
THEOREM PartsInvariant == Spec => []PartsInv
<1>1. PartsBooks => PartsInv
  BY DEF PartsBooks
<1> QED BY <1>1, InitParts, NextParts, PTL DEF Spec

\* However an invoice is paid off, in whatever parts, split or left for a settlement, the
\* commission the splits take is never more than its own, and the merchant ends up with
\* their share but for less than a pesewa a part.
THEOREM PartsComeToTheWhole == Spec => []PartsAddUp
<1>1. PartsBooks => PartsAddUp
  <2> SUFFICES ASSUME PartsBooks PROVE PartsAddUp
    OBVIOUS
  <2> DEFINE total      == invoice.total
             commission == invoice.commission
             share      == total - commission
             paid       == PaidSoFar
             n          == Len(parts)
  <2>1. total \in Nat /\ commission \in Nat /\ commission <= total
    BY InvoiceAmounts DEF PartsBooks
  <2>2. /\ parts \in Seq([amount : Nat \ {0}, split : BOOLEAN]) /\ paid \in 0..total
        /\ total * Charged <= paid * commission
        /\ total * Received <= paid * share + n * (total - 1)
        /\ paid * share <= total * Received + n * (total - 1)
    BY DEF PartsBooks, PartsInv
  <2>3. Charged \in Int /\ Received \in Int
    BY PartSums DEF PartsBooks
  <2>4. n \in Nat /\ (n = 0 => parts = << >>)
    BY <2>2
  <2>5. parts = << >> => paid = 0 /\ Charged = 0
    BY NoPartsYet DEF PaidSoFar, Charged, OverParts
  <2>6. parts # << >> => total > 0
    BY DEF PartsBooks, PartsInv
  <2> HIDE DEF total, commission, paid, n
  <2>7. Charged <= commission
    <3>1. CASE parts = << >>
      BY <2>1, <2>5, <3>1
    <3>2. CASE parts # << >>
      <4>1. paid * commission <= total * commission
        BY <2>1, <2>2
      <4>2. total * Charged <= total * commission
        <5>1. total * Charged \in Int /\ paid * commission \in Int /\ total * commission \in Int
          BY <2>1, <2>2, <2>3
        <5> QED BY <2>2, <4>1, <5>1
      <4>3. ASSUME commission + 1 <= Charged PROVE FALSE
        <5>1. total * (commission + 1) <= total * Charged
          BY <2>1, <2>3, <4>3
        <5>2. total * (commission + 1) = total * commission + total
          BY <2>1
        <5>3. total * Charged \in Int /\ total * commission \in Int
          BY <2>1, <2>3
        <5> DEFINE x == total * Charged
                   y == total * commission
        <5>4. x \in Int /\ y \in Int /\ x <= y /\ y + total <= x
          BY <4>2, <5>1, <5>2, <5>3
        <5> HIDE DEF x, y
        <5> QED BY <2>1, <2>6, <3>2, <5>4
      <4> QED BY <2>1, <2>3, <4>3
    <3> QED BY <3>1, <3>2
  <2>8. ASSUME parts # << >>, paid = total
        PROVE  -n < Received - share /\ Received - share < n
    <3>1. total > 0
      BY <2>6, <2>8
    <3>2. n > 0
      BY <2>4, <2>5, <2>8, <3>1
    <3>3. share \in Int
      BY <2>1
    <3> HIDE DEF share
    <3> DEFINE off == Received - share
    <3>4. off \in Int
      BY <2>3, <3>3
    <3>5. total * off = total * Received - total * share
      BY <2>1, <2>3, <3>3
    <3>6. /\ total * Received \in Int /\ total * share \in Int
          /\ n * (total - 1) \in Int /\ n * total \in Int
          /\ n * (total - 1) = n * total - n
      BY <2>1, <2>3, <2>4, <3>3
    <3>7. total * Received <= total * share + n * (total - 1)
      BY <2>2, <2>8
    <3>8. total * share <= total * Received + n * (total - 1)
      BY <2>2, <2>8
    <3> DEFINE x == total * Received
               y == total * share
               z == n * total
    <3>9. x \in Int /\ y \in Int /\ z \in Int /\ x <= y + z - n /\ y <= x + (z - n) /\ total * off = x - y
      BY <3>5, <3>6, <3>7, <3>8
    <3> HIDE DEF x, y, z, off
    <3>10. ASSUME n <= off PROVE FALSE
      <4>1. total * n <= total * off
        BY <2>1, <2>4, <3>4, <3>10
      <4>2. total * n = z
        BY <2>1, <2>4 DEF z
      <4> QED BY <2>4, <3>2, <3>9, <4>1, <4>2
    <3>11. ASSUME off <= -n PROVE FALSE
      <4>1. total * off <= total * (-n)
        BY <2>1, <2>4, <3>4, <3>11
      <4>2. total * (-n) = -z
        BY <2>1, <2>4 DEF z
      <4> QED BY <2>4, <3>2, <3>9, <4>1, <4>2
    <3>12. -n < off /\ off < n
      BY <2>4, <3>4, <3>10, <3>11
    <3> QED BY <3>12 DEF off
  <2> QED BY <2>2, <2>7, <2>8 DEF PartsAddUp, total, commission, paid, n
<1> QED BY <1>1, InitParts, NextParts, PTL DEF Spec
=============================================================================
