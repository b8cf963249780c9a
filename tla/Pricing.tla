------------------------------- MODULE Pricing -------------------------------
(***************************************************************************)
(* What an invoice costs: the fee rules Back Office and the merchant set,  *)
(* the amounts of an invoice raised under the rule in force, and how each  *)
(* part payment divides between the merchant and OrderxPay.                *)
(*                                                                         *)
(* Amounts are whole pesewas and rates basis points (bps, 1/10000); every  *)
(* division truncates, as int64 and bigint division of the code does.      *)
(***************************************************************************)
EXTENDS Integers, FiniteSets, Sequences, Functions

CONSTANTS
    DefaultRule,     \* the fee rule the platform is seeded with
    Registered,      \* the merchant is a verified registered business
    RuleRequests,    \* bound: fee rules Back Office submits
    OwnRates,        \* bound: commission rates the merchant asks for
    Bases,           \* bound: goods plus bundled delivery of an invoice
    CustomerShares,  \* what of the commission the customer bears, in bps
    Parts,           \* bound: amounts of part payments; 0 pays all that is left
    MaxParts,        \* bound: part payments of an invoice
    PartBases,       \* bound: of those, the ones whose invoice gets payments
    MaxInt32

\* collection_fee_bps, margin_bps, and the clamps in pesewas; a cap of 0 is none.
FeeRule == [collection : Nat, margin : Nat, floor : Nat, cap : Nat]

ASSUME RulesAssumption == RuleRequests \cup {DefaultRule} \subseteq FeeRule
ASSUME AmountsAssumption ==
    /\ OwnRates \cup Parts \subseteq Nat
    /\ Bases \subseteq Nat
    /\ CustomerShares \subseteq 0..10000
ASSUME RegisteredAssumption == Registered \in BOOLEAN
ASSUME BoundsAssumption == {MaxParts, MaxInt32} \subseteq Nat

VARIABLES
    default,     \* the fee_rules row without a merchant
    override,    \* the merchant's own row, or NoRule
    asked,       \* the SetMerchantOwnFeeRule request in progress
    invoice,     \* the invoice raised last, or NoInvoice
    parts        \* the payments made on it, in order

vars == <<default, override, asked, invoice, parts>>

NoRule == [collection |-> 0, margin |-> 0, floor |-> 0, cap |-> -1]

\* pricingForMerchant, and how SetMerchantOwnFeeRule finds the current rule.
RuleInForce == IF override # NoRule THEN override ELSE default

Idle == [pc |-> "idle", rate |-> 0, current |-> NoRule]

\* rule and share are history: what the invoice was priced with.
NoInvoice == [base |-> 0, total |-> 0, commission |-> 0, rule |-> NoRule, share |-> 0]

-----------------------------------------------------------------------------
(* Fee rules.                                                              *)

\* A sum the int32 of the code would wrap passes validate() as a negative
\* number; Postgres, which adds the columns again, refuses it.
Wraps(rule) == rule.collection > MaxInt32 - rule.margin

\* Mutant: the bound is read as "up to 100%".
Saleable100(rule) ==
    /\ ~Wraps(rule)
    /\ rule.collection + rule.margin <= 10000
    /\ rule.cap > 0 => rule.cap >= rule.floor

\* validate() and the table's CHECKs.
Saleable(rule) ==
    /\ ~Wraps(rule)
    /\ rule.collection + rule.margin < 10000
    /\ rule.cap > 0 => rule.cap >= rule.floor

ASSUME SeedAssumption == Saleable(DefaultRule)

UpsertGlobalFeeRule(rule) ==
    /\ Saleable(rule)
    /\ default' = rule
    /\ UNCHANGED <<override, asked, invoice, parts>>

UpsertMerchantFeeRule(rule) ==
    /\ Saleable(rule)
    /\ override' = rule
    /\ UNCHANGED <<default, asked, invoice, parts>>

DeleteMerchantFeeRule ==
    /\ override # NoRule
    /\ override' = NoRule
    /\ UNCHANGED <<default, asked, invoice, parts>>

merchantSetRateCapBps == 500

\* deriveMerchantSetMarginBps accepts the rate.
Settable(rate, collection) == rate <= merchantSetRateCapBps /\ rate >= collection

\* SetMerchantOwnFeeRule, for registered businesses only, reads the rule in force
\* and checks the rate ...
AskOwnRate(rate) ==
    /\ Registered
    /\ asked.pc = "idle"
    /\ Settable(rate, RuleInForce.collection)
    /\ asked' = [pc |-> "set", rate |-> rate, current |-> RuleInForce]
    /\ UNCHANGED <<default, override, invoice, parts>>

\* ... and writes it back with the margin the rate implies.
SetOwnRate ==
    /\ asked.pc = "set"
    /\ override' = [asked.current EXCEPT !.margin = asked.rate - asked.current.collection]
    /\ asked' = Idle
    /\ UNCHANGED <<default, invoice, parts>>

-----------------------------------------------------------------------------
(* The amounts of an invoice: computeInvoiceAmounts.                       *)

Bps(amount, bps) == (amount * bps) \div 10000

\* Mutant: the customer's part is added on top of the price.
AddOnTop(amount, bps) == amount + Bps(amount, bps)

\* grossUp, to the nearest pesewa.
GrossUp(amount, bps) ==
    LET rest == 10000 - bps
    IN  IF bps = 0 THEN amount ELSE (amount * 10000 + rest \div 2) \div rest

Clamp(rule, margin) ==
    IF margin < rule.floor THEN rule.floor
    ELSE IF rule.cap > 0 /\ margin > rule.cap THEN rule.cap
    ELSE margin

\* Mutant: the customer bears all of a clamped margin, whatever their share.
TotalWithWholeClamp(rule, base, share) ==
    LET plain  == GrossUp(base, Bps(rule.collection + rule.margin, share))
        margin == Bps(plain, rule.margin)
    IN  IF Clamp(rule, margin) = margin THEN plain
        ELSE GrossUp(base + Clamp(rule, margin), Bps(rule.collection, share))

\* Solved for the plain rate first, then again if the margin that gives is clamped:
\* the margin is then a constant, grossed up alongside the base.
InvoiceTotal(rule, base, share) ==
    LET plain  == GrossUp(base, Bps(rule.collection + rule.margin, share))
        margin == Bps(plain, rule.margin)
    IN  IF Clamp(rule, margin) = margin THEN plain
        ELSE GrossUp(base + Bps(Clamp(rule, margin), share), Bps(rule.collection, share))

\* Mutant: the floor holds on the tiniest invoice.
UnboundedCommission(rule, total) ==
    Bps(total, rule.collection) + Clamp(rule, Bps(total, rule.margin))

\* Mutant: the commission as a whole is clamped.
ClampedCommission(rule, total) ==
    LET sum == Clamp(rule, Bps(total, rule.collection + rule.margin))
    IN  IF sum > total THEN total ELSE sum

\* The PSP's part passed through, and the margin clamped once more; no more than
\* what is collected.
InvoiceCommission(rule, total) ==
    LET sum == Bps(total, rule.collection) + Clamp(rule, Bps(total, rule.margin))
    IN  IF sum > total THEN total ELSE sum

\* A basket of free items costs nothing, whatever the floor.
computeInvoiceAmounts(rule, base, share) ==
    LET total == InvoiceTotal(rule, base, share)
    IN  IF base = 0 THEN [total |-> 0, commission |-> 0]
        ELSE [total |-> total, commission |-> InvoiceCommission(rule, total)]

\* createInvoiceCore, on the merchant's last invoice.
CreateInvoice(base, share) ==
    LET amounts == computeInvoiceAmounts(RuleInForce, base, share) IN
    /\ invoice' = [base |-> base, total |-> amounts.total, rule |-> RuleInForce,
                   share |-> share, commission |-> amounts.commission]
    /\ parts' = << >>
    /\ UNCHANGED <<default, override, asked>>

-----------------------------------------------------------------------------
(* Dividing a payment.                                                     *)

Prorated(amount, of) == (amount * of) \div invoice.total

\* Mutant: the commission is rounded up in its favour.
CommissionRoundedUp(amount) == Prorated(amount, invoice.commission) + 1

\* proratedCommissionPesewas: what OrderxPay takes of a payment split at Paystack.
CommissionOf(amount) == Prorated(amount, invoice.commission)

\* What ComputeSettlementAggregate pays the merchant of a payment that is not split.
EntitlementOf(amount) == Prorated(amount, invoice.total - invoice.commission)

\* splitParamsFor does not split when there is no commission to take.
Splits(amount, split) == split /\ CommissionOf(amount) > 0

ToMerchant(part) ==
    IF part.split THEN part.amount - CommissionOf(part.amount) ELSE EntitlementOf(part.amount)

\* The sum of an amount over the parts paid so far.
OverParts(amount) == SumFunctionOnSet(amount, DOMAIN parts)

PaidSoFar == OverParts([n \in DOMAIN parts |-> parts[n].amount])

Received == OverParts([n \in DOMAIN parts |-> ToMerchant(parts[n])])

Charged ==
    OverParts([n \in DOMAIN parts |-> IF parts[n].split THEN CommissionOf(parts[n].amount) ELSE 0])

\* A payment of the rest or of a part, split or left for a settlement.
Pay(part, split) ==
    LET left   == invoice.total - PaidSoFar
        amount == IF part = 0 THEN left ELSE part
    IN  /\ Len(parts) < MaxParts /\ invoice.base \in PartBases
        /\ 0 < amount /\ amount <= left
        /\ parts' = Append(parts, [amount |-> amount, split |-> Splits(amount, split)])
        /\ UNCHANGED <<default, override, asked, invoice>>

-----------------------------------------------------------------------------

Init ==
    /\ default = DefaultRule
    /\ override = NoRule
    /\ asked = Idle
    /\ invoice = NoInvoice
    /\ parts = << >>

Next ==
    \/ \E rule \in RuleRequests : UpsertGlobalFeeRule(rule) \/ UpsertMerchantFeeRule(rule)
    \/ DeleteMerchantFeeRule
    \/ \E rate \in OwnRates : AskOwnRate(rate)
    \/ SetOwnRate
    \/ \E base \in Bases, share \in CustomerShares : CreateInvoice(base, share)
    \/ \E part \in Parts, split \in BOOLEAN : Pay(part, split)

Spec == Init /\ [][Next]_vars

-----------------------------------------------------------------------------
(* Properties.                                                             *)

\* A rule an invoice can be priced with.
Solvable(rule) ==
    /\ rule \in FeeRule
    /\ rule.collection + rule.margin < 10000
    /\ rule.cap > 0 => rule.cap >= rule.floor

\* The state is well formed; above all every rule in force can be solved for a
\* total, also one the merchant derived from a rule Back Office has replaced since.
PricingTypeOK ==
    /\ Solvable(default)
    /\ override # NoRule => Solvable(override)
    /\ asked # Idle =>
         /\ asked.pc = "set" /\ Solvable(asked.current)
         /\ asked.rate \in Nat /\ Settable(asked.rate, asked.current.collection)
    /\ invoice # NoInvoice =>
         /\ Solvable(invoice.rule)
         /\ {invoice.base, invoice.total, invoice.commission, invoice.share} \subseteq Nat
         /\ (invoice.base > 0 <=> invoice.total > 0) /\ invoice.share <= 10000

\* "the platform's take can be squeezed to the cap but never below its own cost":
\* the commission covers what the PSP charges, and never exceeds what is collected.
PlatformNeverLosesMoney ==
    /\ Bps(invoice.total, invoice.rule.collection) <= invoice.commission
    /\ invoice.commission <= invoice.total

\* "The margin is clamped at both ends", but for the invoice too small to carry
\* the floor, of which OrderxPay takes everything.
MarginIsClamped ==
    LET margin == invoice.commission - Bps(invoice.total, invoice.rule.collection)
    IN  /\ invoice.rule.cap > 0 => margin <= invoice.rule.cap
        /\ margin >= invoice.rule.floor \/ invoice.commission = invoice.total

\* Where the customer bears the commission the merchant banks their asking price,
\* never less and never over two pesewas more, across both clamps; where they
\* bear none of it they pay the asking price.
MerchantLeftWhole ==
    /\ invoice.share = 10000 => invoice.total - invoice.commission - invoice.base \in 0..2
    /\ invoice.share = 0 => invoice.total = invoice.base

\* The total is solved in one of three ways, by the side of the clamps it falls
\* on; where one way gives way to another a dearer order never gets cheaper for a
\* customer who bears all of the commission, or none.  (One who bears a part of it
\* can gain a few pesewas: their parts of the two rates truncate separately.)
DearerOrderCostsMore ==
    \A base \in Bases, share \in CustomerShares \cap {0, 10000} :
        computeInvoiceAmounts(RuleInForce, base, share).total
            <= computeInvoiceAmounts(RuleInForce, base + 1, share).total

\* However an invoice is paid, in parts split at Paystack or settled later, no more
\* than its total is paid, the commission taken by splits never exceeds its own, and
\* once it is paid in full the merchant has their share, but for less than a pesewa
\* a part.
PartsAddUp ==
    /\ PaidSoFar \in 0..invoice.total
    /\ Charged <= invoice.commission
    /\ parts # << >> /\ PaidSoFar = invoice.total =>
         LET off == Received - (invoice.total - invoice.commission)
         IN  -Len(parts) < off /\ off < Len(parts)

\* Why they add up: each part leaves less than one pesewa of rounding, to OrderxPay's
\* loss where it is split and to the merchant's where it is not.  Multiplied out by
\* the total, so that nothing is divided.
PartsInv ==
    LET total == invoice.total
        owed  == PaidSoFar * (total - invoice.commission)
        slack == Len(parts) * (total - 1)
    IN  /\ parts \in Seq([amount : Nat \ {0}, split : BOOLEAN])
        /\ parts # << >> => total > 0
        /\ PaidSoFar \in 0..total
        /\ total * Charged <= PaidSoFar * invoice.commission
        /\ total * Received <= owed + slack /\ owed <= total * Received + slack
=============================================================================
