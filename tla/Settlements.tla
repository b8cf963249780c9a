---------------------------- MODULE Settlements ----------------------------
(***************************************************************************)
(* Paying the merchant: Back Office generates a settlement over the        *)
(* unsettled payments of a period, less the debt of earlier refunds, and   *)
(* then moves it through its statuses by hand.                             *)
(*                                                                         *)
(* GenerateSettlement is one READ COMMITTED transaction of several         *)
(* statements: each reads what is committed when it runs, its writes are   *)
(* visible to others from Commit on, and the rows it wrote are locked      *)
(* until then.  The other handlers run in autocommit.                      *)
(***************************************************************************)
EXTENDS Ledger, FiniteSetsExt, Sequences

CONSTANTS
    Admins,           \* bound: generations in progress at once
    Staff,            \* bound: status changes in progress at once
    MaxSettlements,   \* bound: settlements of a run
    Charges,          \* amounts customers are charged
    Refunds,          \* amounts disputes refund
    SplitEnabled,     \* a subaccount and the paystack_split_payments flag
    Threshold,        \* merchants.payout_min_threshold_pesewas
    TransferFee,      \* the flat withdrawal fee of the merchant's account type
    FeeWaiver,        \* withdrawal_fee_waiver_pesewas; 0 is never
    Overlap           \* customers and disputes act while a generation runs

ASSUME MaxSettlementsAssumption == MaxSettlements \in Nat
ASSUME AmountsAssumption ==
    /\ Charges \subseteq Nat \ {0}
    /\ Refunds \subseteq Nat \ {0}
ASSUME FeesAssumption == {Threshold, TransferFee, FeeWaiver} \subseteq Nat
ASSUME SwitchesAssumption == {SplitEnabled, Overlap} \subseteq BOOLEAN

VARIABLES
    settlement,   \* the settlements table, by number
    clawback,     \* the settlement_clawbacks table, oldest first
    generation,   \* the GenerateSettlement requests in progress
    review        \* the UpdateSettlementStatus requests in progress

settlementVars == <<ledgerVars, settlement, clawback, generation, review>>

Sids == 1..MaxSettlements

SettlementStatus == {"pending", "processing", "paid", "failed"}

Worth == [Refs -> Nat]

Nothing == [r \in Refs |-> 0]

\* counted, worth, taken, late and seen are history: the payments the amounts were
\* computed from and what each counted for, the clawbacks deducted, the payments
\* claimed that were credited after that, and the settlements that existed before.
SettlementRow ==
    [status : SettlementStatus \cup {"absent"}, clawback : Nat, fee : Nat, net : Nat,
     counted : SUBSET Refs, worth : Worth, taken : SUBSET Nat, late : SUBSET Refs,
     seen : SUBSET Sids]

NoSettlement ==
    [status |-> "absent", clawback |-> 0, fee |-> 0, net |-> 0,
     counted |-> {}, worth |-> Nothing, taken |-> {}, late |-> {}, seen |-> {}]

\* ref is the payment refunded; applied = 0 stands for a NULL applied_settlement_id.
Clawback == [ref : Refs, amount : Nat, applied : 0..MaxSettlements]

\* The transaction's locals: the period, the aggregate, the clawbacks taken
\* from it and the rows MarkPaymentsSettled wrote and locked.  As history, what the
\* aggregate counted of each payment, and the payments and settlements of its time.
Generation ==
    [pc : {"idle", "deduct", "write", "commit"},
     from : 0..LastDay, to : 0..LastDay, counted : SUBSET Refs,
     left : Nat, taken : SUBSET Nat, marked : SUBSET Refs,
     worth : Worth, known : SUBSET Refs, seen : SUBSET Sids]

NoGeneration ==
    [pc |-> "idle", from |-> 0, to |-> 0, counted |-> {}, left |-> 0,
     taken |-> {}, marked |-> {}, worth |-> Nothing, known |-> {}, seen |-> {}]

Review ==
    [pc : {"idle", "set"}, sid : 0..MaxSettlements, status : SettlementStatus]

NoReview == [pc |-> "idle", sid |-> 0, status |-> "pending"]

SettlementTypeOK ==
    /\ LedgerTypeOK
    /\ settlement \in [Sids -> SettlementRow]
    /\ clawback \in Seq(Clawback)
    /\ generation \in [Admins -> Generation]
    /\ review \in [Staff -> Review]

SettlementInit ==
    /\ invoice = [i \in Invoices |-> "sent"]
    /\ payment = [r \in Refs |-> NoRow]
    /\ today = 1
    /\ settlement = [s \in Sids |-> NoSettlement]
    /\ clawback = << >>
    /\ generation = [a \in Admins |-> NoGeneration]
    /\ review = [p \in Staff |-> NoReview]

-----------------------------------------------------------------------------
(* Amounts.                                                                *)

\* The merchant's part of an amount collected on invoice i: all but the
\* commission, floored; subtotal, service charge and bundled delivery add up to Total.
MerchantShare(i, amt) == (amt * (Total[i] - Commission[i])) \div Total[i]

\* What is left of payment r after its refunds.
Remaining(r) == payment[r].amount - payment[r].refunded

\* The merchant's share of what refunds have left of payment r.
Share(r) == MerchantShare(payment[r].invoice, Remaining(r))

NetPayout(S) == SumFunctionOnSet([r \in Refs |-> Share(r)], S)

Debt(K) == SumFunctionOnSet([k \in DOMAIN clawback |-> clawback[k].amount], K)

\* ListOutstandingClawbacksByMerchant
Outstanding == {k \in DOMAIN clawback : clawback[k].applied = 0}

\* Mutant: a clawback that does not fit is passed over for a later one that does.
AbsorbedOutOfOrder(net) == {k \in Outstanding : clawback[k].amount <= net}

\* consumeOutstandingClawbacks: whole clawbacks, oldest first, up to the first
\* that does not fit in what is left; a smaller one behind it must wait.
Fits(k, net) == Debt({j \in Outstanding : j <= k}) <= net

Absorbed(net) ==
    {k \in Outstanding : \A j \in Outstanding : j <= k => Fits(j, net)}

\* withdrawalFee
WithdrawalFee(net) ==
    IF FeeWaiver > 0 /\ net >= FeeWaiver THEN 0
    ELSE IF TransferFee > net THEN net ELSE TransferFee

\* proratedCommissionPesewas: what Paystack keeps of a split charge for OrderxPay.
SplitCharge(i, amt) == (Commission[i] * amt) \div Total[i]

-----------------------------------------------------------------------------
(* GenerateSettlement.                                                     *)

InGeneration(a, pc) == generation[a].pc = pc

\* Mutant: settled payments are not left out.
ClaimableAgain(from, to) ==
    {r \in Successful : ~payment[r].split /\ payment[r].day \in from..to}

\* The filter ComputeSettlementAggregate and MarkPaymentsSettled share.
Claimable(from, to) ==
    {r \in Successful :
        /\ payment[r].settlement = 0
        /\ ~payment[r].split
        /\ payment[r].day \in from..to}

\* Rows a transaction in progress has written: others wait for its end.
LockedBy(a) == IF InGeneration(a, "commit") THEN generation[a].marked ELSE {}

LockedPayments == UNION {LockedBy(a) : a \in Admins}

\* The settlements committed so far.
Generated == {s \in Sids : settlement[s].status # "absent"}

LockedClawbacks ==
    UNION {generation[a].taken : a \in {b \in Admins : InGeneration(b, "commit")}}

\* The transaction ends without a trace: an early return, an error or a crash.
Rollback(a) ==
    /\ ~InGeneration(a, "idle")
    /\ generation' = [generation EXCEPT ![a] = NoGeneration]
    /\ UNCHANGED <<ledgerVars, settlement, clawback, review>>

\* The period is well formed and the merchant active with a verified account: the
\* transaction begins with ComputeSettlementAggregate.  With no payment to settle the
\* request ends.
Aggregate(a, from, to) ==
    LET S == Claimable(from, to) IN
    /\ InGeneration(a, "idle")
    /\ from <= to
    /\ S # {}
    /\ generation' = [generation EXCEPT ![a] =
         [NoGeneration EXCEPT !.pc = "deduct", !.from = from, !.to = to,
            !.counted = S, !.left = NetPayout(S),
            !.worth = [r \in Refs |-> IF r \in S THEN Share(r) ELSE 0],
            !.known = Successful, !.seen = Generated]]
    /\ UNCHANGED <<ledgerVars, settlement, clawback, review>>

\* Earlier refunds are worked off, then the payout threshold is applied.
DeductClawbacks(a) ==
    LET taken == Absorbed(generation[a].left)
        left  == generation[a].left - Debt(taken)
    IN  /\ InGeneration(a, "deduct")
        /\ left >= Threshold
        /\ generation' = [generation EXCEPT ![a] =
             [@ EXCEPT !.pc = "write", !.left = left, !.taken = taken]]
        /\ UNCHANGED <<ledgerVars, settlement, clawback, review>>

\* CreateSettlement, ApplySettlementClawback on each clawback taken (by id) and
\* MarkPaymentsSettled, which evaluates the filter again and waits for rows that
\* another transaction has locked.
WriteSettlement(a) ==
    LET S == Claimable(generation[a].from, generation[a].to) IN
    /\ InGeneration(a, "write")
    /\ S \cap LockedPayments = {}
    /\ generation[a].taken \cap LockedClawbacks = {}
    /\ generation' = [generation EXCEPT ![a] = [@ EXCEPT !.pc = "commit", !.marked = S]]
    /\ UNCHANGED <<ledgerVars, settlement, clawback, review>>

\* Settlements are numbered in the order they are committed.
NextSid == {s \in Sids : settlement[s].status = "absent" /\ \A t \in 1..(s - 1) : settlement[t].status # "absent"}

CommitSettlement(a) ==
    LET g   == generation[a]
        fee == WithdrawalFee(g.left)
    IN  /\ InGeneration(a, "commit")
        /\ \E s \in NextSid :
             /\ settlement' = [settlement EXCEPT ![s] =
                  [status |-> "pending", clawback |-> Debt(g.taken), fee |-> fee,
                   net |-> g.left - fee, counted |-> g.counted, worth |-> g.worth,
                   taken |-> g.taken, late |-> g.marked \ g.known, seen |-> g.seen]]
             /\ payment' = [r \in Refs |->
                  IF r \in g.marked THEN [payment[r] EXCEPT !.settlement = s] ELSE payment[r]]
             /\ clawback' = [k \in DOMAIN clawback |->
                  IF k \in g.taken THEN [clawback[k] EXCEPT !.applied = s] ELSE clawback[k]]
        /\ generation' = [generation EXCEPT ![a] = NoGeneration]
        /\ UNCHANGED <<invoice, today, review>>

-----------------------------------------------------------------------------
(* UpdateSettlementStatus: read and check, then write by id.               *)

Transitions ==
    [pending |-> {"processing", "paid", "failed"}, processing |-> {"paid", "failed"},
     paid |-> {}, failed |-> {}]

StartReview(p, s, status) ==
    /\ review[p].pc = "idle"
    /\ settlement[s].status # "absent"
    /\ status \in Transitions[settlement[s].status]
    /\ review' = [review EXCEPT ![p] = [pc |-> "set", sid |-> s, status |-> status]]
    /\ UNCHANGED <<ledgerVars, settlement, clawback, generation>>

SetStatus(p) ==
    /\ review[p].pc = "set"
    /\ settlement' = [settlement EXCEPT ![review[p].sid].status = review[p].status]
    /\ review' = [review EXCEPT ![p] = NoReview]
    /\ UNCHANGED <<ledgerVars, clawback, generation>>

-----------------------------------------------------------------------------
(* What the other handlers do to these tables: a payment is credited in    *)
(* one step (Payments has its statements), and Disputes, which composes    *)
(* this module, refunds with the operators below.                          *)

Quiet == \A a \in Admins : InGeneration(a, "idle")

\* SumSuccessfulPaymentsByInvoice: gross, refunds are not taken off.
Collected(i) == SumFunctionOnSet([r \in Refs |-> payment[r].amount], SuccessfulOn(i))

\* A customer's payment is credited and the invoice rolled forward.  Of a split charge
\* the merchant's part went straight to them; splitParamsFor splits none that leaves
\* OrderxPay nothing.
CreditPayment(r, i, amt) ==
    /\ Overlap \/ Quiet
    /\ payment[r].status = "absent"
    /\ amt <= Total[i]
    /\ \E split \in {FALSE, SplitEnabled /\ SplitCharge(i, amt) > 0} :
         payment' = [payment EXCEPT ![r] =
           [PendingRow(i, amt, split) EXCEPT !.status = "success", !.day = today]]
    /\ invoice' = [invoice EXCEPT ![i] =
         IF Collected(i) + amt >= Total[i] THEN "paid" ELSE "partially_paid"]
    /\ UNCHANGED <<today, settlement, clawback, generation, review>>

\* merchantAlreadyReceivedPayout
AlreadyPaidOut(row) == row.settlement # 0 \/ row.split

AddClawback(r, amt) ==
    clawback' =
        IF amt > 0 THEN Append(clawback, [ref |-> r, amount |-> amt, applied |-> 0])
        ELSE clawback

RefundsOn(i) == SumFunctionOnSet([r \in Refs |-> payment[r].refunded], SuccessfulOn(i))

\* ResolveDispute's total over the payments as they read after AddPaymentRefund,
\* to which it adds the amount just refunded once more.
LooksRefunded(i, amt) == RefundsOn(i) + amt >= Total[i]

SettlementDayEnds ==
    /\ NextDay
    /\ UNCHANGED <<settlement, clawback, generation, review>>

Generate(a) ==
    \/ \E from, to \in 1..LastDay : Aggregate(a, from, to)
    \/ DeductClawbacks(a) \/ WriteSettlement(a) \/ CommitSettlement(a) \/ Rollback(a)

Back(p) ==
    \/ SetStatus(p)
    \/ \E s \in Sids, status \in SettlementStatus : StartReview(p, s, status)

SettlementNext ==
    \/ \E a \in Admins : Generate(a)
    \/ \E p \in Staff : Back(p)
    \/ \E r \in Refs, i \in Invoices, amt \in Charges : CreditPayment(r, i, amt)
    \/ SettlementDayEnds

-----------------------------------------------------------------------------
(* Properties.                                                             *)

\* Clawbacks are worked off in the order they arose, also by generations that
\* interleave: no later one jumps the line past a debt that did not fit.
ClawbackQueueHolds ==
    \A j, k \in DOMAIN clawback :
        j < k /\ clawback[k].applied # 0 => clawback[j].applied # 0

\* What makes claims permanent and the queue hold: the shape of the tables, what a
\* transaction in progress has locked, and that it works off a prefix of the queue.
GenerationShape(g) ==
    g \in [pc : {g.pc}, from : {g.from}, to : {g.to}, counted : {g.counted},
          left : {g.left}, taken : {g.taken}, marked : {g.marked},
          worth : {g.worth}, known : {g.known}, seen : {g.seen}]

RowsShaped ==
    /\ today \in 1..LastDay
    /\ payment \in [Refs -> PaymentRow]
    /\ clawback \in Seq(Clawback)
    /\ generation = [a \in Admins |-> generation[a]]
    /\ \A a \in Admins : GenerationShape(generation[a])

\* Split or unsuccessful payments are unclaimed, and so are those a transaction is about to claim.
UnclaimedUntilCommit ==
    /\ \A r \in Refs : payment[r].split \/ r \notin Successful => payment[r].settlement = 0
    /\ \A a \in Admins : InGeneration(a, "commit") =>
         \A r \in generation[a].marked :
             r \in Successful /\ payment[r].settlement = 0 /\ ~payment[r].split
    /\ \A a, b \in Admins :
         a # b /\ InGeneration(a, "commit") /\ InGeneration(b, "commit") =>
             generation[a].marked \cap generation[b].marked = {}

TakenFromTheFront ==
    \A a \in Admins : InGeneration(a, "write") \/ InGeneration(a, "commit") =>
        /\ generation[a].taken \subseteq DOMAIN clawback
        /\ \A k \in generation[a].taken, j \in DOMAIN clawback :
             j < k => j \in generation[a].taken \/ clawback[j].applied # 0

ClaimInv ==
    RowsShaped /\ UnclaimedUntilCommit /\ TakenFromTheFront /\ ClawbackQueueHolds

\* A payment claimed by a settlement is never claimed by another, a split one
\* never at all, and a clawback once applied never becomes outstanding again.
ClaimsArePermanent ==
    [][/\ \A r \in Refs : payment[r].settlement # 0 =>
             payment'[r].settlement = payment[r].settlement
       /\ \A r \in Refs : payment'[r].split => payment'[r].settlement = 0
       /\ \A k \in DOMAIN clawback : clawback[k].applied # 0 => clawback'[k].applied # 0
      ]_settlementVars

\* "a second run can never double-pay them": no payment is counted by two settlements.
PaidOnce ==
    \A s, t \in Generated : s # t => settlement[s].counted \cap settlement[t].counted = {}

\* What is left of that when generations may interleave: a payment counted or a
\* clawback deducted twice takes two generations at the same time.  A settlement never
\* repeats what one that existed when it read has done.
RepeatsNeedOverlap ==
    \A t \in Generated : \A s \in settlement[t].seen :
        /\ settlement[s].counted \cap settlement[t].counted = {}
        /\ settlement[s].taken \cap settlement[t].taken = {}

\* Why it does not: what was counted has been claimed since, by whichever generation
\* committed first, and what was deducted is applied.
CountedIsClaimed ==
    /\ \A s \in Generated :
         /\ settlement[s].counted \subseteq Successful
         /\ \A r \in settlement[s].counted : payment[r].settlement # 0
         /\ \A k \in settlement[s].taken : k \in DOMAIN clawback /\ clawback[k].applied # 0
    /\ \A a \in Admins :
         /\ generation[a].counted \subseteq Successful
         /\ \A r \in generation[a].counted :
              /\ ~payment[r].split
              /\ payment[r].day \in generation[a].from..generation[a].to
              /\ InGeneration(a, "commit") =>
                   r \in generation[a].marked \/ payment[r].settlement # 0

\* And what it counts itself, nobody had before it read.
CountsAfresh ==
    /\ \A a \in Admins :
         /\ generation[a].seen \subseteq Generated
         /\ \A s \in generation[a].seen :
              /\ settlement[s].counted \cap generation[a].counted = {}
              /\ settlement[s].taken \cap generation[a].taken = {}
    /\ \A s \in Generated : settlement[s].seen \subseteq Generated

\* What is claimed without having been counted came in after the count: a payment a
\* generation knew of and left out is not one it may claim.
LeftOutStaysOut ==
    \A a \in Admins : \A r \in generation[a].known \ generation[a].counted :
        r \notin Claimable(generation[a].from, generation[a].to)

\* What payouts with these statuses are made out for, before the withdrawal fee.
MadeOut(statuses) ==
    SumFunctionOnSet([s \in Sids |-> settlement[s].net + settlement[s].fee],
                     {s \in Generated : settlement[s].status \in statuses})

\* What Paystack has passed on to the merchant of split charges.
SplitPart(r) == payment[r].amount - SplitCharge(payment[r].invoice, payment[r].amount)

PassedOn == SumFunctionOnSet([r \in Refs |-> SplitPart(r)], {r \in Successful : payment[r].split})
=============================================================================
