------------------------------ MODULE Disputes ------------------------------
(***************************************************************************)
(* Giving a customer their money back: support logs a dispute against an   *)
(* invoice, staff resolve it, with a refund through Paystack where         *)
(* warranted, while customers pay and settlements are generated and paid   *)
(* (Settlements, which this module EXTENDS and composes with).             *)
(*                                                                         *)
(* ResolveDispute opens no transaction: each of its statements commits by  *)
(* itself, and the refund at Paystack happens between two of them.         *)
(***************************************************************************)
EXTENDS Settlements

CONSTANTS
    Cases,        \* bound: disputes of a run
    Resolvers,    \* bound: ResolveDispute requests in progress at once
    MaxFaults     \* bound: requests of a run that stop half way

ASSUME MaxFaultsAssumption == MaxFaults \in Nat
ASSUME BoundsAssumption == IsFiniteSet(Cases) /\ IsFiniteSet(Resolvers)

VARIABLES
    dispute,      \* the disputes table
    request,      \* the ResolveDispute requests in progress
    given,        \* at Paystack: money returned, by payment, for each dispute
    faults        \* requests that have stopped half way

disputeVars == <<settlementVars, dispute, request, given, faults>>

DisputeStatus == {"open", "investigating", "resolved_refunded", "resolved_denied"}

Resolved == {"resolved_refunded", "resolved_denied"}

Null == "null"

\* ref and amount are refund_payment_id and refund_amount_pesewas.
DisputeRow ==
    [status : DisputeStatus \cup {"absent"}, invoice : Invoices \cup {Null},
     ref : Refs \cup {Null}, amount : Nat]

NoDispute == [status |-> "absent", invoice |-> Null, ref |-> Null, amount |-> 0]

\* A request's locals; paidOut is what pmt, read before the refund, says of the
\* merchant having received the money.
Request ==
    [pc : {"idle", "note", "load", "refund", "record", "claw", "tally", "mark", "close"},
     case : Cases \cup {Null}, to : DisputeStatus, ref : Refs \cup {Null}, amount : Nat,
     paidOut : BOOLEAN]

NoRequest ==
    [pc |-> "idle", case |-> Null, to |-> "open", ref |-> Null, amount |-> 0,
     paidOut |-> FALSE]

DisputeTypeOK ==
    /\ SettlementTypeOK
    /\ dispute \in [Cases -> DisputeRow]
    /\ request \in [Resolvers -> Request]
    /\ given \in [Cases -> [Refs -> Nat]]
    /\ faults \in 0..MaxFaults

DisputeInit ==
    /\ SettlementInit
    /\ dispute = [d \in Cases |-> NoDispute]
    /\ request = [v \in Resolvers |-> NoRequest]
    /\ given = [d \in Cases |-> [r \in Refs |-> 0]]
    /\ faults = 0

At(v, pc) == request[v].pc = pc

Goto(v, pc) == request' = [request EXCEPT ![v].pc = pc]

Return(v) == request' = [request EXCEPT ![v] = NoRequest]

Calm == \A v \in Resolvers : At(v, "idle")

Returned(r) == SumFunctionOnSet([d \in Cases |-> given[d][r]], Cases)

-----------------------------------------------------------------------------
(* CreateDispute and ResolveDispute, statement by statement.               *)

CreateDispute(d, i) ==
    /\ dispute[d].status = "absent"
    /\ dispute' = [dispute EXCEPT ![d] = [NoDispute EXCEPT !.status = "open", !.invoice = i]]
    /\ UNCHANGED <<settlementVars, request, given, faults>>

disputeStatusTransitions ==
    [absent |-> {}, open |-> {"investigating"} \cup Resolved, investigating |-> Resolved,
     resolved_refunded |-> {}, resolved_denied |-> {}]

AfterCheck ==
    [investigating |-> "note", resolved_refunded |-> "load", resolved_denied |-> "close"]

\* GetDispute and the check of the transition.
StartResolve(v, d, to) ==
    /\ Overlap \/ Quiet
    /\ At(v, "idle")
    /\ to \in disputeStatusTransitions[dispute[d].status]
    /\ request' = [request EXCEPT ![v] =
         [NoRequest EXCEPT !.pc = AfterCheck[to], !.case = d, !.to = to]]
    /\ UNCHANGED <<settlementVars, dispute, given, faults>>

\* SetDisputeStatus, by id.
Investigate(v) ==
    /\ At(v, "note")
    /\ dispute' = [dispute EXCEPT ![request[v].case].status = "investigating"]
    /\ Return(v)
    /\ UNCHANGED <<settlementVars, given, faults>>

\* GetPayment and the checks on it.
LoadPayment(v, r, amt) ==
    /\ At(v, "load")
    /\ r \in SuccessfulOn(dispute[request[v].case].invoice)
    /\ amt <= Remaining(r)
    /\ request' = [request EXCEPT ![v].pc = "refund", ![v].ref = r, ![v].amount = amt,
                                  ![v].paidOut = AlreadyPaidOut(payment[r])]
    /\ UNCHANGED <<settlementVars, dispute, given, faults>>

\* Paystack refunds no more of a charge than its amount.
RefundTransaction(v) ==
    LET q == request[v] IN
    /\ At(v, "refund")
    /\ Returned(q.ref) + q.amount <= payment[q.ref].amount
    /\ given' = [given EXCEPT ![q.case][q.ref] = @ + q.amount]
    /\ Goto(v, "record")
    /\ UNCHANGED <<settlementVars, dispute, faults>>

\* Mutant: Paystack's refusal goes unnoticed.
RefusalIgnored(v) ==
    /\ At(v, "refund")
    /\ Goto(v, "record")
    /\ UNCHANGED <<settlementVars, dispute, given, faults>>

\* A check fails, or Paystack refuses: the request ends before any effect.
Refused(v) ==
    /\ At(v, "load") \/ At(v, "refund")
    /\ Return(v)
    /\ UNCHANGED <<settlementVars, dispute, given, faults>>

\* Mutant: the amount refunded is set, not added to.
SetPaymentRefund(v) ==
    LET q == request[v] IN
    /\ At(v, "record")
    /\ q.ref \notin LockedPayments
    /\ q.amount <= Remaining(q.ref)
    /\ payment' = [payment EXCEPT ![q.ref].refunded = q.amount]
    /\ Goto(v, IF q.paidOut THEN "claw" ELSE "tally")
    /\ UNCHANGED <<invoice, today, settlement, clawback, generation, review,
                   dispute, given, faults>>

\* AddPaymentRefund, within the table's CHECK, once no settlement in progress
\* holds the row.
AddPaymentRefund(v) ==
    LET q == request[v] IN
    /\ At(v, "record")
    /\ q.ref \notin LockedPayments
    /\ q.amount <= Remaining(q.ref)
    /\ payment' = [payment EXCEPT ![q.ref].refunded = @ + q.amount]
    /\ Goto(v, IF q.paidOut THEN "claw" ELSE "tally")
    /\ UNCHANGED <<invoice, today, settlement, clawback, generation, review,
                   dispute, given, faults>>

\* Mutant: the merchant owes the whole refund, OrderxPay's commission included.
ClawBackWholeRefund(v) ==
    /\ At(v, "claw")
    /\ AddClawback(request[v].ref, request[v].amount)
    /\ Goto(v, "tally")
    /\ UNCHANGED <<ledgerVars, settlement, generation, review, dispute, given, faults>>

CreateSettlementClawback(v) ==
    /\ At(v, "claw")
    /\ AddClawback(request[v].ref,
                   MerchantShare(payment[request[v].ref].invoice, request[v].amount))
    /\ Goto(v, "tally")
    /\ UNCHANGED <<ledgerVars, settlement, generation, review, dispute, given, faults>>

\* ListPaymentsByInvoice and the total over it.
Tally(v) ==
    /\ At(v, "tally")
    /\ Goto(v, IF LooksRefunded(payment[request[v].ref].invoice, request[v].amount)
               THEN "mark" ELSE "close")
    /\ UNCHANGED <<settlementVars, dispute, given, faults>>

MarkRefunded(v) ==
    /\ At(v, "mark")
    /\ invoice' = [invoice EXCEPT ![payment[request[v].ref].invoice] = "refunded"]
    /\ Goto(v, "close")
    /\ UNCHANGED <<payment, today, settlement, clawback, generation, review,
                   dispute, given, faults>>

\* The ResolveDispute query, by id.
Close(v) ==
    LET q == request[v] IN
    /\ At(v, "close")
    /\ dispute' = [dispute EXCEPT ![q.case] =
         [@ EXCEPT !.status = q.to, !.ref = q.ref, !.amount = q.amount]]
    /\ Return(v)
    /\ UNCHANGED <<settlementVars, given, faults>>

\* The process dies, or a statement fails and the request ends with an error.
\* Before Paystack is asked this is Refused.
StopHalfWay(v) ==
    /\ faults < MaxFaults
    /\ request[v].pc \in {"record", "claw", "tally", "mark", "close"}
    /\ faults' = faults + 1
    /\ Return(v)
    /\ UNCHANGED <<settlementVars, dispute, given>>

\* Errors while the invoice's status is updated are ignored.
SkipInvoice(v) ==
    /\ faults < MaxFaults
    /\ At(v, "tally") \/ At(v, "mark")
    /\ faults' = faults + 1
    /\ Goto(v, "close")
    /\ UNCHANGED <<settlementVars, dispute, given>>

\* Paystack refunds, but its answer never arrives.
AnswerLost(v) ==
    LET q == request[v] IN
    /\ faults < MaxFaults
    /\ At(v, "refund")
    /\ Returned(q.ref) + q.amount <= payment[q.ref].amount
    /\ given' = [given EXCEPT ![q.case][q.ref] = @ + q.amount]
    /\ faults' = faults + 1
    /\ Return(v)
    /\ UNCHANGED <<settlementVars, dispute>>

Resolve(v) ==
    \/ Investigate(v) \/ RefundTransaction(v) \/ Refused(v) \/ AddPaymentRefund(v)
    \/ CreateSettlementClawback(v) \/ Tally(v) \/ MarkRefunded(v) \/ Close(v)
    \/ StopHalfWay(v) \/ SkipInvoice(v) \/ AnswerLost(v)
    \/ \E d \in Cases, to \in DisputeStatus : StartResolve(v, d, to)
    \/ \E r \in Refs, amt \in Refunds : LoadPayment(v, r, amt)

\* The steps of Settlements; unless Overlap, a resolution is not interrupted by them.
Elsewhere ==
    /\ Overlap \/ Calm
    /\ SettlementNext
    /\ UNCHANGED <<dispute, request, given, faults>>

DisputeNext ==
    \/ \E d \in Cases, i \in Invoices : CreateDispute(d, i)
    \/ \E v \in Resolvers : Resolve(v)
    \/ Elsewhere

DisputeSpec == DisputeInit /\ [][DisputeNext]_disputeVars

-----------------------------------------------------------------------------
(* Properties.                                                             *)

\* A request works on a dispute, and from the refund on on a payment that stays one,
\* whatever becomes of the rows; with ClaimInv, what makes claims permanent.
RequestShaped ==
    /\ dispute \in [Cases -> DisputeRow]
    /\ request \in [Resolvers -> Request]
    /\ given \in [Cases -> [Refs -> Nat]]
    /\ \A v \in Resolvers : ~At(v, "idle") => request[v].case \in Cases
    /\ \A v \in Resolvers : request[v].pc \in {"refund", "record", "claw", "tally", "mark"} =>
         request[v].ref \in Successful

DisputeInv == ClaimInv /\ RequestShaped

\* Refunds that Paystack has made for requests that have yet to record them.
Unrecorded(r) ==
    SumFunctionOnSet([v \in Resolvers |-> request[v].amount],
                     {v \in Resolvers : At(v, "record") /\ request[v].ref = r})

\* However resolutions interleave or stop half way, the books never claim that
\* more was refunded than the customer got back, and the CHECK on the refunded
\* amount never rejects a refund Paystack has made.
BooksNeverAhead ==
    \A r \in Refs :
        /\ payment[r].refunded + Unrecorded(r) <= Returned(r)
        /\ Returned(r) <= payment[r].amount

\* The merchant is never charged back more than their share of what customers
\* got back on their invoices.
ReturnedShares ==
    SumFunctionOnSet([r \in Refs |-> MerchantShare(payment[r].invoice, Returned(r))], Refs)

DebtWithinRefunds == Debt(DOMAIN clawback) <= ReturnedShares

\* What makes these two inductive: a payment yet to be made has no amount to give back,
\* and refunds that requests have yet to charge the merchant for count as debt.
Unbilled ==
    SumFunctionOnSet(
        [v \in Resolvers |-> MerchantShare(payment[request[v].ref].invoice, request[v].amount)],
        {v \in Resolvers : At(v, "record") \/ At(v, "claw")})

BooksInv ==
    /\ DisputeInv
    /\ \A r \in Refs \ Successful : payment[r].amount = 0
    /\ BooksNeverAhead
    /\ Debt(DOMAIN clawback) + Unbilled <= ReturnedShares

\* "only once it succeeds do the payment/invoice/dispute rows update together":
\* with no resolution in progress, what a payment has refunded is what the
\* disputes resolved with a refund of it say.
RowsUpdateTogether ==
    Calm => \A r \in Refs :
        payment[r].refunded =
            SumFunctionOnSet([d \in Cases |-> dispute[d].amount],
                {d \in Cases : dispute[d].status = "resolved_refunded" /\ dispute[d].ref = r})

\* With no resolution in progress, a dispute's status tells what the customer got:
\* the recorded refund if resolved that way, else nothing.
ResolutionIsTrue ==
    Calm => \A d \in Cases :
        SumFunctionOnSet(given[d], Refs) =
            IF dispute[d].status = "resolved_refunded" THEN dispute[d].amount ELSE 0

\* However resolutions interleave or stop half way, a dispute never claims more than was
\* recorded on the payment, nor than Paystack gave back for it.
ClosedRefunds(r) ==
    SumFunctionOnSet([d \in Cases |-> dispute[d].amount],
        {d \in Cases : dispute[d].status = "resolved_refunded" /\ dispute[d].ref = r})

DisputesNeverAhead ==
    /\ \A r \in Refs : ClosedRefunds(r) <= payment[r].refunded
    /\ \A d \in Cases : dispute[d].status = "resolved_refunded" =>
         dispute[d].amount <= given[d][dispute[d].ref]

\* What the merchant has been charged back of payment r, by clawbacks and by requests
\* about to write one.
Clawed(r) == Debt({k \in DOMAIN clawback : clawback[k].ref = r})

ToClaw(v) == MerchantShare(payment[request[v].ref].invoice, request[v].amount)

Clawing(r) ==
    SumFunctionOnSet([v \in Resolvers |-> ToClaw(v)],
                     {v \in Resolvers : At(v, "claw") /\ request[v].ref = r})

\* What a payment has cost whoever pays the merchant: the share that is left of it, and
\* what refunds have taken back.
Due(r) == Share(r) + Clawed(r) + Clawing(r)

\* Whatever interleaves or stops half way, the merchant is charged back only for what
\* they were paid: a claimed payment was counted for all that is due of it, unless it
\* was credited after the count; a split one was passed on in full; and of any other
\* nothing is charged back.
ShareIsPaidFor ==
    \A r \in Refs :
        /\ payment[r].settlement # 0 =>
             LET s == payment[r].settlement
             IN  r \in settlement[s].late \/ Due(r) <= settlement[s].worth[r]
        /\ r \in Successful /\ payment[r].split => Due(r) <= SplitPart(r)
        /\ ~AlreadyPaidOut(payment[r]) => Clawed(r) + Clawing(r) = 0

\* Payout is what settlements, clawbacks and split charges amount to for the merchant:
\* a payment is given once it is settled or was split, and the debt of a refund is
\* theirs from the moment the refund is recorded.
Standing(r) ==
    IF r \notin Successful THEN "absent"
    ELSE IF AlreadyPaidOut(payment[r]) THEN "given" ELSE "owed"

OwedBack ==
    Debt(Outstanding)
    + SumFunctionOnSet([v \in Resolvers |-> ToClaw(v)], {v \in Resolvers : At(v, "claw")})

Account ==
    INSTANCE Payout WITH
        Payments <- Refs,
        Shares   <- UNION {{MerchantShare(i, amt) : amt \in 0..Total[i]} : i \in Invoices},
        standing <- [r \in Refs |-> Standing(r)],
        share    <- [r \in Refs |-> IF r \in Successful THEN Share(r) ELSE 0],
        due      <- MadeOut({"pending", "processing"}),
        paid     <- MadeOut({"paid"}) + PassedOn,
        stuck    <- MadeOut({"failed"}),
        debt     <- OwedBack

\* With one actor at a time, handlers of many statements amount to the operations of
\* Payout: every share is paid out once, less debts of refunds that are worked off once,
\* and a payout either arrives or stays stuck.
PaysOutAsPromised == Account!Spec

\* An invoice is marked refunded only once the customer has everything back: "a
\* partial refund needs to coexist with the rest of the amount staying collected".
RefundedMeansGivenBack ==
    \A i \in Invoices : invoice[i] = "refunded" => RefundsOn(i) >= Total[i]
=============================================================================
