--------------------------- MODULE DisputesProofs ---------------------------
(***************************************************************************)
(* Claims on payments, the queue of clawbacks and the books of refunds,    *)
(* while any number of generations, status changes and dispute resolutions *)
(* interleave, stop half way and fail.                                     *)
(***************************************************************************)
EXTENDS Disputes, SettlementsProofs

LEMMA InitDispute == DisputeInit => DisputeInv
<1>1. DisputeInit => RequestShaped
    BY DEF DisputeInit, RequestShaped, NoDispute, NoRequest, DisputeRow, Request, DisputeStatus, At
<1> QED
    BY <1>1, InitClaim DEF DisputeInit, DisputeInv

\* A refund recorded on a payment leaves its claim alone.
LEMMA RefundKeepsClaims ==
    ASSUME ClaimInv, NEW r \in Refs, NEW amt \in Nat,
           payment' = [payment EXCEPT ![r].refunded = @ + amt],
           UNCHANGED <<today, clawback, generation>>
    PROVE  /\ ClaimInv'
           /\ \A q \in Refs : payment'[q].settlement = payment[q].settlement
<1>0. RowsShaped /\ UnclaimedUntilCommit /\ TakenFromTheFront /\ ClawbackQueueHolds
    BY DEF ClaimInv
<1>1. payment' \in [Refs -> PaymentRow]
    <2>1. payment[r] \in PaymentRow
        BY <1>0 DEF RowsShaped
    <2>2. payment'[r] = [payment[r] EXCEPT !.refunded = payment[r].refunded + amt]
        BY <1>0 DEF RowsShaped
    <2>3. payment[r].refunded + amt \in Nat
        BY <2>1 DEF PaymentRow
    <2>4. payment'[r] \in PaymentRow
        BY <2>1, <2>2, <2>3 DEF PaymentRow
    <2> QED
        BY <1>0, <2>4 DEF RowsShaped
<1>2. \A q \in Refs : /\ payment'[q].settlement = payment[q].settlement
                      /\ payment'[q].split = payment[q].split
                      /\ payment'[q].status = payment[q].status
    BY <1>0 DEF RowsShaped, PaymentRow
<1>3. RowsShaped'
    BY <1>0, <1>1 DEF RowsShaped, GenerationShape
<1>4. UnclaimedUntilCommit'
    BY <1>0, <1>2 DEF UnclaimedUntilCommit, InGeneration, Successful
<1>5. TakenFromTheFront' /\ ClawbackQueueHolds'
    BY <1>0 DEF TakenFromTheFront, ClawbackQueueHolds, InGeneration
<1> QED
    BY <1>2, <1>3, <1>4, <1>5 DEF ClaimInv

\* A debt added to the queue disturbs no claim.
LEMMA ClawbackKeepsClaims ==
    ASSUME ClaimInv, NEW r \in Refs, NEW amt \in Nat, AddClawback(r, amt),
           UNCHANGED <<payment, today, generation>>
    PROVE  /\ ClaimInv'
           /\ \A k \in DOMAIN clawback : clawback'[k] = clawback[k]
<1>0. RowsShaped /\ UnclaimedUntilCommit /\ TakenFromTheFront /\ ClawbackQueueHolds
    BY DEF ClaimInv
<1>1. /\ clawback' \in Seq(Clawback)
      /\ TakenFromTheFront'
      /\ ClawbackQueueHolds'
    <2>1. CASE amt > 0
        BY <2>1, AppendKeepsQueue
    <2>2. CASE ~(amt > 0)
        BY <1>0, <2>2 DEF AddClawback, RowsShaped, TakenFromTheFront, ClawbackQueueHolds,
                          InGeneration
    <2> QED
        BY <2>1, <2>2
<1>2. RowsShaped'
    BY <1>0, <1>1 DEF RowsShaped, GenerationShape
<1>3. UnclaimedUntilCommit'
    BY <1>0 DEF UnclaimedUntilCommit, InGeneration, Successful
<1>4. \A k \in DOMAIN clawback : clawback'[k] = clawback[k]
    BY <1>0 DEF AddClawback, RowsShaped
<1> QED
    BY <1>1, <1>2, <1>3, <1>4 DEF ClaimInv

\* What a step does to the rows that claims live in: a step of Settlements or none, a
\* refund recorded on a payment, a debt added to the queue, or an invoice's status.
LEMMA StepOnRows ==
    ASSUME DisputeInv, [DisputeNext]_disputeVars
    PROVE  \/ [SettlementNext]_settlementVars
           \/ \E r \in Refs, amt \in Nat :
                /\ payment' = [payment EXCEPT ![r].refunded = @ + amt]
                /\ UNCHANGED <<today, clawback, generation>>
           \/ \E r \in Refs, amt \in Nat :
                AddClawback(r, amt) /\ UNCHANGED <<payment, today, generation>>
           \/ UNCHANGED <<payment, today, clawback, generation>>
<1> USE DEF DisputeInv, RequestShaped
<1>1. ASSUME NEW d \in Cases, NEW i \in Invoices, CreateDispute(d, i)
      PROVE  UNCHANGED settlementVars
    BY <1>1 DEF CreateDispute
<1>2. ASSUME NEW v \in Resolvers, NEW d \in Cases, NEW to \in DisputeStatus,
             StartResolve(v, d, to)
      PROVE  UNCHANGED settlementVars
    BY <1>2 DEF StartResolve
<1>3. ASSUME NEW v \in Resolvers, NEW r \in Refs, NEW amt \in Refunds, LoadPayment(v, r, amt)
      PROVE  UNCHANGED settlementVars
    BY <1>3 DEF LoadPayment
<1>4. ASSUME NEW v \in Resolvers,
             \/ Investigate(v) \/ RefundTransaction(v) \/ Refused(v) \/ Tally(v) \/ Close(v)
             \/ StopHalfWay(v) \/ SkipInvoice(v) \/ AnswerLost(v)
      PROVE  UNCHANGED settlementVars
    BY <1>4 DEF Investigate, RefundTransaction, Refused, Tally, Close, StopHalfWay,
                SkipInvoice, AnswerLost
<1>5. ASSUME NEW v \in Resolvers, AddPaymentRefund(v)
      PROVE  \E r \in Refs, amt \in Nat :
                /\ payment' = [payment EXCEPT ![r].refunded = @ + amt]
                /\ UNCHANGED <<today, clawback, generation>>
    <2>1. request[v].ref \in Refs /\ request[v].amount \in Nat
        BY <1>5 DEF AddPaymentRefund, At, Request, Successful
    <2>2. /\ payment' = [payment EXCEPT ![request[v].ref].refunded = @ + request[v].amount]
          /\ UNCHANGED <<today, clawback, generation>>
        BY <1>5 DEF AddPaymentRefund
    <2> QED
        BY <2>1, <2>2
<1>6. ASSUME NEW v \in Resolvers, CreateSettlementClawback(v)
      PROVE  \E r \in Refs, amt \in Nat :
                AddClawback(r, amt) /\ UNCHANGED <<payment, today, generation>>
    <2>1. request[v].ref \in Refs /\ request[v].amount \in Nat
        BY <1>6 DEF CreateSettlementClawback, At, Request, Successful
    <2>2. payment[request[v].ref].invoice \in Invoices
        BY <2>1 DEF ClaimInv, RowsShaped, PaymentRow
    <2>3. MerchantShare(payment[request[v].ref].invoice, request[v].amount) \in Nat
        BY <2>1, <2>2, SharesAdd
    <2> QED
        BY <1>6, <2>1, <2>3 DEF CreateSettlementClawback, ledgerVars
<1>7. ASSUME NEW v \in Resolvers, MarkRefunded(v)
      PROVE  UNCHANGED <<payment, today, clawback, generation>>
    BY <1>7 DEF MarkRefunded
<1>8. ASSUME Elsewhere PROVE SettlementNext
    BY <1>8 DEF Elsewhere
<1>9. ASSUME UNCHANGED disputeVars PROVE UNCHANGED settlementVars
    BY <1>9 DEF disputeVars
<1> QED
    BY <1>1, <1>2, <1>3, <1>4, <1>5, <1>6, <1>7, <1>8, <1>9 DEF DisputeNext, Resolve

LEMMA StepKeepsClaimInv ==
    ASSUME DisputeInv, [DisputeNext]_disputeVars
    PROVE  ClaimInv'
<1>1. ClaimInv
    BY DEF DisputeInv
<1>2. CASE [SettlementNext]_settlementVars
    BY <1>1, <1>2, NextClaim
<1>3. CASE \E r \in Refs, amt \in Nat :
              /\ payment' = [payment EXCEPT ![r].refunded = @ + amt]
              /\ UNCHANGED <<today, clawback, generation>>
    BY <1>1, <1>3, RefundKeepsClaims
<1>4. CASE \E r \in Refs, amt \in Nat :
              AddClawback(r, amt) /\ UNCHANGED <<payment, today, generation>>
    BY <1>1, <1>4, ClawbackKeepsClaims
<1>5. CASE UNCHANGED <<payment, today, clawback, generation>>
    BY <1>1, <1>5 DEF ClaimInv, RowsShaped, UnclaimedUntilCommit, TakenFromTheFront,
                      ClawbackQueueHolds, InGeneration, GenerationShape, Successful
<1> QED
    BY <1>2, <1>3, <1>4, <1>5, StepOnRows

\* A payment once made stays one, for that amount and invoice; a step that makes one
\* finds nothing refunded of it.
LEMMA SuccessesStay ==
    ASSUME DisputeInv, [DisputeNext]_disputeVars, NEW r \in Refs
    PROVE  /\ r \in Successful =>
                /\ r \in Successful'
                /\ payment'[r].invoice = payment[r].invoice
                /\ payment'[r].amount = payment[r].amount
           /\ r \notin Successful' => payment'[r].amount = payment[r].amount
<1>0. ClaimInv /\ payment \in [Refs -> PaymentRow]
    BY DEF DisputeInv, ClaimInv, RowsShaped
<1>1. CASE [SettlementNext]_settlementVars
    BY <1>0, <1>1, RowsStay DEF Successful
<1>2. CASE \E q \in Refs, amt \in Nat :
              /\ payment' = [payment EXCEPT ![q].refunded = @ + amt]
              /\ UNCHANGED <<today, clawback, generation>>
    BY <1>0, <1>2 DEF Successful, PaymentRow
<1>3. CASE UNCHANGED payment
    BY <1>3 DEF Successful
<1> QED
    BY <1>1, <1>2, <1>3, StepOnRows

\* Money given back keeps its type.
LEMMA RefundTyped ==
    ASSUME DisputeInv, NEW v \in Resolvers, At(v, "refund"),
           given' = [given EXCEPT ![request[v].case][request[v].ref] = @ + request[v].amount]
    PROVE  /\ request[v].case \in Cases /\ request[v].ref \in Refs /\ request[v].amount \in Nat
           /\ given' \in [Cases -> [Refs -> Nat]]
<1>1. /\ request[v] \in Request /\ request[v].case \in Cases /\ request[v].ref \in Refs
      /\ given \in [Cases -> [Refs -> Nat]]
    BY DEF DisputeInv, RequestShaped, At, Successful
<1>2. request[v].amount \in Nat
    BY <1>1 DEF Request
<1> QED
    BY <1>1, <1>2

LEMMA StepKeepsRequests ==
    ASSUME DisputeInv, [DisputeNext]_disputeVars
    PROVE  RequestShaped'
<1> USE DEF DisputeInv
<1>0. RequestShaped /\ \A r \in Successful : r \in Refs /\ r \in Successful'
    BY SuccessesStay DEF Successful
<1>1. ASSUME NEW d \in Cases, NEW i \in Invoices, CreateDispute(d, i) PROVE RequestShaped'
    <2>1. [NoDispute EXCEPT !.status = "open", !.invoice = i] \in DisputeRow
        BY DEF NoDispute, DisputeRow, DisputeStatus
    <2> QED
        BY <1>0, <1>1, <2>1 DEF CreateDispute, RequestShaped, At
<1>2. ASSUME NEW v \in Resolvers, NEW d \in Cases, NEW to \in DisputeStatus,
             StartResolve(v, d, to)
      PROVE  RequestShaped'
    <2>1. to \in {"investigating", "resolved_refunded", "resolved_denied"}
        <3>1. dispute[d].status \in DisputeStatus \cup {"absent"}
            BY <1>0 DEF RequestShaped, DisputeRow
        <3> QED
            BY <1>2, <3>1 DEF StartResolve, disputeStatusTransitions, DisputeStatus, Resolved
    <2>2. AfterCheck[to] \in {"note", "load", "close"}
        BY <2>1 DEF AfterCheck
    <2> DEFINE q == [NoRequest EXCEPT !.pc = AfterCheck[to], !.case = d, !.to = to]
    <2>3. q \in Request /\ q.pc \in {"note", "load", "close"} /\ q.case \in Cases
        BY <2>2 DEF NoRequest, Request
    <2>4. request' = [request EXCEPT ![v] = q] /\ UNCHANGED <<dispute, given>>
        BY <1>2 DEF StartResolve
    <2> HIDE DEF q
    <2> QED
        BY <1>0, <2>3, <2>4 DEF RequestShaped, At
<1>3. ASSUME NEW v \in Resolvers, NEW r \in Refs, NEW amt \in Refunds, LoadPayment(v, r, amt)
      PROVE  RequestShaped'
    <2>1. AlreadyPaidOut(payment[r]) \in BOOLEAN
        <3>1. payment[r].split \in BOOLEAN
            BY DEF ClaimInv, RowsShaped, PaymentRow
        <3> QED
            BY <3>1 DEF AlreadyPaidOut
    <2> DEFINE paidOut == AlreadyPaidOut(payment[r])
               q == [request[v] EXCEPT !.pc = "refund", !.ref = r, !.amount = amt,
                                       !.paidOut = paidOut]
    <2>2. request' = [request EXCEPT ![v] = q] /\ UNCHANGED <<dispute, given>>
        BY <1>0, <1>3 DEF LoadPayment, RequestShaped
    <2>3. amt \in Nat
        BY AmountsAssumption
    <2> HIDE DEF paidOut
    <2>4. q \in Request /\ q.ref \in Successful /\ q.case \in Cases
        BY <1>0, <1>3, <2>1, <2>3 DEF RequestShaped, Request, paidOut, LoadPayment, SuccessfulOn, At
    <2> HIDE DEF q
    <2> QED
        BY <1>0, <2>2, <2>4 DEF RequestShaped, At
<1>4. ASSUME NEW v \in Resolvers, NEW pc,
             request' = [request EXCEPT ![v].pc = pc],
             pc \in {"record", "claw", "tally", "mark", "close"}, UNCHANGED dispute,
             given' \in [Cases -> [Refs -> Nat]],
             request[v].pc \in {"refund", "record", "claw", "tally", "mark"}
      PROVE  RequestShaped'
    <2> DEFINE q == [request[v] EXCEPT !.pc = pc]
    <2>1. request' = [request EXCEPT ![v] = q]
        BY <1>0, <1>4 DEF RequestShaped
    <2>2. q \in Request /\ q.ref \in Successful /\ q.case \in Cases
        BY <1>0, <1>4 DEF RequestShaped, Request, At
    <2> HIDE DEF q
    <2> QED
        BY <1>0, <1>4, <2>1, <2>2 DEF RequestShaped, At
<1>5. ASSUME NEW v \in Resolvers, Return(v), UNCHANGED dispute, given' \in [Cases -> [Refs -> Nat]]
      PROVE  RequestShaped'
    <2>1. NoRequest \in Request /\ NoRequest.pc = "idle"
        BY DEF NoRequest, Request, DisputeStatus
    <2> QED
        BY <1>0, <1>5, <2>1 DEF Return, RequestShaped, At
<1>6. ASSUME NEW v \in Resolvers,
             RefundTransaction(v) \/ AddPaymentRefund(v) \/ CreateSettlementClawback(v)
             \/ Tally(v) \/ MarkRefunded(v) \/ SkipInvoice(v)
      PROVE  RequestShaped'
    <2>1. /\ request[v].pc \in {"refund", "record", "claw", "tally", "mark"}
          /\ UNCHANGED dispute
        BY <1>6 DEF RefundTransaction, AddPaymentRefund, CreateSettlementClawback, Tally,
                    MarkRefunded, SkipInvoice, At
    <2>2. \E pc \in {"record", "claw", "tally", "mark", "close"} : Goto(v, pc)
        BY <1>6, Zenon DEF RefundTransaction, AddPaymentRefund, CreateSettlementClawback, Tally,
                           MarkRefunded, SkipInvoice
    <2>3. given' \in [Cases -> [Refs -> Nat]]
        <3>1. CASE RefundTransaction(v)
            BY <3>1, RefundTyped DEF RefundTransaction
        <3>2. CASE UNCHANGED given
            BY <1>0, <3>2 DEF RequestShaped
        <3> QED
            BY <1>6, <3>1, <3>2 DEF AddPaymentRefund, CreateSettlementClawback, Tally,
                    MarkRefunded, SkipInvoice
    <2> QED
        BY <1>4, <2>1, <2>2, <2>3 DEF Goto
<1>7. ASSUME NEW v \in Resolvers, Refused(v) \/ StopHalfWay(v) \/ AnswerLost(v)
      PROVE  RequestShaped'
    <2>1. given' \in [Cases -> [Refs -> Nat]]
        <3>1. CASE AnswerLost(v)
            BY <3>1, RefundTyped DEF AnswerLost
        <3>2. CASE UNCHANGED given
            BY <1>0, <3>2 DEF RequestShaped
        <3> QED
            BY <1>7, <3>1, <3>2 DEF Refused, StopHalfWay
    <2> QED
        BY <1>5, <1>7, <2>1 DEF Refused, StopHalfWay, AnswerLost
<1>8. ASSUME NEW v \in Resolvers, Investigate(v) \/ Close(v) PROVE RequestShaped'
    <2>1. dispute' \in [Cases -> DisputeRow]
        <3>1. CASE Investigate(v)
            BY <1>0, <3>1 DEF Investigate, RequestShaped, DisputeRow, DisputeStatus
        <3>2. CASE Close(v)
            <4>1. request[v] \in Request
                BY <1>0 DEF RequestShaped
            <4>2. /\ request[v].to \in DisputeStatus /\ request[v].ref \in Refs \cup {Null}
                  /\ request[v].amount \in Nat
                BY <4>1 DEF Request
            <4>3. dispute' = [dispute EXCEPT ![request[v].case] =
                     [@ EXCEPT !.status = request[v].to, !.ref = request[v].ref,
                               !.amount = request[v].amount]]
                BY <3>2 DEF Close
            <4> QED
                BY <1>0, <4>2, <4>3 DEF RequestShaped, DisputeRow
        <3> QED
            BY <1>8, <3>1, <3>2
    <2>2. Return(v)
        BY <1>8 DEF Investigate, Close
    <2>3. NoRequest \in Request /\ NoRequest.pc = "idle"
        BY DEF NoRequest, Request, DisputeStatus
    <2> QED
        BY <1>0, <1>8, <2>1, <2>2, <2>3 DEF Return, RequestShaped, At, Investigate, Close
<1>9. ASSUME UNCHANGED <<dispute, request, given>> PROVE RequestShaped'
    BY <1>0, <1>9 DEF RequestShaped, At
<1> QED
    BY <1>1, <1>2, <1>3, <1>6, <1>7, <1>8, <1>9
    DEF DisputeNext, Resolve, Elsewhere, disputeVars

\* Claims and requests in progress hang together throughout, for any number of each.
THEOREM DisputeInvariant == DisputeSpec => []DisputeInv
<1>1. DisputeInv /\ [DisputeNext]_disputeVars => DisputeInv'
    BY StepKeepsClaimInv, StepKeepsRequests DEF DisputeInv
<1> QED
    BY <1>1, InitDispute, PTL DEF DisputeSpec

\* MarkPaymentsSettled: a payment is claimed once and for good, a split one never,
\* and an applied clawback stays applied.
THEOREM ClaimsStay == DisputeSpec => ClaimsArePermanent
<1> DEFINE Kept ==
        /\ \A r \in Refs : payment[r].settlement # 0 =>
             payment'[r].settlement = payment[r].settlement
        /\ \A r \in Refs : payment'[r].split => payment'[r].settlement = 0
        /\ \A k \in DOMAIN clawback : clawback[k].applied # 0 => clawback'[k].applied # 0
<1>1. DisputeInv /\ DisputeInv' /\ [DisputeNext]_disputeVars => [Kept]_settlementVars
    <2> SUFFICES ASSUME DisputeInv, DisputeInv', [DisputeNext]_disputeVars PROVE Kept
        OBVIOUS
    <2>0. ClaimInv /\ ClaimInv'
        BY DEF DisputeInv
    <2>1. \A r \in Refs : payment'[r].split => payment'[r].settlement = 0
        BY <2>0 DEF ClaimInv, UnclaimedUntilCommit
    <2>2. CASE [SettlementNext]_settlementVars
        BY <2>0, <2>2, StepKeepsClaims
    <2>3. CASE \E r \in Refs, amt \in Nat :
                  /\ payment' = [payment EXCEPT ![r].refunded = @ + amt]
                  /\ UNCHANGED <<today, clawback, generation>>
        BY <2>0, <2>1, <2>3, RefundKeepsClaims
    <2>4. CASE \E r \in Refs, amt \in Nat :
              AddClawback(r, amt) /\ UNCHANGED <<payment, today, generation>>
        BY <2>0, <2>1, <2>4, ClawbackKeepsClaims
    <2>5. CASE UNCHANGED <<payment, today, clawback, generation>>
        BY <2>1, <2>5
    <2> QED
        BY <2>2, <2>3, <2>4, <2>5, StepOnRows
<1> QED
    BY <1>1, DisputeInvariant, PTL DEF DisputeSpec, ClaimsArePermanent

\* consumeOutstandingClawbacks: clawbacks are worked off in the order they arose,
\* whatever generations and refunds interleave.
THEOREM QueueInOrder == DisputeSpec => []ClawbackQueueHolds
<1>1. DisputeInv => ClawbackQueueHolds
    BY DEF DisputeInv, ClaimInv
<1> QED
    BY <1>1, DisputeInvariant, PTL

-----------------------------------------------------------------------------
(* The books of refunds: sums over payments, requests and the queue.       *)

\* What a request counts for in Unrecorded(r) and in Unbilled.
Recording(q, r) == IF q.pc = "record" /\ q.ref = r THEN q.amount ELSE 0

Billing(q, i) == IF q.pc \in {"record", "claw"} THEN MerchantShare(i, q.amount) ELSE 0

LEMMA UnrecordedMoves ==
    ASSUME DisputeInv, DisputeInv', NEW v \in Resolvers, NEW r,
           request' = [request EXCEPT ![v] = request'[v]]
    PROVE  /\ Unrecorded(r) \in Nat
           /\ Unrecorded(r)' = Unrecorded(r) + Recording(request'[v], r) - Recording(request[v], r)
<1> DEFINE f == [w \in Resolvers |-> request[w].amount]
           e == [w \in Resolvers |-> request'[w].amount]
           S == {w \in Resolvers : request[w].pc = "record" /\ request[w].ref = r}
           T == {w \in Resolvers : request'[w].pc = "record" /\ request'[w].ref = r}
<1>1. /\ \A w \in Resolvers : w # v => request'[w] = request[w]
      /\ \A w \in Resolvers : request[w] \in Request /\ request'[w] \in Request
    BY DEF DisputeInv, RequestShaped
<1>2. /\ \A w \in Resolvers : f[w] \in Nat /\ e[w] \in Nat
      /\ \A w \in Resolvers : w # v => e[w] = f[w]
    BY <1>1 DEF Request
<1>3. S \ {v} = T \ {v} /\ S \in SUBSET Resolvers /\ T \in SUBSET Resolvers
    BY <1>1
<1>4. /\ Recording(request'[v], r) = IF v \in T THEN e[v] ELSE 0
      /\ Recording(request[v], r) = IF v \in S THEN f[v] ELSE 0
    BY DEF Recording
<1>5. Unrecorded(r) = SumFunctionOnSet(f, S) /\ Unrecorded(r)' = SumFunctionOnSet(e, T)
    BY DEF Unrecorded, At
<1> HIDE DEF f, e, S, T
<1>6. SumFunctionOnSet(e, T) = SumFunctionOnSet(f, S)
                + (IF v \in T THEN e[v] ELSE 0) - (IF v \in S THEN f[v] ELSE 0)
    BY <1>2, <1>3, BoundsAssumption, SumReplace
<1>7. SumFunctionOnSet(f, S) \in Nat
    BY <1>2, <1>3, BoundsAssumption, FS_Subset, SumIsNat
<1> QED
    BY <1>4, <1>5, <1>6, <1>7

LEMMA UnrecordedTyped ==
    ASSUME DisputeInv, NEW r
    PROVE  Unrecorded(r) \in Nat
<1> DEFINE f == [w \in Resolvers |-> request[w].amount]
           S == {w \in Resolvers : At(w, "record") /\ request[w].ref = r}
<1>1. /\ \A w \in S : f[w] \in Nat
      /\ IsFiniteSet(S)
    BY BoundsAssumption, FS_Subset DEF DisputeInv, RequestShaped, Request
<1>2. Unrecorded(r) = SumFunctionOnSet(f, S)
    BY DEF Unrecorded, At
<1> HIDE DEF f, S
<1> QED
    BY <1>1, <1>2, SumIsNat

\* The invoice of a request's payment; any invoice while it has none.
LEMMA UnbilledMoves ==
    ASSUME DisputeInv, DisputeInv', [DisputeNext]_disputeVars, NEW v \in Resolvers,
           request' = [request EXCEPT ![v] = request'[v]]
    PROVE  /\ Unbilled \in Nat /\ Unbilled' \in Nat
           /\ Unbilled' = Unbilled
                + Billing(request'[v], payment'[request'[v].ref].invoice)
                - Billing(request[v], payment[request[v].ref].invoice)
<1> DEFINE f == [w \in Resolvers |-> MerchantShare(payment[request[w].ref].invoice, request[w].amount)]
           e == [w \in Resolvers |-> MerchantShare(payment'[request'[w].ref].invoice, request'[w].amount)]
           S == {w \in Resolvers : request[w].pc \in {"record", "claw"}}
           T == {w \in Resolvers : request'[w].pc \in {"record", "claw"}}
<1>1. /\ \A w \in Resolvers : w # v => request'[w] = request[w]
      /\ \A w \in Resolvers : request[w] \in Request /\ request'[w] \in Request
      /\ \A w \in S : request[w].ref \in Successful
      /\ \A w \in T : request'[w].ref \in Successful'
      /\ payment \in [Refs -> PaymentRow] /\ payment' \in [Refs -> PaymentRow]
    BY DEF DisputeInv, RequestShaped, ClaimInv, RowsShaped
<1>2. /\ \A w \in S : f[w] \in Nat
      /\ \A w \in T : e[w] \in Nat
    <2>1. ASSUME NEW w \in S PROVE f[w] \in Nat
        <3>1. payment[request[w].ref].invoice \in Invoices /\ request[w].amount \in Nat
            BY <1>1 DEF Request, Successful, PaymentRow
        <3> QED
            BY <3>1, SharesAdd
    <2>2. ASSUME NEW w \in T PROVE e[w] \in Nat
        <3>1. payment'[request'[w].ref].invoice \in Invoices /\ request'[w].amount \in Nat
            BY <1>1 DEF Request, Successful, PaymentRow
        <3> QED
            BY <3>1, SharesAdd
    <2> QED
        BY <2>1, <2>2
<1>3. S \ {v} = T \ {v} /\ S \in SUBSET Resolvers /\ T \in SUBSET Resolvers
    BY <1>1
<1>4. \A w \in S \ {v} : e[w] = f[w]
    <2>1. \A r \in Successful : r \in Refs /\ payment'[r].invoice = payment[r].invoice
        BY SuccessesStay DEF Successful
    <2> QED
        BY <1>1, <2>1
<1>5. /\ Billing(request'[v], payment'[request'[v].ref].invoice) = IF v \in T THEN e[v] ELSE 0
      /\ Billing(request[v], payment[request[v].ref].invoice) = IF v \in S THEN f[v] ELSE 0
    BY DEF Billing
<1>6. Unbilled = SumFunctionOnSet(f, S) /\ Unbilled' = SumFunctionOnSet(e, T)
    <2>1. /\ S = {w \in Resolvers : At(w, "record") \/ At(w, "claw")}
          /\ T = {w \in Resolvers : At(w, "record") \/ At(w, "claw")}'
        BY DEF At
    <2> HIDE DEF S, T
    <2> QED
        BY <2>1 DEF Unbilled
<1> HIDE DEF f, e, S, T
<1>7. SumFunctionOnSet(e, T) = SumFunctionOnSet(f, S)
                + (IF v \in T THEN e[v] ELSE 0) - (IF v \in S THEN f[v] ELSE 0)
    BY <1>2, <1>3, <1>4, BoundsAssumption, SumReplace
<1>8. SumFunctionOnSet(f, S) \in Nat /\ SumFunctionOnSet(e, T) \in Nat
    BY <1>2, <1>3, BoundsAssumption, FS_Subset, SumIsNat
<1> QED
    BY <1>5, <1>6, <1>7, <1>8

LEMMA UnbilledStays ==
    ASSUME DisputeInv, DisputeInv', [DisputeNext]_disputeVars, UNCHANGED request
    PROVE  Unbilled' = Unbilled /\ Unbilled \in Nat
<1>1. CASE Resolvers = {}
    <2>1. Unbilled = 0 /\ Unbilled' = 0
        BY <1>1, SumEmpty DEF Unbilled
    <2> QED
        BY <2>1
<1>2. ASSUME NEW v \in Resolvers PROVE Unbilled' = Unbilled /\ Unbilled \in Nat
    <2>1. request' = [request EXCEPT ![v] = request'[v]]
        BY DEF DisputeInv, RequestShaped
    <2> DEFINE q == request[v]
    <2>2. Billing(request'[v], payment'[q.ref].invoice) = Billing(q, payment[q.ref].invoice)
        <3>1. q.pc \in {"record", "claw"} => payment'[q.ref].invoice = payment[q.ref].invoice
            BY SuccessesStay DEF DisputeInv, RequestShaped, Successful
        <3> QED
            BY <3>1 DEF Billing
    <2>3. Billing(q, payment[q.ref].invoice) \in Nat
        <3>1. CASE q.pc \in {"record", "claw"}
            <4>1. payment[q.ref].invoice \in Invoices /\ q.amount \in Nat
                BY <3>1 DEF DisputeInv, RequestShaped, Request, Successful, ClaimInv, RowsShaped,
                            PaymentRow
            <4> QED
                BY <3>1, <4>1, SharesAdd DEF Billing
        <3>2. CASE q.pc \notin {"record", "claw"}
            BY <3>2 DEF Billing
        <3> QED
            BY <3>1, <3>2
    <2> QED
        BY <2>1, <2>2, <2>3, UnbilledMoves
<1> QED
    BY <1>1, <1>2

\* Paystack's total over the disputes of a payment.
LEMMA ReturnedTyped ==
    ASSUME DisputeInv, NEW r \in Refs
    PROVE  Returned(r) \in Nat
<1> DEFINE f == [d \in Cases |-> given[d][r]]
<1>1. \A d \in Cases : f[d] \in Nat
    BY DEF DisputeInv, RequestShaped
<1> HIDE DEF f
<1>2. SumFunctionOnSet(f, Cases) \in Nat
    BY <1>1, BoundsAssumption, SumIsNat
<1> QED
    BY <1>2 DEF Returned, f

LEMMA ReturnedMoves ==
    ASSUME DisputeInv, NEW d \in Cases, NEW r \in Refs, NEW amt \in Nat,
           given' = [given EXCEPT ![d][r] = @ + amt], NEW q \in Refs
    PROVE  Returned(q)' = Returned(q) + (IF q = r THEN amt ELSE 0)
<1> DEFINE f == [c \in Cases |-> given[c][q]]
           e == [c \in Cases |-> given'[c][q]]
<1>0. given \in [Cases -> [Refs -> Nat]]
    BY DEF DisputeInv, RequestShaped
<1>1. /\ \A c \in Cases : f[c] \in Nat /\ e[c] \in Nat
      /\ \A c \in Cases \ {d} : e[c] = f[c]
      /\ e[d] = f[d] + (IF q = r THEN amt ELSE 0)
    BY <1>0
<1>2. Returned(q) = SumFunctionOnSet(f, Cases) /\ Returned(q)' = SumFunctionOnSet(e, Cases)
    BY DEF Returned
<1> HIDE DEF f, e
<1>3. SumFunctionOnSet(e, Cases) = SumFunctionOnSet(f, Cases) + e[d] - f[d]
    BY <1>1, BoundsAssumption, SumChange
<1>4. SumFunctionOnSet(f, Cases) \in Nat /\ f[d] \in Nat
    BY <1>1, BoundsAssumption, SumIsNat
<1> QED
    BY <1>1, <1>2, <1>3, <1>4

\* The share of what was given back of payments not yet made is nothing.
LEMMA NothingReturnedYet ==
    ASSUME BooksInv, NEW r \in Refs \ Successful
    PROVE  payment[r].refunded + Unrecorded(r) <= 0 /\ Returned(r) = 0
<1>1. /\ payment[r].amount = 0
      /\ payment[r].refunded + Unrecorded(r) <= Returned(r)
      /\ Returned(r) <= payment[r].amount
    BY DEF BooksInv, BooksNeverAhead
<1>2. payment[r].refunded \in Nat /\ Unrecorded(r) \in Nat /\ Returned(r) \in Nat
    BY UnrecordedTyped, ReturnedTyped DEF BooksInv, DisputeInv, ClaimInv, RowsShaped, PaymentRow
<1> QED
    BY <1>1, <1>2

LEMMA ReturnedSharesStay ==
    ASSUME BooksInv, [DisputeNext]_disputeVars, UNCHANGED given
    PROVE  ReturnedShares' = ReturnedShares /\ ReturnedShares \in Nat
<1> DEFINE f == [r \in Refs |-> MerchantShare(payment[r].invoice, Returned(r))]
           e == [r \in Refs |-> MerchantShare(payment'[r].invoice, Returned(r)')]
<1>0. DisputeInv /\ DisputeInv' /\ payment \in [Refs -> PaymentRow] /\ payment' \in [Refs -> PaymentRow]
    BY StepKeepsClaimInv, StepKeepsRequests DEF BooksInv, DisputeInv, ClaimInv, RowsShaped
<1>1. ASSUME NEW r \in Refs PROVE f[r] \in Nat /\ e[r] = f[r]
    <2>1. Returned(r)' = Returned(r) /\ Returned(r) \in Nat
        BY <1>0, ReturnedTyped DEF Returned
    <2>2. payment[r].invoice \in Invoices /\ payment'[r].invoice \in Invoices
        BY <1>0 DEF PaymentRow
    <2>3. CASE r \in Successful
        BY <1>0, <2>1, <2>2, <2>3, SuccessesStay, SharesAdd
    <2>4. CASE r \notin Successful
        <3>1. Returned(r) = 0
            BY <2>4, NothingReturnedYet
        <3> QED
            BY <2>1, <2>2, <3>1, ShareOfNothing
    <2> QED
        BY <2>3, <2>4
<1>2. ReturnedShares = SumFunctionOnSet(f, Refs) /\ ReturnedShares' = SumFunctionOnSet(e, Refs)
    BY DEF ReturnedShares
<1> HIDE DEF f, e
<1>3. SumFunctionOnSet(e, Refs) = SumFunctionOnSet(f, Refs) /\ SumFunctionOnSet(f, Refs) \in Nat
    BY <1>1, RefsAssumption, SumEqual, SumIsNat
<1> QED
    BY <1>2, <1>3

LEMMA ReturnedSharesGrow ==
    ASSUME DisputeInv, NEW d \in Cases, NEW r \in Refs, NEW amt \in Nat,
           given' = [given EXCEPT ![d][r] = @ + amt], UNCHANGED payment
    PROVE  /\ ReturnedShares \in Nat /\ ReturnedShares' \in Nat
           /\ ReturnedShares + MerchantShare(payment[r].invoice, amt) <= ReturnedShares'
<1> DEFINE f == [q \in Refs |-> MerchantShare(payment[q].invoice, Returned(q))]
           e == [q \in Refs |-> MerchantShare(payment'[q].invoice, Returned(q)')]
<1>0. payment \in [Refs -> PaymentRow]
    BY DEF DisputeInv, ClaimInv, RowsShaped
<1>1. ASSUME NEW q \in Refs
      PROVE  /\ f[q] \in Nat /\ e[q] \in Nat
             /\ q # r => e[q] = f[q]
             /\ q = r => f[q] + MerchantShare(payment[r].invoice, amt) <= e[q]
    <2>1. /\ Returned(q)' = Returned(q) + (IF q = r THEN amt ELSE 0)
          /\ Returned(q) \in Nat /\ payment[q].invoice \in Invoices
        BY <1>0, ReturnedMoves, ReturnedTyped DEF PaymentRow
    <2>2. CASE q = r
        <3>1. Returned(q)' = Returned(q) + amt
            BY <2>1, <2>2
        <3> QED
            BY <2>1, <2>2, <3>1, SharesAdd
    <2>3. CASE q # r
        <3>1. Returned(q)' = Returned(q)
            BY <2>1, <2>3
        <3> QED
            BY <2>1, <2>3, <3>1, SharesAdd
    <2> QED
        BY <2>2, <2>3
<1>2. ReturnedShares = SumFunctionOnSet(f, Refs) /\ ReturnedShares' = SumFunctionOnSet(e, Refs)
    BY DEF ReturnedShares
<1>3. MerchantShare(payment[r].invoice, amt) \in Nat
    BY <1>0, SharesAdd DEF PaymentRow
<1> HIDE DEF f, e
<1>4. /\ SumFunctionOnSet(f, Refs) \in Nat /\ SumFunctionOnSet(e, Refs) \in Nat
      /\ SumFunctionOnSet(e, Refs) = SumFunctionOnSet(f, Refs) + e[r] - f[r]
    <2>1. SumFunctionOnSet(f, Refs) \in Nat /\ SumFunctionOnSet(e, Refs) \in Nat
        BY <1>1, RefsAssumption, SumIsNat
    <2>2. /\ \A x \in Refs : f[x] \in Int
          /\ \A x \in Refs \ {r} : e[x] = f[x]
          /\ e[r] \in Int
        BY <1>1
    <2> QED
        BY <2>1, <2>2, RefsAssumption, SumChange
<1>5. f[r] \in Nat /\ e[r] \in Nat /\ f[r] + MerchantShare(payment[r].invoice, amt) <= e[r]
    BY <1>1
<1> QED
    BY <1>2, <1>3, <1>4, <1>5

\* The queue's debt, a sum over finitely many clawbacks.
LEMMA DebtTyped ==
    ASSUME clawback \in Seq(Clawback), NEW K, K \subseteq DOMAIN clawback
    PROVE  /\ IsFiniteSet(K)
           /\ \A k \in DOMAIN clawback : clawback[k].amount \in Nat
           /\ Debt(K) \in Nat
<1> DEFINE f == [k \in DOMAIN clawback |-> clawback[k].amount]
<1>1. /\ DOMAIN clawback = 1..Len(clawback) /\ Len(clawback) \in Nat
      /\ \A k \in DOMAIN clawback : clawback[k] \in Clawback
    OBVIOUS
<1>2. IsFiniteSet(K)
    <2>1. IsFiniteSet(1..Len(clawback)) /\ K \subseteq 1..Len(clawback)
        BY <1>1, FS_Interval
    <2> QED
        BY <2>1, FS_Subset
<1>3. \A k \in DOMAIN clawback : clawback[k].amount \in Nat
    BY <1>1 DEF Clawback
<1>4. \A k \in K : f[k] \in Nat
    BY <1>3
<1> HIDE DEF f
<1>5. SumFunctionOnSet(f, K) \in Nat
    BY <1>2, <1>4, SumIsNat
<1> QED
    BY <1>2, <1>3, <1>5 DEF Debt, f

LEMMA DebtStays ==
    ASSUME clawback \in Seq(Clawback), NEW K, K \subseteq DOMAIN clawback,
           K \subseteq DOMAIN clawback',
           \A k \in K : clawback'[k].amount = clawback[k].amount
    PROVE  SumFunctionOnSet([k \in DOMAIN clawback' |-> clawback'[k].amount], K) = Debt(K)
<1> DEFINE f == [k \in DOMAIN clawback |-> clawback[k].amount]
           e == [k \in DOMAIN clawback' |-> clawback'[k].amount]
<1>1. IsFiniteSet(K) /\ \A k \in K : e[k] = f[k]
    BY DebtTyped
<1> HIDE DEF f, e
<1>2. SumFunctionOnSet(e, K) = SumFunctionOnSet(f, K)
    BY <1>1, SumEqual
<1> QED
    BY <1>2 DEF Debt, f, e

LEMMA DebtGrows ==
    ASSUME clawback \in Seq(Clawback), NEW r \in Refs, NEW amt \in Nat, amt > 0,
           clawback' = Append(clawback, [ref |-> r, amount |-> amt, applied |-> 0]),
           NEW K, K \subseteq DOMAIN clawback
    PROVE  SumFunctionOnSet([k \in DOMAIN clawback' |-> clawback'[k].amount],
                            K \cup {Len(clawback) + 1}) = Debt(K) + amt
<1> DEFINE n == Len(clawback) + 1
           e == [k \in DOMAIN clawback' |-> clawback'[k].amount]
<1>1. /\ DOMAIN clawback = 1..Len(clawback) /\ Len(clawback) \in Nat
      /\ DOMAIN clawback' = 1..n
      /\ \A k \in DOMAIN clawback : clawback'[k] = clawback[k]
      /\ clawback'[n] = [ref |-> r, amount |-> amt, applied |-> 0]
    <2> DEFINE c == [ref |-> r, amount |-> amt, applied |-> 0]
    <2>1. clawback' = Append(clawback, c) /\ c \in Clawback
        BY MaxSettlementsAssumption DEF Clawback
    <2> HIDE DEF c
    <2>2. /\ DOMAIN clawback = 1..Len(clawback) /\ Len(clawback) \in Nat
          /\ DOMAIN clawback' = 1..n
          /\ \A k \in DOMAIN clawback : clawback'[k] = clawback[k]
          /\ clawback'[n] = c
        BY <2>1
    <2> QED
        BY <2>2 DEF c
<1>2. /\ n \notin K /\ n \in DOMAIN clawback' /\ K \subseteq DOMAIN clawback'
      /\ e[n] = amt
    BY <1>1
<1>3. SumFunctionOnSet(e, K) = Debt(K)
    BY <1>1, <1>2, DebtStays
<1>4. IsFiniteSet(K) /\ \A k \in K \cup {n} : e[k] \in Int
    <2>1. IsFiniteSet(K) /\ \A k \in DOMAIN clawback : clawback[k].amount \in Nat
        BY DebtTyped
    <2>2. \A k \in K : e[k] = clawback[k].amount
        BY <1>1, <1>2
    <2> QED
        BY <1>2, <2>1, <2>2
<1> HIDE DEF e, n
<1>5. SumFunctionOnSet(e, K \cup {n}) = SumFunctionOnSet(e, K) + e[n]
    BY <1>2, <1>4, SumAdd
<1> QED
    BY <1>2, <1>3, <1>5 DEF e, n

LEMMA AllDebtGrows ==
    ASSUME clawback \in Seq(Clawback), NEW r \in Refs, NEW amt \in Nat, AddClawback(r, amt)
    PROVE  Debt(DOMAIN clawback)' = Debt(DOMAIN clawback) + amt
<1>1. CASE amt > 0
    <2>1. clawback' = Append(clawback, [ref |-> r, amount |-> amt, applied |-> 0])
        BY <1>1 DEF AddClawback
    <2>2. DOMAIN clawback' = DOMAIN clawback \cup {Len(clawback) + 1}
        BY <2>1
    <2>3. SumFunctionOnSet([k \in DOMAIN clawback' |-> clawback'[k].amount],
                            DOMAIN clawback \cup {Len(clawback) + 1}) = Debt(DOMAIN clawback) + amt
        BY <1>1, <2>1, DebtGrows
    <2> QED
        BY <2>2, <2>3 DEF Debt
<1>2. CASE amt = 0
    <2>1. Debt(DOMAIN clawback) \in Nat
        BY DebtTyped
    <2>2. clawback' = clawback
        BY <1>2 DEF AddClawback
    <2> QED
        BY <1>2, <2>1, <2>2 DEF Debt
<1> QED
    BY <1>1, <1>2

LEMMA AllDebtStays ==
    ASSUME clawback \in Seq(Clawback), DOMAIN clawback' = DOMAIN clawback,
           \A k \in DOMAIN clawback : clawback'[k].amount = clawback[k].amount
    PROVE  Debt(DOMAIN clawback)' = Debt(DOMAIN clawback)
<1>1. SumFunctionOnSet([k \in DOMAIN clawback' |-> clawback'[k].amount], DOMAIN clawback)
        = Debt(DOMAIN clawback)
    BY DebtStays
<1> QED
    BY <1>1 DEF Debt

-----------------------------------------------------------------------------
LEMMA ReturnedSharesTyped ==
    ASSUME DisputeInv
    PROVE  ReturnedShares \in Nat
<1> DEFINE f == [r \in Refs |-> MerchantShare(payment[r].invoice, Returned(r))]
<1>1. \A r \in Refs : f[r] \in Nat
    BY ReturnedTyped, SharesAdd DEF DisputeInv, ClaimInv, RowsShaped, PaymentRow
<1> HIDE DEF f
<1>2. SumFunctionOnSet(f, Refs) \in Nat
    BY <1>1, RefsAssumption, SumIsNat
<1> QED
    BY <1>2 DEF ReturnedShares, f

LEMMA UnbilledTyped ==
    ASSUME DisputeInv
    PROVE  Unbilled \in Nat
<1> DEFINE f == [w \in Resolvers |-> MerchantShare(payment[request[w].ref].invoice, request[w].amount)]
           S == {w \in Resolvers : At(w, "record") \/ At(w, "claw")}
<1>1. ASSUME NEW w \in S PROVE f[w] \in Nat
    <2>1. payment[request[w].ref].invoice \in Invoices /\ request[w].amount \in Nat
        BY DEF DisputeInv, RequestShaped, At, Request, Successful, ClaimInv, RowsShaped, PaymentRow
    <2> QED
        BY <2>1, SharesAdd
<1>2. IsFiniteSet(S)
    BY BoundsAssumption, FS_Subset
<1> HIDE DEF f, S
<1>3. SumFunctionOnSet(f, S) \in Nat
    BY <1>1, <1>2, SumIsNat
<1> QED
    BY <1>3 DEF Unbilled, f, S

LEMMA InitBooks == DisputeInit => BooksInv
<1> SUFFICES ASSUME DisputeInit PROVE BooksInv
    OBVIOUS
<1>1. DisputeInv
    BY InitDispute
<1>2. /\ \A r \in Refs : payment[r] = NoRow
      /\ \A v \in Resolvers : request[v] = NoRequest
      /\ \A d \in Cases, r \in Refs : given[d][r] = 0
      /\ clawback = << >>
    BY DEF DisputeInit, SettlementInit
<1>3. \A r \in Refs : payment[r].amount = 0 /\ payment[r].refunded = 0
    <2>1. NoRow.amount = 0 /\ NoRow.refunded = 0
        BY DEF NoRow
    <2> QED
        BY <1>2, <2>1
<1>4. \A v \in Resolvers : ~At(v, "record") /\ ~At(v, "claw")
    BY <1>2 DEF At, NoRequest
<1>5. ASSUME NEW r PROVE Unrecorded(r) = 0
    <2>1. {v \in Resolvers : At(v, "record") /\ request[v].ref = r} = {}
        BY <1>4
    <2> QED
        BY <2>1, SumEmpty DEF Unrecorded
<1>6. Unbilled = 0
    <2>1. {v \in Resolvers : At(v, "record") \/ At(v, "claw")} = {}
        BY <1>4
    <2> QED
        BY <2>1, SumEmpty DEF Unbilled
<1>7. ASSUME NEW r \in Refs PROVE Returned(r) = 0
    <2> DEFINE f == [d \in Cases |-> given[d][r]]
    <2>1. \A d \in Cases : f[d] = 0
        BY <1>2
    <2> HIDE DEF f
    <2>2. SumFunctionOnSet(f, Cases) = 0
        BY <2>1, BoundsAssumption, SumOfZeros
    <2> QED
        BY <2>2 DEF Returned, f
<1>8. Debt(DOMAIN clawback) = 0
    <2>1. DOMAIN clawback = {}
        BY <1>2
    <2> QED
        BY <2>1, SumEmpty DEF Debt
<1>9. ReturnedShares \in Nat
    BY <1>1, ReturnedSharesTyped
<1> QED
    BY <1>1, <1>3, <1>5, <1>6, <1>7, <1>8, <1>9 DEF BooksInv, BooksNeverAhead

\* What BooksInv says of the sums, with their types.
LEMMA BooksTyped ==
    ASSUME BooksInv
    PROVE  /\ DisputeInv /\ clawback \in Seq(Clawback) /\ payment \in [Refs -> PaymentRow]
           /\ \A r \in Refs :
                /\ payment[r].refunded \in Nat /\ payment[r].amount \in Nat
                /\ payment[r].invoice \in Invoices
                /\ Unrecorded(r) \in Nat /\ Returned(r) \in Nat
                /\ payment[r].refunded + Unrecorded(r) <= Returned(r)
                /\ Returned(r) <= payment[r].amount
           /\ Debt(DOMAIN clawback) \in Nat
           /\ Debt(DOMAIN clawback) + Unbilled <= ReturnedShares
<1>1. DisputeInv /\ clawback \in Seq(Clawback) /\ payment \in [Refs -> PaymentRow]
    BY DEF BooksInv, DisputeInv, ClaimInv, RowsShaped
<1>2. Debt(DOMAIN clawback) \in Nat
    BY <1>1, DebtTyped
<1>3. \A r \in Refs : Unrecorded(r) \in Nat /\ Returned(r) \in Nat
    BY <1>1, UnrecordedTyped, ReturnedTyped
<1>4. \A r \in Refs : /\ payment[r].refunded \in Nat /\ payment[r].amount \in Nat
                      /\ payment[r].invoice \in Invoices
    BY <1>1 DEF PaymentRow
<1>5. /\ \A r \in Refs : /\ payment[r].refunded + Unrecorded(r) <= Returned(r)
                         /\ Returned(r) <= payment[r].amount
      /\ Debt(DOMAIN clawback) + Unbilled <= ReturnedShares
    BY DEF BooksInv, BooksNeverAhead
<1> QED
    BY <1>1, <1>2, <1>3, <1>4, <1>5

LEMMA StepKeepsDisputeInv == DisputeInv /\ [DisputeNext]_disputeVars => DisputeInv'
BY StepKeepsClaimInv, StepKeepsRequests DEF DisputeInv

\* Payments yet to be made have no amount after a step either.
LEMMA AbsentStayEmpty ==
    ASSUME BooksInv, [DisputeNext]_disputeVars
    PROVE  \A r \in Refs \ Successful' : payment'[r].amount = 0
<1> SUFFICES ASSUME NEW r \in Refs \ Successful' PROVE payment'[r].amount = 0
    OBVIOUS
<1>1. r \notin Successful /\ payment'[r].amount = payment[r].amount
    BY SuccessesStay DEF BooksInv
<1> QED
    BY <1>1 DEF BooksInv

\* Customers, generations and reviews move no money back.
LEMMA BooksStay ==
    ASSUME BooksInv, [DisputeNext]_disputeVars, [SettlementNext]_settlementVars,
           UNCHANGED <<request, given>>
    PROVE  BooksInv'
<1>1. DisputeInv /\ DisputeInv' /\ ClaimInv
    BY StepKeepsDisputeInv DEF BooksInv, DisputeInv
<1>2. Unbilled' = Unbilled /\ Unbilled \in Nat
    BY <1>1, UnbilledStays
<1>3. ReturnedShares' = ReturnedShares
    BY ReturnedSharesStay
<1>4. Debt(DOMAIN clawback)' = Debt(DOMAIN clawback)
    BY <1>1, RowsStay, AllDebtStays DEF ClaimInv, RowsShaped
<1>5. ASSUME NEW r \in Refs
      PROVE  /\ payment'[r].refunded + Unrecorded(r)' <= Returned(r)'
             /\ Returned(r)' <= payment'[r].amount
    <2>1. Unrecorded(r)' = Unrecorded(r) /\ Returned(r)' = Returned(r)
        BY DEF Unrecorded, Returned, At
    <2>2. CASE payment'[r].refunded = payment[r].refunded /\ payment'[r].amount = payment[r].amount
        BY <2>1, <2>2, BooksTyped
    <2>3. CASE r \notin Successful /\ payment'[r].refunded = 0
        <3>1. payment[r].refunded + Unrecorded(r) <= 0 /\ Returned(r) = 0
            BY <2>3, NothingReturnedYet
        <3>2. payment[r].refunded \in Nat /\ Unrecorded(r) \in Nat
            BY BooksTyped
        <3>3. payment'[r].amount \in Nat
            BY <1>1 DEF DisputeInv, ClaimInv, RowsShaped, PaymentRow
        <3> QED
            BY <2>1, <2>3, <3>1, <3>2, <3>3
    <2> QED
        BY <1>1, <2>2, <2>3, RowsStay
<1> QED
    BY <1>1, <1>2, <1>3, <1>4, <1>5, AbsentStayEmpty, BooksTyped DEF BooksInv, BooksNeverAhead

LEMMA BillingTyped ==
    ASSUME DisputeInv, NEW v \in Resolvers
    PROVE  /\ Billing(request[v], payment[request[v].ref].invoice) \in Nat
           /\ request[v].amount \in Nat
           /\ request[v].pc \in {"refund", "record", "claw"} =>
                /\ request[v].ref \in Refs
                /\ payment[request[v].ref].invoice \in Invoices
<1> DEFINE q == request[v]
<1>1. /\ q.amount \in Nat
      /\ q.pc \in {"refund", "record", "claw"} => q.ref \in Refs /\ payment[q.ref].invoice \in Invoices
    BY DEF DisputeInv, RequestShaped, Request, Successful, ClaimInv, RowsShaped, PaymentRow
<1>2. CASE q.pc \in {"record", "claw"}
    BY <1>1, <1>2, SharesAdd DEF Billing
<1>3. CASE q.pc \notin {"record", "claw"}
    BY <1>1, <1>3 DEF Billing
<1> QED
    BY <1>1, <1>2, <1>3

\* A statement of a request that moves no money: what it has to record or to charge can
\* only be dropped.
LEMMA BooksDrop ==
    ASSUME BooksInv, [DisputeNext]_disputeVars, NEW v \in Resolvers,
           request' = [request EXCEPT ![v] = request'[v]],
           request'[v].pc \notin {"record", "claw"},
           UNCHANGED <<payment, clawback, given>>
    PROVE  BooksInv'
<1>1. DisputeInv /\ DisputeInv'
    BY StepKeepsDisputeInv DEF BooksInv
<1>2. Unbilled' <= Unbilled /\ Unbilled \in Nat /\ Unbilled' \in Nat
    <2>1. Billing(request'[v], payment'[request'[v].ref].invoice) = 0
        BY DEF Billing
    <2>2. Billing(request[v], payment[request[v].ref].invoice) \in Nat
        BY <1>1, BillingTyped
    <2> QED
        BY <1>1, <2>1, <2>2, UnbilledMoves
<1>3. ReturnedShares' = ReturnedShares /\ ReturnedShares \in Nat
    BY ReturnedSharesStay
<1>4. Debt(DOMAIN clawback)' = Debt(DOMAIN clawback)
    BY DEF Debt
<1>5. ASSUME NEW r \in Refs
      PROVE  /\ payment'[r].refunded + Unrecorded(r)' <= Returned(r)'
             /\ Returned(r)' <= payment'[r].amount
    <2>1. Returned(r)' = Returned(r)
        BY DEF Returned
    <2>2. Recording(request'[v], r) = 0 /\ Recording(request[v], r) \in Nat
        BY <1>1 DEF Recording, DisputeInv, RequestShaped, Request
    <2>3. Unrecorded(r)' = Unrecorded(r) + Recording(request'[v], r) - Recording(request[v], r)
        BY <1>1, UnrecordedMoves
    <2>4. Unrecorded(r) \in Nat /\ payment[r].refunded \in Nat /\ Returned(r) \in Nat
          /\ payment[r].refunded + Unrecorded(r) <= Returned(r) /\ Returned(r) <= payment[r].amount
        BY BooksTyped
    <2> QED
        BY <2>1, <2>2, <2>3, <2>4
<1>6. Debt(DOMAIN clawback)' + Unbilled' <= ReturnedShares'
    BY <1>2, <1>3, <1>4, BooksTyped
<1> QED
    BY <1>1, <1>5, <1>6, AbsentStayEmpty DEF BooksInv, BooksNeverAhead

Refunding(q, d, x, amt) == q.case = d /\ q.ref = x /\ q.amount = amt

\* Paystack gives money back, and the request goes on to record it unless the answer is lost.
LEMMA BooksRefund ==
    ASSUME BooksInv, [DisputeNext]_disputeVars, NEW v \in Resolvers, At(v, "refund"),
           NEW d \in Cases, NEW x \in Refs, NEW amt \in Nat, Refunding(request[v], d, x, amt),
           Returned(x) + amt <= payment[x].amount,
           given' = [given EXCEPT ![d][x] = @ + amt],
           request' = [request EXCEPT ![v] = request'[v]],
           \/ request'[v] = [request[v] EXCEPT !.pc = "record"]
           \/ request'[v].pc \notin {"record", "claw"},
           UNCHANGED <<payment, clawback>>
    PROVE  BooksInv'
<1> DEFINE q == request[v]
           share == MerchantShare(payment[x].invoice, amt)
<1>1. DisputeInv /\ DisputeInv'
    BY StepKeepsDisputeInv DEF BooksInv
<1>2. /\ payment[x].invoice \in Invoices /\ q.pc = "refund" /\ share \in Nat
      /\ q \in Request
    BY <1>1, BillingTyped, SharesAdd DEF Refunding, At, DisputeInv, RequestShaped
<1>3. Unbilled' <= Unbilled + share /\ Unbilled \in Nat /\ Unbilled' \in Nat
    <2>1. Billing(q, payment[q.ref].invoice) = 0
        BY <1>2 DEF Billing
    <2>2. Billing(request'[v], payment'[request'[v].ref].invoice) \in {0, share}
        BY <1>2 DEF Billing, Request, Refunding
    <2>3. /\ Unbilled \in Nat /\ Unbilled' \in Nat
          /\ Unbilled' = Unbilled
                + Billing(request'[v], payment'[request'[v].ref].invoice)
                - Billing(request[v], payment[request[v].ref].invoice)
        BY <1>1, UnbilledMoves
    <2> HIDE DEF share
    <2> QED
        BY <1>2, <2>1, <2>2, <2>3
<1>4. /\ ReturnedShares + share <= ReturnedShares'
      /\ ReturnedShares \in Nat /\ ReturnedShares' \in Nat
    BY <1>1, <1>2, ReturnedSharesGrow
<1>5. Debt(DOMAIN clawback)' = Debt(DOMAIN clawback)
    BY DEF Debt
<1>6. ASSUME NEW r \in Refs
      PROVE  /\ payment'[r].refunded + Unrecorded(r)' <= Returned(r)'
             /\ Returned(r)' <= payment'[r].amount
    <2> DEFINE more == IF r = x THEN amt ELSE 0
    <2>1. Returned(r)' = Returned(r) + more
        <3>1. /\ d \in Cases /\ x \in Refs /\ amt \in Nat
              /\ given' = [given EXCEPT ![d][x] = @ + amt]
            OBVIOUS
        <3> QED
            BY ONLY <1>1, <1>6, <3>1, ReturnedMoves
    <2>2. Recording(request'[v], r) \in {0, more} /\ Recording(q, r) = 0
        BY <1>2 DEF Recording, Request, Refunding
    <2>3. Unrecorded(r)' = Unrecorded(r) + Recording(request'[v], r) - Recording(q, r)
        BY <1>1, UnrecordedMoves
    <2>4. /\ Unrecorded(r) \in Nat /\ payment[r].refunded \in Nat /\ Returned(r) \in Nat
          /\ payment[r].amount \in Nat
          /\ payment[r].refunded + Unrecorded(r) <= Returned(r) /\ Returned(r) <= payment[r].amount
        BY BooksTyped
    <2>5. more \in Nat /\ Returned(r) + more <= payment[r].amount
        BY <1>2, <2>4
    <2> HIDE DEF more
    <2> QED
        BY <2>1, <2>2, <2>3, <2>4, <2>5
<1> HIDE DEF share
<1>7. Debt(DOMAIN clawback)' + Unbilled' <= ReturnedShares'
    BY <1>2, <1>3, <1>4, <1>5, BooksTyped
<1> QED
    BY <1>1, <1>6, <1>7, AbsentStayEmpty DEF BooksInv, BooksNeverAhead

\* AddPaymentRefund records what Paystack has already given back.
LEMMA BooksRecord ==
    ASSUME BooksInv, [DisputeNext]_disputeVars, NEW v \in Resolvers, AddPaymentRefund(v)
    PROVE  BooksInv'
<1> DEFINE q == request[v]
<1>1. DisputeInv /\ DisputeInv'
    BY StepKeepsDisputeInv DEF BooksInv
<1>2. /\ q.ref \in Refs /\ q.amount \in Nat /\ q.pc = "record" /\ q \in Request
      /\ Billing(q, payment[q.ref].invoice) \in Nat
    BY <1>1, BillingTyped DEF AddPaymentRefund, At, DisputeInv, RequestShaped
<1>3. /\ payment' = [payment EXCEPT ![q.ref].refunded = @ + q.amount]
      /\ UNCHANGED <<clawback, given>>
      /\ request' = [request EXCEPT ![v] = request'[v]]
      /\ request'[v] \in {[q EXCEPT !.pc = "claw"], [q EXCEPT !.pc = "tally"]}
    BY <1>1 DEF AddPaymentRefund, Goto, DisputeInv, RequestShaped
<1>4. \A r \in Refs : /\ payment'[r].invoice = payment[r].invoice
                      /\ payment'[r].amount = payment[r].amount
                      /\ payment'[r].refunded =
                            payment[r].refunded + (IF r = q.ref THEN q.amount ELSE 0)
    <2> SUFFICES ASSUME NEW r \in Refs
                 PROVE  /\ payment'[r].invoice = payment[r].invoice
                        /\ payment'[r].amount = payment[r].amount
                        /\ payment'[r].refunded =
                              payment[r].refunded + (IF r = q.ref THEN q.amount ELSE 0)
        OBVIOUS
    <2>1. payment \in [Refs -> PaymentRow] /\ payment[r] \in PaymentRow
        BY BooksTyped
    <2>2. CASE r = q.ref
        <3>1. payment'[r] = [payment[r] EXCEPT !.refunded = @ + q.amount]
            BY <1>3, <2>1, <2>2
        <3> HIDE DEF q
        <3> QED
            BY <2>1, <2>2, <3>1 DEF PaymentRow
    <2>3. CASE r # q.ref
        <3>1. payment'[r] = payment[r]
            BY <1>3, <2>1, <2>3
        <3>2. payment[r].refunded \in Nat
            BY <2>1 DEF PaymentRow
        <3> HIDE DEF q
        <3> QED
            BY <2>3, <3>1, <3>2
    <2> QED
        BY <2>2, <2>3
<1>5. Unbilled' <= Unbilled /\ Unbilled \in Nat /\ Unbilled' \in Nat
    <2>1. Billing(request'[v], payment'[request'[v].ref].invoice) \in {0, Billing(q, payment[q.ref].invoice)}
        BY <1>2, <1>3, <1>4 DEF Billing, Request
    <2> QED
        BY <1>1, <1>2, <1>3, <2>1, UnbilledMoves
<1>6. ReturnedShares' = ReturnedShares /\ ReturnedShares \in Nat
    BY <1>3, ReturnedSharesStay
<1>7. Debt(DOMAIN clawback)' = Debt(DOMAIN clawback)
    BY <1>3 DEF Debt
<1>8. ASSUME NEW r \in Refs
      PROVE  /\ payment'[r].refunded + Unrecorded(r)' <= Returned(r)'
             /\ Returned(r)' <= payment'[r].amount
    <2> DEFINE more == IF r = q.ref THEN q.amount ELSE 0
    <2>1. Returned(r)' = Returned(r)
        BY <1>3 DEF Returned
    <2>2. Recording(request'[v], r) = 0 /\ Recording(q, r) = more
        BY <1>2, <1>3 DEF Recording, Request
    <2>3. Unrecorded(r)' = Unrecorded(r) + Recording(request'[v], r) - Recording(q, r)
        BY <1>1, <1>3, UnrecordedMoves
    <2>4. /\ Unrecorded(r) \in Nat /\ payment[r].refunded \in Nat /\ Returned(r) \in Nat
          /\ payment[r].refunded + Unrecorded(r) <= Returned(r) /\ Returned(r) <= payment[r].amount
        BY BooksTyped
    <2>5. more \in Nat /\ payment'[r].refunded = payment[r].refunded + more
        BY <1>2, <1>4
    <2>6. payment'[r].amount = payment[r].amount
        BY <1>4
    <2> HIDE DEF more
    <2> QED
        BY <2>1, <2>2, <2>3, <2>4, <2>5, <2>6
<1>9. Debt(DOMAIN clawback)' + Unbilled' <= ReturnedShares'
    BY <1>5, <1>6, <1>7, BooksTyped
<1> QED
    BY <1>1, <1>8, <1>9, AbsentStayEmpty DEF BooksInv, BooksNeverAhead

\* CreateSettlementClawback turns what a request has to charge into debt.
LEMMA BooksClaw ==
    ASSUME BooksInv, [DisputeNext]_disputeVars, NEW v \in Resolvers, CreateSettlementClawback(v)
    PROVE  BooksInv'
<1> DEFINE q == request[v]
           share == MerchantShare(payment[q.ref].invoice, q.amount)
<1>1. DisputeInv /\ DisputeInv'
    BY StepKeepsDisputeInv DEF BooksInv
<1>2. /\ q.pc = "claw" /\ q \in Request /\ q.amount \in Nat /\ q.ref \in Refs
      /\ payment[q.ref].invoice \in Invoices /\ share \in Nat
    BY <1>1, BillingTyped, SharesAdd DEF CreateSettlementClawback, At, DisputeInv, RequestShaped,
                                            Successful
<1>3. /\ AddClawback(q.ref, share)
      /\ UNCHANGED <<payment, given>>
      /\ request' = [request EXCEPT ![v] = request'[v]]
      /\ request'[v] = [q EXCEPT !.pc = "tally"]
    BY <1>1 DEF CreateSettlementClawback, ledgerVars, Goto, DisputeInv, RequestShaped
<1>4. Unbilled' = Unbilled - share /\ Unbilled \in Nat /\ Unbilled' \in Nat
    <2>1. Billing(request'[v], payment'[request'[v].ref].invoice) = 0
        BY <1>2, <1>3 DEF Billing, Request
    <2>2. Billing(q, payment[q.ref].invoice) = share
        BY <1>2 DEF Billing
    <2>3. /\ Unbilled \in Nat /\ Unbilled' \in Nat
          /\ Unbilled' = Unbilled
                + Billing(request'[v], payment'[request'[v].ref].invoice)
                - Billing(request[v], payment[request[v].ref].invoice)
        BY <1>1, <1>3, UnbilledMoves
    <2> HIDE DEF share
    <2> QED
        BY <1>2, <2>1, <2>2, <2>3
<1>5. ReturnedShares' = ReturnedShares
    BY <1>3, ReturnedSharesStay
<1>6. Debt(DOMAIN clawback)' = Debt(DOMAIN clawback) + share
    BY <1>2, <1>3, AllDebtGrows, BooksTyped
<1>7. ASSUME NEW r \in Refs
      PROVE  /\ payment'[r].refunded + Unrecorded(r)' <= Returned(r)'
             /\ Returned(r)' <= payment'[r].amount
    <2>1. Returned(r)' = Returned(r)
        BY <1>3 DEF Returned
    <2>2. Recording(request'[v], r) = 0 /\ Recording(q, r) = 0
        BY <1>2, <1>3 DEF Recording, Request
    <2>3. Unrecorded(r)' = Unrecorded(r) + Recording(request'[v], r) - Recording(q, r)
        BY <1>1, <1>3, UnrecordedMoves
    <2>4. /\ Unrecorded(r) \in Nat /\ payment[r].refunded \in Nat /\ Returned(r) \in Nat
          /\ payment[r].refunded + Unrecorded(r) <= Returned(r) /\ Returned(r) <= payment[r].amount
        BY BooksTyped
    <2> QED
        BY <1>3, <2>1, <2>2, <2>3, <2>4
<1> HIDE DEF share
<1>8. Debt(DOMAIN clawback)' + Unbilled' <= ReturnedShares'
    BY <1>2, <1>4, <1>5, <1>6, BooksTyped
<1> QED
    BY <1>1, <1>7, <1>8, AbsentStayEmpty DEF BooksInv, BooksNeverAhead

LEMMA NextBooks ==
    ASSUME BooksInv, [DisputeNext]_disputeVars
    PROVE  BooksInv'
<1>0. DisputeInv /\ request \in [Resolvers -> Request]
    BY DEF BooksInv, DisputeInv, RequestShaped
<1>1. CASE [SettlementNext]_settlementVars /\ UNCHANGED <<request, given>>
    BY <1>1, BooksStay
<1>2. ASSUME NEW v \in Resolvers,
             request' = [request EXCEPT ![v] = request'[v]],
             request'[v].pc \notin {"record", "claw"},
             UNCHANGED <<payment, clawback, given>>
      PROVE  BooksInv'
    BY <1>2, BooksDrop
<1>3. ASSUME NEW v \in Resolvers, Return(v)
      PROVE  request' = [request EXCEPT ![v] = request'[v]] /\ request'[v].pc = "idle"
    BY <1>0, <1>3 DEF Return, NoRequest
<1>4. ASSUME NEW v \in Resolvers, NEW pc, Goto(v, pc)
      PROVE  /\ request' = [request EXCEPT ![v] = request'[v]]
             /\ request'[v] = [request[v] EXCEPT !.pc = pc]
             /\ request'[v].pc = pc
    BY <1>0, <1>4 DEF Goto, Request
<1>5. ASSUME NEW v \in Resolvers,
             Investigate(v) \/ Refused(v) \/ Close(v) \/ StopHalfWay(v)
      PROVE  BooksInv'
    <2>1. Return(v) /\ UNCHANGED <<payment, clawback, given>>
        BY <1>5 DEF Investigate, Refused, Close, StopHalfWay, settlementVars, ledgerVars
    <2> QED
        BY <1>2, <1>3, <2>1
<1>6. ASSUME NEW v \in Resolvers, Tally(v) \/ MarkRefunded(v) \/ SkipInvoice(v)
      PROVE  BooksInv'
    <2>0. \E pc \in {"mark", "close"} : Goto(v, pc)
        BY <1>6, Zenon DEF Tally, MarkRefunded, SkipInvoice
    <2>1. /\ Goto(v, "mark") \/ Goto(v, "close")
          /\ UNCHANGED <<payment, clawback, given>>
        BY <1>6, <2>0 DEF Tally, MarkRefunded, SkipInvoice, settlementVars, ledgerVars
    <2>2. /\ request' = [request EXCEPT ![v] = request'[v]]
          /\ request'[v].pc \notin {"record", "claw"}
        <3>1. ASSUME NEW pc, Goto(v, pc), pc \in {"mark", "close"}
              PROVE  /\ request' = [request EXCEPT ![v] = request'[v]]
                     /\ request'[v].pc \notin {"record", "claw"}
            BY <1>4, <3>1
        <3> QED
            BY <2>0, <3>1
    <2> QED
        BY <1>2, <2>1, <2>2
<1>7. ASSUME NEW v \in Resolvers, RefundTransaction(v) \/ AnswerLost(v) PROVE BooksInv'
    <2>1. /\ At(v, "refund")
          /\ Returned(request[v].ref) + request[v].amount <= payment[request[v].ref].amount
          /\ given' = [given EXCEPT ![request[v].case][request[v].ref] = @ + request[v].amount]
          /\ UNCHANGED <<payment, clawback>>
          /\ Goto(v, "record") \/ Return(v)
        BY <1>7 DEF RefundTransaction, AnswerLost, settlementVars, ledgerVars
    <2>2. /\ request' = [request EXCEPT ![v] = request'[v]]
          /\ \/ request'[v] = [request[v] EXCEPT !.pc = "record"]
             \/ request'[v].pc \notin {"record", "claw"}
        BY <1>3, <1>4, <2>1
    <2>3. request[v].case \in Cases /\ request[v].ref \in Refs /\ request[v].amount \in Nat
        BY <1>0, <2>1, BillingTyped DEF DisputeInv, RequestShaped, At
    <2> QED
        BY <2>1, <2>2, <2>3, BooksRefund DEF Refunding
<1>8. ASSUME NEW v \in Resolvers, NEW d \in Cases, NEW to \in DisputeStatus,
             StartResolve(v, d, to)
      PROVE  BooksInv'
    <2>1. /\ to \in {"investigating", "resolved_refunded", "resolved_denied"}
          /\ request' = [request EXCEPT ![v] =
                [NoRequest EXCEPT !.pc = AfterCheck[to], !.case = d, !.to = to]]
          /\ UNCHANGED <<payment, clawback, given>>
        <3>1. dispute[d].status \in DisputeStatus \cup {"absent"}
            BY <1>0 DEF DisputeInv, RequestShaped, DisputeRow
        <3> QED
            BY <1>8, <3>1 DEF StartResolve, disputeStatusTransitions, DisputeStatus, Resolved,
                              settlementVars, ledgerVars
    <2>2. AfterCheck[to] \in {"note", "load", "close"}
        BY <2>1 DEF AfterCheck
    <2>3. /\ request' = [request EXCEPT ![v] = request'[v]]
          /\ request'[v].pc = AfterCheck[to]
        BY <1>0, <2>1 DEF NoRequest
    <2> QED
        BY <1>2, <2>1, <2>2, <2>3
<1>9. ASSUME NEW v \in Resolvers, NEW r \in Refs, NEW amt \in Refunds, LoadPayment(v, r, amt)
      PROVE  BooksInv'
    <2>1. /\ request' = [request EXCEPT ![v].pc = "refund", ![v].ref = r, ![v].amount = amt,
                                        ![v].paidOut = AlreadyPaidOut(payment[r])]
          /\ UNCHANGED <<payment, clawback, given>>
        BY <1>9 DEF LoadPayment, settlementVars, ledgerVars
    <2> DEFINE paidOut == AlreadyPaidOut(payment[r])
    <2> HIDE DEF paidOut
    <2>2. request' = [request EXCEPT ![v].pc = "refund", ![v].ref = r, ![v].amount = amt,
                                     ![v].paidOut = paidOut]
        BY <2>1 DEF paidOut
    <2>3. /\ request' = [request EXCEPT ![v] = request'[v]]
          /\ request'[v].pc = "refund"
        BY <1>0, <2>2 DEF Request
    <2> QED
        BY <1>2, <2>1, <2>3
<1>10. ASSUME NEW d \in Cases, NEW i \in Invoices, CreateDispute(d, i) PROVE BooksInv'
    BY <1>1, <1>10 DEF CreateDispute
<1>11. ASSUME Elsewhere PROVE BooksInv'
    BY <1>1, <1>11 DEF Elsewhere
<1>12. ASSUME UNCHANGED disputeVars PROVE BooksInv'
    BY <1>1, <1>12 DEF disputeVars
<1>13. ASSUME NEW v \in Resolvers, AddPaymentRefund(v) \/ CreateSettlementClawback(v)
       PROVE  BooksInv'
    BY <1>13, BooksRecord, BooksClaw
<1>14. ASSUME NEW v \in Resolvers, Resolve(v) PROVE BooksInv'
    BY <1>5, <1>6, <1>7, <1>8, <1>9, <1>13, <1>14 DEF Resolve
<1> QED
    BY <1>10, <1>11, <1>12, <1>14 DEF DisputeNext

\* The books of refunds, for any number of requests that interleave, stop half way or
\* lose Paystack's answer.
THEOREM BooksInvariant == DisputeSpec => []BooksInv
<1>1. BooksInv /\ [DisputeNext]_disputeVars => BooksInv'
    BY NextBooks
<1> QED
    BY <1>1, InitBooks, PTL DEF DisputeSpec

\* ResolveDispute: the refunded amount of a payment, with the refunds on their way to it,
\* never exceeds what Paystack returned, nor that what the customer paid.
THEOREM RefundsNeverAhead == DisputeSpec => []BooksNeverAhead
<1>1. BooksInv => BooksNeverAhead
    BY DEF BooksInv
<1> QED
    BY <1>1, BooksInvariant, PTL

\* CreateSettlementClawback: all clawbacks together are at most the merchant's share of
\* what Paystack has returned to customers.
THEOREM DebtIsRefunded == DisputeSpec => []DebtWithinRefunds
<1>1. BooksInv => DebtWithinRefunds
    <2> SUFFICES ASSUME BooksInv PROVE DebtWithinRefunds
        OBVIOUS
    <2>1. Unbilled \in Nat
        BY UnbilledTyped DEF BooksInv
    <2>2. ReturnedShares \in Nat
        BY ReturnedSharesTyped DEF BooksInv
    <2> QED
        BY <2>1, <2>2, BooksTyped DEF DebtWithinRefunds
<1> QED
    BY <1>1, BooksInvariant, PTL
=============================================================================
