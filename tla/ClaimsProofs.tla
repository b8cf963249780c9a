---------------------------- MODULE ClaimsProofs ----------------------------
(***************************************************************************)
(* What settlements count, claim and charge back, and what disputes claim  *)
(* of refunds, while any number of generations, status changes and         *)
(* resolutions interleave, stop half way and fail.                         *)
(***************************************************************************)
EXTENDS DisputesProofs

\* The settlements table and the status changes in progress are what they seem.
RowShape(row) ==
    row \in [status : SettlementStatus \cup {"absent"}, clawback : {row.clawback},
             fee : {row.fee}, net : {row.net}, counted : {row.counted}, worth : {row.worth},
             taken : {row.taken}, late : {row.late}, seen : {row.seen}]

RowsNamed ==
    /\ settlement = [s \in Sids |-> settlement[s]]
    /\ \A s \in Sids : RowShape(settlement[s])
    /\ review = [p \in Staff |-> review[p]]
    /\ \A p \in Staff : review[p].pc = "set" =>
         review[p].sid \in Generated /\ review[p].status \in SettlementStatus

\* Settlements keep what they counted and took.
SameSettlements ==
    /\ Generated' = Generated
    /\ \A s \in Generated :
         /\ settlement'[s].counted = settlement[s].counted
         /\ settlement'[s].worth = settlement[s].worth
         /\ settlement'[s].taken = settlement[s].taken
         /\ settlement'[s].late = settlement[s].late
         /\ settlement'[s].seen = settlement[s].seen

\* What claims a row, and what selects it for a claim, stays.
SameClaim(r) ==
    /\ payment'[r].settlement = payment[r].settlement
    /\ payment'[r].split = payment[r].split
    /\ payment'[r].status = payment[r].status
    /\ payment'[r].day = payment[r].day

SameAmounts(r) ==
    /\ payment'[r].invoice = payment[r].invoice
    /\ payment'[r].amount = payment[r].amount
    /\ payment'[r].refunded = payment[r].refunded

\* A payment of the customer's is credited.
Credits(r) ==
    /\ r \notin Successful /\ r \in Successful'
    /\ payment'[r].settlement = 0
    /\ payment'[r].refunded = 0
    /\ payment'[r].split => SplitCharge(payment'[r].invoice, payment'[r].amount) > 0
    /\ \A q \in Refs : q # r => payment'[q] = payment[q]

\* Generation a commits settlement s.
Commits(a, s) ==
    LET g == generation[a] IN
    /\ InGeneration(a, "commit")
    /\ s \in Sids /\ s # 0 /\ s \notin Generated
    /\ Generated' = Generated \cup {s}
    /\ \A t \in Generated : settlement'[t] = settlement[t]
    /\ settlement'[s].counted = g.counted
    /\ settlement'[s].worth = g.worth
    /\ settlement'[s].taken = g.taken
    /\ settlement'[s].late = g.marked \ g.known
    /\ settlement'[s].seen = g.seen
    /\ \A r \in Refs : /\ payment'[r].settlement = IF r \in g.marked THEN s ELSE payment[r].settlement
                       /\ payment'[r].split = payment[r].split
                       /\ payment'[r].status = payment[r].status
                       /\ payment'[r].day = payment[r].day
                       /\ SameAmounts(r)
    /\ DOMAIN clawback' = DOMAIN clawback
    /\ \A k \in DOMAIN clawback :
         /\ clawback'[k].ref = clawback[k].ref
         /\ clawback'[k].amount = clawback[k].amount
         /\ clawback'[k].applied = IF k \in g.taken THEN s ELSE clawback[k].applied
    /\ \A b \in Admins : b # a => generation'[b] = generation[b]
    /\ generation'[a] = NoGeneration

LEMMA CommitSteps ==
    ASSUME ClaimInv, RowsNamed, NEW a \in Admins, CommitSettlement(a)
    PROVE  /\ \E s \in Sids : Commits(a, s)
           /\ RowsNamed'
<1> DEFINE g == generation[a]
           fee == WithdrawalFee(g.left)
           row == [status |-> "pending", clawback |-> Debt(g.taken), fee |-> fee,
                   net |-> g.left - fee, counted |-> g.counted, worth |-> g.worth,
                   taken |-> g.taken, late |-> g.marked \ g.known, seen |-> g.seen]
<1>1. PICK s \in NextSid :
        /\ settlement' = [settlement EXCEPT ![s] = row]
        /\ payment' = [r \in Refs |->
             IF r \in g.marked THEN [payment[r] EXCEPT !.settlement = s] ELSE payment[r]]
        /\ clawback' = [k \in DOMAIN clawback |->
             IF k \in g.taken THEN [clawback[k] EXCEPT !.applied = s] ELSE clawback[k]]
    BY DEF CommitSettlement
<1>2. /\ InGeneration(a, "commit")
      /\ \A b \in Admins : b # a => generation'[b] = generation[b]
      /\ generation'[a] = NoGeneration
      /\ UNCHANGED review
    BY DEF CommitSettlement, ClaimInv, RowsShaped
<1>3. s \in Sids /\ s # 0 /\ s \notin Generated
    BY MaxSettlementsAssumption DEF NextSid, Sids, Generated
<1>4. /\ settlement'[s] = row
      /\ \A t \in Sids : t # s => settlement'[t] = settlement[t]
      /\ settlement' = [t \in Sids |-> settlement'[t]]
    BY <1>1, <1>3 DEF RowsNamed
<1>5. Generated' = Generated \cup {s}
    <2>1. row.status = "pending"
        OBVIOUS
    <2> HIDE DEF row
    <2> QED
        BY <1>3, <1>4, <2>1 DEF Generated
<1>6. /\ row.counted = g.counted /\ row.worth = g.worth /\ row.taken = g.taken
      /\ row.late = g.marked \ g.known /\ row.seen = g.seen
    OBVIOUS
<1>7. \A r \in Refs : /\ payment'[r].settlement = IF r \in g.marked THEN s ELSE payment[r].settlement
                      /\ payment'[r].split = payment[r].split
                      /\ payment'[r].status = payment[r].status
                      /\ payment'[r].day = payment[r].day
                      /\ SameAmounts(r)
    BY <1>1 DEF ClaimInv, RowsShaped, PaymentRow, SameAmounts
<1>8. /\ DOMAIN clawback' = DOMAIN clawback
      /\ \A k \in DOMAIN clawback :
         /\ clawback'[k].ref = clawback[k].ref
         /\ clawback'[k].amount = clawback[k].amount
         /\ clawback'[k].applied = IF k \in g.taken THEN s ELSE clawback[k].applied
    <2>1. \A k \in DOMAIN clawback : clawback[k] \in Clawback
        BY DEF ClaimInv, RowsShaped
    <2> QED
        BY <1>1, <2>1 DEF Clawback
<1>9. \A t \in Generated : settlement'[t] = settlement[t]
    BY <1>3, <1>4 DEF Generated
<1>10. RowShape(row)
    BY DEF RowShape, SettlementStatus
<1> HIDE DEF row
<1>11. Commits(a, s)
    BY <1>2, <1>3, <1>4, <1>5, <1>6, <1>7, <1>8, <1>9 DEF Commits
<1>12. RowsNamed'
    BY <1>2, <1>4, <1>5, <1>10 DEF RowsNamed
<1> QED
    BY <1>3, <1>11, <1>12

\* SetStatus writes the status of a settlement that exists, and nothing else.
LEMMA ReviewSteps ==
    ASSUME RowsNamed, NEW p \in Staff, Back(p)
    PROVE  /\ SameSettlements
           /\ UNCHANGED <<payment, clawback, generation>>
           /\ RowsNamed'
<1>1. CASE SetStatus(p)
    <2> DEFINE s == review[p].sid
               st == review[p].status
    <2>1. /\ s \in Generated /\ st \in SettlementStatus /\ s \in Sids
          /\ settlement' = [settlement EXCEPT ![s].status = st]
          /\ review' = [review EXCEPT ![p] = NoReview]
          /\ UNCHANGED <<payment, clawback, generation>>
        BY <1>1 DEF SetStatus, RowsNamed, Generated, ledgerVars
    <2> HIDE DEF s, st
    <2>2. /\ settlement' = [t \in Sids |-> settlement'[t]]
          /\ \A t \in Sids : t # s => settlement'[t] = settlement[t]
          /\ settlement'[s] = [settlement[s] EXCEPT !.status = st]
        BY <2>1 DEF RowsNamed
    <2>3. RowShape(settlement[s])
        BY <2>1 DEF RowsNamed
    <2>4. /\ RowShape(settlement'[s]) /\ settlement'[s].status = st
          /\ settlement'[s].counted = settlement[s].counted
          /\ settlement'[s].worth = settlement[s].worth
          /\ settlement'[s].taken = settlement[s].taken
          /\ settlement'[s].late = settlement[s].late
          /\ settlement'[s].seen = settlement[s].seen
        BY <2>1, <2>2, <2>3 DEF RowShape
    <2>5. st # "absent"
        BY <2>1 DEF SettlementStatus
    <2>6. SameSettlements
        BY <2>1, <2>2, <2>4, <2>5 DEF SameSettlements, Generated
    <2>7. \A t \in Sids : RowShape(settlement'[t])
        BY <2>2, <2>4 DEF RowsNamed
    <2>8. /\ review' = [q \in Staff |-> review'[q]]
          /\ \A q \in Staff : review'[q].pc = "set" =>
               review'[q].sid \in Generated /\ review'[q].status \in SettlementStatus
        BY <2>1 DEF RowsNamed, NoReview
    <2> QED
        BY <2>1, <2>2, <2>6, <2>7, <2>8 DEF RowsNamed, SameSettlements
<1>2. ASSUME NEW s \in Sids, NEW status \in SettlementStatus, StartReview(p, s, status)
      PROVE  UNCHANGED <<payment, clawback, generation, settlement>> /\ RowsNamed'
    BY <1>2 DEF StartReview, RowsNamed, Generated, ledgerVars
<1>3. UNCHANGED settlement => SameSettlements
    BY DEF SameSettlements, Generated
<1> QED
    BY <1>1, <1>2, <1>3 DEF Back

LEMMA CreditSteps ==
    ASSUME ClaimInv, NEW r \in Refs, NEW i \in Invoices, NEW amt \in Charges,
           CreditPayment(r, i, amt)
    PROVE  /\ Credits(r)
           /\ payment[r].status = "absent"
           /\ UNCHANGED <<settlement, clawback, generation, review>>
<1>1. PICK split \in {FALSE, SplitEnabled /\ SplitCharge(i, amt) > 0} :
        payment' = [payment EXCEPT ![r] =
          [PendingRow(i, amt, split) EXCEPT !.status = "success", !.day = today]]
    BY DEF CreditPayment
<1>2. /\ UNCHANGED <<settlement, clawback, generation, review>> /\ r \notin Successful
      /\ payment[r].status = "absent"
    BY DEF CreditPayment, Successful
<1>3. /\ \A q \in Refs : q # r => payment'[q] = payment[q]
      /\ payment'[r] = [PendingRow(i, amt, split) EXCEPT !.status = "success", !.day = today]
    BY <1>1 DEF ClaimInv, RowsShaped
<1>4. /\ payment'[r].status = "success" /\ payment'[r].settlement = 0
      /\ payment'[r].invoice = i /\ payment'[r].amount = amt /\ payment'[r].refunded = 0
      /\ payment'[r].split = split
    BY <1>3 DEF PendingRow, NoRow
<1>5. split => SplitCharge(i, amt) > 0
    BY <1>1
<1>6. Credits(r)
    BY <1>2, <1>3, <1>4, <1>5 DEF Credits, Successful
<1> QED
    BY <1>2, <1>6

\* How a generation moves on: it counts, deducts or marks, or ends.
Counts(g, h) ==
    /\ h.pc = "deduct" /\ h.from \in 1..LastDay /\ h.to \in 1..LastDay
    /\ h.counted = Claimable(h.from, h.to) /\ h.taken = {} /\ h.marked = {}
    /\ h.worth = [r \in Refs |-> IF r \in h.counted THEN Share(r) ELSE 0]
    /\ h.known = Successful /\ h.seen = Generated

KeepsCount(g, h) ==
    /\ h.from = g.from /\ h.to = g.to /\ h.counted = g.counted
    /\ h.worth = g.worth /\ h.known = g.known /\ h.seen = g.seen

MovesOn(a) ==
    LET g == generation[a]
        h == generation'[a]
    IN  /\ \A b \in Admins : b # a => generation'[b] = generation[b]
        /\ UNCHANGED <<payment, clawback, settlement, review>>
        /\ \/ h = NoGeneration
           \/ Counts(g, h)
           \/ g.pc = "deduct" /\ h.pc = "write" /\ KeepsCount(g, h) /\ h.taken \subseteq Outstanding
              /\ h.marked = g.marked
           \/ g.pc = "write" /\ h.pc = "commit" /\ KeepsCount(g, h) /\ h.taken = g.taken
              /\ h.marked = Claimable(g.from, g.to)

LEMMA GenerateSteps ==
    ASSUME ClaimInv, NEW a \in Admins, Generate(a), ~CommitSettlement(a)
    PROVE  MovesOn(a)
<1> DEFINE g == generation[a]
           S == Claimable(g.from, g.to)
           taken == Absorbed(g.left)
           left == g.left - Debt(taken)
<1>1. /\ generation = [b \in Admins |-> generation[b]]
      /\ GenerationShape(g)
    BY DEF ClaimInv, RowsShaped
<1>2. ASSUME NEW from \in 1..LastDay, NEW to \in 1..LastDay, Aggregate(a, from, to)
      PROVE  MovesOn(a)
    <2> DEFINE C == Claimable(from, to)
               net == NetPayout(C)
               worth == [r \in Refs |-> IF r \in C THEN Share(r) ELSE 0]
               h == [NoGeneration EXCEPT !.pc = "deduct", !.from = from, !.to = to,
                        !.counted = C, !.left = net, !.worth = worth,
                        !.known = Successful, !.seen = Generated]
    <2>1. /\ generation' = [generation EXCEPT ![a] = h]
          /\ UNCHANGED <<payment, clawback, settlement, review>>
        BY <1>2 DEF Aggregate, ledgerVars
    <2> HIDE DEF C, net, worth
    <2>2. /\ h.pc = "deduct" /\ h.from = from /\ h.to = to /\ h.counted = C
          /\ h.taken = {} /\ h.marked = {} /\ h.worth = worth
          /\ h.known = Successful /\ h.seen = Generated
        BY DEF NoGeneration
    <2>3. Counts(g, h)
        BY <2>2 DEF Counts, C, worth
    <2> HIDE DEF h
    <2>4. generation'[a] = h /\ \A b \in Admins : b # a => generation'[b] = generation[b]
        BY <1>1, <2>1
    <2> QED
        BY <2>1, <2>3, <2>4 DEF MovesOn
<1>3. CASE DeductClawbacks(a)
    <2>1. /\ generation' = [generation EXCEPT ![a] =
                [@ EXCEPT !.pc = "write", !.left = left, !.taken = taken]]
          /\ g.pc = "deduct" /\ UNCHANGED <<payment, clawback, settlement, review>>
        BY <1>3 DEF DeductClawbacks, InGeneration, ledgerVars
    <2> HIDE DEF left
    <2>2. taken \subseteq Outstanding
        BY DEF Absorbed
    <2> HIDE DEF taken
    <2>3. /\ \A b \in Admins : b # a => generation'[b] = generation[b]
          /\ generation'[a] = [g EXCEPT !.pc = "write", !.left = left, !.taken = taken]
        BY <1>1, <2>1
    <2>4. LET h == generation'[a] IN
          h.pc = "write" /\ h.taken = taken /\ h.marked = g.marked /\ KeepsCount(g, h)
        BY <1>1, <2>3 DEF GenerationShape, KeepsCount
    <2> QED
        BY <2>1, <2>2, <2>3, <2>4 DEF MovesOn
<1>4. CASE WriteSettlement(a)
    <2>1. /\ generation' = [generation EXCEPT ![a] = [@ EXCEPT !.pc = "commit", !.marked = S]]
          /\ g.pc = "write" /\ UNCHANGED <<payment, clawback, settlement, review>>
        BY <1>4 DEF WriteSettlement, InGeneration, ledgerVars
    <2> HIDE DEF S
    <2>2. /\ \A b \in Admins : b # a => generation'[b] = generation[b]
          /\ generation'[a] = [g EXCEPT !.pc = "commit", !.marked = S]
        BY <1>1, <2>1
    <2>3. LET h == generation'[a] IN
          h.pc = "commit" /\ h.marked = S /\ h.taken = g.taken /\ KeepsCount(g, h)
        BY <1>1, <2>2 DEF GenerationShape, KeepsCount
    <2> QED
        BY <2>1, <2>2, <2>3 DEF MovesOn, S
<1>5. CASE Rollback(a)
    <2>1. /\ generation' = [generation EXCEPT ![a] = NoGeneration]
          /\ UNCHANGED <<payment, clawback, settlement, review>>
        BY <1>5 DEF Rollback, ledgerVars
    <2>2. generation'[a] = NoGeneration /\ \A b \in Admins : b # a => generation'[b] = generation[b]
        BY <1>1, <2>1
    <2> QED
        BY <2>1, <2>2 DEF MovesOn
<1> QED
    BY <1>2, <1>3, <1>4, <1>5 DEF Generate

\* A clawback is appended as outstanding behind the queue.
Appends(r, amt) ==
    /\ clawback' = Append(clawback, [ref |-> r, amount |-> amt, applied |-> 0])
    /\ DOMAIN clawback' = DOMAIN clawback \cup {Len(clawback) + 1}
    /\ Len(clawback) + 1 \notin DOMAIN clawback
    /\ \A k \in DOMAIN clawback : clawback'[k] = clawback[k]
    /\ clawback'[Len(clawback) + 1] = [ref |-> r, amount |-> amt, applied |-> 0]

LEMMA AppendStays ==
    ASSUME clawback \in Seq(Clawback), NEW r \in Refs, NEW amt \in Nat, AddClawback(r, amt)
    PROVE  \/ amt = 0 /\ UNCHANGED clawback
           \/ amt > 0 /\ Appends(r, amt)
<1>1. CASE amt > 0
    <2> DEFINE c == [ref |-> r, amount |-> amt, applied |-> 0]
    <2>1. clawback' = Append(clawback, c) /\ c \in Clawback
        BY <1>1, MaxSettlementsAssumption DEF Clawback, AddClawback
    <2> HIDE DEF c
    <2>2. /\ DOMAIN clawback = 1..Len(clawback) /\ Len(clawback) \in Nat
          /\ DOMAIN clawback' = 1..(Len(clawback) + 1)
          /\ \A k \in DOMAIN clawback : clawback'[k] = clawback[k]
          /\ clawback'[Len(clawback) + 1] = c
        BY <2>1
    <2>3. /\ DOMAIN clawback' = DOMAIN clawback \cup {Len(clawback) + 1}
          /\ Len(clawback) + 1 \notin DOMAIN clawback
        BY <2>2
    <2> QED
        BY <1>1, <2>1, <2>2, <2>3 DEF Appends, c
<1>2. CASE ~(amt > 0)
    BY <1>2 DEF AddClawback
<1> QED
    BY <1>1, <1>2

LEMMA UnchangedSettlements ==
    ASSUME UNCHANGED settlement
    PROVE  SameSettlements /\ (UNCHANGED review /\ RowsNamed => RowsNamed')
BY DEF SameSettlements, Generated, RowsNamed

\* A step of Disputes that is none of Settlements.
LEMMA ResolveSteps ==
    ASSUME DisputeInv, [DisputeNext]_disputeVars, ~[SettlementNext]_settlementVars
    PROVE  /\ UNCHANGED <<settlement, review, generation>>
           /\ \A r \in Refs : SameClaim(r)
           /\ \/ UNCHANGED clawback
              \/ \E r \in Refs, amt \in Nat : amt > 0 /\ Appends(r, amt)
<1>1. ASSUME NEW d \in Cases, NEW i \in Invoices, CreateDispute(d, i)
      PROVE  UNCHANGED settlementVars
    BY <1>1 DEF CreateDispute
<1>2. ASSUME NEW v \in Resolvers, Resolve(v) PROVE UNCHANGED <<settlement, review, generation>>
    <2>1. ASSUME NEW d \in Cases, NEW to \in DisputeStatus, StartResolve(v, d, to)
          PROVE  UNCHANGED settlementVars
        BY <2>1 DEF StartResolve
    <2>2. ASSUME NEW r \in Refs, NEW amt \in Refunds, LoadPayment(v, r, amt)
          PROVE  UNCHANGED settlementVars
        BY <2>2 DEF LoadPayment
    <2>3. ASSUME \/ Investigate(v) \/ RefundTransaction(v) \/ Refused(v) \/ Tally(v) \/ Close(v)
                 \/ StopHalfWay(v) \/ SkipInvoice(v) \/ AnswerLost(v)
          PROVE  UNCHANGED settlementVars
        BY <2>3 DEF Investigate, RefundTransaction, Refused, Tally, Close, StopHalfWay,
                    SkipInvoice, AnswerLost
    <2>4. ASSUME AddPaymentRefund(v) \/ CreateSettlementClawback(v) \/ MarkRefunded(v)
          PROVE  UNCHANGED <<settlement, review, generation>>
        BY <2>4 DEF AddPaymentRefund, CreateSettlementClawback, MarkRefunded
    <2> QED
        BY <1>2, <2>1, <2>2, <2>3, <2>4 DEF Resolve, settlementVars
<1>3. UNCHANGED <<settlement, review, generation>>
    BY <1>1, <1>2 DEF DisputeNext, Elsewhere, disputeVars, settlementVars
<1>4. /\ ClaimInv /\ payment \in [Refs -> PaymentRow] /\ clawback \in Seq(Clawback)
    BY DEF DisputeInv, ClaimInv, RowsShaped
<1>5. CASE \E r \in Refs, amt \in Nat :
              /\ payment' = [payment EXCEPT ![r].refunded = @ + amt]
              /\ UNCHANGED <<today, clawback, generation>>
    BY <1>3, <1>4, <1>5 DEF SameClaim, PaymentRow
<1>6. CASE \E r \in Refs, amt \in Nat :
              AddClawback(r, amt) /\ UNCHANGED <<payment, today, generation>>
    BY <1>3, <1>4, <1>6, AppendStays DEF SameClaim
<1>7. CASE UNCHANGED <<payment, today, clawback, generation>>
    BY <1>3, <1>7 DEF SameClaim
<1> QED
    BY <1>5, <1>6, <1>7, StepOnRows

\* What a step does to settlements and to the claims they rest on.
Elsewise ==
    /\ UNCHANGED generation
    /\ \A r \in Refs : SameClaim(r)
    /\ \/ UNCHANGED clawback
       \/ \E r \in Refs, amt \in Nat : amt > 0 /\ Appends(r, amt)

LEMMA StepOnTables ==
    ASSUME DisputeInv, RowsNamed, [DisputeNext]_disputeVars
    PROVE  /\ RowsNamed'
           /\ \/ \E a \in Admins, s \in Sids : Commits(a, s)
              \/ /\ SameSettlements
                 /\ \/ \E a \in Admins : MovesOn(a)
                    \/ UNCHANGED <<clawback, generation>> /\ \E r \in Refs : Credits(r)
                    \/ Elsewise
<1>0. ClaimInv
    BY DEF DisputeInv
<1>1. CASE ~[SettlementNext]_settlementVars
    BY <1>1, ResolveSteps, UnchangedSettlements DEF Elsewise
<1>2. CASE UNCHANGED settlementVars
    BY <1>2, UnchangedSettlements DEF settlementVars, ledgerVars, Elsewise, SameClaim
<1>3. CASE SettlementNext
    <2>1. ASSUME NEW a \in Admins, CommitSettlement(a)
          PROVE  RowsNamed' /\ \E s \in Sids : Commits(a, s)
        BY <1>0, <2>1, CommitSteps
    <2>2. ASSUME NEW a \in Admins, Generate(a), ~CommitSettlement(a)
          PROVE  RowsNamed' /\ SameSettlements /\ MovesOn(a)
        BY <1>0, <2>2, GenerateSteps, UnchangedSettlements DEF MovesOn
    <2>3. ASSUME NEW p \in Staff, Back(p) PROVE RowsNamed' /\ SameSettlements /\ Elsewise
        BY <2>3, ReviewSteps DEF Elsewise, SameClaim
    <2>4. ASSUME NEW r \in Refs, NEW i \in Invoices, NEW amt \in Charges, CreditPayment(r, i, amt)
          PROVE  RowsNamed' /\ SameSettlements /\ UNCHANGED <<clawback, generation>> /\ Credits(r)
        BY <1>0, <2>4, CreditSteps, UnchangedSettlements
    <2>5. ASSUME SettlementDayEnds PROVE RowsNamed' /\ SameSettlements /\ Elsewise
        BY <2>5, UnchangedSettlements DEF SettlementDayEnds, NextDay, Elsewise, SameClaim
    <2> QED
        BY <1>3, <2>1, <2>2, <2>3, <2>4, <2>5 DEF SettlementNext
<1> QED
    BY <1>1, <1>2, <1>3

-----------------------------------------------------------------------------
(* What settlements count and deduct.                                      *)

RepeatInv == RowsNamed /\ CountedIsClaimed /\ CountsAfresh /\ RepeatsNeedOverlap

LEMMA InitRepeats == DisputeInit => RepeatInv
<1> SUFFICES ASSUME DisputeInit PROVE RepeatInv
    OBVIOUS
<1>1. /\ settlement = [s \in Sids |-> NoSettlement]
      /\ review = [p \in Staff |-> NoReview]
      /\ generation = [a \in Admins |-> NoGeneration]
    BY DEF DisputeInit, SettlementInit
<1>2. RowShape(NoSettlement) /\ NoSettlement.status = "absent" /\ NoReview.pc = "idle"
    BY DEF RowShape, NoSettlement, NoReview
<1>3. Generated = {}
    BY <1>1, <1>2 DEF Generated
<1>4. NoGeneration.counted = {} /\ NoGeneration.taken = {} /\ NoGeneration.seen = {}
    BY DEF NoGeneration
<1>5. RowsNamed
    BY <1>1, <1>2 DEF RowsNamed
<1>6. CountedIsClaimed
    BY <1>1, <1>3, <1>4 DEF CountedIsClaimed
<1>7. CountsAfresh
    BY <1>1, <1>3, <1>4 DEF CountsAfresh
<1>8. RepeatsNeedOverlap
    BY <1>3 DEF RepeatsNeedOverlap
<1> QED
    BY <1>5, <1>6, <1>7, <1>8 DEF RepeatInv

LEMMA CommitKeepsRepeats ==
    ASSUME DisputeInv, RepeatInv, NEW a \in Admins, NEW s \in Sids, Commits(a, s)
    PROVE  CountedIsClaimed' /\ CountsAfresh' /\ RepeatsNeedOverlap'
<1> DEFINE g == generation[a]
<1>0. /\ CountedIsClaimed /\ CountsAfresh /\ RepeatsNeedOverlap
      /\ TakenFromTheFront /\ s \notin Generated /\ s # 0
    BY DEF RepeatInv, DisputeInv, ClaimInv, Commits
<1>1. /\ Generated' = Generated \cup {s}
      /\ \A t \in Generated : settlement'[t] = settlement[t]
      /\ settlement'[s].counted = g.counted /\ settlement'[s].taken = g.taken
      /\ settlement'[s].seen = g.seen
      /\ \A b \in Admins : b # a => generation'[b] = generation[b]
      /\ generation'[a] = NoGeneration
      /\ g.pc = "commit"
    BY DEF Commits, InGeneration
<1>2. /\ \A r \in Refs : payment[r].settlement # 0 \/ r \in g.marked => payment'[r].settlement # 0
      /\ \A r \in Refs : /\ payment'[r].split = payment[r].split
                         /\ payment'[r].status = payment[r].status
                         /\ payment'[r].day = payment[r].day
      /\ DOMAIN clawback' = DOMAIN clawback
      /\ \A k \in DOMAIN clawback :
           clawback[k].applied # 0 \/ k \in g.taken => clawback'[k].applied # 0
    BY <1>0 DEF Commits
<1>3. NoGeneration.counted = {} /\ NoGeneration.taken = {} /\ NoGeneration.seen = {}
    BY DEF NoGeneration
<1>4. Successful' = Successful
    BY <1>2 DEF Successful
<1>5. /\ g.counted \subseteq Successful
      /\ \A r \in g.counted : r \in g.marked \/ payment[r].settlement # 0
      /\ g.taken \subseteq DOMAIN clawback
    BY <1>0, <1>1 DEF CountedIsClaimed, TakenFromTheFront, InGeneration
<1>6. CountedIsClaimed'
    <2>1. ASSUME NEW t \in Generated'
          PROVE  /\ settlement'[t].counted \subseteq Successful'
                 /\ \A r \in settlement'[t].counted : payment'[r].settlement # 0
                 /\ \A k \in settlement'[t].taken :
                      k \in DOMAIN clawback' /\ clawback'[k].applied # 0
        <3>1. CASE t = s
            BY <1>1, <1>2, <1>4, <1>5, <3>1 DEF Successful
        <3>2. CASE t \in Generated
            <4>1. /\ settlement[t].counted \subseteq Successful
                  /\ \A r \in settlement[t].counted : payment[r].settlement # 0
                  /\ \A k \in settlement[t].taken : k \in DOMAIN clawback /\ clawback[k].applied # 0
                BY <1>0, <3>2 DEF CountedIsClaimed
            <4>2. \A r \in Successful : r \in Refs
                BY DEF Successful
            <4> QED
                BY <1>1, <1>2, <1>4, <3>2, <4>1, <4>2
        <3> QED
            BY <1>1, <2>1, <3>1, <3>2
    <2>2. ASSUME NEW b \in Admins
          PROVE  /\ generation'[b].counted \subseteq Successful'
                 /\ \A r \in generation'[b].counted :
                      /\ ~payment'[r].split
                      /\ payment'[r].day \in generation'[b].from..generation'[b].to
                      /\ generation'[b].pc = "commit" =>
                           r \in generation'[b].marked \/ payment'[r].settlement # 0
        <3>1. CASE b = a
            BY <1>1, <1>3, <3>1
        <3>2. CASE b # a
            BY <1>0, <1>1, <1>2, <1>4, <3>2 DEF CountedIsClaimed, InGeneration, Successful
        <3> QED
            BY <3>1, <3>2
    <2> QED
        BY <2>1, <2>2 DEF CountedIsClaimed, InGeneration
<1>7. CountsAfresh'
    BY <1>0, <1>1, <1>3 DEF CountsAfresh
<1>8. RepeatsNeedOverlap'
    BY <1>0, <1>1 DEF RepeatsNeedOverlap, CountsAfresh
<1> QED
    BY <1>6, <1>7, <1>8

LEMMA MoveKeepsRepeats ==
    ASSUME DisputeInv, RepeatInv, SameSettlements, NEW a \in Admins, MovesOn(a)
    PROVE  CountedIsClaimed' /\ CountsAfresh' /\ RepeatsNeedOverlap'
<1> DEFINE g == generation[a]
           h == generation'[a]
<1>0. /\ CountedIsClaimed /\ CountsAfresh /\ RepeatsNeedOverlap
      /\ UNCHANGED <<payment, clawback, settlement>>
      /\ \A b \in Admins : b # a => generation'[b] = generation[b]
      /\ Generated' = Generated /\ Successful' = Successful
    BY DEF RepeatInv, MovesOn, Generated, Successful
<1>1. \A r \in Refs : r \in Claimable(h.from, h.to) <=>
         /\ r \in Successful /\ payment[r].settlement = 0 /\ ~payment[r].split
         /\ payment[r].day \in h.from..h.to
    BY DEF Claimable, Successful
<1>2. \/ h = NoGeneration
      \/ Counts(g, h)
      \/ g.pc = "deduct" /\ h.pc = "write" /\ KeepsCount(g, h) /\ h.taken \subseteq Outstanding
      \/ g.pc = "write" /\ h.pc = "commit" /\ KeepsCount(g, h) /\ h.taken = g.taken
         /\ h.marked = Claimable(g.from, g.to)
    BY DEF MovesOn
<1>3. NoGeneration.counted = {} /\ NoGeneration.taken = {} /\ NoGeneration.seen = {}
    BY DEF NoGeneration
<1>4. \A s \in Generated :
         /\ \A r \in settlement[s].counted : payment[r].settlement # 0
         /\ \A k \in settlement[s].taken : k \in DOMAIN clawback /\ clawback[k].applied # 0
    BY <1>0 DEF CountedIsClaimed
<1>5. /\ h.counted \subseteq Successful
      /\ \A r \in h.counted : /\ ~payment[r].split
                              /\ payment[r].day \in h.from..h.to
                              /\ h.pc = "commit" => r \in h.marked \/ payment[r].settlement # 0
    <2>1. CASE h = NoGeneration
        BY <1>3, <2>1
    <2>2. CASE Counts(g, h)
        <3>1. h.counted = Claimable(h.from, h.to) /\ h.pc = "deduct"
            BY <2>2 DEF Counts
        <3> HIDE DEF h
        <3> QED
            BY <3>1 DEF Claimable, Successful
    <2>3. CASE KeepsCount(g, h) /\ h.pc \in {"write", "commit"}
               /\ (h.pc = "commit" => h.marked = Claimable(g.from, g.to))
        <3>1. /\ g.counted \subseteq Successful
              /\ \A r \in g.counted : ~payment[r].split /\ payment[r].day \in g.from..g.to
            BY <1>0 DEF CountedIsClaimed
        <3>2. h.counted = g.counted /\ h.from = g.from /\ h.to = g.to
            BY <2>3 DEF KeepsCount
        <3> HIDE DEF g, h
        <3> QED
            BY <2>3, <3>1, <3>2 DEF Claimable
    <2> QED
        BY <1>2, <2>1, <2>2, <2>3
<1>6. /\ h.seen \subseteq Generated
      /\ \A s \in h.seen : /\ settlement[s].counted \cap h.counted = {}
                           /\ settlement[s].taken \cap h.taken = {}
    <2>1. CASE h = NoGeneration
        BY <1>3, <2>1
    <2>2. CASE Counts(g, h)
        <3>1. h.counted = Claimable(h.from, h.to) /\ h.taken = {} /\ h.seen = Generated
            BY <2>2 DEF Counts
        <3>2. \A r \in h.counted : payment[r].settlement = 0
            BY <3>1 DEF Claimable
        <3> HIDE DEF h
        <3> QED
            BY <1>4, <3>1, <3>2
    <2>3. CASE KeepsCount(g, h) /\ (h.taken \subseteq Outstanding \/ h.taken = g.taken)
        <3>1. /\ g.seen \subseteq Generated
              /\ \A s \in g.seen : /\ settlement[s].counted \cap g.counted = {}
                                   /\ settlement[s].taken \cap g.taken = {}
            BY <1>0 DEF CountsAfresh
        <3>2. h.counted = g.counted /\ h.seen = g.seen
            BY <2>3 DEF KeepsCount
        <3>3. \A k \in Outstanding : clawback[k].applied = 0
            BY DEF Outstanding
        <3> HIDE DEF g, h
        <3> QED
            BY <1>4, <2>3, <3>1, <3>2, <3>3
    <2> QED
        BY <1>2, <2>1, <2>2, <2>3
<1> HIDE DEF g
<1>7. CountedIsClaimed'
    <2>1. ASSUME NEW b \in Admins
          PROVE  /\ generation'[b].counted \subseteq Successful
                 /\ \A r \in generation'[b].counted :
                      /\ ~payment[r].split
                      /\ payment[r].day \in generation'[b].from..generation'[b].to
                      /\ generation'[b].pc = "commit" =>
                           r \in generation'[b].marked \/ payment[r].settlement # 0
        <3>1. CASE b = a
            BY <1>5, <3>1
        <3>2. CASE b # a
            BY <1>0, <3>2 DEF CountedIsClaimed, InGeneration
        <3> QED
            BY <3>1, <3>2
    <2> QED
        BY <1>0, <2>1 DEF CountedIsClaimed, InGeneration
<1>8. CountsAfresh'
    <2>1. ASSUME NEW b \in Admins
          PROVE  /\ generation'[b].seen \subseteq Generated
                 /\ \A s \in generation'[b].seen :
                      /\ settlement[s].counted \cap generation'[b].counted = {}
                      /\ settlement[s].taken \cap generation'[b].taken = {}
        <3>1. CASE b = a
            BY <1>6, <3>1
        <3>2. CASE b # a
            BY <1>0, <3>2 DEF CountsAfresh
        <3> QED
            BY <3>1, <3>2
    <2> QED
        BY <1>0, <2>1 DEF CountsAfresh
<1>9. RepeatsNeedOverlap'
    BY <1>0 DEF RepeatsNeedOverlap
<1> QED
    BY <1>7, <1>8, <1>9

LEMMA CreditKeepsRepeats ==
    ASSUME DisputeInv, RepeatInv, SameSettlements, UNCHANGED <<clawback, generation>>,
           NEW r \in Refs, Credits(r)
    PROVE  CountedIsClaimed' /\ CountsAfresh' /\ RepeatsNeedOverlap'
<1>0. /\ CountedIsClaimed /\ CountsAfresh /\ RepeatsNeedOverlap
      /\ r \notin Successful /\ \A q \in Refs : q # r => payment'[q] = payment[q]
    BY DEF RepeatInv, Credits
<1>1. /\ \A q \in Successful : q \in Successful' /\ payment'[q] = payment[q]
    BY <1>0 DEF Successful
<1>2. CountedIsClaimed'
    BY <1>0, <1>1 DEF CountedIsClaimed, InGeneration, SameSettlements
<1>3. CountsAfresh'
    BY <1>0 DEF CountsAfresh, SameSettlements
<1>4. RepeatsNeedOverlap'
    BY <1>0 DEF RepeatsNeedOverlap, SameSettlements, CountsAfresh
<1> QED
    BY <1>2, <1>3, <1>4

LEMMA ElseKeepsRepeats ==
    ASSUME DisputeInv, RepeatInv, SameSettlements, Elsewise
    PROVE  CountedIsClaimed' /\ CountsAfresh' /\ RepeatsNeedOverlap'
<1>0. /\ CountedIsClaimed /\ CountsAfresh /\ RepeatsNeedOverlap
      /\ UNCHANGED generation /\ \A r \in Refs : SameClaim(r)
    BY DEF RepeatInv, Elsewise
<1>1. /\ Successful' = Successful
      /\ \A r \in Successful : SameClaim(r)
    BY <1>0 DEF Successful, SameClaim
<1>2. \A k \in DOMAIN clawback : k \in DOMAIN clawback' /\ clawback'[k] = clawback[k]
    BY DEF Elsewise, Appends
<1>3. CountedIsClaimed'
    BY <1>0, <1>1, <1>2 DEF CountedIsClaimed, InGeneration, SameSettlements, SameClaim
<1>4. CountsAfresh'
    BY <1>0 DEF CountsAfresh, SameSettlements
<1>5. RepeatsNeedOverlap'
    BY <1>0 DEF RepeatsNeedOverlap, SameSettlements, CountsAfresh
<1> QED
    BY <1>3, <1>4, <1>5

LEMMA NextRepeats ==
    ASSUME DisputeInv, RepeatInv, [DisputeNext]_disputeVars
    PROVE  RepeatInv'
<1>1. RowsNamed
    BY DEF RepeatInv
<1> QED
    BY <1>1, StepOnTables, CommitKeepsRepeats, MoveKeepsRepeats, CreditKeepsRepeats,
       ElseKeepsRepeats DEF RepeatInv

\* ComputeSettlementAggregate, MarkPaymentsSettled and ApplySettlementClawback, for any
\* number of interleaved generations: a payment is counted again, or a clawback deducted
\* again, only by a settlement that did not exist when the other read.
THEOREM RepeatsOnlyFromOverlap == DisputeSpec => []RepeatsNeedOverlap
<1>1. RepeatInv => RepeatsNeedOverlap
    BY DEF RepeatInv
<1>2. DisputeInv /\ RepeatInv /\ [DisputeNext]_disputeVars => RepeatInv'
    BY NextRepeats
<1> QED
    BY <1>1, <1>2, InitRepeats, DisputeInvariant, PTL DEF DisputeSpec

-----------------------------------------------------------------------------
(* What a payment has cost whoever pays the merchant.                      *)

\* What a request about to write a clawback has to charge for payment r.
Charging(q, r, i) == IF q.pc = "claw" /\ q.ref = r THEN MerchantShare(i, q.amount) ELSE 0

LEMMA ChargingTyped ==
    ASSUME DisputeInv, NEW v \in Resolvers, NEW r
    PROVE  Charging(request[v], r, payment[request[v].ref].invoice) \in Nat
<1>1. CASE request[v].pc = "claw"
    <2>1. payment[request[v].ref].invoice \in Invoices /\ request[v].amount \in Nat
        BY <1>1, BillingTyped
    <2> QED
        BY <2>1, SharesAdd DEF Charging
<1>2. CASE request[v].pc # "claw"
    BY <1>2 DEF Charging
<1> QED
    BY <1>1, <1>2

LEMMA ClawingMoves ==
    ASSUME DisputeInv, DisputeInv', [DisputeNext]_disputeVars, NEW v \in Resolvers,
           request' = [request EXCEPT ![v] = request'[v]], NEW r
    PROVE  /\ Clawing(r) \in Nat /\ Clawing(r)' \in Nat
           /\ Clawing(r)' = Clawing(r)
                + Charging(request'[v], r, payment'[request'[v].ref].invoice)
                - Charging(request[v], r, payment[request[v].ref].invoice)
<1> DEFINE f == [w \in Resolvers |-> MerchantShare(payment[request[w].ref].invoice, request[w].amount)]
           e == [w \in Resolvers |-> MerchantShare(payment'[request'[w].ref].invoice, request'[w].amount)]
           S == {w \in Resolvers : request[w].pc = "claw" /\ request[w].ref = r}
           T == {w \in Resolvers : request'[w].pc = "claw" /\ request'[w].ref = r}
<1>1. /\ \A w \in Resolvers : w # v => request'[w] = request[w]
      /\ \A w \in Resolvers : request[w] \in Request /\ request'[w] \in Request
      /\ \A w \in S : request[w].ref \in Successful
      /\ \A w \in T : request'[w].ref \in Successful'
      /\ payment \in [Refs -> PaymentRow] /\ payment' \in [Refs -> PaymentRow]
    BY DEF DisputeInv, RequestShaped, ClaimInv, RowsShaped
<1>2. /\ \A w \in S : f[w] \in Nat
      /\ \A w \in T : e[w] \in Nat
    <2>1. ASSUME NEW w \in S PROVE f[w] \in Nat
        <3>1. payment[request[w].ref].invoice \in Invoices /\ request[w].amount \in Nat
            BY <1>1 DEF Request, Successful, PaymentRow
        <3> QED
            BY <3>1, SharesAdd
    <2>2. ASSUME NEW w \in T PROVE e[w] \in Nat
        <3>1. payment'[request'[w].ref].invoice \in Invoices /\ request'[w].amount \in Nat
            BY <1>1 DEF Request, Successful, PaymentRow
        <3> QED
            BY <3>1, SharesAdd
    <2> QED
        BY <2>1, <2>2
<1>3. S \ {v} = T \ {v} /\ S \in SUBSET Resolvers /\ T \in SUBSET Resolvers
    BY <1>1
<1>4. \A w \in S \ {v} : e[w] = f[w]
    <2>1. \A q \in Successful : q \in Refs /\ payment'[q].invoice = payment[q].invoice
        BY SuccessesStay DEF Successful
    <2> QED
        BY <1>1, <2>1
<1>5. /\ Charging(request'[v], r, payment'[request'[v].ref].invoice) = IF v \in T THEN e[v] ELSE 0
      /\ Charging(request[v], r, payment[request[v].ref].invoice) = IF v \in S THEN f[v] ELSE 0
    BY DEF Charging
<1>6. Clawing(r) = SumFunctionOnSet(f, S) /\ Clawing(r)' = SumFunctionOnSet(e, T)
    BY DEF Clawing, ToClaw, At
<1> HIDE DEF f, e, S, T
<1>7. SumFunctionOnSet(e, T) = SumFunctionOnSet(f, S)
                + (IF v \in T THEN e[v] ELSE 0) - (IF v \in S THEN f[v] ELSE 0)
    BY <1>2, <1>3, <1>4, BoundsAssumption, SumReplace
<1>8. SumFunctionOnSet(f, S) \in Nat /\ SumFunctionOnSet(e, T) \in Nat
    BY <1>2, <1>3, BoundsAssumption, FS_Subset, SumIsNat
<1> QED
    BY <1>5, <1>6, <1>7, <1>8

LEMMA ClawingStays ==
    ASSUME DisputeInv, DisputeInv', [DisputeNext]_disputeVars, UNCHANGED request, NEW r
    PROVE  Clawing(r)' = Clawing(r) /\ Clawing(r) \in Nat
<1>1. CASE Resolvers = {}
    <2>1. Clawing(r) = 0 /\ Clawing(r)' = 0
        BY <1>1, SumEmpty DEF Clawing
    <2> QED
        BY <2>1
<1>2. ASSUME NEW v \in Resolvers PROVE Clawing(r)' = Clawing(r) /\ Clawing(r) \in Nat
    <2>1. request' = [request EXCEPT ![v] = request'[v]]
        BY DEF DisputeInv, RequestShaped
    <2> DEFINE q == request[v]
    <2>2. Charging(request'[v], r, payment'[q.ref].invoice) = Charging(q, r, payment[q.ref].invoice)
        <3>1. q.pc = "claw" => payment'[q.ref].invoice = payment[q.ref].invoice
            BY SuccessesStay DEF DisputeInv, RequestShaped, Successful
        <3> QED
            BY <3>1 DEF Charging
    <2>3. Charging(q, r, payment[q.ref].invoice) \in Nat
        BY ChargingTyped
    <2> QED
        BY <2>1, <2>2, <2>3, ClawingMoves
<1> QED
    BY <1>1, <1>2

LEMMA ClawedStays ==
    ASSUME clawback \in Seq(Clawback), DOMAIN clawback' = DOMAIN clawback,
           \A k \in DOMAIN clawback : /\ clawback'[k].ref = clawback[k].ref
                                      /\ clawback'[k].amount = clawback[k].amount,
           NEW r
    PROVE  Clawed(r)' = Clawed(r) /\ Clawed(r) \in Nat
<1> DEFINE K == {k \in DOMAIN clawback : clawback[k].ref = r}
           L == {k \in DOMAIN clawback' : clawback'[k].ref = r}
<1>1. K \subseteq DOMAIN clawback /\ L = K
    OBVIOUS
<1>2. Clawed(r) = Debt(K) /\ Clawed(r)' = SumFunctionOnSet([k \in DOMAIN clawback' |-> clawback'[k].amount], L)
    BY DEF Clawed, Debt
<1> HIDE DEF K, L
<1>3. \A k \in K : clawback'[k].amount = clawback[k].amount
    BY <1>1
<1>4. SumFunctionOnSet([k \in DOMAIN clawback' |-> clawback'[k].amount], K) = Debt(K)
    BY <1>1, <1>3, DebtStays
<1>5. Debt(K) \in Nat
    BY <1>1, DebtTyped
<1> QED
    BY <1>1, <1>2, <1>4, <1>5

LEMMA ClawedGrows ==
    ASSUME clawback \in Seq(Clawback), NEW q \in Refs, NEW amt \in Nat, AddClawback(q, amt), NEW r
    PROVE  /\ Clawed(r)' = Clawed(r) + (IF r = q THEN amt ELSE 0)
           /\ Clawed(r) \in Nat
<1>1. CASE amt = 0 /\ UNCHANGED clawback
    <2>1. Clawed(r)' = Clawed(r) /\ Clawed(r) \in Nat
        BY <1>1, ClawedStays
    <2> QED
        BY <1>1, <2>1
<1>2. CASE amt > 0 /\ Appends(q, amt)
    <2> DEFINE n == Len(clawback) + 1
               e == [k \in DOMAIN clawback' |-> clawback'[k].amount]
               K == {k \in DOMAIN clawback : clawback[k].ref = r}
               L == {k \in DOMAIN clawback' : clawback'[k].ref = r}
    <2>1. /\ DOMAIN clawback' = DOMAIN clawback \cup {n} /\ n \notin DOMAIN clawback
          /\ \A k \in DOMAIN clawback : clawback'[k] = clawback[k]
          /\ clawback'[n].ref = q
          /\ clawback' = Append(clawback, [ref |-> q, amount |-> amt, applied |-> 0])
        BY <1>2 DEF Appends
    <2>2. K \subseteq DOMAIN clawback /\ L = IF r = q THEN K \cup {n} ELSE K
        BY <2>1
    <2>3. Clawed(r) = Debt(K) /\ Clawed(r)' = SumFunctionOnSet(e, L) /\ Debt(K) \in Nat
        <3>1. Clawed(r) = Debt(K) /\ Clawed(r)' = SumFunctionOnSet(e, L)
            BY DEF Clawed, Debt
        <3>2. Debt(K) \in Nat
            BY <2>2, DebtTyped
        <3> QED
            BY <3>1, <3>2
    <2>4. CASE r = q
        <3>1. SumFunctionOnSet(e, K \cup {n}) = Debt(K) + amt
            <4> HIDE DEF K
            <4> QED
                BY <1>2, <2>1, <2>2, DebtGrows
        <3> HIDE DEF e, K, L, n
        <3> QED
            BY <2>2, <2>3, <2>4, <3>1
    <2>5. CASE r # q
        <3>1. SumFunctionOnSet(e, K) = Debt(K)
            <4>1. \A k \in K : clawback'[k].amount = clawback[k].amount
                BY <2>1, <2>2
            <4>2. K \subseteq DOMAIN clawback'
                BY <2>1, <2>2
            <4> HIDE DEF K
            <4> QED
                BY <2>2, <4>1, <4>2, DebtStays
        <3> HIDE DEF e, K, L, n
        <3> QED
            BY <2>2, <2>3, <2>5, <3>1
    <2> QED
        BY <2>4, <2>5
<1> QED
    BY <1>1, <1>2, AppendStays

\* A request charges the merchant only if pmt said they had been paid, which stays so.
PaidOutKnown ==
    \A v \in Resolvers :
        /\ request[v].pc \in {"refund", "record", "claw"} /\ request[v].paidOut =>
             AlreadyPaidOut(payment[request[v].ref])
        /\ request[v].pc = "claw" => request[v].paidOut

Charged(r) == Clawed(r) + Clawing(r)

\* A step takes nothing back that was not due, and nothing at all of what the merchant
\* has yet to be paid.
DueFalls(r) ==
    /\ Clawed(r) \in Nat /\ Clawing(r) \in Nat /\ Clawed(r)' \in Nat /\ Clawing(r)' \in Nat
    /\ r \in Successful => Due(r)' <= Due(r)
    /\ ~AlreadyPaidOut(payment[r]) => Charged(r)' <= Charged(r)

\* Refunds leave something of a payment or nothing, never less.
LEMMA ShareTyped ==
    ASSUME BooksInv, NEW r \in Refs
    PROVE  Remaining(r) \in Nat /\ Share(r) \in Nat
<1>1. /\ payment[r].refunded \in Nat /\ payment[r].amount \in Nat
      /\ payment[r].invoice \in Invoices
      /\ Unrecorded(r) \in Nat /\ Returned(r) \in Nat
      /\ payment[r].refunded + Unrecorded(r) <= Returned(r) /\ Returned(r) <= payment[r].amount
    BY BooksTyped
<1>2. Remaining(r) \in Nat
    BY <1>1 DEF Remaining
<1> QED
    BY <1>1, <1>2, SharesAdd DEF Share

LEMMA DueStays ==
    ASSUME BooksInv, [DisputeNext]_disputeVars, [SettlementNext]_settlementVars,
           UNCHANGED request, NEW r \in Refs
    PROVE  DueFalls(r)
<1>1. DisputeInv /\ DisputeInv' /\ ClaimInv /\ clawback \in Seq(Clawback)
    BY StepKeepsDisputeInv, BooksTyped DEF BooksInv, DisputeInv
<1>2. Clawing(r)' = Clawing(r) /\ Clawing(r) \in Nat
    BY <1>1, ClawingStays
<1>3. Clawed(r)' = Clawed(r) /\ Clawed(r) \in Nat
    BY <1>1, RowsStay, ClawedStays
<1>4. r \in Successful => Share(r)' = Share(r)
    BY <1>1, RowsStay DEF Share, Remaining
<1>5. Share(r) \in Nat
    BY ShareTyped
<1> QED
    BY <1>2, <1>3, <1>4, <1>5 DEF DueFalls, Charged, Due

LEMMA DueDrops ==
    ASSUME BooksInv, [DisputeNext]_disputeVars, NEW v \in Resolvers,
           request' = [request EXCEPT ![v] = request'[v]], request'[v].pc # "claw",
           UNCHANGED <<payment, clawback>>, NEW r \in Refs
    PROVE  DueFalls(r)
<1>1. DisputeInv /\ DisputeInv' /\ clawback \in Seq(Clawback)
    BY StepKeepsDisputeInv, BooksTyped DEF BooksInv
<1>2. Clawing(r)' <= Clawing(r) /\ Clawing(r) \in Nat /\ Clawing(r)' \in Nat
    <2>1. Charging(request'[v], r, payment'[request'[v].ref].invoice) = 0
        BY DEF Charging
    <2>2. Charging(request[v], r, payment[request[v].ref].invoice) \in Nat
        BY <1>1, ChargingTyped
    <2> QED
        BY <1>1, <2>1, <2>2, ClawingMoves
<1>3. Clawed(r)' = Clawed(r) /\ Clawed(r) \in Nat
    BY <1>1, ClawedStays
<1>4. Share(r)' = Share(r) /\ Share(r) \in Nat
    BY ShareTyped DEF Share, Remaining
<1> QED
    BY <1>2, <1>3, <1>4 DEF DueFalls, Charged, Due

\* AddPaymentRefund: what is left falls by what the merchant will be charged, if at all.
LEMMA DueRecords ==
    ASSUME BooksInv, PaidOutKnown, [DisputeNext]_disputeVars, NEW v \in Resolvers,
           AddPaymentRefund(v), NEW r \in Refs
    PROVE  DueFalls(r)
<1> DEFINE q == request[v]
           i == payment[q.ref].invoice
<1>1. DisputeInv /\ DisputeInv' /\ clawback \in Seq(Clawback) /\ payment \in [Refs -> PaymentRow]
    BY StepKeepsDisputeInv, BooksTyped DEF BooksInv
<1>2. /\ q.ref \in Refs /\ q.amount \in Nat /\ q.pc = "record" /\ q \in Request /\ i \in Invoices
      /\ q.amount <= Remaining(q.ref)
    BY <1>1, BillingTyped DEF AddPaymentRefund, At, DisputeInv, RequestShaped
<1>3. /\ payment' = [payment EXCEPT ![q.ref].refunded = @ + q.amount]
      /\ UNCHANGED clawback
      /\ request' = [request EXCEPT ![v] = request'[v]]
      /\ request'[v] = [q EXCEPT !.pc = IF q.paidOut THEN "claw" ELSE "tally"]
    BY <1>1 DEF AddPaymentRefund, Goto, DisputeInv, RequestShaped
<1>4. /\ request'[v].pc = IF q.paidOut THEN "claw" ELSE "tally"
      /\ request'[v].ref = q.ref /\ request'[v].amount = q.amount
    BY <1>2, <1>3 DEF Request
<1>5. /\ payment'[r].invoice = payment[r].invoice
      /\ payment'[r].amount = payment[r].amount
      /\ payment'[q.ref].invoice = i
      /\ r # q.ref => payment'[r].refunded = payment[r].refunded
      /\ r = q.ref => payment'[r].refunded = payment[r].refunded + q.amount
    <2>1. payment[r] \in PaymentRow /\ payment[q.ref] \in PaymentRow
        BY <1>1, <1>2
    <2>2. payment'[q.ref] = [payment[q.ref] EXCEPT !.refunded = @ + q.amount]
        BY <1>1, <1>2, <1>3
    <2>3. r # q.ref => payment'[r] = payment[r]
        BY <1>1, <1>3
    <2> HIDE DEF q
    <2> QED
        BY <2>1, <2>2, <2>3 DEF PaymentRow, i
<1>6. Clawed(r)' = Clawed(r) /\ Clawed(r) \in Nat
    BY <1>1, <1>3, ClawedStays
<1>7. /\ Clawing(r) \in Nat /\ Clawing(r)' \in Nat
      /\ Clawing(r)' = Clawing(r) +
            (IF q.paidOut /\ q.ref = r THEN MerchantShare(i, q.amount) ELSE 0)
    <2>1. Charging(q, r, i) = 0
        BY <1>2 DEF Charging
    <2>2. Charging(request'[v], r, payment'[request'[v].ref].invoice) =
             IF q.paidOut /\ q.ref = r THEN MerchantShare(i, q.amount) ELSE 0
        BY <1>4, <1>5 DEF Charging
    <2>3. /\ Clawing(r) \in Nat /\ Clawing(r)' \in Nat
          /\ Clawing(r)' = Clawing(r)
                + Charging(request'[v], r, payment'[request'[v].ref].invoice) - Charging(q, r, i)
        BY <1>1, <1>3, ClawingMoves
    <2>4. MerchantShare(i, q.amount) \in Nat
        BY <1>2, SharesAdd
    <2> HIDE DEF q, i
    <2> QED
        BY <2>1, <2>2, <2>3, <2>4
<1>8. Share(r) \in Nat /\ Remaining(r) \in Nat
    BY ShareTyped
<1>9. CASE r # q.ref
    <2>1. Share(r)' = Share(r)
        BY <1>5, <1>9 DEF Share, Remaining
    <2>2. Clawing(r)' = Clawing(r)
        BY <1>7, <1>9
    <2> QED
        BY <1>6, <1>7, <1>8, <2>1, <2>2 DEF DueFalls, Charged, Due
<1>10. CASE r = q.ref
    <2> DEFINE rest == Remaining(r) - q.amount
    <2>1. /\ Share(r)' = MerchantShare(i, rest) /\ rest \in Nat
          /\ Share(r) = MerchantShare(i, rest + q.amount)
        <3>1. Remaining(r)' = rest
            BY <1>1, <1>2, <1>5, <1>10, BooksTyped DEF Remaining
        <3>2. rest \in Nat /\ rest + q.amount = Remaining(r)
            BY <1>2, <1>8, <1>10
        <3> QED
            BY <1>5, <1>10, <3>1, <3>2 DEF Share
    <2> HIDE DEF rest
    <2>2. /\ MerchantShare(i, rest) \in Nat /\ MerchantShare(i, q.amount) \in Nat
          /\ MerchantShare(i, rest) + MerchantShare(i, q.amount) <= Share(r)
        BY <1>2, <2>1, SharesAdd
    <2>3. ~AlreadyPaidOut(payment[r]) => ~q.paidOut
        BY <1>2, <1>10 DEF PaidOutKnown
    <2>4. /\ Clawing(r)' <= Clawing(r) + MerchantShare(i, q.amount)
          /\ ~q.paidOut => Clawing(r)' = Clawing(r)
        BY <1>7, <1>10, <2>2
    <2>5. Share(r)' = MerchantShare(i, rest)
        BY <2>1
    <2> HIDE DEF q, i
    <2> QED
        BY <1>6, <1>7, <1>8, <2>2, <2>3, <2>4, <2>5 DEF DueFalls, Charged, Due
<1> QED
    BY <1>9, <1>10

\* CreateSettlementClawback: what was to be charged is.
LEMMA DueClaws ==
    ASSUME BooksInv, [DisputeNext]_disputeVars, NEW v \in Resolvers,
           CreateSettlementClawback(v), NEW r \in Refs
    PROVE  DueFalls(r)
<1> DEFINE q == request[v]
           i == payment[q.ref].invoice
           share == MerchantShare(i, q.amount)
<1>1. DisputeInv /\ DisputeInv' /\ clawback \in Seq(Clawback)
    BY StepKeepsDisputeInv, BooksTyped DEF BooksInv
<1>2. /\ q.pc = "claw" /\ q \in Request /\ q.ref \in Refs /\ share \in Nat
    BY <1>1, BillingTyped, SharesAdd DEF CreateSettlementClawback, At, DisputeInv, RequestShaped
<1>3. /\ AddClawback(q.ref, share)
      /\ UNCHANGED payment
      /\ request' = [request EXCEPT ![v] = request'[v]]
      /\ request'[v] = [q EXCEPT !.pc = "tally"]
    BY <1>1 DEF CreateSettlementClawback, ledgerVars, Goto, DisputeInv, RequestShaped
<1>4. /\ Clawed(r)' = Clawed(r) + (IF r = q.ref THEN share ELSE 0)
      /\ Clawed(r) \in Nat
    BY <1>1, <1>2, <1>3, ClawedGrows
<1>5. /\ Clawing(r) \in Nat /\ Clawing(r)' \in Nat
      /\ Clawing(r)' = Clawing(r) - (IF r = q.ref THEN share ELSE 0)
    <2>1. request'[v].pc = "tally"
        BY <1>2, <1>3 DEF Request
    <2>2. Charging(request'[v], r, payment'[request'[v].ref].invoice) = 0
        BY <2>1 DEF Charging
    <2>3. Charging(q, r, i) = IF r = q.ref THEN share ELSE 0
        BY <1>2 DEF Charging
    <2>4. /\ Clawing(r) \in Nat /\ Clawing(r)' \in Nat
          /\ Clawing(r)' = Clawing(r)
                + Charging(request'[v], r, payment'[request'[v].ref].invoice) - Charging(q, r, i)
        BY <1>1, <1>3, ClawingMoves
    <2> HIDE DEF q, i, share
    <2> QED
        BY <1>2, <2>2, <2>3, <2>4
<1>6. Share(r)' = Share(r) /\ Share(r) \in Nat
    BY <1>3, ShareTyped DEF Share, Remaining
<1> HIDE DEF share
<1> QED
    BY <1>2, <1>4, <1>5, <1>6 DEF DueFalls, Charged, Due

\* How a request that works on a payment goes on.
Kept(w) ==
    \/ request'[w] = request[w]
    \/ request'[w].pc \notin {"refund", "record", "claw"}
    \/ /\ request'[w].pc = "refund" /\ request'[w].ref \in Successful
       /\ request'[w].paidOut = AlreadyPaidOut(payment[request'[w].ref])
    \/ /\ request'[w].pc \in {"record", "claw"}
       /\ request[w].pc \in {"refund", "record"}
       /\ request'[w].ref = request[w].ref
       /\ request'[w].paidOut = request[w].paidOut
       /\ request'[w].pc = "claw" => request[w].paidOut

LEMMA NextDue ==
    ASSUME BooksInv, PaidOutKnown, [DisputeNext]_disputeVars
    PROVE  (\A r \in Refs : DueFalls(r)) /\ (\A w \in Resolvers : Kept(w))
<1>0. DisputeInv /\ request \in [Resolvers -> Request]
    BY DEF BooksInv, DisputeInv, RequestShaped
<1>1. ASSUME [SettlementNext]_settlementVars, UNCHANGED request
      PROVE  (\A r \in Refs : DueFalls(r)) /\ (\A w \in Resolvers : Kept(w))
    BY <1>1, DueStays DEF Kept
<1>2. ASSUME NEW v \in Resolvers,
             request' = [request EXCEPT ![v] = request'[v]],
             request'[v].pc # "claw", Kept(v),
             UNCHANGED <<payment, clawback>>
      PROVE  (\A r \in Refs : DueFalls(r)) /\ (\A w \in Resolvers : Kept(w))
    <2>1. \A w \in Resolvers : w # v => request'[w] = request[w]
        BY <1>0, <1>2
    <2> QED
        BY <1>2, <2>1, DueDrops DEF Kept
<1>3. ASSUME NEW v \in Resolvers, Return(v)
      PROVE  request' = [request EXCEPT ![v] = request'[v]] /\ request'[v].pc = "idle"
    BY <1>0, <1>3 DEF Return, NoRequest
<1>4. ASSUME NEW v \in Resolvers, NEW pc, Goto(v, pc)
      PROVE  /\ request' = [request EXCEPT ![v] = request'[v]]
             /\ request'[v].pc = pc
             /\ request'[v].ref = request[v].ref
             /\ request'[v].paidOut = request[v].paidOut
             /\ \A w \in Resolvers : w # v => request'[w] = request[w]
    BY <1>0, <1>4 DEF Goto, Request
<1>5. ASSUME NEW v \in Resolvers,
             Investigate(v) \/ Refused(v) \/ Close(v) \/ StopHalfWay(v) \/ AnswerLost(v)
      PROVE  (\A r \in Refs : DueFalls(r)) /\ (\A w \in Resolvers : Kept(w))
    <2>1. Return(v) /\ UNCHANGED <<payment, clawback>>
        BY <1>5 DEF Investigate, Refused, Close, StopHalfWay, AnswerLost, settlementVars, ledgerVars
    <2>2. request'[v].pc = "idle" /\ request' = [request EXCEPT ![v] = request'[v]]
        BY <1>3, <2>1
    <2>3. Kept(v)
        BY <2>2 DEF Kept
    <2> QED
        BY <1>2, <2>1, <2>2, <2>3
<1>6. ASSUME NEW v \in Resolvers, Tally(v) \/ MarkRefunded(v) \/ SkipInvoice(v)
      PROVE  (\A r \in Refs : DueFalls(r)) /\ (\A w \in Resolvers : Kept(w))
    <2>0. \E pc \in {"mark", "close"} : Goto(v, pc)
        BY <1>6, Zenon DEF Tally, MarkRefunded, SkipInvoice
    <2>1. UNCHANGED <<payment, clawback>>
        BY <1>6 DEF Tally, MarkRefunded, SkipInvoice, settlementVars, ledgerVars
    <2>2. PICK pc \in {"mark", "close"} : Goto(v, pc)
        BY <2>0
    <2>3. request'[v].pc \in {"mark", "close"} /\ request' = [request EXCEPT ![v] = request'[v]]
        BY <1>4, <2>2
    <2>4. Kept(v)
        BY <2>3 DEF Kept
    <2> QED
        BY <1>2, <2>1, <2>3, <2>4
<1>7. ASSUME NEW v \in Resolvers, RefundTransaction(v)
      PROVE  (\A r \in Refs : DueFalls(r)) /\ (\A w \in Resolvers : Kept(w))
    <2>1. At(v, "refund") /\ UNCHANGED <<payment, clawback>> /\ Goto(v, "record")
        BY <1>7 DEF RefundTransaction, settlementVars, ledgerVars
    <2>2. /\ request' = [request EXCEPT ![v] = request'[v]]
          /\ request'[v].pc = "record" /\ request'[v].ref = request[v].ref
          /\ request'[v].paidOut = request[v].paidOut
        BY <1>4, <2>1
    <2>3. Kept(v)
        BY <2>1, <2>2 DEF Kept, At
    <2> QED
        BY <1>2, <2>1, <2>2, <2>3
<1>8. ASSUME NEW v \in Resolvers, NEW d \in Cases, NEW to \in DisputeStatus,
             StartResolve(v, d, to)
      PROVE  (\A r \in Refs : DueFalls(r)) /\ (\A w \in Resolvers : Kept(w))
    <2>1. /\ to \in {"investigating", "resolved_refunded", "resolved_denied"}
          /\ request' = [request EXCEPT ![v] =
                [NoRequest EXCEPT !.pc = AfterCheck[to], !.case = d, !.to = to]]
          /\ UNCHANGED <<payment, clawback>>
        <3>1. dispute[d].status \in DisputeStatus \cup {"absent"}
            BY <1>0 DEF DisputeInv, RequestShaped, DisputeRow
        <3> QED
            BY <1>8, <3>1 DEF StartResolve, disputeStatusTransitions, DisputeStatus, Resolved,
                              settlementVars, ledgerVars
    <2>2. AfterCheck[to] \in {"note", "load", "close"}
        BY <2>1 DEF AfterCheck
    <2>3. /\ request' = [request EXCEPT ![v] = request'[v]]
          /\ request'[v].pc = AfterCheck[to]
        BY <1>0, <2>1 DEF NoRequest
    <2>4. Kept(v)
        BY <2>2, <2>3 DEF Kept
    <2> QED
        BY <1>2, <2>1, <2>2, <2>3, <2>4
<1>9. ASSUME NEW v \in Resolvers, NEW r \in Refs, NEW amt \in Refunds, LoadPayment(v, r, amt)
      PROVE  (\A q \in Refs : DueFalls(q)) /\ (\A w \in Resolvers : Kept(w))
    <2> DEFINE paidOut == AlreadyPaidOut(payment[r])
    <2>0. r \in Successful
        BY <1>9 DEF LoadPayment, SuccessfulOn
    <2>1. /\ request' = [request EXCEPT ![v].pc = "refund", ![v].ref = r, ![v].amount = amt,
                                        ![v].paidOut = paidOut]
          /\ UNCHANGED <<payment, clawback>>
        BY <1>9 DEF LoadPayment, settlementVars, ledgerVars
    <2> HIDE DEF paidOut
    <2>2. /\ request' = [request EXCEPT ![v] = request'[v]]
          /\ request'[v].pc = "refund" /\ request'[v].ref = r /\ request'[v].paidOut = paidOut
        BY <1>0, <2>1 DEF Request
    <2>3. Kept(v)
        BY <2>0, <2>2 DEF Kept, paidOut
    <2> QED
        BY <1>2, <2>1, <2>2, <2>3
<1>10. ASSUME NEW d \in Cases, NEW i \in Invoices, CreateDispute(d, i)
       PROVE  (\A r \in Refs : DueFalls(r)) /\ (\A w \in Resolvers : Kept(w))
    BY <1>1, <1>10 DEF CreateDispute
<1>11. ASSUME Elsewhere
       PROVE  (\A r \in Refs : DueFalls(r)) /\ (\A w \in Resolvers : Kept(w))
    BY <1>1, <1>11 DEF Elsewhere
<1>12. ASSUME UNCHANGED disputeVars
       PROVE  (\A r \in Refs : DueFalls(r)) /\ (\A w \in Resolvers : Kept(w))
    BY <1>1, <1>12 DEF disputeVars
<1>13. ASSUME NEW v \in Resolvers, AddPaymentRefund(v)
       PROVE  (\A r \in Refs : DueFalls(r)) /\ (\A w \in Resolvers : Kept(w))
    <2>1. PICK pc \in {"claw", "tally"} :
             At(v, "record") /\ Goto(v, pc) /\ (pc = "claw" => request[v].paidOut)
        BY <1>13 DEF AddPaymentRefund
    <2>2. /\ request'[v].pc = pc /\ request'[v].ref = request[v].ref
          /\ request'[v].paidOut = request[v].paidOut
          /\ \A w \in Resolvers : w # v => request'[w] = request[w]
        BY <1>4, <2>1
    <2>3. Kept(v)
        BY <2>1, <2>2 DEF Kept, At
    <2> QED
        BY <1>13, <2>2, <2>3, DueRecords DEF Kept
<1>14. ASSUME NEW v \in Resolvers, CreateSettlementClawback(v)
       PROVE  (\A r \in Refs : DueFalls(r)) /\ (\A w \in Resolvers : Kept(w))
    <2>1. Goto(v, "tally")
        BY <1>14 DEF CreateSettlementClawback
    <2>2. request'[v].pc = "tally" /\ \A w \in Resolvers : w # v => request'[w] = request[w]
        BY <1>4, <2>1
    <2> QED
        BY <1>14, <2>2, DueClaws DEF Kept
<1>15. ASSUME NEW v \in Resolvers, Resolve(v)
       PROVE  (\A r \in Refs : DueFalls(r)) /\ (\A w \in Resolvers : Kept(w))
    BY <1>5, <1>6, <1>7, <1>8, <1>9, <1>13, <1>14, <1>15 DEF Resolve
<1> QED
    BY <1>10, <1>11, <1>12, <1>15 DEF DisputeNext

\* Whoever has been paid stays paid.
LEMMA PaidOutStays ==
    ASSUME DisputeInv, RowsNamed, [DisputeNext]_disputeVars, NEW r \in Refs
    PROVE  /\ r \in Successful /\ AlreadyPaidOut(payment[r]) => AlreadyPaidOut(payment'[r])
           /\ r \in Successful => payment'[r].split = payment[r].split
<1>1. ASSUME NEW a \in Admins, NEW s \in Sids, Commits(a, s)
      PROVE  /\ AlreadyPaidOut(payment[r]) => AlreadyPaidOut(payment'[r])
             /\ payment'[r].split = payment[r].split
    BY <1>1 DEF Commits, AlreadyPaidOut
<1>2. ASSUME NEW a \in Admins, MovesOn(a) PROVE UNCHANGED payment
    BY <1>2 DEF MovesOn
<1>3. ASSUME NEW q \in Refs, Credits(q) PROVE r \in Successful => payment'[r] = payment[r]
    BY <1>3 DEF Credits
<1>4. ASSUME Elsewise
      PROVE  /\ AlreadyPaidOut(payment[r]) => AlreadyPaidOut(payment'[r])
             /\ payment'[r].split = payment[r].split
    BY <1>4 DEF Elsewise, SameClaim, AlreadyPaidOut
<1> QED
    BY <1>1, <1>2, <1>3, <1>4, StepOnTables

LEMMA NextPaidOutKnown ==
    ASSUME BooksInv, RowsNamed, PaidOutKnown, [DisputeNext]_disputeVars
    PROVE  PaidOutKnown'
<1> SUFFICES ASSUME NEW w \in Resolvers
             PROVE  /\ request'[w].pc \in {"refund", "record", "claw"} /\ request'[w].paidOut =>
                         AlreadyPaidOut(payment'[request'[w].ref])
                    /\ request'[w].pc = "claw" => request'[w].paidOut
    BY DEF PaidOutKnown
<1>1. Kept(w) /\ DisputeInv
    BY NextDue DEF BooksInv
<1>2. \A r \in Successful : r \in Refs /\ (AlreadyPaidOut(payment[r]) => AlreadyPaidOut(payment'[r]))
    BY <1>1, PaidOutStays DEF Successful
<1>3. request[w].pc \in {"refund", "record", "claw"} => request[w].ref \in Successful
    BY <1>1 DEF DisputeInv, RequestShaped
<1> QED
    BY <1>1, <1>2, <1>3 DEF Kept, PaidOutKnown

-----------------------------------------------------------------------------
(* What a settlement claims without having counted it came in late.        *)

LateInv ==
    /\ \A r \in Refs \ Successful : ~payment[r].split
    /\ \A r \in Refs : payment[r].settlement # 0 => payment[r].settlement \in Generated
    /\ \A a \in Admins : generation[a].known \subseteq Successful
    /\ LeftOutStaysOut
    /\ \A a \in Admins : InGeneration(a, "commit") =>
         generation[a].marked \cap generation[a].known \subseteq generation[a].counted

LEMMA InitLate == DisputeInit => LateInv
<1> SUFFICES ASSUME DisputeInit PROVE LateInv
    OBVIOUS
<1>1. /\ generation = [a \in Admins |-> NoGeneration] /\ payment = [r \in Refs |-> NoRow]
    BY DEF DisputeInit, SettlementInit
<1>2. /\ NoGeneration.known = {} /\ NoGeneration.pc = "idle"
      /\ NoRow.split = FALSE /\ NoRow.settlement = 0
    BY DEF NoGeneration, NoRow
<1> QED
    BY <1>1, <1>2 DEF LateInv, LeftOutStaysOut, InGeneration

LEMMA CommitKeepsLate ==
    ASSUME LateInv, NEW a \in Admins, NEW s \in Sids, Commits(a, s)
    PROVE  LateInv'
<1>1. /\ Generated' = Generated \cup {s} /\ s # 0
      /\ \A b \in Admins : b # a => generation'[b] = generation[b]
      /\ generation'[a] = NoGeneration
      /\ \A r \in Refs : /\ payment'[r].settlement \in {s, payment[r].settlement}
                         /\ payment'[r].split = payment[r].split
                         /\ payment'[r].status = payment[r].status
                         /\ payment'[r].day = payment[r].day
    BY DEF Commits
<1>2. Successful' = Successful
    BY <1>1 DEF Successful
<1>3. NoGeneration.known = {} /\ NoGeneration.pc = "idle"
    BY DEF NoGeneration
<1>4. ASSUME NEW g, NEW r, r \in {q \in Successful' : /\ payment'[q].settlement = 0
                                                   /\ ~payment'[q].split
                                                   /\ payment'[q].day \in g.from..g.to}
      PROVE  r \in Claimable(g.from, g.to)
    <2>1. /\ r \in Refs /\ payment'[r].settlement = 0 /\ ~payment'[r].split
          /\ payment'[r].day \in g.from..g.to /\ r \in Successful
        BY <1>2, <1>4 DEF Successful
    <2>2. payment[r].settlement = 0 /\ ~payment[r].split /\ payment[r].day \in g.from..g.to
        BY <1>1, <2>1
    <2> QED
        BY <2>1, <2>2 DEF Claimable
<1>5. ASSUME NEW b \in Admins
      PROVE  /\ generation'[b].known \subseteq Successful'
             /\ \A r \in generation'[b].known \ generation'[b].counted :
                  r \notin Claimable(generation[b].from, generation[b].to)'
             /\ generation'[b].pc = "commit" =>
                  generation'[b].marked \cap generation'[b].known \subseteq generation'[b].counted
    <2>1. CASE b = a
        BY <1>1, <1>3, <2>1
    <2>2. CASE b # a
        <3>1. generation'[b] = generation[b]
            BY <1>1, <2>2
        <3>2. /\ generation[b].known \subseteq Successful
              /\ \A r \in generation[b].known \ generation[b].counted :
                   r \notin Claimable(generation[b].from, generation[b].to)
              /\ generation[b].pc = "commit" =>
                   generation[b].marked \cap generation[b].known \subseteq generation[b].counted
            BY DEF LateInv, LeftOutStaysOut, InGeneration
        <3>3. \A r : r \in Claimable(generation[b].from, generation[b].to)' =>
                       r \in Claimable(generation[b].from, generation[b].to)
            BY <1>4, <3>1 DEF Claimable
        <3> QED
            BY <1>2, <3>1, <3>2, <3>3
    <2> QED
        BY <2>1, <2>2
<1>6. LeftOutStaysOut'
    BY <1>5 DEF LeftOutStaysOut
<1>7. \A r \in Refs \ Successful' : ~payment'[r].split
    BY <1>1, <1>2 DEF LateInv
<1>8. \A r \in Refs : payment'[r].settlement # 0 => payment'[r].settlement \in Generated'
    BY <1>1 DEF LateInv
<1> QED
    BY <1>5, <1>6, <1>7, <1>8 DEF LateInv, InGeneration

LEMMA MoveKeepsLate ==
    ASSUME LateInv, NEW a \in Admins, MovesOn(a)
    PROVE  LateInv'
<1> DEFINE g == generation[a]
           h == generation'[a]
<1>1. /\ UNCHANGED <<payment, clawback, settlement>>
      /\ \A b \in Admins : b # a => generation'[b] = generation[b]
    BY DEF MovesOn
<1>2. /\ Successful' = Successful /\ Generated' = Generated
      /\ \A f, t : Claimable(f, t)' = Claimable(f, t)
    BY <1>1 DEF Successful, Generated, Claimable
<1>3. \/ h = NoGeneration
      \/ Counts(g, h)
      \/ g.pc = "deduct" /\ h.pc = "write" /\ KeepsCount(g, h) /\ h.taken \subseteq Outstanding
      \/ g.pc = "write" /\ h.pc = "commit" /\ KeepsCount(g, h) /\ h.taken = g.taken
         /\ h.marked = Claimable(g.from, g.to)
    BY DEF MovesOn
<1>4. /\ g.known \subseteq Successful
      /\ \A r \in g.known \ g.counted : r \notin Claimable(g.from, g.to)
    BY DEF LateInv, LeftOutStaysOut
<1>5. /\ h.known \subseteq Successful
      /\ \A r \in h.known \ h.counted : r \notin Claimable(h.from, h.to)
      /\ h.pc = "commit" => h.marked \cap h.known \subseteq h.counted
    <2>1. CASE h = NoGeneration
        <3>1. NoGeneration.known = {} /\ NoGeneration.pc = "idle"
            BY DEF NoGeneration
        <3> QED
            BY <2>1, <3>1
    <2>2. CASE Counts(g, h)
        <3>1. h.pc = "deduct" /\ h.known = Successful /\ h.counted = Claimable(h.from, h.to)
            BY <2>2 DEF Counts
        <3> HIDE DEF h
        <3> QED
            BY <3>1
    <2>3. CASE KeepsCount(g, h) /\ (h.pc = "commit" => h.marked = Claimable(g.from, g.to))
        <3>1. /\ h.known = g.known /\ h.counted = g.counted /\ h.from = g.from /\ h.to = g.to
              /\ h.pc = "commit" => h.marked = Claimable(g.from, g.to)
            BY <2>3 DEF KeepsCount
        <3> HIDE DEF g, h
        <3> QED
            BY <1>4, <3>1
    <2> QED
        BY <1>3, <2>1, <2>2, <2>3
<1> HIDE DEF g
<1>6. ASSUME NEW b \in Admins
      PROVE  /\ generation'[b].known \subseteq Successful
             /\ \A r \in generation'[b].known \ generation'[b].counted :
                  r \notin Claimable(generation'[b].from, generation'[b].to)
             /\ generation'[b].pc = "commit" =>
                  generation'[b].marked \cap generation'[b].known \subseteq generation'[b].counted
    <2>1. CASE b = a
        BY <1>5, <2>1
    <2>2. CASE b # a
        BY <1>1, <2>2 DEF LateInv, LeftOutStaysOut, InGeneration
    <2> QED
        BY <2>1, <2>2
<1>7. ASSUME NEW b \in Admins, NEW r \in generation'[b].known \ generation'[b].counted
      PROVE  r \notin Claimable(generation[b].from, generation[b].to)'
    <2>1. Claimable(generation[b].from, generation[b].to)' =
             Claimable(generation'[b].from, generation'[b].to)
        BY <1>1 DEF Claimable, Successful
    <2> QED
        BY <1>6, <1>7, <2>1
<1>8. LeftOutStaysOut'
    BY <1>7 DEF LeftOutStaysOut
<1> QED
    BY <1>1, <1>2, <1>6, <1>8 DEF LateInv, InGeneration

LEMMA CreditKeepsLate ==
    ASSUME LateInv, SameSettlements, UNCHANGED generation, NEW q \in Refs, Credits(q)
    PROVE  LateInv'
<1>1. /\ q \notin Successful /\ q \in Successful' /\ payment'[q].settlement = 0
      /\ \A r \in Refs : r # q => payment'[r] = payment[r]
      /\ Generated' = Generated
    BY DEF Credits, SameSettlements
<1>2. Successful \subseteq Successful' /\ \A r \in Refs \ Successful' : payment'[r] = payment[r]
    BY <1>1 DEF Successful
<1>3. ASSUME NEW b \in Admins, NEW r \in generation[b].known \ generation[b].counted
      PROVE  r \notin Claimable(generation[b].from, generation[b].to)'
    <2>1. r \in Successful /\ r # q /\ r \notin Claimable(generation[b].from, generation[b].to)
        BY <1>1, <1>3 DEF LateInv, LeftOutStaysOut
    <2>2. payment'[r] = payment[r]
        BY <1>1, <2>1 DEF Successful
    <2> QED
        BY <2>1, <2>2 DEF Claimable
<1>4. LeftOutStaysOut'
    BY <1>3 DEF LeftOutStaysOut
<1>5. \A r \in Refs : payment'[r].settlement # 0 => payment'[r].settlement \in Generated'
    BY <1>1 DEF LateInv
<1>6. \A r \in Refs \ Successful' : ~payment'[r].split
    BY <1>2 DEF LateInv
<1> QED
    BY <1>2, <1>4, <1>5, <1>6 DEF LateInv, InGeneration

LEMMA ElseKeepsLate ==
    ASSUME LateInv, SameSettlements, Elsewise
    PROVE  LateInv'
<1>1. UNCHANGED generation /\ (\A r \in Refs : SameClaim(r)) /\ Generated' = Generated
    BY DEF Elsewise, SameSettlements
<1>2. Successful' = Successful
    BY <1>1 DEF Successful, SameClaim
<1>3. ASSUME NEW b \in Admins, NEW r \in generation[b].known \ generation[b].counted
      PROVE  r \notin Claimable(generation[b].from, generation[b].to)'
    <2>1. r \in Successful /\ r \notin Claimable(generation[b].from, generation[b].to)
        BY <1>3 DEF LateInv, LeftOutStaysOut
    <2>2. SameClaim(r)
        BY <1>1, <2>1 DEF Successful
    <2> QED
        BY <1>1, <2>1, <2>2 DEF Claimable, SameClaim
<1>4. LeftOutStaysOut'
    BY <1>1, <1>3 DEF LeftOutStaysOut
<1>5. \A r \in Refs : payment'[r].settlement # 0 => payment'[r].settlement \in Generated'
    BY <1>1 DEF LateInv, SameClaim
<1>6. \A r \in Refs \ Successful' : ~payment'[r].split
    BY <1>1, <1>2 DEF LateInv, SameClaim
<1> QED
    BY <1>1, <1>2, <1>4, <1>5, <1>6 DEF LateInv, InGeneration

LEMMA NextLate ==
    ASSUME DisputeInv, RowsNamed, LateInv, [DisputeNext]_disputeVars
    PROVE  LateInv'
BY StepOnTables, CommitKeepsLate, MoveKeepsLate, CreditKeepsLate, ElseKeepsLate

-----------------------------------------------------------------------------
(* What is charged back has been paid.                                     *)

PaidInv ==
    /\ \A a \in Admins : \A r \in generation[a].counted :
         generation[a].worth[r] \in Nat /\ Due(r) <= generation[a].worth[r]
    /\ \A r \in Refs : payment[r].settlement # 0 =>
         \/ r \in settlement[payment[r].settlement].late
         \/ settlement[payment[r].settlement].worth[r] \in Nat
    /\ ShareIsPaidFor

LEMMA InitDue == DisputeInit => PaidInv /\ PaidOutKnown
<1> SUFFICES ASSUME DisputeInit PROVE PaidInv /\ PaidOutKnown
    OBVIOUS
<1>1. /\ generation = [a \in Admins |-> NoGeneration] /\ payment = [r \in Refs |-> NoRow]
      /\ clawback = << >> /\ request = [v \in Resolvers |-> NoRequest]
    BY DEF DisputeInit, SettlementInit
<1>2. /\ NoGeneration.counted = {} /\ NoRequest.pc = "idle"
      /\ NoRow.settlement = 0 /\ NoRow.status = "absent"
    BY DEF NoGeneration, NoRow, NoRequest
<1>3. ASSUME NEW r \in Refs PROVE Clawed(r) + Clawing(r) = 0
    <2>1. {k \in DOMAIN clawback : clawback[k].ref = r} = {}
        BY <1>1
    <2>2. {v \in Resolvers : At(v, "claw") /\ request[v].ref = r} = {}
        BY <1>1, <1>2 DEF At
    <2>3. Clawed(r) = 0
        BY <2>1, SumEmpty DEF Clawed, Debt
    <2>4. Clawing(r) = 0
        BY <2>2, SumEmpty DEF Clawing
    <2> QED
        BY <2>3, <2>4
<1>4. ShareIsPaidFor
    BY <1>1, <1>2, <1>3 DEF ShareIsPaidFor, Successful
<1>5. PaidInv
    BY <1>1, <1>2, <1>4 DEF PaidInv
<1>6. PaidOutKnown
    BY <1>1, <1>2 DEF PaidOutKnown
<1> QED
    BY <1>5, <1>6

\* splitParamsFor: Paystack keeps no more of a charge than leaves the merchant their share.
LEMMA ShareFits ==
    ASSUME NEW i \in Invoices, NEW amt \in Nat
    PROVE  /\ SplitCharge(i, amt) \in Nat
           /\ MerchantShare(i, amt) \in Nat
           /\ MerchantShare(i, amt) <= amt - SplitCharge(i, amt)
<1> DEFINE n == Total[i]
           c == Commission[i]
           x == amt * (n - c)
           y == c * amt
<1>1. n \in Nat \ {0} /\ c \in Nat /\ n - c \in Nat
    BY TotalAssumption, CommissionAssumption
<1>2. SplitCharge(i, amt) = y \div n /\ MerchantShare(i, amt) = x \div n
    BY DEF SplitCharge, MerchantShare
<1> HIDE DEF n, c
<1>3. x \in Nat /\ y \in Nat /\ x + y = n * amt
    BY <1>1
<1>4. (n * amt) \div n = amt
    BY <1>1
<1> HIDE DEF x, y
<1>5. /\ x \div n \in Nat /\ y \div n \in Nat
      /\ (x \div n) + (y \div n) <= amt
    BY <1>1, <1>3, <1>4, QuotientsAdd
<1> QED
    BY <1>2, <1>5

LEMMA ShareIsInt ==
    ASSUME NEW i \in Invoices, NEW amt \in Int
    PROVE  MerchantShare(i, amt) \in Int
<1> DEFINE n == Total[i]
           c == Commission[i]
<1>1. n \in Nat \ {0} /\ c \in Nat
    BY TotalAssumption, CommissionAssumption
<1>2. MerchantShare(i, amt) = (amt * (n - c)) \div n
    BY DEF MerchantShare
<1> HIDE DEF n, c
<1>3. amt * (n - c) \in Int
    BY <1>1
<1>4. \A x \in Int : x \div n \in Int
    BY <1>1
<1> QED
    BY <1>2, <1>3, <1>4

\* A payment that becomes one has just been credited.
LEMMA CreditedNow ==
    ASSUME DisputeInv, RowsNamed, [DisputeNext]_disputeVars, NEW r \in Refs,
           r \notin Successful, r \in Successful'
    PROVE  Credits(r)
<1>1. payment'[r].status # payment[r].status
    BY DEF Successful
<1>2. ASSUME NEW a \in Admins, NEW s \in Sids, Commits(a, s) PROVE FALSE
    BY <1>1, <1>2 DEF Commits
<1>3. ASSUME NEW a \in Admins, MovesOn(a) PROVE FALSE
    BY <1>1, <1>3 DEF MovesOn
<1>4. ASSUME NEW q \in Refs, Credits(q) PROVE q = r
    BY <1>1, <1>4 DEF Credits
<1>5. ASSUME Elsewise PROVE FALSE
    BY <1>1, <1>5 DEF Elsewise, SameClaim
<1> QED
    BY <1>2, <1>3, <1>4, <1>5, StepOnTables

\* What DueFalls says, with the types.
LEMMA DueTyped ==
    ASSUME BooksInv, PaidOutKnown, [DisputeNext]_disputeVars, NEW r \in Refs
    PROVE  /\ Charged(r) \in Nat /\ Charged(r)' \in Nat
           /\ Due(r) = Share(r) + Charged(r) /\ Due(r)' = Share(r)' + Charged(r)'
           /\ Due(r) \in Nat /\ Due(r)' \in Int
           /\ r \in Successful => Due(r)' <= Due(r)
           /\ ~AlreadyPaidOut(payment[r]) => Charged(r)' <= Charged(r)
<1>1. DueFalls(r)
    BY NextDue
<1>2. DisputeInv /\ DisputeInv'
    BY StepKeepsDisputeInv DEF BooksInv
<1>3. Share(r)' \in Int
    <2>1. payment'[r] \in PaymentRow
        BY <1>2 DEF DisputeInv, ClaimInv, RowsShaped
    <2>2. payment'[r].invoice \in Invoices /\ payment'[r].amount - payment'[r].refunded \in Int
        BY <2>1 DEF PaymentRow
    <2> QED
        BY <2>2, ShareIsInt DEF Share, Remaining
<1>4. Share(r) \in Nat
    BY ShareTyped
<1>5. /\ Due(r) = Share(r) + Clawed(r) + Clawing(r)
      /\ Due(r)' = Share(r)' + Clawed(r)' + Clawing(r)'
      /\ Charged(r) = Clawed(r) + Clawing(r)
      /\ Charged(r)' = Clawed(r)' + Clawing(r)'
    BY DEF Due, Charged
<1> QED
    BY <1>1, <1>3, <1>4, <1>5 DEF DueFalls

\* What has not been paid out has cost nothing but its share.
LEMMA NothingCharged ==
    ASSUME BooksInv, PaidOutKnown, ShareIsPaidFor, [DisputeNext]_disputeVars,
           NEW r \in Refs, ~AlreadyPaidOut(payment[r])
    PROVE  Due(r) = Share(r) /\ Charged(r)' = 0 /\ Due(r)' = Share(r)'
<1>1. Charged(r) = 0
    BY DEF ShareIsPaidFor, Charged
<1>2. /\ Charged(r)' \in Nat /\ Charged(r)' <= Charged(r)
      /\ Due(r) = Share(r) + Charged(r) /\ Due(r)' = Share(r)' + Charged(r)'
      /\ Due(r) \in Nat /\ Due(r)' \in Int
    BY DueTyped
<1>3. Share(r) \in Nat
    BY ShareTyped
<1>4. Share(r)' \in Int
    <2>1. DisputeInv'
        BY StepKeepsDisputeInv DEF BooksInv
    <2>2. payment'[r] \in PaymentRow
        BY <2>1 DEF DisputeInv, ClaimInv, RowsShaped
    <2>3. payment'[r].invoice \in Invoices /\ payment'[r].amount - payment'[r].refunded \in Int
        BY <2>2 DEF PaymentRow
    <2> QED
        BY <2>3, ShareIsInt DEF Share, Remaining
<1> QED
    BY <1>1, <1>2, <1>3, <1>4

LEMMA CountsStayDue ==
    ASSUME BooksInv, RepeatInv, LateInv, PaidOutKnown, PaidInv, [DisputeNext]_disputeVars,
           NEW b \in Admins, NEW r \in generation'[b].counted
    PROVE  generation'[b].worth[r] \in Nat /\ Due(r)' <= generation'[b].worth[r]
<1>1. DisputeInv /\ RowsNamed /\ CountedIsClaimed /\ ShareIsPaidFor
    BY DEF BooksInv, RepeatInv, PaidInv
<1>2. CASE generation'[b] = generation[b]
    <2>1. r \in Successful /\ r \in Refs
        BY <1>1, <1>2 DEF CountedIsClaimed, Successful
    <2>2. generation[b].worth[r] \in Nat /\ Due(r) <= generation[b].worth[r]
        BY <1>2 DEF PaidInv
    <2>3. Due(r)' <= Due(r) /\ Due(r) \in Nat /\ Due(r)' \in Int
        BY <2>1, DueTyped
    <2> QED
        BY <1>2, <2>2, <2>3
<1>3. CASE generation'[b] = NoGeneration
    BY <1>3 DEF NoGeneration
<1>4. CASE KeepsCount(generation[b], generation'[b])
    <2>0. /\ generation'[b].counted = generation[b].counted
          /\ generation'[b].worth = generation[b].worth
        BY <1>4 DEF KeepsCount
    <2>1. r \in Successful /\ r \in Refs /\ r \in generation[b].counted
        BY <1>1, <2>0 DEF CountedIsClaimed, Successful
    <2>2. generation[b].worth[r] \in Nat /\ Due(r) <= generation[b].worth[r]
        BY <2>1 DEF PaidInv
    <2>3. Due(r)' <= Due(r) /\ Due(r) \in Nat /\ Due(r)' \in Int
        BY <2>1, DueTyped
    <2> QED
        BY <2>0, <2>2, <2>3
<1>5. CASE Counts(generation[b], generation'[b])
    <2> DEFINE h == generation'[b]
    <2>1. /\ h.counted = Claimable(h.from, h.to)
          /\ h.worth = [q \in Refs |-> IF q \in h.counted THEN Share(q) ELSE 0]
        BY <1>5 DEF Counts
    <2>2. /\ r \in Successful /\ r \in Refs /\ payment[r].settlement = 0 /\ ~payment[r].split
        BY <2>1 DEF Claimable, Successful
    <2>3. h.worth[r] = Share(r)
        BY <2>1, <2>2
    <2>4. Due(r) = Share(r)
        BY <1>1, <2>2, NothingCharged DEF AlreadyPaidOut
    <2>5. Due(r)' <= Due(r) /\ Due(r) \in Nat /\ Due(r)' \in Int
        BY <2>2, DueTyped
    <2> QED
        BY <2>3, <2>4, <2>5
<1>6. ASSUME NEW a \in Admins, NEW s \in Sids, Commits(a, s)
      PROVE  generation'[b] \in {NoGeneration, generation[b]}
    BY <1>6 DEF Commits
<1>7. ASSUME NEW a \in Admins, MovesOn(a)
      PROVE  \/ generation'[b] \in {NoGeneration, generation[b]}
             \/ KeepsCount(generation[b], generation'[b])
             \/ Counts(generation[b], generation'[b])
    BY <1>7 DEF MovesOn
<1> QED
    BY <1>1, <1>2, <1>3, <1>4, <1>5, <1>6, <1>7, StepOnTables DEF Elsewise

\* The settlement that claims a payment has counted it, or it came in late.
LEMMA ClaimsArePaidFor ==
    ASSUME BooksInv, RepeatInv, LateInv, PaidOutKnown, PaidInv, [DisputeNext]_disputeVars,
           NEW r \in Refs, payment'[r].settlement # 0
    PROVE  \/ r \in settlement'[payment'[r].settlement].late
           \/ /\ settlement'[payment'[r].settlement].worth[r] \in Nat
              /\ Due(r)' <= settlement'[payment'[r].settlement].worth[r]
<1> DEFINE t == payment[r].settlement
<1>1. DisputeInv /\ RowsNamed /\ CountedIsClaimed /\ UnclaimedUntilCommit
    BY DEF BooksInv, RepeatInv, DisputeInv, ClaimInv
<1>2. r \in Successful => Due(r)' <= Due(r) /\ Due(r) \in Nat /\ Due(r)' \in Int
    BY DueTyped
<1>3. t # 0 => r \in Successful /\ t \in Generated
    BY <1>1 DEF UnclaimedUntilCommit, LateInv
<1>4. t # 0 => \/ r \in settlement[t].late
               \/ settlement[t].worth[r] \in Nat /\ Due(r) <= settlement[t].worth[r]
    BY DEF PaidInv, ShareIsPaidFor
<1> HIDE DEF t
<1>5. CASE payment'[r].settlement = t /\ settlement'[t].late = settlement[t].late
           /\ settlement'[t].worth = settlement[t].worth
    BY <1>2, <1>3, <1>4, <1>5
<1>6. ASSUME NEW a \in Admins, NEW s \in Sids, Commits(a, s), r \in generation[a].marked
      PROVE  \/ r \in settlement'[s].late
             \/ settlement'[s].worth[r] \in Nat /\ Due(r)' <= settlement'[s].worth[r]
    <2> DEFINE g == generation[a]
    <2>1. settlement'[s].late = g.marked \ g.known /\ settlement'[s].worth = g.worth /\ g.pc = "commit"
        BY <1>6 DEF Commits, InGeneration
    <2>2. CASE r \in g.known
        <3>1. r \in g.counted
            BY <1>6, <2>1, <2>2 DEF LateInv, InGeneration
        <3>2. r \in Successful
            BY <1>1, <3>1 DEF CountedIsClaimed
        <3>3. g.worth[r] \in Nat /\ Due(r) <= g.worth[r]
            BY <3>1 DEF PaidInv
        <3> QED
            BY <1>2, <2>1, <3>2, <3>3
    <2> QED
        BY <1>6, <2>1, <2>2
<1>7. ASSUME NEW a \in Admins, NEW s \in Sids, Commits(a, s)
      PROVE  \/ r \in generation[a].marked /\ payment'[r].settlement = s
             \/ payment'[r].settlement = t /\ settlement'[t] = settlement[t]
    BY <1>3, <1>7 DEF Commits, t
<1>8. ASSUME SameSettlements, payment'[r].settlement = t
      PROVE  settlement'[t].late = settlement[t].late /\ settlement'[t].worth = settlement[t].worth
    BY <1>3, <1>8 DEF SameSettlements
<1>9. ASSUME NEW a \in Admins, MovesOn(a) PROVE payment'[r].settlement = t
    BY <1>9 DEF MovesOn, t
<1>10. ASSUME NEW q \in Refs, Credits(q) PROVE payment'[r].settlement = t
    BY <1>10 DEF Credits, t
<1>11. ASSUME Elsewise PROVE payment'[r].settlement = t
    BY <1>11 DEF Elsewise, SameClaim, t
<1>12. CASE \E a \in Admins, s \in Sids : Commits(a, s)
    BY <1>5, <1>6, <1>7, <1>12
<1>13. CASE SameSettlements /\ payment'[r].settlement = t
    BY <1>5, <1>8, <1>13
<1> QED
    BY <1>1, <1>9, <1>10, <1>11, <1>12, <1>13, StepOnTables

LEMMA SplitIsPaidFor ==
    ASSUME BooksInv, RepeatInv, LateInv, PaidOutKnown, PaidInv, [DisputeNext]_disputeVars,
           NEW r \in Successful', payment'[r].split
    PROVE  Due(r)' <= SplitPart(r)'
<1>1. /\ DisputeInv /\ DisputeInv' /\ RowsNamed /\ UnclaimedUntilCommit /\ ShareIsPaidFor
      /\ r \in Refs
    BY StepKeepsDisputeInv DEF BooksInv, RepeatInv, DisputeInv, ClaimInv, PaidInv, Successful
<1>2. payment[r] \in PaymentRow /\ payment'[r] \in PaymentRow
    BY <1>1 DEF DisputeInv, ClaimInv, RowsShaped
<1>3. CASE r \in Successful
    <2>1. SplitPart(r)' = SplitPart(r) /\ payment[r].split
        BY <1>1, <1>3, SuccessesStay, PaidOutStays DEF SplitPart
    <2>2. Due(r) <= SplitPart(r)
        BY <1>1, <1>3, <2>1 DEF ShareIsPaidFor
    <2>3. Due(r)' <= Due(r) /\ Due(r) \in Nat /\ Due(r)' \in Int
        BY <1>1, <1>3, DueTyped
    <2>4. SplitPart(r) \in Int
        <3>1. payment[r].invoice \in Invoices /\ payment[r].amount \in Nat
            BY <1>2 DEF PaymentRow
        <3> QED
            BY <3>1, ShareFits DEF SplitPart
    <2> QED
        BY <2>1, <2>2, <2>3, <2>4
<1>4. CASE r \notin Successful
    <2>1. payment'[r].refunded = 0
        BY <1>1, <1>4, CreditedNow DEF Credits
    <2>2. payment[r].settlement = 0 /\ ~payment[r].split
        BY <1>1, <1>4 DEF UnclaimedUntilCommit, LateInv
    <2>3. Due(r)' = Share(r)'
        BY <1>1, <2>2, NothingCharged DEF AlreadyPaidOut
    <2>4. payment'[r].invoice \in Invoices /\ payment'[r].amount \in Nat
        BY <1>2 DEF PaymentRow
    <2>5. Share(r)' = MerchantShare(payment'[r].invoice, payment'[r].amount)
        <3>1. payment'[r].amount - payment'[r].refunded = payment'[r].amount
            BY <2>1, <2>4
        <3> QED
            BY <3>1 DEF Share, Remaining
    <2> QED
        BY <2>3, <2>4, <2>5, ShareFits DEF SplitPart
<1> QED
    BY <1>3, <1>4

LEMMA UnpaidIsNotCharged ==
    ASSUME BooksInv, RepeatInv, LateInv, PaidOutKnown, PaidInv, [DisputeNext]_disputeVars,
           NEW r \in Refs, ~AlreadyPaidOut(payment'[r])
    PROVE  Clawed(r)' + Clawing(r)' = 0
<1>1. DisputeInv /\ RowsNamed /\ UnclaimedUntilCommit /\ ShareIsPaidFor
    BY DEF BooksInv, RepeatInv, DisputeInv, ClaimInv, PaidInv
<1>2. ~AlreadyPaidOut(payment[r])
    <2>1. CASE r \in Successful
        BY <1>1, <2>1, PaidOutStays
    <2>2. CASE r \notin Successful
        BY <1>1, <2>2 DEF UnclaimedUntilCommit, LateInv, AlreadyPaidOut
    <2> QED
        BY <2>1, <2>2
<1>3. Charged(r)' = 0
    BY <1>1, <1>2, NothingCharged
<1> QED
    BY <1>3 DEF Charged

LEMMA NextPaid ==
    ASSUME BooksInv, RepeatInv, LateInv, PaidOutKnown, PaidInv, [DisputeNext]_disputeVars
    PROVE  PaidInv'
<1>1. \A b \in Admins : \A r \in generation'[b].counted :
         generation'[b].worth[r] \in Nat /\ Due(r)' <= generation'[b].worth[r]
    BY CountsStayDue
<1>2. \A r \in Refs : payment'[r].settlement # 0 =>
         \/ r \in settlement'[payment'[r].settlement].late
         \/ /\ settlement'[payment'[r].settlement].worth[r] \in Nat
            /\ Due(r)' <= settlement'[payment'[r].settlement].worth[r]
    BY ClaimsArePaidFor
<1>3. \A r \in Refs : r \in Successful' /\ payment'[r].split => Due(r)' <= SplitPart(r)'
    BY SplitIsPaidFor
<1>4. \A r \in Refs : ~AlreadyPaidOut(payment'[r]) => Clawed(r)' + Clawing(r)' = 0
    BY UnpaidIsNotCharged
<1>5. ShareIsPaidFor'
    BY <1>2, <1>3, <1>4 DEF ShareIsPaidFor
<1> QED
    BY <1>1, <1>2, <1>5 DEF PaidInv

\* GenerateSettlement and ResolveDispute, for any number of requests that interleave, stop
\* half way or lose Paystack's answer: what is charged back of a payment, with the share
\* left of it, is within what the settlement that claims it counted, or what Paystack
\* passed on; unless it was credited between that settlement's count and its claim.
THEOREM ChargesArePaidFor == DisputeSpec => []ShareIsPaidFor
<1> DEFINE Inv == RepeatInv /\ LateInv /\ PaidOutKnown /\ PaidInv
<1>1. DisputeInit => Inv
    BY InitRepeats, InitLate, InitDue
<1>2. BooksInv /\ Inv /\ [DisputeNext]_disputeVars => Inv'
    <2> SUFFICES ASSUME BooksInv, Inv, [DisputeNext]_disputeVars PROVE Inv'
        OBVIOUS
    <2>1. DisputeInv /\ RowsNamed
        BY DEF BooksInv, RepeatInv
    <2> QED
        BY <2>1, NextRepeats, NextLate, NextPaidOutKnown, NextPaid
<1>3. Inv => ShareIsPaidFor
    BY DEF PaidInv
<1> HIDE DEF Inv
<1> QED
    BY <1>1, <1>2, <1>3, BooksInvariant, PTL DEF DisputeSpec

-----------------------------------------------------------------------------
(* What disputes claim of refunds.                                         *)

\* What a dispute's row claims of payment r, and what a request is about to claim.
ClosedWith(row, r) ==
    IF row.status = "resolved_refunded" /\ row.ref = r THEN row.amount ELSE 0

LEMMA ClosedTyped ==
    ASSUME DisputeInv, NEW r
    PROVE  ClosedRefunds(r) \in Nat
<1> DEFINE f == [d \in Cases |-> dispute[d].amount]
           S == {d \in Cases : dispute[d].status = "resolved_refunded" /\ dispute[d].ref = r}
<1>1. IsFiniteSet(S) /\ \A d \in S : f[d] \in Nat
    BY BoundsAssumption, FS_Subset DEF DisputeInv, RequestShaped, DisputeRow
<1> HIDE DEF f, S
<1>2. SumFunctionOnSet(f, S) \in Nat
    BY <1>1, SumIsNat
<1> QED
    BY <1>2 DEF ClosedRefunds, f, S

\* One dispute's row changes.
LEMMA ClosedMoves ==
    ASSUME DisputeInv, DisputeInv', NEW d \in Cases, NEW r,
           dispute' = [dispute EXCEPT ![d] = dispute'[d]]
    PROVE  /\ ClosedRefunds(r) \in Nat
           /\ ClosedRefunds(r)' = ClosedRefunds(r) + ClosedWith(dispute'[d], r)
                                                   - ClosedWith(dispute[d], r)
<1> DEFINE f == [c \in Cases |-> dispute[c].amount]
           e == [c \in Cases |-> dispute'[c].amount]
           S == {c \in Cases : dispute[c].status = "resolved_refunded" /\ dispute[c].ref = r}
           T == {c \in Cases : dispute'[c].status = "resolved_refunded" /\ dispute'[c].ref = r}
<1>1. /\ \A c \in Cases : c # d => dispute'[c] = dispute[c]
      /\ \A c \in Cases : dispute[c] \in DisputeRow /\ dispute'[c] \in DisputeRow
    BY DEF DisputeInv, RequestShaped
<1>2. /\ \A c \in Cases : f[c] \in Nat /\ e[c] \in Nat
      /\ \A c \in Cases : c # d => e[c] = f[c]
    BY <1>1 DEF DisputeRow
<1>3. S \ {d} = T \ {d} /\ S \in SUBSET Cases /\ T \in SUBSET Cases
    BY <1>1
<1>4. /\ ClosedWith(dispute'[d], r) = IF d \in T THEN e[d] ELSE 0
      /\ ClosedWith(dispute[d], r) = IF d \in S THEN f[d] ELSE 0
    BY DEF ClosedWith
<1>5. ClosedRefunds(r) = SumFunctionOnSet(f, S) /\ ClosedRefunds(r)' = SumFunctionOnSet(e, T)
    BY DEF ClosedRefunds
<1> HIDE DEF f, e, S, T
<1>6. SumFunctionOnSet(e, T) = SumFunctionOnSet(f, S)
                + (IF d \in T THEN e[d] ELSE 0) - (IF d \in S THEN f[d] ELSE 0)
    BY <1>2, <1>3, BoundsAssumption, SumReplace
<1>7. SumFunctionOnSet(f, S) \in Nat
    BY <1>2, <1>3, BoundsAssumption, FS_Subset, SumIsNat
<1> QED
    BY <1>4, <1>5, <1>6, <1>7

Hand(q, r) ==
    IF q.to = "resolved_refunded" /\ q.ref = r /\ q.pc \in {"claw", "tally", "mark", "close"}
    THEN q.amount ELSE 0

InHand(r) ==
    SumFunctionOnSet([v \in Resolvers |-> request[v].amount],
        {v \in Resolvers : /\ request[v].to = "resolved_refunded" /\ request[v].ref = r
                           /\ request[v].pc \in {"claw", "tally", "mark", "close"}})

LEMMA InHandTyped ==
    ASSUME DisputeInv, NEW r
    PROVE  InHand(r) \in Nat
<1> DEFINE f == [w \in Resolvers |-> request[w].amount]
           S == {w \in Resolvers : /\ request[w].to = "resolved_refunded" /\ request[w].ref = r
                                   /\ request[w].pc \in {"claw", "tally", "mark", "close"}}
<1>1. IsFiniteSet(S) /\ \A w \in S : f[w] \in Nat
    BY BoundsAssumption, FS_Subset DEF DisputeInv, RequestShaped, Request
<1> HIDE DEF f, S
<1>2. SumFunctionOnSet(f, S) \in Nat
    BY <1>1, SumIsNat
<1> QED
    BY <1>2 DEF InHand, f, S

LEMMA InHandMoves ==
    ASSUME DisputeInv, DisputeInv', NEW v \in Resolvers, NEW r,
           request' = [request EXCEPT ![v] = request'[v]]
    PROVE  InHand(r)' = InHand(r) + Hand(request'[v], r) - Hand(request[v], r)
<1> DEFINE f == [w \in Resolvers |-> request[w].amount]
           e == [w \in Resolvers |-> request'[w].amount]
           S == {w \in Resolvers : /\ request[w].to = "resolved_refunded" /\ request[w].ref = r
                                   /\ request[w].pc \in {"claw", "tally", "mark", "close"}}
           T == {w \in Resolvers : /\ request'[w].to = "resolved_refunded" /\ request'[w].ref = r
                                   /\ request'[w].pc \in {"claw", "tally", "mark", "close"}}
<1>1. /\ \A w \in Resolvers : w # v => request'[w] = request[w]
      /\ \A w \in Resolvers : request[w] \in Request /\ request'[w] \in Request
    BY DEF DisputeInv, RequestShaped
<1>2. /\ \A w \in Resolvers : f[w] \in Nat /\ e[w] \in Nat
      /\ \A w \in Resolvers : w # v => e[w] = f[w]
    BY <1>1 DEF Request
<1>3. S \ {v} = T \ {v} /\ S \in SUBSET Resolvers /\ T \in SUBSET Resolvers
    BY <1>1
<1>4. /\ Hand(request'[v], r) = IF v \in T THEN e[v] ELSE 0
      /\ Hand(request[v], r) = IF v \in S THEN f[v] ELSE 0
    BY DEF Hand
<1>5. InHand(r) = SumFunctionOnSet(f, S) /\ InHand(r)' = SumFunctionOnSet(e, T)
    BY DEF InHand
<1> HIDE DEF f, e, S, T
<1>6. SumFunctionOnSet(e, T) = SumFunctionOnSet(f, S)
                + (IF v \in T THEN e[v] ELSE 0) - (IF v \in S THEN f[v] ELSE 0)
    BY <1>2, <1>3, BoundsAssumption, SumReplace
<1> QED
    BY <1>4, <1>5, <1>6

\* Disputes, with the requests about to close one, claim no more than was recorded; and
\* no dispute or request claims more than Paystack gave back for it.
NoMoreThanRecorded(r) == ClosedRefunds(r) + InHand(r) <= payment[r].refunded

Covered(q) ==
    q.to = "resolved_refunded" /\ q.pc \in {"record", "claw", "tally", "mark", "close"} =>
        q.ref \in Refs /\ q.amount <= given[q.case][q.ref]

ResolvedInv ==
    /\ \A r \in Refs : NoMoreThanRecorded(r)
    /\ \A v \in Resolvers : Covered(request[v])
    /\ \A d \in Cases : dispute[d].status = "resolved_refunded" =>
         dispute[d].ref \in Refs /\ dispute[d].amount <= given[d][dispute[d].ref]

\* A request moves on, and records at least what it has newly in hand.
LEMMA HandMoves ==
    ASSUME BooksInv, DisputeInv', NEW v \in Resolvers, NEW r \in Refs, NoMoreThanRecorded(r),
           request' = [request EXCEPT ![v] = request'[v]], UNCHANGED dispute,
           payment'[r].refunded \in Nat,
           payment[r].refunded + Hand(request'[v], r) <= payment'[r].refunded + Hand(request[v], r)
    PROVE  NoMoreThanRecorded(r)'
<1>1. DisputeInv /\ payment[r].refunded \in Nat
    BY BooksTyped
<1>2. ClosedRefunds(r)' = ClosedRefunds(r) /\ ClosedRefunds(r) \in Nat
    BY <1>1, ClosedTyped DEF ClosedRefunds
<1>3. InHand(r) \in Nat /\ InHand(r)' = InHand(r) + Hand(request'[v], r) - Hand(request[v], r)
    BY <1>1, InHandTyped, InHandMoves
<1>4. Hand(request[v], r) \in Nat /\ Hand(request'[v], r) \in Nat
    BY <1>1 DEF Hand, DisputeInv, RequestShaped, Request
<1> QED
    BY <1>1, <1>2, <1>3, <1>4 DEF NoMoreThanRecorded

\* A dispute's row is written with no more than the request had in hand.
LEMMA RowMoves ==
    ASSUME BooksInv, DisputeInv', NEW v \in Resolvers, NEW r \in Refs, NoMoreThanRecorded(r),
           NEW d \in Cases,
           request' = [request EXCEPT ![v] = request'[v]],
           dispute' = [dispute EXCEPT ![d] = dispute'[d]], UNCHANGED payment,
           ClosedWith(dispute'[d], r) + Hand(request'[v], r) <= Hand(request[v], r)
    PROVE  NoMoreThanRecorded(r)'
<1>1. DisputeInv /\ payment[r].refunded \in Nat
    BY BooksTyped
<1>2. /\ ClosedRefunds(r) \in Nat
      /\ ClosedRefunds(r)' = ClosedRefunds(r) + ClosedWith(dispute'[d], r) - ClosedWith(dispute[d], r)
    BY <1>1, ClosedMoves
<1>3. InHand(r) \in Nat /\ InHand(r)' = InHand(r) + Hand(request'[v], r) - Hand(request[v], r)
    BY <1>1, InHandTyped, InHandMoves
<1>4. Hand(request[v], r) \in Nat /\ Hand(request'[v], r) \in Nat
    BY <1>1 DEF Hand, DisputeInv, RequestShaped, Request
<1>5. ClosedWith(dispute[d], r) \in Nat /\ ClosedWith(dispute'[d], r) \in Nat
    BY <1>1 DEF ClosedWith, DisputeInv, RequestShaped, DisputeRow
<1> QED
    BY <1>1, <1>2, <1>3, <1>4, <1>5 DEF NoMoreThanRecorded

\* A request moves on, Paystack gives back no less than before, and no row is written.
LEMMA RequestMoves ==
    ASSUME BooksInv, DisputeInv', ResolvedInv, NEW v \in Resolvers,
           request' = [request EXCEPT ![v] = request'[v]], UNCHANGED dispute,
           \A d \in Cases, r \in Refs : given[d][r] <= given'[d][r],
           Covered(request[v])',
           \A r \in Refs :
               payment[r].refunded + Hand(request'[v], r) <= payment'[r].refunded + Hand(request[v], r)
    PROVE  ResolvedInv'
<1>1. DisputeInv /\ \A r \in Refs : payment'[r].refunded \in Nat
    BY DEF BooksInv, DisputeInv, ClaimInv, RowsShaped, PaymentRow
<1>2. ASSUME NEW r \in Refs PROVE NoMoreThanRecorded(r)'
    <2>1. NoMoreThanRecorded(r) /\ payment'[r].refunded \in Nat
        BY <1>1 DEF ResolvedInv
    <2> QED
        BY <2>1, HandMoves
<1>3. ASSUME NEW d \in Cases, NEW r \in Refs, NEW amt \in Nat, amt <= given[d][r]
      PROVE  amt <= given'[d][r]
    <2>1. given[d][r] \in Nat /\ given'[d][r] \in Nat
        BY <1>1 DEF DisputeInv, RequestShaped
    <2> QED
        BY <1>3, <2>1
<1>4. ASSUME NEW w \in Resolvers PROVE Covered(request[w])'
    <2>1. CASE w = v
        BY <2>1
    <2>2. CASE w # v
        <3>1. request'[w] = request[w] /\ Covered(request[w]) /\ request[w].amount \in Nat
            BY <1>1, <2>2 DEF ResolvedInv, DisputeInv, RequestShaped, Request
        <3>2. request[w].pc # "idle" => request[w].case \in Cases
            BY <1>1 DEF DisputeInv, RequestShaped, At
        <3> QED
            BY <1>3, <3>1, <3>2 DEF Covered
    <2> QED
        BY <2>1, <2>2
<1>5. ASSUME NEW d \in Cases, dispute'[d].status = "resolved_refunded"
      PROVE  dispute'[d].ref \in Refs /\ dispute'[d].amount <= given'[d][dispute'[d].ref]
    <2>1. /\ dispute[d].ref \in Refs /\ dispute[d].amount <= given[d][dispute[d].ref]
          /\ dispute[d].amount \in Nat
        BY <1>1, <1>5 DEF ResolvedInv, DisputeInv, RequestShaped, DisputeRow
    <2> QED
        BY <1>3, <2>1
<1> QED
    BY <1>2, <1>4, <1>5 DEF ResolvedInv

\* A dispute's row is written by a request that ends, with what it had in hand or nothing.
LEMMA RowWritten ==
    ASSUME BooksInv, DisputeInv', ResolvedInv, NEW v \in Resolvers, Return(v),
           UNCHANGED <<payment, given>>, request[v].case \in Cases,
           dispute' = [dispute EXCEPT ![request[v].case] = dispute'[request[v].case]],
           dispute'[request[v].case].status = "resolved_refunded" =>
               /\ request[v].to = "resolved_refunded" /\ At(v, "close")
               /\ dispute'[request[v].case].ref = request[v].ref
               /\ dispute'[request[v].case].amount = request[v].amount
    PROVE  ResolvedInv'
<1> DEFINE q == request[v]
           row == dispute'[q.case]
<1>1. DisputeInv /\ request' = [request EXCEPT ![v] = NoRequest]
    BY DEF BooksInv, Return
<1>2. /\ request' = [request EXCEPT ![v] = request'[v]]
      /\ request'[v].pc = "idle"
      /\ \A w \in Resolvers : w # v => request'[w] = request[w]
    BY <1>1 DEF NoRequest, DisputeInv, RequestShaped
<1>3. ASSUME NEW r \in Refs PROVE NoMoreThanRecorded(r)'
    <2>1. NoMoreThanRecorded(r)
        BY DEF ResolvedInv
    <2>2. Hand(request'[v], r) = 0 /\ Hand(q, r) \in Nat
        BY <1>1, <1>2 DEF Hand, DisputeInv, RequestShaped, Request
    <2>3. ClosedWith(row, r) \in {0, Hand(q, r)}
        BY DEF ClosedWith, Hand, At
    <2>4. ClosedWith(row, r) + Hand(request'[v], r) <= Hand(q, r)
        BY <2>2, <2>3
    <2> QED
        BY <1>2, <2>1, <2>4, RowMoves
<1>4. \A w \in Resolvers : Covered(request[w])'
    BY <1>2 DEF Covered, ResolvedInv
<1>5. ASSUME NEW d \in Cases, dispute'[d].status = "resolved_refunded"
      PROVE  dispute'[d].ref \in Refs /\ dispute'[d].amount <= given'[d][dispute'[d].ref]
    <2>1. CASE d = q.case
        BY <1>5, <2>1 DEF ResolvedInv, Covered, At
    <2>2. CASE d # q.case
        <3>1. dispute'[d] = dispute[d]
            BY <1>1, <2>2 DEF DisputeInv, RequestShaped
        <3> QED
            BY <1>5, <3>1 DEF ResolvedInv
    <2> QED
        BY <2>1, <2>2
<1> QED
    BY <1>3, <1>4, <1>5 DEF ResolvedInv

\* Customers, generations and reviews touch neither disputes nor refunds.
LEMMA ResolvedStays ==
    ASSUME BooksInv, ResolvedInv, [SettlementNext]_settlementVars,
           UNCHANGED <<dispute, request, given>>
    PROVE  ResolvedInv'
<1>1. DisputeInv /\ ClaimInv
    BY DEF BooksInv, DisputeInv
<1>2. ASSUME NEW r \in Refs PROVE NoMoreThanRecorded(r)'
    <2>1. ClosedRefunds(r)' = ClosedRefunds(r) /\ InHand(r)' = InHand(r)
        BY DEF ClosedRefunds, InHand
    <2>2. ClosedRefunds(r) \in Nat /\ InHand(r) \in Nat /\ payment[r].refunded \in Nat
          /\ ClosedRefunds(r) + InHand(r) <= payment[r].refunded
        BY <1>1, ClosedTyped, InHandTyped, BooksTyped DEF ResolvedInv, NoMoreThanRecorded
    <2>3. CASE payment'[r].refunded = payment[r].refunded
        BY <2>1, <2>2, <2>3 DEF NoMoreThanRecorded
    <2>4. CASE r \notin Successful /\ payment'[r].refunded = 0
        <3>1. payment[r].refunded + Unrecorded(r) <= 0 /\ Unrecorded(r) \in Nat
            BY <2>4, NothingReturnedYet, BooksTyped
        <3> QED
            BY <2>1, <2>2, <2>4, <3>1 DEF NoMoreThanRecorded
    <2> QED
        BY <1>1, <2>3, <2>4, RowsStay
<1>3. \A w \in Resolvers : Covered(request[w])'
    BY DEF ResolvedInv, Covered
<1> QED
    BY <1>2, <1>3 DEF ResolvedInv

LEMMA InitResolved == DisputeInit => ResolvedInv
<1> SUFFICES ASSUME DisputeInit PROVE ResolvedInv
    OBVIOUS
<1>1. /\ payment = [r \in Refs |-> NoRow] /\ request = [v \in Resolvers |-> NoRequest]
      /\ dispute = [d \in Cases |-> NoDispute]
    BY DEF DisputeInit, SettlementInit
<1>2. /\ NoRequest.pc = "idle" /\ NoDispute.status = "absent" /\ NoRow.refunded = 0
    BY DEF NoRow, NoRequest, NoDispute
<1>3. ASSUME NEW r \in Refs PROVE NoMoreThanRecorded(r)
    <2>1. {d \in Cases : dispute[d].status = "resolved_refunded" /\ dispute[d].ref = r} = {}
        BY <1>1, <1>2
    <2>2. {v \in Resolvers : /\ request[v].to = "resolved_refunded" /\ request[v].ref = r
                             /\ request[v].pc \in {"claw", "tally", "mark", "close"}} = {}
        BY <1>1, <1>2
    <2>3. ClosedRefunds(r) = 0
        BY <2>1, SumEmpty DEF ClosedRefunds
    <2>4. InHand(r) = 0
        BY <2>2, SumEmpty DEF InHand
    <2> QED
        BY <1>1, <1>2, <2>3, <2>4 DEF NoMoreThanRecorded
<1> QED
    BY <1>1, <1>2, <1>3 DEF ResolvedInv, Covered

\* ResolveDispute keeps ResolvedInv: a refund is given before it is recorded, recorded
\* before a dispute claims it, and claimed by the request that recorded it.
LEMMA NextResolved ==
    ASSUME BooksInv, ResolvedInv, [DisputeNext]_disputeVars
    PROVE  ResolvedInv'
<1>0. /\ DisputeInv /\ DisputeInv'
      /\ request \in [Resolvers -> Request] /\ given \in [Cases -> [Refs -> Nat]]
      /\ payment \in [Refs -> PaymentRow]
    BY BooksTyped, StepKeepsDisputeInv DEF DisputeInv, RequestShaped
<1>1. /\ \A d \in Cases, r \in Refs : given[d][r] \in Nat
      /\ \A r \in Refs : payment[r].refunded \in Nat
      /\ \A w \in Resolvers, r \in Refs : Hand(request[w], r) \in Nat
    BY <1>0 DEF PaymentRow, Hand, Request
<1>2. UNCHANGED given => \A d \in Cases, r \in Refs : given[d][r] <= given'[d][r]
    BY <1>1
<1>3. ASSUME NEW v \in Resolvers, NEW d \in Cases, NEW x \in Refs, NEW amt \in Nat,
             given' = [given EXCEPT ![d][x] = @ + amt]
      PROVE  /\ \A c \in Cases, r \in Refs : given[c][r] <= given'[c][r]
             /\ amt <= given'[d][x]
    BY <1>0, <1>1, <1>3
<1>4. ASSUME NEW v \in Resolvers, Return(v)
      PROVE  /\ request' = [request EXCEPT ![v] = request'[v]]
             /\ request'[v].pc = "idle"
    BY <1>0, <1>4 DEF Return, NoRequest
<1>5. ASSUME NEW v \in Resolvers, NEW pc, Goto(v, pc)
      PROVE  /\ request' = [request EXCEPT ![v] = request'[v]]
             /\ request'[v].pc = pc
             /\ request'[v].ref = request[v].ref /\ request'[v].to = request[v].to
             /\ request'[v].case = request[v].case /\ request'[v].amount = request[v].amount
    BY <1>0, <1>5 DEF Goto, Request
<1>6. ASSUME NEW v \in Resolvers,
             request' = [request EXCEPT ![v] = request'[v]],
             request'[v].pc \in {"idle", "note", "load", "refund"} \/ request'[v].to # "resolved_refunded",
             UNCHANGED <<payment, dispute>>,
             \A d \in Cases, r \in Refs : given[d][r] <= given'[d][r]
      PROVE  ResolvedInv'
    <2>1. Covered(request[v])'
        BY <1>6 DEF Covered
    <2>2. \A r \in Refs : Hand(request'[v], r) = 0
        BY <1>6 DEF Hand
    <2>3. \A r \in Refs :
            payment[r].refunded + Hand(request'[v], r) <= payment'[r].refunded + Hand(request[v], r)
        BY <1>1, <1>6, <2>2
    <2> QED
        BY <1>0, <1>6, <2>1, <2>3, RequestMoves
<1>7. ASSUME NEW v \in Resolvers, Refused(v) \/ StopHalfWay(v)
      PROVE  ResolvedInv'
    <2>1. Return(v) /\ UNCHANGED <<payment, dispute, given>>
        BY <1>7 DEF Refused, StopHalfWay, settlementVars, ledgerVars
    <2> QED
        BY <1>2, <1>4, <1>6, <2>1
<1>8. ASSUME NEW v \in Resolvers, AnswerLost(v)
      PROVE  ResolvedInv'
    <2> DEFINE q == request[v]
    <2>1. /\ Return(v) /\ UNCHANGED <<payment, dispute>> /\ q.pc = "refund"
          /\ given' = [given EXCEPT ![q.case][q.ref] = @ + q.amount]
        BY <1>8 DEF AnswerLost, settlementVars, ledgerVars, At
    <2>2. q.case \in Cases /\ q.ref \in Refs /\ q.amount \in Nat
        BY <1>0, <2>1 DEF DisputeInv, RequestShaped, Request, At, Successful
    <2> HIDE DEF q
    <2>3. \A c \in Cases, r \in Refs : given[c][r] <= given'[c][r]
        BY <1>3, <2>1, <2>2
    <2> QED
        BY <1>4, <1>6, <2>1, <2>3
<1>9. ASSUME NEW v \in Resolvers, RefundTransaction(v)
      PROVE  ResolvedInv'
    <2> DEFINE q == request[v]
    <2>1. /\ Goto(v, "record") /\ UNCHANGED <<payment, dispute>> /\ q.pc = "refund"
          /\ given' = [given EXCEPT ![q.case][q.ref] = @ + q.amount]
        BY <1>9 DEF RefundTransaction, settlementVars, ledgerVars, At
    <2>2. q.case \in Cases /\ q.ref \in Refs /\ q.amount \in Nat
        BY <1>0, <2>1 DEF DisputeInv, RequestShaped, Request, At, Successful
    <2>3. /\ request' = [request EXCEPT ![v] = request'[v]] /\ request'[v].pc = "record"
          /\ request'[v].ref = q.ref /\ request'[v].case = q.case
          /\ request'[v].amount = q.amount
        BY <1>5, <2>1
    <2> HIDE DEF q
    <2>4. /\ \A c \in Cases, r \in Refs : given[c][r] <= given'[c][r]
          /\ q.amount <= given'[q.case][q.ref]
        BY <1>3, <2>1, <2>2
    <2>5. Covered(request[v])'
        BY <2>2, <2>3, <2>4 DEF Covered
    <2>6. \A r \in Refs : Hand(request'[v], r) = 0
        BY <2>3 DEF Hand
    <2>7. \A r \in Refs :
            payment[r].refunded + Hand(request'[v], r) <= payment'[r].refunded + Hand(request[v], r)
        BY <1>1, <2>1, <2>6
    <2> QED
        BY <1>0, <2>1, <2>3, <2>4, <2>5, <2>7, RequestMoves
<1>10. ASSUME NEW v \in Resolvers, AddPaymentRefund(v)
       PROVE  ResolvedInv'
    <2> DEFINE q == request[v]
    <2>1. PICK pc \in {"claw", "tally"} :
            /\ Goto(v, pc) /\ UNCHANGED <<dispute, given>> /\ q.pc = "record"
            /\ payment' = [payment EXCEPT ![q.ref].refunded = @ + q.amount]
        BY <1>10 DEF AddPaymentRefund, At
    <2>2. q.ref \in Refs /\ q.amount \in Nat
        BY <1>0, <2>1 DEF DisputeInv, RequestShaped, Request, At, Successful
    <2>3. /\ request' = [request EXCEPT ![v] = request'[v]] /\ request'[v].pc = pc
          /\ request'[v].ref = q.ref /\ request'[v].to = q.to
          /\ request'[v].case = q.case /\ request'[v].amount = q.amount
        BY <1>5, <2>1
    <2>4. Covered(request[v])'
        BY <2>1, <2>3 DEF Covered, ResolvedInv
    <2>5. ASSUME NEW r \in Refs
          PROVE  payment[r].refunded + Hand(request'[v], r) <= payment'[r].refunded + Hand(q, r)
        <3>1. Hand(q, r) = 0
            BY <2>1 DEF Hand
        <3>2. /\ r # q.ref => Hand(request'[v], r) = 0
              /\ Hand(request'[v], r) \in {0, q.amount}
            BY <2>3 DEF Hand
        <3>3. payment'[r].refunded = IF r = q.ref THEN payment[r].refunded + q.amount
                                                  ELSE payment[r].refunded
            BY <1>0, <2>1, <2>2 DEF PaymentRow
        <3> QED
            BY <1>1, <2>2, <3>1, <3>2, <3>3
    <2> QED
        BY <1>0, <1>2, <2>1, <2>3, <2>4, <2>5, RequestMoves
<1>11. ASSUME NEW v \in Resolvers,
              CreateSettlementClawback(v) \/ Tally(v) \/ MarkRefunded(v) \/ SkipInvoice(v)
       PROVE  ResolvedInv'
    <2> DEFINE q == request[v]
    <2>1. \E pc \in {"tally", "mark", "close"} : Goto(v, pc)
        BY <1>11, Zenon DEF CreateSettlementClawback, Tally, MarkRefunded, SkipInvoice
    <2>2. q.pc \in {"claw", "tally", "mark"} /\ UNCHANGED <<payment, dispute, given>>
        BY <1>11 DEF CreateSettlementClawback, Tally, MarkRefunded, SkipInvoice, At,
                     settlementVars, ledgerVars
    <2>3. PICK pc \in {"tally", "mark", "close"} : Goto(v, pc)
        BY <2>1
    <2>4. /\ request' = [request EXCEPT ![v] = request'[v]] /\ request'[v].pc = pc
          /\ request'[v].ref = q.ref /\ request'[v].to = q.to
          /\ request'[v].case = q.case /\ request'[v].amount = q.amount
        BY <1>5, <2>3
    <2>5. Covered(request[v])'
        BY <2>2, <2>4 DEF Covered, ResolvedInv
    <2>6. \A r \in Refs : Hand(request'[v], r) = Hand(q, r)
        BY <2>2, <2>4 DEF Hand
    <2>7. \A r \in Refs :
            payment[r].refunded + Hand(request'[v], r) <= payment'[r].refunded + Hand(q, r)
        BY <1>1, <2>2, <2>6
    <2> QED
        BY <1>0, <1>2, <2>2, <2>4, <2>5, <2>7, RequestMoves
<1>12. ASSUME NEW v \in Resolvers, NEW d \in Cases, NEW to \in DisputeStatus,
              StartResolve(v, d, to)
       PROVE  ResolvedInv'
    <2>1. /\ to \in {"investigating", "resolved_refunded", "resolved_denied"}
          /\ request' = [request EXCEPT ![v] =
                [NoRequest EXCEPT !.pc = AfterCheck[to], !.case = d, !.to = to]]
          /\ UNCHANGED <<payment, dispute, given>>
        <3>1. dispute[d].status \in DisputeStatus \cup {"absent"}
            BY <1>0 DEF DisputeInv, RequestShaped, DisputeRow
        <3> QED
            BY <1>12, <3>1 DEF StartResolve, disputeStatusTransitions, DisputeStatus, Resolved,
                               settlementVars, ledgerVars
    <2>2. AfterCheck[to] \in {"note", "load"} \/ to # "resolved_refunded"
        BY <2>1 DEF AfterCheck
    <2>3. /\ request' = [request EXCEPT ![v] = request'[v]]
          /\ request'[v].pc = AfterCheck[to] /\ request'[v].to = to
        BY <1>0, <2>1 DEF NoRequest
    <2> QED
        BY <1>2, <1>6, <2>1, <2>2, <2>3
<1>13. ASSUME NEW v \in Resolvers, NEW r \in Refs, NEW amt \in Refunds, LoadPayment(v, r, amt)
       PROVE  ResolvedInv'
    <2> DEFINE paidOut == AlreadyPaidOut(payment[r])
    <2>1. /\ request' = [request EXCEPT ![v].pc = "refund", ![v].ref = r, ![v].amount = amt,
                                        ![v].paidOut = paidOut]
          /\ UNCHANGED <<payment, dispute, given>>
        BY <1>13 DEF LoadPayment, settlementVars, ledgerVars
    <2> HIDE DEF paidOut
    <2>2. /\ request' = [request EXCEPT ![v] = request'[v]]
          /\ request'[v].pc = "refund"
        BY <1>0, <2>1 DEF Request
    <2> QED
        BY <1>2, <1>6, <2>1, <2>2
<1>14. ASSUME NEW v \in Resolvers, Investigate(v) \/ Close(v)
       PROVE  ResolvedInv'
    <2> DEFINE q == request[v]
    <2>1. /\ Return(v) /\ UNCHANGED <<payment, given>> /\ q.pc \in {"note", "close"}
          /\ \/ dispute' = [dispute EXCEPT ![q.case].status = "investigating"]
             \/ /\ q.pc = "close"
                /\ dispute' = [dispute EXCEPT ![q.case] =
                     [@ EXCEPT !.status = q.to, !.ref = q.ref, !.amount = q.amount]]
        BY <1>14 DEF Investigate, Close, At, settlementVars, ledgerVars
    <2>2. q.case \in Cases /\ dispute \in [Cases -> DisputeRow]
        BY <1>0, <2>1 DEF DisputeInv, RequestShaped, At
    <2> DEFINE row == dispute'[q.case]
    <2>3. /\ dispute' = [dispute EXCEPT ![q.case] = row]
          /\ \/ row = [dispute[q.case] EXCEPT !.status = "investigating"]
             \/ /\ q.pc = "close"
                /\ row = [dispute[q.case] EXCEPT !.status = q.to, !.ref = q.ref, !.amount = q.amount]
        BY <2>1, <2>2
    <2>4. dispute[q.case] \in DisputeRow
        BY <2>2
    <2> HIDE DEF row
    <2>5. row.status = "resolved_refunded" =>
            q.to = "resolved_refunded" /\ q.pc = "close" /\ row.ref = q.ref /\ row.amount = q.amount
        BY <2>3, <2>4 DEF DisputeRow
    <2> QED
        BY <1>0, <2>1, <2>2, <2>3, <2>5, RowWritten DEF At, row
<1>15. ASSUME NEW d \in Cases, NEW i \in Invoices, CreateDispute(d, i)
       PROVE  ResolvedInv'
    <2>1. /\ dispute' = [dispute EXCEPT ![d] =
                [NoDispute EXCEPT !.status = "open", !.invoice = i]]
          /\ dispute[d].status = "absent"
          /\ UNCHANGED <<payment, request, given>>
        BY <1>15 DEF CreateDispute, settlementVars, ledgerVars
    <2>2. /\ dispute' = [dispute EXCEPT ![d] = dispute'[d]]
          /\ dispute'[d].status = "open"
          /\ \A c \in Cases : c # d => dispute'[c] = dispute[c]
        BY <1>0, <2>1 DEF DisputeInv, RequestShaped, NoDispute
    <2>3. ASSUME NEW r \in Refs PROVE NoMoreThanRecorded(r)'
        <3>1. /\ ClosedRefunds(r) \in Nat
              /\ ClosedRefunds(r)' = ClosedRefunds(r) + ClosedWith(dispute'[d], r)
                                                      - ClosedWith(dispute[d], r)
            BY <1>0, <2>2, ClosedMoves
        <3>2. ClosedWith(dispute'[d], r) = 0 /\ ClosedWith(dispute[d], r) = 0
            BY <2>1, <2>2 DEF ClosedWith
        <3>3. InHand(r)' = InHand(r) /\ payment' = payment
            BY <2>1 DEF InHand
        <3> QED
            BY <3>1, <3>2, <3>3 DEF ResolvedInv, NoMoreThanRecorded
    <2>4. \A w \in Resolvers : Covered(request[w])'
        BY <2>1 DEF ResolvedInv, Covered
    <2>5. ASSUME NEW c \in Cases, dispute'[c].status = "resolved_refunded"
          PROVE  dispute'[c].ref \in Refs /\ dispute'[c].amount <= given'[c][dispute'[c].ref]
        BY <2>1, <2>2, <2>5 DEF ResolvedInv
    <2> QED
        BY <2>3, <2>4, <2>5 DEF ResolvedInv
<1>16. ASSUME Elsewhere \/ UNCHANGED disputeVars PROVE ResolvedInv'
    BY <1>16, ResolvedStays DEF Elsewhere, disputeVars
<1>17. ASSUME NEW v \in Resolvers, Resolve(v) PROVE ResolvedInv'
    BY <1>7, <1>8, <1>9, <1>10, <1>11, <1>12, <1>13, <1>14, <1>17 DEF Resolve
<1> QED
    BY <1>15, <1>16, <1>17 DEF DisputeNext

\* ResolveDispute: the disputes resolved with a refund of a payment never add up to more
\* than is recorded on it, nor does one claim more than Paystack gave back for it.
THEOREM ResolutionsNeverAhead == DisputeSpec => []DisputesNeverAhead
<1>1. BooksInv /\ ResolvedInv => DisputesNeverAhead
    <2> SUFFICES ASSUME BooksInv, ResolvedInv PROVE DisputesNeverAhead
        OBVIOUS
    <2>1. ASSUME NEW r \in Refs PROVE ClosedRefunds(r) <= payment[r].refunded
        <3>1. ClosedRefunds(r) \in Nat /\ InHand(r) \in Nat /\ payment[r].refunded \in Nat
            BY BooksTyped, ClosedTyped, InHandTyped
        <3> QED
            BY <3>1 DEF ResolvedInv, NoMoreThanRecorded
    <2> QED
        BY <2>1 DEF DisputesNeverAhead, ResolvedInv
<1>2. BooksInv /\ ResolvedInv /\ [DisputeNext]_disputeVars => ResolvedInv'
    BY NextResolved
<1> HIDE DEF ResolvedInv
<1> QED
    BY <1>1, <1>2, InitResolved, BooksInvariant, PTL DEF DisputeSpec
=============================================================================
