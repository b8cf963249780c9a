------------------------- MODULE SettlementsProofs -------------------------
(***************************************************************************)
(* What the steps of Settlements preserve, for any number of payments,     *)
(* settlements and generations in progress, and for any amounts, fees and  *)
(* periods.  DisputesProofs builds on it for the whole specification.      *)
(***************************************************************************)
EXTENDS Settlements, SumLemmas, TLAPS

LEMMA InitClaim == SettlementInit => ClaimInv
BY InvoicesAssumption, LastDayAssumption
DEF SettlementInit, Nothing, ClaimInv, RowsShaped, UnclaimedUntilCommit, TakenFromTheFront,
    ClawbackQueueHolds, GenerationShape, InGeneration, NoGeneration, NoRow, PaymentRow, Successful,
    PaymentStatus, Clawback

\* Absorbed takes outstanding clawbacks only, and with each every older one.
LEMMA AbsorbedIsPrefix ==
    ASSUME clawback \in Seq(Clawback), NEW net
    PROVE  /\ Absorbed(net) \subseteq DOMAIN clawback
           /\ \A k \in Absorbed(net), j \in DOMAIN clawback :
                j < k => j \in Absorbed(net) \/ clawback[j].applied # 0
<1>1. Absorbed(net) \subseteq DOMAIN clawback
    BY DEF Absorbed, Outstanding
<1>2. ASSUME NEW k \in Absorbed(net), NEW j \in DOMAIN clawback, j < k,
             clawback[j].applied = 0
      PROVE  j \in Absorbed(net)
    <2>1. k \in Outstanding /\ \A h \in Outstanding : h <= k => Fits(h, net)
        BY <1>2 DEF Absorbed
    <2>2. j \in Outstanding
        BY <1>2 DEF Outstanding
    <2>3. DOMAIN clawback \subseteq Int /\ k \in Int
        BY <2>1 DEF Outstanding
    <2>4. \A h \in Outstanding : h <= j => h <= k
        BY <1>2, <2>3 DEF Outstanding
    <2> QED
        BY <2>1, <2>2, <2>4 DEF Absorbed
<1> QED
    BY <1>1, <1>2

\* A step that changes no row, and only the pc of one generation to one that has
\* nothing taken and nothing locked, is harmless.
LEMMA LocalStep ==
    ASSUME ClaimInv, NEW a \in Admins,
           UNCHANGED <<payment, today, clawback>>,
           generation' = [generation EXCEPT ![a] = generation'[a]],
           GenerationShape(generation[a])',
           ~InGeneration(a, "write")', ~InGeneration(a, "commit")'
    PROVE  ClaimInv'
<1>0. RowsShaped /\ UnclaimedUntilCommit /\ TakenFromTheFront /\ ClawbackQueueHolds
    BY DEF ClaimInv
<1>1. /\ generation' = [b \in Admins |-> generation'[b]]
      /\ \A b \in Admins : b # a => generation'[b] = generation[b]
    BY <1>0 DEF RowsShaped
<1>2. RowsShaped'
    BY <1>0, <1>1 DEF RowsShaped, GenerationShape
<1>3. UnclaimedUntilCommit'
    BY <1>0, <1>1 DEF UnclaimedUntilCommit, InGeneration, Successful
<1>4. TakenFromTheFront'
    BY <1>0, <1>1 DEF TakenFromTheFront, InGeneration
<1> QED
    BY <1>0, <1>2, <1>3, <1>4 DEF ClaimInv, ClawbackQueueHolds

\* A clawback that is appended is outstanding and last in the queue.
LEMMA AppendKeepsQueue ==
    ASSUME ClaimInv, NEW r \in Refs, NEW amt \in Nat, AddClawback(r, amt), UNCHANGED generation
    PROVE  /\ clawback' \in Seq(Clawback)
           /\ TakenFromTheFront'
           /\ ClawbackQueueHolds'
<1> USE DEF ClaimInv, RowsShaped
<1>1. CASE UNCHANGED clawback
    BY <1>1 DEF TakenFromTheFront, ClawbackQueueHolds, InGeneration
<1>2. CASE clawback' = Append(clawback, [ref |-> r, amount |-> amt, applied |-> 0])
    <2>1. [ref |-> r, amount |-> amt, applied |-> 0] \in Clawback
        BY MaxSettlementsAssumption DEF Clawback
    <2>2. clawback' \in Seq(Clawback) /\ Len(clawback') = Len(clawback) + 1
        BY <1>2, <2>1
    <2>3. /\ \A k \in DOMAIN clawback : clawback'[k] = clawback[k]
          /\ clawback'[Len(clawback) + 1].applied = 0
        BY <1>2
    <2>4. DOMAIN clawback = 1..Len(clawback) /\ DOMAIN clawback' = 1..(Len(clawback) + 1)
        BY <2>2
    <2>5. Len(clawback) \in Nat
        OBVIOUS
    <2>6. ClawbackQueueHolds'
        BY <2>3, <2>4, <2>5 DEF ClawbackQueueHolds
    <2>7. TakenFromTheFront'
        <3> SUFFICES ASSUME NEW a \in Admins, InGeneration(a, "write") \/ InGeneration(a, "commit")
                     PROVE  /\ generation[a].taken \subseteq DOMAIN clawback'
                            /\ \A k \in generation[a].taken, j \in DOMAIN clawback' :
                                 j < k => j \in generation[a].taken \/ clawback'[j].applied # 0
            BY DEF TakenFromTheFront, InGeneration
        <3>1. generation[a].taken \subseteq DOMAIN clawback
            BY DEF TakenFromTheFront
        <3> QED
            BY <3>1, <2>3, <2>4, <2>5 DEF TakenFromTheFront
    <2> QED
        BY <2>2, <2>6, <2>7
<1> QED
    BY <1>1, <1>2 DEF AddClawback

LEMMA NextClaim == ClaimInv /\ [SettlementNext]_settlementVars => ClaimInv'
<1> SUFFICES ASSUME ClaimInv, [SettlementNext]_settlementVars PROVE ClaimInv'
    OBVIOUS
<1>0. RowsShaped /\ UnclaimedUntilCommit /\ TakenFromTheFront /\ ClawbackQueueHolds
    BY DEF ClaimInv
<1>2. ASSUME NEW a \in Admins, Rollback(a) PROVE ClaimInv'
    <2>1. /\ UNCHANGED <<payment, today, clawback>>
          /\ generation' = [generation EXCEPT ![a] = generation'[a]]
          /\ generation'[a] = NoGeneration
        BY <1>0, <1>2 DEF Rollback, RowsShaped, ledgerVars
    <2> QED
        BY <2>1, LocalStep DEF NoGeneration, GenerationShape, InGeneration
<1>3. ASSUME NEW a \in Admins, NEW from \in 1..LastDay, NEW to \in 1..LastDay,
             Aggregate(a, from, to)
      PROVE  ClaimInv'
    <2> DEFINE S == Claimable(from, to)
               n == NetPayout(S)
               w == [r \in Refs |-> IF r \in S THEN Share(r) ELSE 0]
    <2>1. /\ UNCHANGED <<payment, today, clawback>>
          /\ generation' = [generation EXCEPT ![a] =
               [NoGeneration EXCEPT !.pc = "deduct", !.from = from, !.to = to, !.counted = S,
                  !.left = n, !.worth = w, !.known = Successful, !.seen = Generated]]
        BY <1>3 DEF Aggregate, ledgerVars
    <2> HIDE DEF S, n, w
    <2>2. /\ generation'[a] = [NoGeneration EXCEPT !.pc = "deduct", !.from = from, !.to = to,
               !.counted = S, !.left = n, !.worth = w, !.known = Successful, !.seen = Generated]
          /\ generation' = [generation EXCEPT ![a] = generation'[a]]
        BY <1>0, <2>1 DEF RowsShaped
    <2>3. generation'[a].pc = "deduct" /\ GenerationShape(generation'[a])
        BY <2>2 DEF GenerationShape, NoGeneration
    <2> QED
        BY <2>1, <2>2, <2>3, LocalStep DEF InGeneration, GenerationShape
<1>4. ASSUME NEW a \in Admins, DeductClawbacks(a) PROVE ClaimInv'
    <2> DEFINE taken == Absorbed(generation[a].left)
    <2>1. /\ UNCHANGED <<payment, today, clawback>>
          /\ generation' = [generation EXCEPT ![a] =
               [generation[a] EXCEPT !.pc = "write",
                  !.left = generation[a].left - Debt(taken), !.taken = taken]]
        BY <1>4 DEF DeductClawbacks, ledgerVars
    <2> HIDE DEF taken
    <2>2. /\ generation' = [b \in Admins |-> generation'[b]]
          /\ \A b \in Admins : b # a => generation'[b] = generation[b]
          /\ generation'[a].pc = "write"
          /\ generation'[a].taken = taken
          /\ GenerationShape(generation'[a])
        <3>0. GenerationShape(generation[a])
            BY <1>0 DEF RowsShaped
        <3>1. /\ generation' = [b \in Admins |-> generation'[b]]
              /\ \A b \in Admins : b # a => generation'[b] = generation[b]
              /\ generation'[a] = [generation[a] EXCEPT !.pc = "write",
                   !.left = generation[a].left - Debt(taken), !.taken = taken]
            BY <1>0, <2>1 DEF RowsShaped
        <3> QED
            BY <3>0, <3>1 DEF GenerationShape
    <2> USE DEF taken
    <2>3. /\ taken \subseteq DOMAIN clawback
          /\ \A k \in taken, j \in DOMAIN clawback :
                j < k => j \in taken \/ clawback[j].applied # 0
        BY <1>0, AbsorbedIsPrefix DEF RowsShaped
    <2> HIDE DEF taken
    <2>4. RowsShaped'
        BY <1>0, <2>1, <2>2 DEF RowsShaped, GenerationShape
    <2>5. UnclaimedUntilCommit'
        BY <1>0, <2>1, <2>2 DEF UnclaimedUntilCommit, InGeneration, Successful
    <2>6. TakenFromTheFront'
        <3>1. ASSUME NEW b \in Admins, b # a, InGeneration(b, "write")' \/ InGeneration(b, "commit")'
              PROVE  /\ generation'[b].taken = generation[b].taken
                     /\ generation[b].taken \subseteq DOMAIN clawback
                     /\ \A k \in generation[b].taken, j \in DOMAIN clawback :
                          j < k => j \in generation[b].taken \/ clawback[j].applied # 0
            BY <1>0, <2>2, <3>1 DEF TakenFromTheFront, InGeneration
        <3> QED
            BY <2>1, <2>2, <2>3, <3>1 DEF TakenFromTheFront
    <2> QED
        BY <1>0, <2>1, <2>4, <2>5, <2>6 DEF ClaimInv, ClawbackQueueHolds
<1>5. ASSUME NEW a \in Admins, WriteSettlement(a) PROVE ClaimInv'
    <2> DEFINE S == Claimable(generation[a].from, generation[a].to)
    <2>1. /\ UNCHANGED <<payment, today, clawback>>
          /\ InGeneration(a, "write")
          /\ S \cap LockedPayments = {}
          /\ generation' = [generation EXCEPT ![a] =
               [generation[a] EXCEPT !.pc = "commit", !.marked = S]]
        BY <1>5 DEF WriteSettlement, ledgerVars
    <2>2. /\ generation' = [b \in Admins |-> generation'[b]]
          /\ \A b \in Admins : b # a => generation'[b] = generation[b]
          /\ generation'[a].pc = "commit"
          /\ generation'[a].taken = generation[a].taken
          /\ generation'[a].marked = S
          /\ GenerationShape(generation'[a])
        <3>0. GenerationShape(generation[a])
            BY <1>0 DEF RowsShaped
        <3>1. /\ generation' = [b \in Admins |-> generation'[b]]
              /\ \A b \in Admins : b # a => generation'[b] = generation[b]
              /\ generation'[a] = [generation[a] EXCEPT !.pc = "commit", !.marked = S]
            BY <1>0, <2>1 DEF RowsShaped
        <3> QED
            BY <3>0, <3>1 DEF GenerationShape
    <2>3. \A r \in S : r \in Successful /\ payment[r].settlement = 0 /\ ~payment[r].split
        BY DEF Claimable
    <2>4. \A b \in Admins : InGeneration(b, "commit") => S \cap generation[b].marked = {}
        BY <2>1 DEF LockedPayments, LockedBy
    <2> HIDE DEF S
    <2>5. RowsShaped'
        BY <1>0, <2>1, <2>2 DEF RowsShaped, GenerationShape
    <2>6. UnclaimedUntilCommit'
        BY <1>0, <2>1, <2>2, <2>3, <2>4 DEF UnclaimedUntilCommit, InGeneration, Successful
    <2>7. TakenFromTheFront'
        <3>1. ASSUME NEW b \in Admins, InGeneration(b, "write")' \/ InGeneration(b, "commit")'
              PROVE  /\ generation'[b].taken = generation[b].taken
                     /\ InGeneration(b, "write") \/ InGeneration(b, "commit")
            BY <2>1, <2>2, <3>1 DEF InGeneration
        <3> QED
            BY <1>0, <2>1, <3>1 DEF TakenFromTheFront
    <2> QED
        BY <1>0, <2>1, <2>5, <2>6, <2>7 DEF ClaimInv, ClawbackQueueHolds
<1>6. ASSUME NEW a \in Admins, CommitSettlement(a) PROVE ClaimInv'
    <2>1. PICK s \in NextSid :
            /\ payment' = [r \in Refs |->
                 IF r \in generation[a].marked
                   THEN [payment[r] EXCEPT !.settlement = s] ELSE payment[r]]
            /\ clawback' = [k \in DOMAIN clawback |->
                 IF k \in generation[a].taken
                   THEN [clawback[k] EXCEPT !.applied = s] ELSE clawback[k]]
        BY <1>6 DEF CommitSettlement
    <2>2. /\ InGeneration(a, "commit")
          /\ UNCHANGED today
          /\ generation' = [generation EXCEPT ![a] = NoGeneration]
        BY <1>6 DEF CommitSettlement
    <2>3. s \in 1..MaxSettlements /\ s \in Nat /\ s # 0
        BY MaxSettlementsAssumption DEF NextSid, Sids
    <2>4. /\ generation' = [b \in Admins |-> generation'[b]]
          /\ \A b \in Admins : b # a => generation'[b] = generation[b]
          /\ generation'[a] = NoGeneration
        BY <1>0, <2>2 DEF RowsShaped
    <2>5. /\ clawback' \in Seq(Clawback)
          /\ DOMAIN clawback' = DOMAIN clawback
        <3>1. clawback \in [1..Len(clawback) -> Clawback] /\ Len(clawback) \in Nat
            BY <1>0 DEF RowsShaped
        <3>2. clawback' \in [1..Len(clawback) -> Clawback]
            BY <2>1, <2>3, <3>1 DEF Clawback
        <3> QED
            BY <3>1, <3>2
    <2>6. \A k \in DOMAIN clawback :
            /\ clawback[k].applied # 0 => clawback'[k].applied # 0
            /\ k \in generation[a].taken => clawback'[k].applied # 0
            /\ k \notin generation[a].taken => clawback'[k].applied = clawback[k].applied
        BY <1>0, <2>1, <2>3 DEF RowsShaped, Clawback
    <2>7. \A r \in Refs :
            /\ payment'[r].split = payment[r].split
            /\ r \notin generation[a].marked => payment'[r] = payment[r]
        BY <1>0, <2>1 DEF RowsShaped, PaymentRow
    <2>8. payment' \in [Refs -> PaymentRow]
        BY <1>0, <2>1, <2>3 DEF RowsShaped, PaymentRow
    <2>9. RowsShaped'
        BY <1>0, <2>2, <2>4, <2>5, <2>8 DEF RowsShaped, GenerationShape, NoGeneration
    <2>10. UnclaimedUntilCommit'
        <3>1. \A r \in generation[a].marked : r \in Successful /\ ~payment[r].split
            BY <1>0, <2>2 DEF UnclaimedUntilCommit
        <3>2. Successful' = Successful
            BY <1>0, <2>1 DEF Successful, RowsShaped, PaymentRow
        <3>3. \A b \in Admins : InGeneration(b, "commit")' => b # a /\ InGeneration(b, "commit")
            BY <2>4 DEF InGeneration, NoGeneration
        <3>4. \A b \in Admins : b # a /\ InGeneration(b, "commit") =>
                \A r \in generation[b].marked : payment'[r] = payment[r]
            BY <1>0, <2>2, <2>7 DEF UnclaimedUntilCommit, Successful
        <3>5. \A r \in Refs : payment'[r].split \/ r \notin Successful' => payment'[r].settlement = 0
            BY <1>0, <2>7, <3>1, <3>2 DEF UnclaimedUntilCommit
        <3> QED
            BY <1>0, <2>4, <3>2, <3>3, <3>4, <3>5 DEF UnclaimedUntilCommit
    <2>11. TakenFromTheFront'
        BY <1>0, <2>4, <2>5, <2>6 DEF TakenFromTheFront, InGeneration, NoGeneration
    <2>12. ClawbackQueueHolds'
        BY <1>0, <2>2, <2>5, <2>6 DEF ClawbackQueueHolds, TakenFromTheFront
    <2> QED
        BY <2>9, <2>10, <2>11, <2>12 DEF ClaimInv
<1>7. ASSUME NEW p \in Staff, Back(p) PROVE ClaimInv'
    <2>1. UNCHANGED <<payment, today, clawback, generation>>
        BY <1>7 DEF Back, SetStatus, StartReview, ledgerVars
    <2> QED
        BY <1>0, <2>1 DEF ClaimInv, RowsShaped, UnclaimedUntilCommit, TakenFromTheFront,
                          ClawbackQueueHolds, InGeneration, GenerationShape, Successful
<1>8. ASSUME NEW r \in Refs, NEW i \in Invoices, NEW amt \in Charges, CreditPayment(r, i, amt)
      PROVE  ClaimInv'
    <2>1. PICK split \in {FALSE, SplitEnabled /\ SplitCharge(i, amt) > 0} :
            payment' = [payment EXCEPT ![r] =
              [PendingRow(i, amt, split) EXCEPT !.status = "success", !.day = today]]
        BY <1>8 DEF CreditPayment
    <2>2. payment[r].status = "absent" /\ UNCHANGED <<today, clawback, generation>>
        BY <1>8 DEF CreditPayment
    <2>3. amt \in Nat /\ split \in BOOLEAN /\ today \in 0..LastDay
        <3>1. split \in BOOLEAN
            BY Zenon
        <3> QED
            BY <1>0, <3>1, AmountsAssumption, LastDayAssumption DEF RowsShaped
    <2>4. /\ payment'[r] \in PaymentRow
          /\ payment'[r].settlement = 0
        BY <1>0, <2>1, <2>3 DEF RowsShaped, PendingRow, NoRow, PaymentRow, PaymentStatus
    <2>5. /\ payment' \in [Refs -> PaymentRow]
          /\ \A q \in Refs : q # r => payment'[q] = payment[q]
        BY <1>0, <2>1, <2>4 DEF RowsShaped
    <2>6. RowsShaped'
        BY <1>0, <2>2, <2>5 DEF RowsShaped, GenerationShape
    <2>7. UnclaimedUntilCommit'
        BY <1>0, <2>2, <2>4, <2>5 DEF UnclaimedUntilCommit, InGeneration, Successful
    <2>8. TakenFromTheFront' /\ ClawbackQueueHolds'
        BY <1>0, <2>2 DEF TakenFromTheFront, ClawbackQueueHolds, InGeneration
    <2> QED
        BY <2>6, <2>7, <2>8 DEF ClaimInv
<1>9. ASSUME SettlementDayEnds PROVE ClaimInv'
    <2>1. /\ today' \in 1..LastDay
          /\ UNCHANGED <<payment, clawback, generation>>
        BY <1>0, <1>9, LastDayAssumption DEF SettlementDayEnds, NextDay, RowsShaped
    <2> QED
        BY <1>0, <2>1 DEF ClaimInv, RowsShaped, UnclaimedUntilCommit, TakenFromTheFront,
                          ClawbackQueueHolds, InGeneration, GenerationShape, Successful
<1>10. ASSUME UNCHANGED settlementVars PROVE ClaimInv'
    BY <1>0, <1>10 DEF settlementVars, ledgerVars, ClaimInv, RowsShaped, UnclaimedUntilCommit,
        TakenFromTheFront, ClawbackQueueHolds, InGeneration, GenerationShape, Successful
<1> QED
    BY <1>2, <1>3, <1>4, <1>5, <1>6, <1>7, <1>8, <1>9, <1>10
    DEF SettlementNext, Generate

\* No step takes a claim back: only CommitSettlement writes the claims.
LEMMA StepKeepsClaims ==
    ASSUME ClaimInv, ClaimInv', [SettlementNext]_settlementVars
    PROVE  /\ \A r \in Refs : payment[r].settlement # 0 =>
                payment'[r].settlement = payment[r].settlement
           /\ \A r \in Refs : payment'[r].split => payment'[r].settlement = 0
           /\ \A k \in DOMAIN clawback : clawback[k].applied # 0 => clawback'[k].applied # 0
<1>0. RowsShaped /\ UnclaimedUntilCommit
    BY DEF ClaimInv
<1>1. \A r \in Refs : payment'[r].split => payment'[r].settlement = 0
    BY DEF ClaimInv, UnclaimedUntilCommit
<1>2. ASSUME NEW a \in Admins, CommitSettlement(a)
      PROVE  /\ \A r \in Refs : payment[r].settlement # 0 =>
                  payment'[r].settlement = payment[r].settlement
             /\ \A k \in DOMAIN clawback : clawback[k].applied # 0 => clawback'[k].applied # 0
    <2>1. PICK s \in NextSid :
            /\ payment' = [r \in Refs |->
                 IF r \in generation[a].marked
                   THEN [payment[r] EXCEPT !.settlement = s] ELSE payment[r]]
            /\ clawback' = [k \in DOMAIN clawback |->
                 IF k \in generation[a].taken
                   THEN [clawback[k] EXCEPT !.applied = s] ELSE clawback[k]]
        BY <1>2 DEF CommitSettlement
    <2>2. s # 0
        BY MaxSettlementsAssumption DEF NextSid, Sids
    <2>3. \A r \in generation[a].marked : payment[r].settlement = 0
        BY <1>0, <1>2 DEF UnclaimedUntilCommit, CommitSettlement
    <2> QED
        BY <1>0, <2>1, <2>2, <2>3 DEF RowsShaped, PaymentRow, Clawback
<1>3. ASSUME NEW r \in Refs, NEW i \in Invoices, NEW amt \in Charges, CreditPayment(r, i, amt)
      PROVE  /\ \A q \in Refs : payment[q].settlement # 0 => payment'[q] = payment[q]
             /\ UNCHANGED clawback
    <2>1. PICK split \in {FALSE, SplitEnabled /\ SplitCharge(i, amt) > 0} :
            payment' = [payment EXCEPT ![r] =
              [PendingRow(i, amt, split) EXCEPT !.status = "success", !.day = today]]
        BY <1>3 DEF CreditPayment
    <2>2. UNCHANGED clawback /\ payment[r].status = "absent"
        BY <1>3 DEF CreditPayment
    <2>3. payment[r].settlement = 0
        BY <1>0, <2>2 DEF UnclaimedUntilCommit, Successful
    <2> QED
        BY <1>0, <2>1, <2>2, <2>3 DEF RowsShaped
<1>4. ASSUME NEW a \in Admins, Generate(a), ~CommitSettlement(a)
      PROVE  UNCHANGED <<payment, clawback>>
    BY <1>4 DEF Generate, Rollback, Aggregate, DeductClawbacks,
                WriteSettlement, ledgerVars
<1>5. ASSUME NEW p \in Staff, Back(p) PROVE UNCHANGED <<payment, clawback>>
    BY <1>5 DEF Back, SetStatus, StartReview, ledgerVars
<1>6. ASSUME SettlementDayEnds PROVE UNCHANGED <<payment, clawback>>
    BY <1>6 DEF SettlementDayEnds, NextDay
<1>7. ASSUME UNCHANGED settlementVars PROVE UNCHANGED <<payment, clawback>>
    BY <1>7 DEF settlementVars, ledgerVars
<1> QED
    BY <1>1, <1>2, <1>3, <1>4, <1>5, <1>6, <1>7 DEF SettlementNext

-----------------------------------------------------------------------------
(* Shares and rows.                                                       *)

\* Division rounds down: the parts of a sum lose at least what the sum loses.
LEMMA QuotientsAdd ==
    ASSUME NEW n \in Nat \ {0}, NEW x \in Nat, NEW y \in Nat
    PROVE  /\ x \div n \in Nat /\ y \div n \in Nat /\ (x + y) \div n \in Nat
           /\ (x \div n) + (y \div n) <= (x + y) \div n
<1>1. ASSUME NEW z \in Nat
      PROVE  /\ z \div n \in Nat
             /\ n * (z \div n) <= z
             /\ z < n * (z \div n) + n
    <2>1. z = n * (z \div n) + (z % n) /\ z \div n \in Int /\ z % n \in Int /\ 0 <= z % n /\ z % n < n
        OBVIOUS
    <2>2. z \div n >= 0
        OBVIOUS
    <2>3. n * (z \div n) \in Int
        BY <2>1
    <2> QED
        BY <2>1, <2>2, <2>3
<1> DEFINE p == x \div n
           q == y \div n
           s == (x + y) \div n
<1>2. /\ p \in Nat /\ q \in Nat /\ s \in Nat
      /\ n * p <= x /\ n * q <= y /\ x + y < n * s + n
    BY <1>1
<1> HIDE DEF p, q, s
<1>3. ASSUME s < p + q PROVE FALSE
    <2>1. p + q - s - 1 \in Nat
        BY <1>2, <1>3
    <2>2. n * (p + q - s - 1) \in Nat
        BY <2>1
    <2>3. n * (p + q - s - 1) = n * p + n * q - n * s - n
        BY <1>2
    <2>4. n * p \in Nat /\ n * q \in Nat /\ n * s \in Nat
        BY <1>2
    <2> QED
        BY <1>2, <2>2, <2>3, <2>4
<1>4. p + q <= s
    BY <1>2, <1>3
<1> QED
    BY <1>2, <1>4 DEF p, q, s

\* merchantEntitledShare of an amount in two parts is no less than the shares of the parts.
LEMMA SharesAdd ==
    ASSUME NEW i \in Invoices, NEW a \in Nat, NEW b \in Nat
    PROVE  /\ MerchantShare(i, a) \in Nat /\ MerchantShare(i, b) \in Nat
           /\ MerchantShare(i, a + b) \in Nat
           /\ MerchantShare(i, a) + MerchantShare(i, b) <= MerchantShare(i, a + b)
<1> DEFINE n == Total[i]
           c == Total[i] - Commission[i]
<1>1. n \in Nat \ {0} /\ c \in Nat
    BY TotalAssumption, CommissionAssumption
<1>2. /\ MerchantShare(i, a) = (a * c) \div n /\ MerchantShare(i, b) = (b * c) \div n
      /\ MerchantShare(i, a + b) = ((a + b) * c) \div n
    BY DEF MerchantShare
<1> HIDE DEF n, c
<1>3. a * c \in Nat /\ b * c \in Nat /\ (a + b) * c = a * c + b * c
    BY <1>1
<1> QED
    BY <1>1, <1>2, <1>3, QuotientsAdd

LEMMA ShareOfNothing ==
    ASSUME NEW i \in Invoices
    PROVE  MerchantShare(i, 0) = 0
<1>1. Total[i] \in Nat \ {0} /\ Commission[i] \in Nat
    BY TotalAssumption, CommissionAssumption
<1>2. 0 * (Total[i] - Commission[i]) = 0
    BY <1>1
<1>3. \A n \in Nat \ {0} : 0 \div n = 0
    OBVIOUS
<1> QED
    BY <1>1, <1>2, <1>3 DEF MerchantShare

\* A step of Settlements leaves what a row says of the customer's money alone, or
\* credits a payment; the amounts of the queue stay what they are.
LEMMA RowsStay ==
    ASSUME ClaimInv, [SettlementNext]_settlementVars
    PROVE  /\ \A r \in Refs :
                \/ /\ payment'[r].status = payment[r].status
                   /\ payment'[r].invoice = payment[r].invoice
                   /\ payment'[r].amount = payment[r].amount
                   /\ payment'[r].refunded = payment[r].refunded
                \/ /\ r \notin Successful
                   /\ payment'[r].status = "success"
                   /\ payment'[r].refunded = 0
           /\ DOMAIN clawback' = DOMAIN clawback
           /\ \A k \in DOMAIN clawback : /\ clawback'[k].ref = clawback[k].ref
                                         /\ clawback'[k].amount = clawback[k].amount
<1>0. RowsShaped
    BY DEF ClaimInv
<1>1. ASSUME NEW a \in Admins, CommitSettlement(a)
      PROVE  /\ \A r \in Refs :
                   /\ payment'[r].status = payment[r].status
                   /\ payment'[r].invoice = payment[r].invoice
                   /\ payment'[r].amount = payment[r].amount
                   /\ payment'[r].refunded = payment[r].refunded
             /\ DOMAIN clawback' = DOMAIN clawback
             /\ \A k \in DOMAIN clawback : /\ clawback'[k].ref = clawback[k].ref
                                           /\ clawback'[k].amount = clawback[k].amount
    <2>1. PICK s \in NextSid :
            /\ payment' = [r \in Refs |->
                 IF r \in generation[a].marked
                   THEN [payment[r] EXCEPT !.settlement = s] ELSE payment[r]]
            /\ clawback' = [k \in DOMAIN clawback |->
                 IF k \in generation[a].taken
                   THEN [clawback[k] EXCEPT !.applied = s] ELSE clawback[k]]
        BY <1>1 DEF CommitSettlement
    <2>2. /\ payment \in [Refs -> PaymentRow]
          /\ \A k \in DOMAIN clawback : clawback[k] \in Clawback
        BY <1>0 DEF RowsShaped
    <2>3. \A k \in DOMAIN clawback : /\ clawback'[k].ref = clawback[k].ref
                                     /\ clawback'[k].amount = clawback[k].amount
        BY <2>1, <2>2 DEF Clawback
    <2>4. \A r \in Refs :
                   /\ payment'[r].status = payment[r].status
                   /\ payment'[r].invoice = payment[r].invoice
                   /\ payment'[r].amount = payment[r].amount
                   /\ payment'[r].refunded = payment[r].refunded
        BY <2>1, <2>2 DEF PaymentRow
    <2> QED
        BY <2>1, <2>3, <2>4
<1>2. ASSUME NEW r \in Refs, NEW i \in Invoices, NEW amt \in Charges, CreditPayment(r, i, amt)
      PROVE  /\ \A q \in Refs : q # r => payment'[q] = payment[q]
             /\ r \notin Successful
             /\ payment'[r].status = "success" /\ payment'[r].refunded = 0
             /\ UNCHANGED clawback
    <2>1. PICK split \in {FALSE, SplitEnabled /\ SplitCharge(i, amt) > 0} :
            payment' = [payment EXCEPT ![r] =
              [PendingRow(i, amt, split) EXCEPT !.status = "success", !.day = today]]
        BY <1>2 DEF CreditPayment
    <2>2. UNCHANGED clawback /\ r \notin Successful
        BY <1>2 DEF CreditPayment, Successful
    <2> QED
        BY <1>0, <2>1, <2>2 DEF RowsShaped, PendingRow, NoRow
<1>3. ASSUME NEW a \in Admins, Generate(a), ~CommitSettlement(a)
      PROVE  UNCHANGED <<payment, clawback>>
    BY <1>3 DEF Generate, Rollback, Aggregate, DeductClawbacks,
                WriteSettlement, ledgerVars
<1>4. ASSUME NEW p \in Staff, Back(p) PROVE UNCHANGED <<payment, clawback>>
    BY <1>4 DEF Back, SetStatus, StartReview, ledgerVars
<1>5. ASSUME SettlementDayEnds PROVE UNCHANGED <<payment, clawback>>
    BY <1>5 DEF SettlementDayEnds, NextDay
<1>6. ASSUME UNCHANGED settlementVars PROVE UNCHANGED <<payment, clawback>>
    BY <1>6 DEF settlementVars, ledgerVars
<1> QED
    BY <1>1, <1>2, <1>3, <1>4, <1>5, <1>6 DEF SettlementNext
=============================================================================
