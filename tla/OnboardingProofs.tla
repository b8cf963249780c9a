-------------------------- MODULE OnboardingProofs --------------------------
(***************************************************************************)
(* OnboardingInv is inductive: an approval is granted in full, tier and    *)
(* fork agree and every decision is audited, for any number of requests.   *)
(***************************************************************************)
EXTENDS Onboarding, TLAPS

LEMMA IdleTyped == Idle \in Request /\ NoRow \in Submission
  BY SubmissionsAssumption DEF Idle, NoRow, Request, PC, Submission, Fork, Reviewed

LEMMA TierTyped == \A f \in Fork : TierOf(f) \in 1..2
  BY DEF TierOf, Fork

\* Request w moves on to q, writes no table, and locks nothing it had not locked.
LEMMA Moves ==
    ASSUME OnboardingInv, NEW w \in Workers, NEW q \in Request,
           worker' = [worker EXCEPT ![w] = q],
           RequestInOrder(q),
           q.pc \in {"grant", "audit", "commit"} =>
               HoldsRow(w) /\ q.sub = worker[w].sub /\ q.to = worker[w].to,
           UNCHANGED <<merchant, submission, unaudited, overridden, raced>>
    PROVE  OnboardingInv'
<1>1. /\ worker'[w] = q
      /\ \A v \in Workers : v # w => worker'[v] = worker[v]
  BY DEF OnboardingInv, TypeOK
<1>2. TypeOK'
  BY DEF OnboardingInv, TypeOK
<1>3. \A v \in Workers : RequestInOrder(worker[v])'
  BY <1>1 DEF OnboardingInv, RequestInOrder
<1>4. \A v \in Workers : HoldsRow(v)' =>
         HoldsRow(v) /\ worker'[v].sub = worker[v].sub /\ worker'[v].to = worker[v].to
  BY <1>1 DEF HoldsRow
<1>5. OneOpen'
  BY <1>4 DEF OnboardingInv, OneOpen, MayOpen
<1>6. LocksExclude'
  BY <1>4 DEF OnboardingInv, LocksExclude
<1> QED BY <1>2, <1>3, <1>5, <1>6
        DEF OnboardingInv, OpenIsNews, ApprovedIsGranted, DecisionsAreAudited

\* A request that ends without having written anything.
LEMMA Returns ==
    ASSUME OnboardingInv, NEW w \in Workers, Return(w),
           UNCHANGED <<merchant, submission, unaudited, overridden, raced>>
    PROVE  OnboardingInv'
<1>1. Idle \in Request /\ Idle.pc = "idle"
  BY IdleTyped DEF Idle
<1>2. RequestInOrder(Idle)
  BY <1>1 DEF RequestInOrder
<1> QED BY <1>1, <1>2, Moves DEF Return

LEMMA InitInv == Init => OnboardingInv
<1> SUFFICES ASSUME Init PROVE OnboardingInv
  OBVIOUS
<1>1. \A w \in Workers : worker[w].pc = "idle"
  BY DEF Init, Idle
<1>2. \A s \in Submissions : submission[s].status = "absent"
  BY DEF Init, NoRow
<1>3. TypeOK
  <2>1. merchant \in Merchant
    BY DEF Init, Merchant
  <2>2. submission \in [Submissions -> Submission]
    BY IdleTyped DEF Init
  <2>3. worker \in [Workers -> Request]
    BY IdleTyped DEF Init
  <2> QED BY <2>1, <2>2, <2>3 DEF Init, TypeOK
<1>4. OneOpen /\ LocksExclude
  BY <1>1, <1>2 DEF OneOpen, LocksExclude, HoldsRow, Open
<1>5. OpenIsNews /\ ApprovedIsGranted
  BY <1>2 DEF OpenIsNews, ApprovedIsGranted, Open
<1>6. \A w \in Workers : RequestInOrder(worker[w])
  BY <1>1 DEF RequestInOrder
<1> QED BY <1>3, <1>4, <1>5, <1>6 DEF Init, OnboardingInv, DecisionsAreAudited

\* The beginning of a request: nothing is written yet.
LEMMA BeginStep ==
    ASSUME OnboardingInv, NEW w \in Workers, Begin(w)
    PROVE  OnboardingInv'
<1>0. Idle \in Request /\ merchant.tier \in 0..2 /\ submission \in [Submissions -> Submission]
  BY IdleTyped DEF OnboardingInv, TypeOK, Merchant
<1>1. ASSUME NEW fork \in Fork, StartSubmission(w, fork) PROVE OnboardingInv'
  <2> DEFINE q == [Idle EXCEPT !.pc = "find", !.fork = fork, !.tier = merchant.tier]
  <2>1. q \in Request
    BY <1>0 DEF Request, PC
  <2>2. q.pc = "find" /\ q.tier = merchant.tier /\ q.fork = fork
    BY DEF Idle
  <2>3. RequestInOrder(q)
    BY <1>1, <2>2 DEF RequestInOrder, StartSubmission
  <2> HIDE DEF q
  <2> QED BY <1>1, <2>1, <2>2, <2>3, Moves DEF StartSubmission, q
<1>2. ASSUME NEW s \in Submissions, NEW to \in Reviewed, StartReview(w, s, to)
      PROVE  OnboardingInv'
  <2> DEFINE q == [Idle EXCEPT !.pc = "begin", !.sub = s, !.to = to, !.row = submission[s]]
  <2>1. q \in Request
    BY <1>0 DEF Request, PC
  <2>2. q.pc = "begin" /\ q.to = to /\ q.row = submission[s]
    BY DEF Idle
  <2>3. submission[s].status \in Open
    BY <1>0, <1>2 DEF StartReview, kycStatusTransitions, Submission, Reviewed, Open
  <2>4. RequestInOrder(q)
    BY <2>2, <2>3 DEF RequestInOrder
  <2> HIDE DEF q
  <2> QED BY <1>2, <2>1, <2>2, <2>4, Moves DEF StartReview, q
<1>3. ASSUME NEW tier \in HandTiers, StartOverride(w, tier) PROVE OnboardingInv'
  <2> DEFINE q == [Idle EXCEPT !.pc = "override", !.tier = tier]
  <2>0. tier \in 0..2
    BY HandTiersAssumption
  <2>1. q \in Request
    BY <1>0, <2>0 DEF Request, PC
  <2>2. q.pc = "override"
    BY DEF Idle
  <2>3. RequestInOrder(q)
    BY <2>2 DEF RequestInOrder
  <2> HIDE DEF q
  <2> QED BY <1>3, <2>1, <2>2, <2>3, Moves DEF StartOverride, q
<1> QED BY <1>1, <1>2, <1>3 DEF Begin

\* A submission is inserted or put back in the queue, by a request that ends.
LEMMA SubmitStep ==
    ASSUME OnboardingInv, NEW w \in Workers, NEW s \in Submissions,
           Locked = {}, MayOpen(s),
           worker[w].tier < TierOf(worker[w].fork),
           submission' = [submission EXCEPT ![s] = [status |-> "pending", fork |-> worker[w].fork]],
           raced \/ merchant.tier # worker[w].tier => raced',
           raced' \in BOOLEAN,
           Return(w),
           UNCHANGED <<merchant, unaudited, overridden>>
    PROVE  OnboardingInv'
<1>1. /\ worker'[w] = Idle
      /\ \A v \in Workers : v # w => worker'[v] = worker[v]
  BY DEF OnboardingInv, TypeOK, Return
<1>2. worker[w].fork \in Fork /\ [status |-> "pending", fork |-> worker[w].fork] \in Submission
  BY DEF OnboardingInv, TypeOK, Request, Submission
<1>3. TypeOK'
  BY <1>2, IdleTyped DEF OnboardingInv, TypeOK, Return
<1>4. /\ submission'[s].status = "pending" /\ submission'[s].fork = worker[w].fork
      /\ \A t \in Submissions \ {s} : submission'[t] = submission[t]
  BY DEF OnboardingInv, TypeOK
<1>5. \A v \in Workers : ~HoldsRow(v)'
  BY <1>1 DEF Locked, HoldsRow, Idle
<1>6. \A v \in Workers : RequestInOrder(worker[v])'
  BY <1>1 DEF OnboardingInv, RequestInOrder, Idle
<1>7. OneOpen' /\ LocksExclude'
  BY <1>4, <1>5 DEF OneOpen, LocksExclude, MayOpen
<1>8. OpenIsNews'
  <2> SUFFICES ASSUME ~overridden', ~raced', NEW t \in Submissions, submission'[t].status \in Open
               PROVE  merchant'.tier < TierOf(submission'[t].fork)
    BY DEF OpenIsNews
  <2>1. t = s
    BY <1>4 DEF MayOpen
  <2> QED BY <1>4, <2>1
<1>9. ApprovedIsGranted'
  BY <1>4 DEF OnboardingInv, ApprovedIsGranted
<1> QED BY <1>3, <1>6, <1>7, <1>8, <1>9
        DEF OnboardingInv, DecisionsAreAudited

\* The transaction of a review commits.
LEMMA CommitStep ==
    ASSUME OnboardingInv, NEW w \in Workers, Commit(w)
    PROVE  OnboardingInv'
<1> DEFINE q == worker[w]
           s == q.sub
<1>0. q \in Request /\ s \in Submissions
  BY DEF OnboardingInv, TypeOK, Request
<1>1. q.to \in Reviewed /\ q.row.status \in Open /\ q.audited /\ q.row.fork \in Fork
  BY <1>0 DEF OnboardingInv, RequestInOrder, Commit, At, Request, Submission
<1>2. HoldsRow(w)
  BY DEF Commit, At, HoldsRow
<1>3. /\ worker'[w] = Idle
      /\ \A v \in Workers : v # w => worker'[v] = worker[v]
  BY DEF OnboardingInv, TypeOK, Commit, Return
<1>4. /\ submission'[s].status = q.to /\ submission'[s].fork = submission[s].fork
      /\ \A t \in Submissions \ {s} : submission'[t] = submission[t]
  BY <1>0 DEF OnboardingInv, TypeOK, Commit, Submission
<1>5. \A v \in Workers : HoldsRow(v)' => v # w /\ HoldsRow(v)
  BY <1>3 DEF HoldsRow, Idle
<1>6. ~raced' => ~raced /\ submission[s] = q.row
  BY DEF Commit
<1>7. TypeOK'
  <2>1. submission' \in [Submissions -> Submission]
    BY <1>0, <1>1 DEF OnboardingInv, TypeOK, Commit, Submission, Reviewed
  <2>2. Granted(q) \in Merchant
    BY <1>1 DEF Granted, Merchant, TierOf, Fork
  <2>3. merchant' \in Merchant
    BY <2>2 DEF OnboardingInv, TypeOK, Commit
  <2>4. unaudited' \in BOOLEAN /\ raced' \in BOOLEAN
    BY DEF Commit
  <2> QED BY <2>1, <2>3, <2>4, IdleTyped DEF OnboardingInv, TypeOK, Commit, Return
<1>8. \A v \in Workers : RequestInOrder(worker[v])'
  BY <1>3 DEF OnboardingInv, RequestInOrder, Idle
<1>9. LocksExclude'
  BY <1>3, <1>5 DEF OnboardingInv, LocksExclude
<1>10. OneOpen'
  <2>1. ASSUME NEW t \in Submissions, submission'[t].status \in Open
        PROVE  MayOpen(t)'
    <3>1. CASE t = s
      <4>1. MayOpen(s)
        BY <1>2, <1>4, <2>1, <3>1 DEF OnboardingInv, OneOpen
      <4> QED BY <1>4, <3>1, <4>1 DEF MayOpen
    <3>2. CASE t # s
      <4>1. MayOpen(t) /\ submission[t].status \in Open
        BY <1>4, <2>1, <3>2 DEF OnboardingInv, OneOpen
      <4>2. q.to \notin Open
        BY <1>2, <3>2, <4>1 DEF OnboardingInv, OneOpen, MayOpen
      <4> QED BY <1>4, <4>1, <4>2 DEF MayOpen
    <3> QED BY <3>1, <3>2
  <2>2. ASSUME NEW v \in Workers, HoldsRow(v)', worker'[v].to \in Open
        PROVE  /\ MayOpen(worker[v].sub)'
               /\ \A u \in Workers \ {v} : HoldsRow(u)' => worker'[u].to \notin Open
    <3>1. v # w /\ HoldsRow(v) /\ worker'[v] = worker[v]
      BY <1>3, <1>5, <2>2
    <3>2. MayOpen(worker[v].sub) /\ q.to \notin Open
      BY <1>2, <2>2, <3>1 DEF OnboardingInv, OneOpen
    <3>3. MayOpen(worker[v].sub)'
      BY <1>4, <3>1, <3>2 DEF MayOpen
    <3> QED BY <1>3, <1>5, <2>2, <3>1, <3>3 DEF OnboardingInv, OneOpen
  <2> QED BY <2>1, <2>2 DEF OneOpen
<1>12. ~overridden /\ ~raced' =>
          /\ submission[s].status \in Open /\ submission[s].fork = q.row.fork
          /\ merchant.tier < TierOf(q.row.fork)
  BY <1>0, <1>1, <1>6 DEF OnboardingInv, OpenIsNews
<1>13. OpenIsNews'
  <2> SUFFICES ASSUME ~overridden', ~raced', NEW t \in Submissions, submission'[t].status \in Open
               PROVE  merchant'.tier < TierOf(submission'[t].fork)
    BY DEF OpenIsNews
  <2>0. ~overridden /\ ~raced /\ MayOpen(s)
    BY <1>0, <1>6, <1>12 DEF OnboardingInv, OneOpen, Commit
  <2>1. t = s
    BY <1>4, <2>0 DEF MayOpen
  <2>2. q.to \in Open
    BY <1>4, <2>1
  <2>3. merchant' = merchant
    BY <2>2 DEF Commit, Open
  <2> QED BY <1>4, <1>12, <2>1, <2>3 DEF Commit
<1>14. ApprovedIsGranted'
  <2> SUFFICES ASSUME ~overridden', ~raced', NEW t \in Submissions, submission'[t].status = "approved"
               PROVE  merchant'.tier >= TierOf(submission'[t].fork)
    BY DEF ApprovedIsGranted
  <2>0. ~overridden
    BY DEF Commit
  <2>1. merchant.tier \in 0..2 /\ TierOf(q.row.fork) \in 1..2 /\ TierOf(submission[t].fork) \in 1..2
    BY <1>1, TierTyped DEF OnboardingInv, TypeOK, Merchant, Submission
  <2>2. CASE t = s
    <3>1. merchant'.tier = TierOf(q.row.fork)
      BY <1>4, <2>2 DEF Commit, Granted
    <3> QED BY <1>4, <1>12, <2>0, <2>1, <2>2, <3>1
  <2>3. CASE t # s
    <3>1. merchant.tier >= TierOf(submission[t].fork)
      BY <1>4, <1>6, <2>0, <2>3 DEF OnboardingInv, ApprovedIsGranted
    <3>2. merchant' = merchant \/ merchant'.tier = TierOf(q.row.fork)
      BY DEF Commit, Granted
    <3> QED BY <1>4, <1>12, <2>0, <2>1, <2>3, <3>1, <3>2
  <2> QED BY <2>2, <2>3
<1>15. DecisionsAreAudited'
  BY <1>1 DEF OnboardingInv, DecisionsAreAudited, Commit
<1> QED BY <1>7, <1>8, <1>9, <1>10, <1>13, <1>14, <1>15 DEF OnboardingInv

\* The other statements of a request.
LEMMA StepStep ==
    ASSUME OnboardingInv, NEW w \in Workers, Step(w)
    PROVE  OnboardingInv'
<1>0. worker[w] \in Request /\ RequestInOrder(worker[w]) /\ submission \in [Submissions -> Submission]
  BY DEF OnboardingInv, TypeOK
\* Request w goes on to pc, with nothing but its pc changed.
<1>a. ASSUME NEW pc \in PC, Goto(w, pc), RequestInOrder([worker[w] EXCEPT !.pc = pc]),
             pc \in {"grant", "audit", "commit"} => HoldsRow(w),
             UNCHANGED <<merchant, submission, unaudited, overridden, raced>>
      PROVE  OnboardingInv'
  <2> DEFINE q == [worker[w] EXCEPT !.pc = pc]
  <2>1. q \in Request /\ q.pc = pc /\ q.sub = worker[w].sub /\ q.to = worker[w].to
    BY <1>0 DEF Request
  <2>2. worker' = [worker EXCEPT ![w] = q]
    BY <1>a, <1>0 DEF Goto
  <2> HIDE DEF q
  <2> QED BY <1>a, <2>1, <2>2, Moves DEF q
<1>1. CASE FindOpen(w)
  <2>1. ASSUME NEW s \in Submissions, submission[s].status = "more_info_requested",
               worker' = [worker EXCEPT ![w] =
                 [@ EXCEPT !.pc = "resubmit", !.sub = s, !.row = submission[s]]]
        PROVE  OnboardingInv'
    <3> DEFINE q == [worker[w] EXCEPT !.pc = "resubmit", !.sub = s, !.row = submission[s]]
    <3>1. q \in Request
      BY <1>0 DEF Request, PC
    <3>2. /\ q.pc = "resubmit" /\ q.row.status \in Open
          /\ q.tier = worker[w].tier /\ q.fork = worker[w].fork
      BY <1>0, <2>1 DEF Request, Open
    <3>3. RequestInOrder(q)
      BY <1>0, <1>1, <3>2 DEF RequestInOrder, FindOpen, At
    <3>4. worker' = [worker EXCEPT ![w] = q]
      BY <2>1
    <3> HIDE DEF q
    <3> QED BY <1>1, <3>1, <3>2, <3>3, <3>4, Moves DEF FindOpen
  <2>2. CASE Return(w)
    BY <1>1, <2>2, Returns DEF FindOpen
  <2>3. CASE Goto(w, "create")
    <3>1. RequestInOrder([worker[w] EXCEPT !.pc = "create"])
      BY <1>0, <1>1 DEF RequestInOrder, FindOpen, At, Request
    <3> QED BY <1>1, <1>a, <2>3, <3>1 DEF FindOpen, PC
  <2> QED BY <1>1, <2>1, <2>2, <2>3 DEF FindOpen
<1>2. ASSUME NEW s \in Submissions, CreateSubmission(w, s) PROVE OnboardingInv'
  <2>1. worker[w].tier < TierOf(worker[w].fork)
    BY <1>0, <1>2 DEF RequestInOrder, CreateSubmission, At
  <2>2. CASE MayOpen(s)
    <3>1. raced' \in BOOLEAN
      BY <1>2, <2>2 DEF CreateSubmission
    <3> QED BY <1>2, <2>1, <2>2, <3>1, SubmitStep DEF CreateSubmission
  <2>3. CASE ~MayOpen(s)
    BY <1>2, <2>3, Returns DEF CreateSubmission
  <2> QED BY <2>2, <2>3
<1>3. CASE Resubmit(w)
  <2> DEFINE s == worker[w].sub
  <2>1. worker[w].tier < TierOf(worker[w].fork) /\ s \in Submissions
    BY <1>0, <1>3 DEF RequestInOrder, Resubmit, At, Request
  <2>2. CASE MayOpen(s)
    <3>1. raced' \in BOOLEAN
      BY <1>3, <2>2 DEF Resubmit
    <3> QED BY <1>3, <2>1, <2>2, <3>1, SubmitStep DEF Resubmit
  <2>3. CASE ~MayOpen(s)
    BY <1>3, <2>3, Returns DEF Resubmit
  <2> QED BY <2>2, <2>3
<1>4. CASE BeginTransaction(w)
  <2>1. RequestInOrder([worker[w] EXCEPT !.pc = "write"])
    BY <1>0, <1>4 DEF RequestInOrder, BeginTransaction, At, Request
  <2> QED BY <1>4, <1>a, <2>1 DEF BeginTransaction, PC
<1>5. CASE WriteReview(w)
  <2>1. CASE worker[w].to \in Open /\ ~MayOpen(worker[w].sub)
    BY <1>5, <2>1, Returns DEF WriteReview
  <2>2. CASE ~(worker[w].to \in Open /\ ~MayOpen(worker[w].sub))
    <3> DEFINE pc == IF worker[w].to = "approved" THEN "grant" ELSE "audit"
               q == [worker[w] EXCEPT !.pc = pc]
    <3>1. /\ q \in Request /\ q.pc = pc /\ q.sub = worker[w].sub /\ q.to = worker[w].to
          /\ q.row = worker[w].row
      BY <1>0 DEF Request, PC
    <3>2. RequestInOrder(q)
      BY <1>0, <1>5, <3>1 DEF RequestInOrder, WriteReview, At
    <3>3. /\ worker'[w] = q /\ worker' = [worker EXCEPT ![w] = q]
          /\ \A v \in Workers : v # w => worker'[v] = worker[v]
      BY <1>0, <1>5, <2>2 DEF WriteReview, Goto, OnboardingInv, TypeOK
    <3>4. \A v \in Workers : HoldsRow(v) => worker[v].sub # worker[w].sub
      BY <1>5 DEF WriteReview, Locked
    <3>5. worker[w].to \in Open => MayOpen(worker[w].sub) /\ \A v \in Workers : ~HoldsRow(v)
      BY <1>5, <2>2 DEF WriteReview, Locked
    <3>6. UNCHANGED <<merchant, submission, unaudited, overridden, raced>>
      BY <1>5 DEF WriteReview
    <3> HIDE DEF q, pc
    <3>7. TypeOK'
      BY <3>1, <3>3, <3>6 DEF OnboardingInv, TypeOK
    <3>8. \A v \in Workers : RequestInOrder(worker[v])'
      BY <3>2, <3>3, <3>6 DEF OnboardingInv, RequestInOrder
    <3>9. \A v \in Workers : v # w => (HoldsRow(v)' <=> HoldsRow(v))
      BY <3>3 DEF HoldsRow
    <3>10. LocksExclude'
      BY <3>1, <3>3, <3>4, <3>9 DEF OnboardingInv, LocksExclude
    <3>11. OneOpen'
      <4>1. \A s \in Submissions : MayOpen(s)' <=> MayOpen(s)
        BY <3>6 DEF MayOpen
      <4>2. ASSUME NEW v \in Workers, HoldsRow(v)', worker'[v].to \in Open
            PROVE  /\ MayOpen(worker[v].sub)'
                   /\ \A u \in Workers \ {v} : HoldsRow(u)' => worker'[u].to \notin Open
        <5>1. CASE v = w
          BY <3>1, <3>3, <3>5, <3>6, <3>9, <4>2, <5>1 DEF MayOpen
        <5>2. CASE v # w
          <6>1. HoldsRow(v) /\ worker'[v] = worker[v]
            BY <3>3, <3>9, <4>2, <5>2
          <6>2. q.to \notin Open
            BY <3>1, <3>5, <6>1
          <6>3. MayOpen(worker[v].sub) /\ \A u \in Workers \ {v} : HoldsRow(u) => worker[u].to \notin Open
            BY <4>2, <6>1 DEF OnboardingInv, OneOpen
          <6> QED BY <3>3, <3>6, <3>9, <6>1, <6>2, <6>3 DEF MayOpen
        <5> QED BY <5>1, <5>2
      <4> QED BY <3>6, <4>1, <4>2 DEF OnboardingInv, OneOpen
    <3> QED BY <3>6, <3>7, <3>8, <3>10, <3>11
            DEF OnboardingInv, OpenIsNews, ApprovedIsGranted, DecisionsAreAudited
  <2> QED BY <2>1, <2>2
<1>6. CASE LockMerchant(w)
  <2>1. RequestInOrder([worker[w] EXCEPT !.pc = "audit"])
    BY <1>0, <1>6 DEF RequestInOrder, LockMerchant, At, Request
  <2> QED BY <1>6, <1>a, <2>1 DEF LockMerchant, PC, HoldsRow, At
<1>7. CASE WriteAudit(w)
  <2> DEFINE q == [worker[w] EXCEPT !.pc = "commit", !.audited = TRUE]
  <2>1. /\ q \in Request /\ q.pc = "commit" /\ q.audited
        /\ q.sub = worker[w].sub /\ q.to = worker[w].to /\ q.row = worker[w].row
    BY <1>0 DEF Request, PC
  <2>2. RequestInOrder(q)
    BY <1>0, <1>7, <2>1 DEF RequestInOrder, WriteAudit, At
  <2>3. worker' = [worker EXCEPT ![w] = q] /\ HoldsRow(w)
    BY <1>0, <1>7 DEF WriteAudit, HoldsRow, At
  <2> HIDE DEF q
  <2> QED BY <1>7, <2>1, <2>2, <2>3, Moves DEF WriteAudit
<1>8. CASE Commit(w)
  BY <1>8, CommitStep
<1>9. CASE Override(w)
  <2>1. RequestInOrder([worker[w] EXCEPT !.pc = "trail"])
    BY DEF RequestInOrder
  <2> DEFINE q == [worker[w] EXCEPT !.pc = "trail"]
  <2>2. /\ q \in Request /\ q.pc = "trail"
    BY <1>0 DEF Request, PC
  <2>3. /\ worker'[w] = q /\ worker' = [worker EXCEPT ![w] = q]
        /\ \A v \in Workers : v # w => worker'[v] = worker[v]
    BY <1>0, <1>9 DEF Override, Goto, OnboardingInv, TypeOK
  <2>4. merchant' \in Merchant
    BY <1>0, <1>9 DEF Override, OnboardingInv, TypeOK, Merchant, Request
  <2>5. /\ overridden' = TRUE
        /\ UNCHANGED <<submission, unaudited, raced>>
    BY <1>9 DEF Override
  <2> HIDE DEF q
  <2>6. TypeOK'
    BY <2>2, <2>3, <2>4, <2>5 DEF OnboardingInv, TypeOK
  <2>7. \A v \in Workers : RequestInOrder(worker[v])'
    BY <2>2, <2>3 DEF OnboardingInv, RequestInOrder
  <2>8. \A v \in Workers : HoldsRow(v)' => v # w /\ HoldsRow(v)
    BY <2>2, <2>3 DEF HoldsRow
  <2>9. OneOpen' /\ LocksExclude'
    BY <2>3, <2>5, <2>8 DEF OnboardingInv, OneOpen, LocksExclude, MayOpen
  <2> QED BY <2>5, <2>6, <2>7, <2>9
          DEF OnboardingInv, OpenIsNews, ApprovedIsGranted, DecisionsAreAudited
<1>10. CASE TrailOverride(w)
  BY <1>10, Returns DEF TrailOverride
<1> QED BY <1>1, <1>2, <1>3, <1>4, <1>5, <1>6, <1>7, <1>8, <1>9, <1>10 DEF Step

LEMMA NextInv == OnboardingInv /\ [Next]_vars => OnboardingInv'
<1> SUFFICES ASSUME OnboardingInv, [Next]_vars PROVE OnboardingInv'
  OBVIOUS
<1>1. ASSUME NEW w \in Workers, Begin(w) \/ Step(w) PROVE OnboardingInv'
  BY <1>1, BeginStep, StepStep
<1>2. ASSUME NEW w \in Workers, Fails(w) PROVE OnboardingInv'
  BY <1>2, Returns DEF Fails
<1>3. CASE UNCHANGED vars
  BY <1>3 DEF vars, OnboardingInv, TypeOK, RequestInOrder, OneOpen, LocksExclude, HoldsRow, MayOpen,
              OpenIsNews, ApprovedIsGranted, DecisionsAreAudited
<1> QED BY <1>1, <1>2, <1>3 DEF Next

\* OnboardingInv holds in every reachable state, for any number of submissions,
\* requests and reviewers and any pool.
THEOREM OnboardingInvariant == Spec => []OnboardingInv
<1> QED BY InitInv, NextInv, PTL DEF Spec

\* An approved merchant holds the tier they asked for, unless requests raced.
THEOREM ApprovalsAreGranted == Spec => []ApprovedIsGranted
<1>1. OnboardingInv => ApprovedIsGranted
  BY DEF OnboardingInv
<1> QED BY <1>1, OnboardingInvariant, PTL

\* Every decision committed has its audit entry.
THEOREM ReviewsAreAudited == Spec => []DecisionsAreAudited
<1>1. OnboardingInv => DecisionsAreAudited
  BY DEF OnboardingInv
<1> QED BY <1>1, OnboardingInvariant, PTL
=============================================================================
