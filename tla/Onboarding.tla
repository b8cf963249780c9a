----------------------------- MODULE Onboarding -----------------------------
(***************************************************************************)
(* Verifying a merchant: the merchant submits evidence for a KYC tier,     *)
(* Back Office reviews it, and an approval raises the merchant's tier in   *)
(* the same transaction.  Back Office may also set the tier by hand.       *)
(*                                                                         *)
(* A worker is one request in progress.  ReviewKYCSubmission is the only   *)
(* transaction: its rows are locked from the statement that writes them,   *)
(* its writes show from Commit on, and it keeps a connection of the pool   *)
(* while the audit entry, written outside it, needs a second one.          *)
(***************************************************************************)
EXTENDS Naturals, FiniteSets

CONSTANTS
    Submissions,    \* bound: kyc_submissions rows of a run
    Workers,        \* bound: requests in progress at once
    HandTiers,      \* tiers Back Office sets by hand
    PoolSize        \* connections of the pgx pool

ASSUME SubmissionsAssumption == Submissions # {}
ASSUME HandTiersAssumption == HandTiers \subseteq {0, 1, 2}
ASSUME PoolSizeAssumption == PoolSize \in Nat \ {0}

VARIABLES
    merchant,       \* merchants.kyc_tier and business_type
    submission,     \* the kyc_submissions table
    worker,         \* the requests in progress
    unaudited,      \* history: a change was committed without its audit entry
    overridden,     \* history: Back Office has set the tier by hand
    raced           \* history: a request wrote over rows changed since it read them

vars == <<merchant, submission, worker, unaudited, overridden, raced>>

Fork == {"informal", "registered"}

Open == {"pending", "more_info_requested"}

Reviewed == {"approved", "rejected", "more_info_requested"}

\* What a request finds when no row matches.
NoRow == [status |-> "absent", fork |-> "informal"]

Submission == [status : {"absent", "pending"} \cup Reviewed, fork : Fork]

Merchant == [tier : 0..2, fork : Fork \cup {"none"}]

PC == {"idle", "find", "create", "resubmit", "begin", "write", "grant", "audit",
       "commit", "override", "trail"}

\* A request's locals: row and tier are what it read, audited whether the audit log
\* has its entry (nothing reads the log again).
Request ==
    [pc : PC, sub : Submissions, to : {"none"} \cup Reviewed, fork : Fork,
     row : Submission, tier : 0..2, audited : BOOLEAN]

Idle ==
    [pc |-> "idle", sub |-> CHOOSE s \in Submissions : TRUE, to |-> "none",
     fork |-> "informal", row |-> NoRow, tier |-> 0, audited |-> FALSE]

TypeOK ==
    /\ merchant \in Merchant
    /\ submission \in [Submissions -> Submission]
    /\ worker \in [Workers -> Request]
    /\ unaudited \in BOOLEAN
    /\ overridden \in BOOLEAN
    /\ raced \in BOOLEAN

Init ==
    /\ merchant = [tier |-> 0, fork |-> "none"]
    /\ submission = [s \in Submissions |-> NoRow]
    /\ worker = [w \in Workers |-> Idle]
    /\ unaudited = FALSE
    /\ overridden = FALSE
    /\ raced = FALSE

At(w, pc) == worker[w].pc = pc

Goto(w, pc) == worker' = [worker EXCEPT ![w].pc = pc]

Return(w) == worker' = [worker EXCEPT ![w] = Idle]

-----------------------------------------------------------------------------
(* The pool and the locks.                                                 *)

InTransaction(w) == worker[w].pc \in {"write", "grant", "audit", "commit"}

\* A statement outside a transaction borrows a connection for as long as it takes.
ConnectionFree == Cardinality({w \in Workers : InTransaction(w)}) < PoolSize

HoldsRow(w) == worker[w].pc \in {"grant", "audit", "commit"}

Locked == {worker[w].sub : w \in {v \in Workers : HoldsRow(v)}}

MerchantLocked ==
    \E w \in Workers : worker[w].pc \in {"audit", "commit"} /\ worker[w].to = "approved"

\* kyc_submissions_one_open_per_merchant leaves room for s to be open.
MayOpen(s) == \A t \in Submissions \ {s} : submission[t].status \notin Open

-----------------------------------------------------------------------------
(* CreateKYCSubmission.                                                    *)

\* requestedTier
TierOf(fork) == IF fork = "registered" THEN 2 ELSE 1

\* GetMerchant, and the tier must be news to them.
StartSubmission(w, fork) ==
    /\ At(w, "idle") /\ ConnectionFree
    /\ merchant.tier < TierOf(fork)
    /\ worker' = [worker EXCEPT ![w] =
         [Idle EXCEPT !.pc = "find", !.fork = fork, !.tier = merchant.tier]]
    /\ UNCHANGED <<merchant, submission, unaudited, overridden, raced>>

\* GetOpenKYCSubmissionByMerchant: a pending one is a 409, one sent back for more
\* information is resubmitted, and otherwise there is a new one.
FindOpen(w) ==
    /\ At(w, "find") /\ ConnectionFree
    /\ \/ \E s \in Submissions :
            /\ submission[s].status = "pending"
            /\ Return(w)
       \/ \E s \in Submissions :
            /\ submission[s].status = "more_info_requested"
            /\ worker' = [worker EXCEPT ![w] =
                 [@ EXCEPT !.pc = "resubmit", !.sub = s, !.row = submission[s]]]
       \/ /\ \A s \in Submissions : submission[s].status \notin Open
          /\ Goto(w, "create")
    /\ UNCHANGED <<merchant, submission, unaudited, overridden, raced>>

\* The unique index turns a second open row away, once no transaction in progress
\* is opening or closing one.
CreateSubmission(w, s) ==
    /\ At(w, "create") /\ ConnectionFree
    /\ submission[s].status = "absent"
    /\ Locked = {}
    /\ IF MayOpen(s)
         THEN /\ submission' = [submission EXCEPT ![s] =
                   [status |-> "pending", fork |-> worker[w].fork]]
              /\ raced' = (raced \/ merchant.tier # worker[w].tier)
         ELSE UNCHANGED <<submission, raced>>
    /\ Return(w)
    /\ UNCHANGED <<merchant, unaudited, overridden>>

\* ResubmitKYCSubmission: by id, whatever has become of the row.
Resubmit(w) ==
    LET s == worker[w].sub IN
    /\ At(w, "resubmit") /\ ConnectionFree
    /\ Locked = {}
    /\ IF MayOpen(s)
         THEN /\ submission' = [submission EXCEPT ![s] =
                   [status |-> "pending", fork |-> worker[w].fork]]
              /\ raced' = (raced \/ merchant.tier # worker[w].tier
                                 \/ submission[s] # worker[w].row)
         ELSE UNCHANGED <<submission, raced>>
    /\ Return(w)
    /\ UNCHANGED <<merchant, unaudited, overridden>>

-----------------------------------------------------------------------------
(* ReviewKYCSubmission.                                                    *)

kycStatusTransitions ==
    [absent |-> {}, pending |-> Reviewed, more_info_requested |-> {"approved", "rejected"},
     approved |-> {}, rejected |-> {}]

\* GetKYCSubmission and the check of the transition.
StartReview(w, s, to) ==
    /\ At(w, "idle") /\ ConnectionFree
    /\ to \in kycStatusTransitions[submission[s].status]
    /\ worker' = [worker EXCEPT ![w] =
         [Idle EXCEPT !.pc = "begin", !.sub = s, !.to = to, !.row = submission[s]]]
    /\ UNCHANGED <<merchant, submission, unaudited, overridden, raced>>

BeginTransaction(w) ==
    /\ At(w, "begin") /\ ConnectionFree
    /\ Goto(w, "write")
    /\ UNCHANGED <<merchant, submission, unaudited, overridden, raced>>

\* The ReviewKYCSubmission query: by id, waiting for another review's lock.  The
\* unique index refuses to reopen a submission beside an open one.
WriteReview(w) ==
    LET q == worker[w] IN
    /\ At(w, "write")
    /\ IF q.to \in Open THEN Locked = {} ELSE q.sub \notin Locked
    /\ IF q.to \in Open /\ ~MayOpen(q.sub) THEN Return(w)
       ELSE Goto(w, IF q.to = "approved" THEN "grant" ELSE "audit")
    /\ UNCHANGED <<merchant, submission, unaudited, overridden, raced>>

\* ApproveMerchantKYC locks the merchant's row.
LockMerchant(w) ==
    /\ At(w, "grant")
    /\ ~MerchantLocked
    /\ Goto(w, "audit")
    /\ UNCHANGED <<merchant, submission, unaudited, overridden, raced>>

\* Mutant: the audit entry is best effort, as the notifications elsewhere are.
WriteAuditBestEffort(w) ==
    /\ At(w, "audit")
    /\ \E written \in BOOLEAN :
         worker' = [worker EXCEPT ![w].pc = "commit", ![w].audited = written]
    /\ UNCHANGED <<merchant, submission, unaudited, overridden, raced>>

\* writeAdminAuditLog, on a connection of its own: the entry is there to stay.
WriteAudit(w) ==
    /\ At(w, "audit") /\ ConnectionFree
    /\ worker' = [worker EXCEPT ![w].pc = "commit", ![w].audited = TRUE]
    /\ UNCHANGED <<merchant, submission, unaudited, overridden, raced>>

\* Mutant: only the fork is granted.
GrantedForkOnly(q) == [merchant EXCEPT !.fork = q.row.fork]

\* ApproveMerchantKYC's values: tier and fork of the submission as it was read.
Granted(q) == [tier |-> TierOf(q.row.fork), fork |-> q.row.fork]

\* The notification is written in the transaction, which then commits.
Commit(w) ==
    LET q == worker[w] IN
    /\ At(w, "commit")
    /\ submission' = [submission EXCEPT ![q.sub].status = q.to]
    /\ merchant' = IF q.to = "approved" THEN Granted(q) ELSE merchant
    /\ unaudited' = (unaudited \/ ~q.audited)
    /\ raced' = (raced \/ submission[q.sub] # q.row)
    /\ Return(w)
    /\ UNCHANGED overridden

-----------------------------------------------------------------------------
(* UpdateMerchantKYCTier: the tier alone, then the audit entry.            *)

StartOverride(w, tier) ==
    /\ At(w, "idle") /\ ConnectionFree
    /\ worker' = [worker EXCEPT ![w] = [Idle EXCEPT !.pc = "override", !.tier = tier]]
    /\ UNCHANGED <<merchant, submission, unaudited, overridden, raced>>

Override(w) ==
    /\ At(w, "override") /\ ConnectionFree
    /\ ~MerchantLocked
    /\ merchant' = [merchant EXCEPT !.tier = worker[w].tier]
    /\ overridden' = TRUE
    /\ Goto(w, "trail")
    /\ UNCHANGED <<submission, unaudited, raced>>

TrailOverride(w) ==
    /\ At(w, "trail") /\ ConnectionFree
    /\ Return(w)
    /\ UNCHANGED <<merchant, submission, unaudited, overridden, raced>>

-----------------------------------------------------------------------------

\* Mutant: a failed review does not roll back and keeps its connection.
FailsHoldingOn(w) ==
    /\ ~At(w, "idle")
    /\ IF InTransaction(w) THEN Goto(w, "leaked") ELSE Return(w)
    /\ UNCHANGED <<merchant, submission, unaudited, overridden, raced>>

\* A statement, or the commit, fails: a 500.  The transaction, if there is one, leaves
\* nothing but the audit entry; an override may have no entry.
Fails(w) ==
    /\ ~At(w, "idle")
    /\ Return(w)
    /\ UNCHANGED <<merchant, submission, unaudited, overridden, raced>>

Step(w) ==
    \/ FindOpen(w) \/ Resubmit(w) \/ BeginTransaction(w) \/ WriteReview(w)
    \/ LockMerchant(w) \/ WriteAudit(w) \/ Commit(w) \/ Override(w) \/ TrailOverride(w)
    \/ \E s \in Submissions : CreateSubmission(w, s)

Begin(w) ==
    \/ \E fork \in Fork : StartSubmission(w, fork)
    \/ \E s \in Submissions, to \in Reviewed : StartReview(w, s, to)
    \/ \E tier \in HandTiers : StartOverride(w, tier)

Next == \E w \in Workers : Begin(w) \/ Step(w) \/ Fails(w)

Spec == Init /\ [][Next]_vars

\* A request runs to its end; Postgres grants row locks, and the pool its
\* connections, in the order they were asked for.
FairSpec == Spec /\ \A w \in Workers : SF_vars(Step(w))

-----------------------------------------------------------------------------
(* Properties.                                                             *)

\* "a submission can never end up approved while the merchant is still stuck" below
\* the tier it asks for: only a request that wrote over rows changed since it read
\* them, or Back Office by hand, can bring that about.
ApprovedIsGranted ==
    ~overridden /\ ~raced =>
        \A s \in Submissions : submission[s].status = "approved" =>
            merchant.tier >= TierOf(submission[s].fork)

\* "Always audited": no decision is ever committed without its audit entry, although
\* the entry is not part of the transaction.
DecisionsAreAudited == ~unaudited

\* Reviews that wait for each other's locks all end, and so do those that find every
\* connection taken, unless the pool stays empty for good: reviews hold all of it then,
\* and each waits for one connection more, to write its audit entry, or for the locks
\* of one that does.
ReviewsEnd == []<>ConnectionFree => \A w \in Workers : InTransaction(w) ~> At(w, "idle")

\* What makes them inductive: a reviewed submission was open and a submitted one is
\* news, at most one is open, and none that is open asks for a tier already held.
RequestInOrder(q) ==
    /\ q.pc \in {"begin", "write", "grant", "audit", "commit"} =>
         q.to \in Reviewed /\ q.row.status \in Open
    /\ q.pc = "commit" => q.audited
    /\ q.pc \in {"find", "create", "resubmit"} => q.tier < TierOf(q.fork)
    /\ q.pc = "resubmit" => q.row.status \in Open

OneOpen ==
    /\ \A s \in Submissions : submission[s].status \in Open => MayOpen(s)
    /\ \A w \in Workers : HoldsRow(w) /\ worker[w].to \in Open =>
          /\ MayOpen(worker[w].sub)
          /\ \A v \in Workers \ {w} : HoldsRow(v) => worker[v].to \notin Open

LocksExclude ==
    \A v, w \in Workers : v # w /\ HoldsRow(v) /\ HoldsRow(w) => worker[v].sub # worker[w].sub

OpenIsNews ==
    ~overridden /\ ~raced =>
        \A s \in Submissions : submission[s].status \in Open =>
            merchant.tier < TierOf(submission[s].fork)

OnboardingInv ==
    /\ TypeOK
    /\ \A w \in Workers : RequestInOrder(worker[w])
    /\ OneOpen
    /\ LocksExclude
    /\ OpenIsNews
    /\ ApprovedIsGranted
    /\ DecisionsAreAudited
=============================================================================
