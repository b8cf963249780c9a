----------------------------- MODULE RiskFlags -----------------------------
(***************************************************************************)
(* Risk monitoring: a scan run by hand records what its rules find, and    *)
(* reviewers dismiss or escalate the flags.  A finding has one open flag   *)
(* at most, by a partial unique index.                                     *)
(***************************************************************************)
EXTENDS Naturals, Sequences, FiniteSets

CONSTANTS
    Findings,       \* merchant, rule and dedupe key of what a rule may find
    MaxFlags,       \* bound: risk_flags rows of a run
    Scanners,       \* bound: scans in progress at once
    Reviewers       \* bound: resolutions in progress at once

ASSUME MaxFlagsAssumption == MaxFlags \in Nat

VARIABLES
    found,      \* what the rules' queries return now
    flag,       \* the risk_flags table, oldest first
    scan,       \* the scans in progress: findings yet to be recorded
    verdict,    \* the resolutions in progress
    clashed     \* history: flags resolved by a reviewer who read them before another did

riskVars == <<found, flag, scan, verdict, clashed>>

FlagRow == [finding : Findings, status : {"open", "dismissed", "escalated"}]

VerdictRow == [flag : 0..MaxFlags, status : {"dismissed", "escalated"}]

NoVerdict == [flag |-> 0, status |-> "dismissed"]

RiskTypeOK ==
    /\ found \subseteq Findings
    /\ flag \in Seq(FlagRow)
    /\ scan \in [Scanners -> SUBSET Findings]
    /\ verdict \in [Reviewers -> VerdictRow]
    /\ clashed \subseteq 1..MaxFlags

RiskInit ==
    /\ found = {}
    /\ flag = << >>
    /\ scan = [s \in Scanners |-> {}]
    /\ verdict = [v \in Reviewers |-> NoVerdict]
    /\ clashed = {}

OpenFlags(f) == {n \in DOMAIN flag : flag[n].finding = f /\ flag[n].status = "open"}

\* FindDuplicateGhanaCardFlags and FindVelocitySpikes: what they return comes with the
\* merchants' submissions and invoices, and goes with the trailing averages.
FindingAppears(f) == found' = found \cup {f} /\ f \notin found /\ UNCHANGED <<flag, scan, verdict, clashed>>

FindingFades(f) == found' = found \ {f} /\ f \in found /\ UNCHANGED <<flag, scan, verdict, clashed>>

\* RunRiskScan: the queries, then one insert for each row.
StartScan(s) ==
    /\ scan[s] = {}
    /\ scan' = [scan EXCEPT ![s] = found]
    /\ UNCHANGED <<found, flag, verdict, clashed>>

\* ON CONFLICT DO NOTHING.
CreateRiskFlag(s, f) ==
    /\ f \in scan[s]
    /\ flag' = IF OpenFlags(f) # {} THEN flag
               ELSE Append(flag, [finding |-> f, status |-> "open"])
    /\ Len(flag') <= MaxFlags
    /\ scan' = [scan EXCEPT ![s] = @ \ {f}]
    /\ UNCHANGED <<found, verdict, clashed>>

ScanFails(s) ==
    /\ scan[s] # {}
    /\ scan' = [scan EXCEPT ![s] = {}]
    /\ UNCHANGED <<found, flag, verdict, clashed>>

\* Mutant: a resolved flag is resolved again.
StartVerdictAgain(v, n, status) ==
    /\ verdict[v].flag = 0
    /\ verdict' = [verdict EXCEPT ![v] = [flag |-> n, status |-> status]]
    /\ UNCHANGED <<found, flag, scan, clashed>>

\* GetRiskFlag: only an open flag is resolved.
StartVerdict(v, n, status) ==
    /\ verdict[v].flag = 0
    /\ flag[n].status = "open"
    /\ verdict' = [verdict EXCEPT ![v] = [flag |-> n, status |-> status]]
    /\ UNCHANGED <<found, flag, scan, clashed>>

\* The ResolveRiskFlag query, by id; the audit entry follows.
ResolveFlag(v) ==
    LET n == verdict[v].flag IN
    /\ n # 0
    /\ flag' = [flag EXCEPT ![n].status = verdict[v].status]
    /\ clashed' = clashed \cup {verdict[u].flag : u \in {u \in Reviewers \ {v} : verdict[u].flag = n}}
    /\ verdict' = [verdict EXCEPT ![v] = NoVerdict]
    /\ UNCHANGED <<found, scan>>

VerdictFails(v) ==
    /\ verdict[v].flag # 0
    /\ verdict' = [verdict EXCEPT ![v] = NoVerdict]
    /\ UNCHANGED <<found, flag, scan, clashed>>

RiskNext ==
    \/ \E f \in Findings : FindingAppears(f) \/ FindingFades(f)
    \/ \E s \in Scanners :
         StartScan(s) \/ ScanFails(s) \/ \E f \in Findings : CreateRiskFlag(s, f)
    \/ \E v \in Reviewers :
         \/ ResolveFlag(v) \/ VerdictFails(v)
         \/ \E n \in DOMAIN flag, status \in {"dismissed", "escalated"} : StartVerdict(v, n, status)

RiskSpec == RiskInit /\ [][RiskNext]_riskVars

-----------------------------------------------------------------------------
(* Properties.                                                             *)

\* "flag has already been resolved": a verdict stands, and "running the scan repeatedly
\* is always safe": what a scan appends is never a second open flag of a finding.  Only
\* reviewers who had read a flag before it was resolved can overturn the verdict.
VerdictsStand ==
    [][/\ \A n \in DOMAIN flag \ clashed : flag[n].status # "open" => flag'[n] = flag[n]
       /\ \A f \in Findings : Cardinality(OpenFlags(f)') <= 1]_riskVars

-----------------------------------------------------------------------------
(* The inductive invariant behind it.                                      *)

\* A reviewer about to resolve a flag read it open: if it is resolved by now, the two
\* verdicts have clashed.
VerdictInOrder(v) ==
    LET w == verdict[v] IN
    w.flag # 0 =>
        /\ w.flag \in DOMAIN flag
        /\ w.status \in {"dismissed", "escalated"}
        /\ flag[w.flag].status # "open" => w.flag \in clashed

RiskInv ==
    /\ flag \in Seq(FlagRow)
    /\ verdict = [v \in Reviewers |-> verdict[v]]
    /\ \A v \in Reviewers : VerdictInOrder(v)
    /\ \A f \in Findings : \A m, n \in OpenFlags(f) : m = n
=============================================================================
