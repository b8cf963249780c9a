------------------------------- MODULE Payout -------------------------------
(***************************************************************************)
(* What OrderxPay promises a merchant, whatever the handlers do to keep    *)
(* it: the merchant's share of every payment is passed on at the charge    *)
(* itself or made out once in a payout, which arrives or fails, and a      *)
(* refund takes its part of the share back, out of what is still owed or   *)
(* as a debt that later payouts work off.  Disputes, with Settlements,     *)
(* implements this.                                                        *)
(***************************************************************************)
EXTENDS Integers, FiniteSetsExt

CONSTANTS
    Payments,   \* payments of the merchant's customers
    Shares      \* amounts a share can have

VARIABLES
    standing,   \* whether a payment's share is absent, owed or given
    share,      \* the share, as refunds have left it
    due,        \* payouts made out and not yet sent
    paid,       \* what has reached the merchant
    stuck,      \* payouts that failed: nothing makes them out again
    debt        \* what the merchant owes of it again

payoutVars == <<standing, share, due, paid, stuck, debt>>

Init ==
    /\ standing = [r \in Payments |-> "absent"]
    /\ share = [r \in Payments |-> 0]
    /\ due = 0 /\ paid = 0 /\ stuck = 0 /\ debt = 0

\* A customer has paid OrderxPay.
Collect(r, s) ==
    /\ standing[r] = "absent"
    /\ standing' = [standing EXCEPT ![r] = "owed"]
    /\ share' = [share EXCEPT ![r] = s]
    /\ UNCHANGED <<due, paid, stuck, debt>>

\* A customer has paid, and the provider passed the share on; it rounds OrderxPay's
\* part down, where a payout rounds the merchant's.
CollectDirect(r, s) ==
    /\ standing[r] = "absent"
    /\ standing' = [standing EXCEPT ![r] = "given"]
    /\ share' = [share EXCEPT ![r] = s]
    /\ paid' \in paid + s..paid + s + 1
    /\ UNCHANGED <<due, stuck, debt>>

\* A customer gets money back, s of it out of the share; what the merchant then owes is
\* rounded down.
Refund(r, s) ==
    /\ standing[r] # "absent" /\ s <= share[r]
    /\ share' = [share EXCEPT ![r] = @ - s]
    /\ IF standing[r] = "given" THEN debt' \in debt + s - 1..debt + s /\ debt' >= debt
       ELSE UNCHANGED debt
    /\ UNCHANGED <<standing, due, paid, stuck>>

\* Shares that are owed are made out together, less a part of the debt.
PayOut(S, deducted) ==
    LET worth == SumFunctionOnSet(share, S) IN
    /\ S # {} /\ \A r \in S : standing[r] = "owed"
    /\ deducted <= debt /\ deducted <= worth
    /\ standing' = [r \in Payments |-> IF r \in S THEN "given" ELSE standing[r]]
    /\ due' = due + worth - deducted
    /\ debt' = debt - deducted
    /\ UNCHANGED <<share, paid, stuck>>

\* A payout is sent, or fails.
Send(x) ==
    /\ due' = due - x /\ paid' = paid + x
    /\ UNCHANGED <<standing, share, stuck, debt>>

Fail(x) ==
    /\ due' = due - x /\ stuck' = stuck + x
    /\ UNCHANGED <<standing, share, paid, debt>>

Next ==
    \/ \E r \in Payments, s \in Shares : Collect(r, s) \/ CollectDirect(r, s) \/ Refund(r, s)
    \/ \E S \in SUBSET Payments, deducted \in 0..debt : PayOut(S, deducted)
    \/ \E x \in 0..due : Send(x) \/ Fail(x)

Spec == Init /\ [][Next]_payoutVars
=============================================================================
