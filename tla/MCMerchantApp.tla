--------------------------- MODULE MCMerchantApp ---------------------------
(***************************************************************************)
(* The components a merchant meets in the app, in one model: orders,       *)
(* accounts, sessions, the payout account, pickup locations and risk       *)
(* flags.  Their handlers share no row, so that steps of two of them       *)
(* commute: it is enough to let each run while the others have yet to.     *)
(***************************************************************************)
EXTENDS Orders, Accounts, Sessions, PayoutAccount, Locations, RiskFlags, TLC

MCRolePermissions ==
    [admin |-> {"admin.manage_users", "merchants.manage_status"}]

Symmetry == Permutations(Workers) \cup Permutations(Numbers)

Own == <<vars, accountVars, sessionVars, payoutVars, locationVars, riskVars>>

AppInit ==
    Init /\ AccountInit /\ SessionInit /\ PayoutInit /\ LocationInit /\ RiskInit

\* Components other than k have yet to start, and stay so.
Only(k) ==
    /\ k # 1 => Init /\ UNCHANGED vars
    /\ k # 2 => AccountInit /\ UNCHANGED accountVars
    /\ k # 3 => SessionInit /\ UNCHANGED sessionVars
    /\ k # 4 => PayoutInit /\ UNCHANGED payoutVars
    /\ k # 5 => LocationInit /\ UNCHANGED locationVars
    /\ k # 6 => RiskInit /\ UNCHANGED riskVars

AppNext ==
    \/ Only(1) /\ Next
    \/ Only(2) /\ AccountNext
    \/ Only(3) /\ SessionNext
    \/ Only(4) /\ PayoutNext
    \/ Only(5) /\ LocationNext
    \/ Only(6) /\ RiskNext

AppSpec == AppInit /\ [][AppNext]_Own
=============================================================================
