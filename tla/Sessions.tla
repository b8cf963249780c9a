------------------------------ MODULE Sessions ------------------------------
(***************************************************************************)
(* Signing in: a token carries a snapshot of what its holder may do, and   *)
(* opens routes until it expires without a look at the database.  Back     *)
(* Office users act on each other's roles and on merchants through such    *)
(* tokens; merchants and their staff have tokens without permissions.      *)
(***************************************************************************)
EXTENDS Naturals, FiniteSets

CONSTANTS
    Users,          \* Back Office users
    Roles,          \* the roles catalogue
    RolePermissions,\* role_permissions: the permission keys of each role
    SeedUser,       \* the user cmd/seed provisions ...
    SeedRole,       \* ... and their role
    Logins,         \* bound: logins in progress at once
    UserLife,       \* userTokenDuration, in hours
    MerchantLife,   \* merchantTokenDuration
    MaxTokens,      \* bound: tokens of a run
    LastHour        \* bound: hours of a run

ASSUME SeedAssumption == SeedUser \in Users /\ SeedRole \in Roles
ASSUME ActorsAssumption == Users \cap {"merchant", "staff"} = {}
ASSUME SessionBounds == {UserLife, MerchantLife, MaxTokens, LastHour} \subseteq Nat

VARIABLES
    hour,       \* time.Now()
    user,       \* the users table with user_roles
    shop,       \* merchants.status is not suspended; the staff row exists
    login,      \* the logins in progress
    token,      \* the tokens issued
    lastHeld,   \* history: the hour each user last held each permission
    lastGood    \* history: the hour each actor was last in good standing

sessionVars == <<hour, user, shop, login, token, lastHeld, lastGood>>

ManageUsers == "admin.manage_users"

ManageStatus == "merchants.manage_status"

Permissions == {ManageUsers, ManageStatus} \cup UNION {RolePermissions[r] : r \in Roles}

Shop == {"merchant", "staff"}

Actors == Users \cup Shop

Hours == 0..LastHour

UserRow == [exists : BOOLEAN, active : BOOLEAN, roles : SUBSET Roles]

\* The names of the roles are in a token too, for display.
Token == [actor : Actors, permissions : SUBSET Permissions, at : Hours]

LoginRow == [pc : {"idle", "roles", "permissions", "token"}, actor : Actors,
             permissions : SUBSET Permissions]

NoLogin == [pc |-> "idle", actor |-> SeedUser, permissions |-> {}]

SessionTypeOK ==
    /\ hour \in Hours
    /\ user \in [Users -> UserRow]
    /\ shop \in [Shop -> BOOLEAN]
    /\ login \in [Logins -> LoginRow]
    /\ token \in SUBSET Token
    /\ lastHeld \in [Users -> [Permissions -> Hours]]
    /\ lastGood \in [Actors -> Hours]

\* GetUserPermissionKeys: through roles; user_permissions, which it joins as well,
\* has no writer.
KeysOf(row) == UNION {RolePermissions[r] : r \in row.roles}

InGoodStanding(a) == IF a \in Users THEN user[a].exists /\ user[a].active ELSE shop[a]

\* After cmd/seed, a Super Admin, and a merchant with a member of staff.
SessionInit ==
    /\ hour = 0
    /\ user = [u \in Users |->
         [exists |-> u = SeedUser, active |-> TRUE,
          roles |-> IF u = SeedUser THEN {SeedRole} ELSE {}]]
    /\ shop = [a \in Shop |-> TRUE]
    /\ login = [n \in Logins |-> NoLogin]
    /\ token = {}
    /\ lastHeld = [u \in Users |-> [k \in Permissions |-> 0]]
    /\ lastGood = [a \in Actors |-> 0]

\* What has been held and who in good standing during the hour that a step is in.
Observed ==
    /\ lastHeld' = [u \in Users |-> [k \in Permissions |->
         IF k \in KeysOf(user'[u]) THEN hour' ELSE lastHeld[u][k]]]
    /\ lastGood' = [a \in Actors |-> IF InGoodStanding(a)' THEN hour' ELSE lastGood[a]]

\* A login takes seconds: none spans two hours.
HourPasses ==
    /\ hour < LastHour
    /\ \A n \in Logins : login[n].pc = "idle"
    /\ hour' = hour + 1
    /\ UNCHANGED <<user, shop, login, token>>
    /\ Observed

-----------------------------------------------------------------------------
(* UserLogin and MerchantLogin, after the password.                        *)

\* Mutant: the account's status is not looked at.
StartLoginAnyway(n, a) ==
    /\ login[n].pc = "idle"
    /\ a \in Users => user[a].exists
    /\ login' = [login EXCEPT ![n] =
         [NoLogin EXCEPT !.pc = IF a \in Users THEN "roles" ELSE "token", !.actor = a]]
    /\ UNCHANGED <<hour, user, shop, token, lastHeld, lastGood>>

\* GetUserByEmail; GetMerchantByEmail or ByPhone, else GetStaffByEmail or ByPhone.
StartLogin(n, a) ==
    /\ login[n].pc = "idle"
    /\ InGoodStanding(a)
    /\ login' = [login EXCEPT ![n] =
         [NoLogin EXCEPT !.pc = IF a \in Users THEN "roles" ELSE "token", !.actor = a]]
    /\ UNCHANGED <<hour, user, shop, token, lastHeld, lastGood>>

\* ListUserRoles, then GetUserPermissionKeys.
LoadRoles(n) ==
    /\ login[n].pc = "roles"
    /\ login' = [login EXCEPT ![n].pc = "permissions"]
    /\ UNCHANGED <<hour, user, shop, token, lastHeld, lastGood>>

LoadPermissions(n) ==
    /\ login[n].pc = "permissions"
    /\ login' = [login EXCEPT ![n].pc = "token",
                              ![n].permissions = KeysOf(user[login[n].actor])]
    /\ UNCHANGED <<hour, user, shop, token, lastHeld, lastGood>>

\* CreateToken
IssueToken(n) ==
    /\ login[n].pc = "token"
    /\ token' = token \cup
         {[actor |-> login[n].actor, permissions |-> login[n].permissions, at |-> hour]}
    /\ Cardinality(token') <= MaxTokens
    /\ login' = [login EXCEPT ![n] = NoLogin]
    /\ UNCHANGED <<hour, user, shop, lastHeld, lastGood>>

LoginFails(n) ==
    /\ login[n].pc # "idle"
    /\ login' = [login EXCEPT ![n] = NoLogin]
    /\ UNCHANGED <<hour, user, shop, token, lastHeld, lastGood>>

-----------------------------------------------------------------------------
(* RequireAuth, RequireActorType and RequirePermission.                    *)

Life(t) == IF t.actor \in Users THEN UserLife ELSE MerchantLife

\* VerifyToken and Payload.Valid
Valid(t) == t \in token /\ hour <= t.at + Life(t)

\* A route of the Back Office that asks for permission k.
Opens(t, k) == Valid(t) /\ t.actor \in Users /\ k \in t.permissions

\* A route of the merchant app: RequireActorType and RequireOwnMerchant.
OpensShop(t) == Valid(t) /\ t.actor \in Shop

Permitted(k) == \E t \in token : Opens(t, k)

-----------------------------------------------------------------------------
(* What Back Office users do through their tokens.                         *)

CreateUser(u) ==
    /\ Permitted(ManageUsers)
    /\ ~user[u].exists
    /\ user' = [user EXCEPT ![u].exists = TRUE]
    /\ UNCHANGED <<hour, shop, login, token>>
    /\ Observed

SetUserStatus(u, active) ==
    /\ Permitted(ManageUsers)
    /\ user[u].exists /\ user[u].active # active
    /\ user' = [user EXCEPT ![u].active = active]
    /\ UNCHANGED <<hour, shop, login, token>>
    /\ Observed

AssignUserRole(u, r) ==
    /\ Permitted(ManageUsers)
    /\ user[u].exists /\ r \notin user[u].roles
    /\ user' = [user EXCEPT ![u].roles = @ \cup {r}]
    /\ UNCHANGED <<hour, shop, login, token>>
    /\ Observed

RemoveUserRole(u, r) ==
    /\ Permitted(ManageUsers)
    /\ r \in user[u].roles
    /\ user' = [user EXCEPT ![u].roles = @ \ {r}]
    /\ UNCHANGED <<hour, shop, login, token>>
    /\ Observed

\* UpdateMerchantStatus: suspended, or not any more.
SetMerchantStanding(good) ==
    /\ Permitted(ManageStatus)
    /\ shop["merchant"] # good
    /\ shop' = [shop EXCEPT !["merchant"] = good]
    /\ UNCHANGED <<hour, user, login, token>>
    /\ Observed

\* CreateStaff and DeleteStaff: a route of the merchant app.
SetStaffRow(there) ==
    /\ \E t \in token : OpensShop(t)
    /\ shop["staff"] # there
    /\ shop' = [shop EXCEPT !["staff"] = there]
    /\ UNCHANGED <<hour, user, login, token>>
    /\ Observed

SessionNext ==
    \/ HourPasses
    \/ \E n \in Logins :
         \/ LoadRoles(n) \/ LoadPermissions(n) \/ IssueToken(n) \/ LoginFails(n)
         \/ \E a \in Actors : StartLogin(n, a)
    \/ \E u \in Users :
         \/ CreateUser(u)
         \/ \E active \in BOOLEAN : SetUserStatus(u, active)
         \/ \E r \in Roles : AssignUserRole(u, r) \/ RemoveUserRole(u, r)
    \/ \E yes \in BOOLEAN : SetMerchantStanding(yes) \/ SetStaffRow(yes)

SessionSpec == SessionInit /\ [][SessionNext]_sessionVars

-----------------------------------------------------------------------------
(* Properties.                                                             *)

\* "a permission/role change takes effect on next login": a permission taken away, and
\* an account suspended or removed, open nothing once the life of a token has passed,
\* whatever their holder did with their tokens until then.
AccessRunsOut ==
    \A t \in token :
        /\ OpensShop(t) => hour - lastGood[t.actor] <= MerchantLife
        /\ \A k \in Permissions : Opens(t, k) =>
             /\ hour - lastHeld[t.actor][k] <= UserLife
             /\ hour - lastGood[t.actor] <= UserLife

-----------------------------------------------------------------------------
(* The inductive invariant behind it.                                      *)

\* The histories keep up with what is held and who is in good standing this hour.
HistoryInOrder ==
    /\ \A a \in Actors : lastGood[a] <= hour /\ (InGoodStanding(a) => lastGood[a] = hour)
    /\ \A u \in Users, k \in Permissions :
         lastHeld[u][k] <= hour /\ (k \in KeysOf(user[u]) => lastHeld[u][k] = hour)

\* A login in progress was let in this hour, and has what its user held this hour.
LoginInOrder(n) ==
    LET w == login[n] IN
    w.pc # "idle" =>
        /\ lastGood[w.actor] = hour
        /\ w.pc \in {"roles", "permissions"} \/ w.permissions # {} => w.actor \in Users
        /\ \A k \in w.permissions : lastHeld[w.actor][k] = hour

\* What a token says held when it was issued.
TokenInOrder(t) ==
    /\ t.at <= lastGood[t.actor]
    /\ t.permissions # {} => t.actor \in Users
    /\ \A k \in t.permissions : t.at <= lastHeld[t.actor][k]

SessionInv ==
    /\ SessionTypeOK
    /\ HistoryInOrder
    /\ \A n \in Logins : LoginInOrder(n)
    /\ \A t \in token : TokenInOrder(t)
=============================================================================
