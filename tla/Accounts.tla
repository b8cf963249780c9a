------------------------------ MODULE Accounts ------------------------------
(***************************************************************************)
(* The accounts behind one phone number: codes texted to it and verified,  *)
(* the merchant registered with it, the staff member a merchant adds under *)
(* it, the link that verifies the merchant's email, and the self-service   *)
(* password reset.  Every statement commits by itself; a desk is one       *)
(* request in progress.                                                    *)
(***************************************************************************)
EXTENDS Naturals, Sequences, FiniteSets

CONSTANTS
    Desks,          \* bound: requests in progress at once
    Passwords,      \* passwords people choose
    Emails,         \* addresses merchants give
    MaxCodes,       \* bound: codes requested in a run
    MaxLinks,       \* bound: verification links of a run
    LastTick,       \* bound: ticks of the clock
    RequestWindow,  \* otpRequestWindow, in ticks
    MaxRequests,    \* otpMaxRequestsPerWindow
    OtpExpiry,      \* otpExpiry
    MaxAttempts,    \* otpMaxAttempts
    VerifiedWindow, \* otpVerifiedWindow
    LinkExpiry      \* emailVerificationExpiry

ASSUME AccountBounds ==
    {MaxCodes, MaxLinks, LastTick, RequestWindow, MaxRequests, OtpExpiry, MaxAttempts,
     VerifiedWindow, LinkExpiry} \subseteq Nat
ASSUME ClockAssumption == LastTick > 0

VARIABLES
    clock,      \* now(); 0 stands for a NULL time
    otp,        \* the phone_otps rows of the phone, oldest first
    owner,      \* the merchants row with the phone
    member,     \* the staff row with the phone
    link,       \* the email_verifications rows
    desk,       \* the requests in progress
    promised,   \* history: the password of the last reset that was answered reset:true
    cutShort    \* history: a link's request ended between its two updates

accountVars == <<clock, otp, owner, member, link, desk, promised, cutShort>>

NoOne == "none"

OtpRow == [at : 1..LastTick, attempts : Nat, verified : 0..LastTick]

Owner ==
    [exists : BOOLEAN, password : Passwords \cup {NoOne}, email : Emails \cup {NoOne},
     verified : BOOLEAN]

Member == [exists : BOOLEAN, password : Passwords \cup {NoOne}]

LinkRow == [used : BOOLEAN, at : 1..LastTick]

\* overtaken: a merchant registered with the phone between the look-ups and the write
\* of the reset that promised the password.
Promise == [password : Passwords \cup {NoOne}, overtaken : BOOLEAN]

NoPromise == [password |-> NoOne, overtaken |-> FALSE]

\* number is the code or link a request has read; gone and late are history: the staff
\* row it has read was deleted, a merchant has taken the phone since it looked.
DeskRow ==
    [pc : {"idle", "insertCode", "countAttempt", "markCode", "insertMerchant", "createLink",
           "findMerchant", "findStaff", "setMerchant", "setStaff", "useLink", "markEmail"},
     number : Nat, password : Passwords \cup {NoOne}, email : Emails \cup {NoOne},
     gone : BOOLEAN, late : BOOLEAN]

IdleDesk ==
    [pc |-> "idle", number |-> 0, password |-> NoOne, email |-> NoOne,
     gone |-> FALSE, late |-> FALSE]

AccountTypeOK ==
    /\ clock \in 1..LastTick
    /\ otp \in Seq(OtpRow)
    /\ owner \in Owner
    /\ member \in Member
    /\ link \in Seq(LinkRow)
    /\ desk \in [Desks -> DeskRow]
    /\ promised \in Promise
    /\ cutShort \in BOOLEAN

NoOwner == [exists |-> FALSE, password |-> NoOne, email |-> NoOne, verified |-> FALSE]

NoMember == [exists |-> FALSE, password |-> NoOne]

AccountInit ==
    /\ clock = 1
    /\ otp = << >>
    /\ owner = NoOwner
    /\ member = NoMember
    /\ link = << >>
    /\ desk = [d \in Desks |-> IdleDesk]
    /\ promised = NoPromise
    /\ cutShort = FALSE

AtDesk(d, pc) == desk[d].pc = pc

MoveOn(d, pc) == desk' = [desk EXCEPT ![d].pc = pc]

Leave(d) == desk' = [desk EXCEPT ![d] = IdleDesk]

ClockTicks ==
    /\ clock < LastTick
    /\ clock' = clock + 1
    /\ UNCHANGED <<otp, owner, member, link, desk, promised, cutShort>>

-----------------------------------------------------------------------------
(* RequestPhoneOTP and VerifyPhoneOTP.                                     *)

\* Codes created within the last request window.
Recent(t) == {n \in DOMAIN otp : otp[n].at + RequestWindow > t}

\* CountRecentPhoneOTPs
CountCodes(d) ==
    /\ AtDesk(d, "idle") /\ Len(otp) < MaxCodes
    /\ Cardinality(Recent(clock)) < MaxRequests
    /\ MoveOn(d, "insertCode")
    /\ UNCHANGED <<clock, otp, owner, member, link, promised, cutShort>>

InsertCode(d) ==
    /\ AtDesk(d, "insertCode")
    /\ otp' = Append(otp, [at |-> clock, attempts |-> 0, verified |-> 0])
    /\ Leave(d)
    /\ UNCHANGED <<clock, owner, member, link, promised, cutShort>>

\* GetLatestPhoneOTP and the checks: only the newest code counts, whichever was
\* typed; one that is verified already is answered without a change.
ReadCode(d) ==
    LET n == Len(otp) IN
    /\ AtDesk(d, "idle") /\ n > 0
    /\ otp[n].verified = 0
    /\ clock <= otp[n].at + OtpExpiry
    /\ otp[n].attempts < MaxAttempts
    /\ \E pc \in {"markCode", "countAttempt"} :
         desk' = [desk EXCEPT ![d] = [IdleDesk EXCEPT !.pc = pc, !.number = n]]
    /\ UNCHANGED <<clock, otp, owner, member, link, promised, cutShort>>

\* IncrementPhoneOTPAttempts and MarkPhoneOTPVerified, by id.
CountAttempt(d) ==
    /\ AtDesk(d, "countAttempt")
    /\ otp' = [otp EXCEPT ![desk[d].number].attempts = @ + 1]
    /\ Leave(d)
    /\ UNCHANGED <<clock, owner, member, link, promised, cutShort>>

MarkCode(d) ==
    /\ AtDesk(d, "markCode")
    /\ otp' = [otp EXCEPT ![desk[d].number].verified = clock]
    /\ Leave(d)
    /\ UNCHANGED <<clock, owner, member, link, promised, cutShort>>

\* GetRecentVerifiedPhoneOTP
PhoneVerified ==
    \E n \in DOMAIN otp : otp[n].verified # 0 /\ otp[n].verified + VerifiedWindow > clock

-----------------------------------------------------------------------------
(* CreateMerchant, CreateStaff and DeleteStaff.                            *)

StartRegistration(d, password, email) ==
    /\ AtDesk(d, "idle")
    /\ PhoneVerified
    /\ desk' = [desk EXCEPT ![d] =
         [IdleDesk EXCEPT !.pc = "insertMerchant", !.password = password, !.email = email]]
    /\ UNCHANGED <<clock, otp, owner, member, link, promised, cutShort>>

\* The requests from then on: d is answered or has a link to create, and one that
\* found no merchant is late.
AfterInsert(d) ==
    [e \in Desks |->
        IF e = d
          THEN IF desk[d].email # NoOne /\ Len(link) < MaxLinks
                 THEN [desk[d] EXCEPT !.pc = "createLink"] ELSE IdleDesk
          ELSE [desk[e] EXCEPT !.late = @ \/ desk[e].pc \in {"findStaff", "setStaff"}]]

\* The phone is unique among merchants: a second one is a 409.  Sign-in looks at
\* merchants first, so a password promised to staff is void.
InsertMerchant(d) ==
    /\ AtDesk(d, "insertMerchant")
    /\ IF owner.exists
         THEN Leave(d) /\ UNCHANGED <<owner, promised>>
         ELSE /\ owner' = [exists |-> TRUE, password |-> desk[d].password,
                           email |-> desk[d].email, verified |-> FALSE]
              /\ promised' = NoPromise
              /\ desk' = AfterInsert(d)
    /\ UNCHANGED <<clock, otp, member, link, cutShort>>

\* CreateEmailVerification; an error is logged and the merchant has no link.
CreateLink(d) ==
    /\ AtDesk(d, "createLink")
    /\ link' = Append(link, [used |-> FALSE, at |-> clock])
    /\ Leave(d)
    /\ UNCHANGED <<clock, otp, owner, member, promised, cutShort>>

CreateStaff(password) ==
    /\ ~member.exists
    /\ member' = [exists |-> TRUE, password |-> password]
    /\ UNCHANGED <<clock, otp, owner, link, desk, promised, cutShort>>

DeleteStaff ==
    /\ member.exists
    /\ member' = NoMember
    /\ promised' = IF owner.exists THEN promised ELSE NoPromise
    /\ desk' = [d \in Desks |-> [desk[d] EXCEPT !.gone = @ \/ AtDesk(d, "setStaff")]]
    /\ UNCHANGED <<clock, otp, owner, link, cutShort>>

-----------------------------------------------------------------------------
(* ResetPassword: the phone's merchant first, then its staff member.       *)

StartReset(d, password) ==
    /\ AtDesk(d, "idle")
    /\ PhoneVerified
    /\ desk' = [desk EXCEPT ![d] =
         [IdleDesk EXCEPT !.pc = "findMerchant", !.password = password]]
    /\ UNCHANGED <<clock, otp, owner, member, link, promised, cutShort>>

\* Mutant: staff are looked up before merchants.
FindStaffFirst(d) ==
    /\ AtDesk(d, "findMerchant")
    /\ MoveOn(d, IF member.exists THEN "setStaff"
                 ELSE IF owner.exists THEN "setMerchant" ELSE "findStaff")
    /\ UNCHANGED <<clock, otp, owner, member, link, promised, cutShort>>

\* GetMerchantByPhone
FindMerchant(d) ==
    /\ AtDesk(d, "findMerchant")
    /\ MoveOn(d, IF owner.exists THEN "setMerchant" ELSE "findStaff")
    /\ UNCHANGED <<clock, otp, owner, member, link, promised, cutShort>>

\* GetStaffByPhone
FindStaff(d) ==
    /\ AtDesk(d, "findStaff")
    /\ IF member.exists THEN MoveOn(d, "setStaff") ELSE Leave(d)
    /\ UNCHANGED <<clock, otp, owner, member, link, promised, cutShort>>

\* UpdateMerchantPassword
SetMerchantPassword(d) ==
    /\ AtDesk(d, "setMerchant")
    /\ owner' = [owner EXCEPT !.password = desk[d].password]
    /\ promised' = [password |-> desk[d].password, overtaken |-> FALSE]
    /\ Leave(d)
    /\ UNCHANGED <<clock, otp, member, link, cutShort>>

\* UpdateStaffPassword, by id: with the row gone the request is a 500, otherwise it is
\* answered reset:true, also when the phone has become a merchant's since.
SetStaffPassword(d) ==
    /\ AtDesk(d, "setStaff")
    /\ IF desk[d].gone
         THEN UNCHANGED <<member, promised>>
         ELSE /\ member' = [member EXCEPT !.password = desk[d].password]
              /\ promised' = [password |-> desk[d].password, overtaken |-> desk[d].late]
    /\ Leave(d)
    /\ UNCHANGED <<clock, otp, owner, link, cutShort>>

-----------------------------------------------------------------------------
(* VerifyMerchantEmail and UpdateMerchantEmail.                            *)

\* GetEmailVerificationByToken: a used link is answered without a change.
OpenLink(d, n) ==
    /\ AtDesk(d, "idle") /\ n \in DOMAIN link
    /\ ~link[n].used
    /\ clock <= link[n].at + LinkExpiry
    /\ desk' = [desk EXCEPT ![d] = [IdleDesk EXCEPT !.pc = "useLink", !.number = n]]
    /\ UNCHANGED <<clock, otp, owner, member, link, promised, cutShort>>

\* Mutant: the link is used up and the merchant left as they are.
UseLinkOnly(d) ==
    /\ AtDesk(d, "useLink")
    /\ link' = [link EXCEPT ![desk[d].number].used = TRUE]
    /\ Leave(d)
    /\ UNCHANGED <<clock, otp, owner, member, promised, cutShort>>

\* MarkEmailVerificationUsed
UseLink(d) ==
    /\ AtDesk(d, "useLink")
    /\ link' = [link EXCEPT ![desk[d].number].used = TRUE]
    /\ MoveOn(d, "markEmail")
    /\ UNCHANGED <<clock, otp, owner, member, promised, cutShort>>

\* MarkMerchantEmailVerified
MarkEmail(d) ==
    /\ AtDesk(d, "markEmail")
    /\ owner' = [owner EXCEPT !.verified = TRUE]
    /\ Leave(d)
    /\ UNCHANGED <<clock, otp, member, link, promised, cutShort>>

\* The address alone is written: email_verified_at is left as it is.
UpdateMerchantEmail(email) ==
    /\ owner.exists /\ owner.email # email
    /\ owner' = [owner EXCEPT !.email = email]
    /\ UNCHANGED <<clock, otp, member, link, desk, promised, cutShort>>

-----------------------------------------------------------------------------

\* A statement fails or the process dies: what was written stays.
Abandon(d) ==
    /\ ~AtDesk(d, "idle")
    /\ cutShort' = (cutShort \/ AtDesk(d, "markEmail"))
    /\ Leave(d)
    /\ UNCHANGED <<clock, otp, owner, member, link, promised>>

Serve(d) ==
    \/ CountCodes(d) \/ InsertCode(d) \/ ReadCode(d) \/ CountAttempt(d) \/ MarkCode(d)
    \/ InsertMerchant(d) \/ CreateLink(d)
    \/ FindMerchant(d) \/ FindStaff(d) \/ SetMerchantPassword(d) \/ SetStaffPassword(d)
    \/ UseLink(d) \/ MarkEmail(d) \/ Abandon(d)
    \/ \E password \in Passwords :
         \/ StartReset(d, password)
         \/ \E email \in Emails \cup {NoOne} : StartRegistration(d, password, email)
    \/ \E n \in DOMAIN link : OpenLink(d, n)

AccountNext ==
    \/ \E d \in Desks : Serve(d)
    \/ \E password \in Passwords : CreateStaff(password)
    \/ DeleteStaff
    \/ \E email \in Emails : UpdateMerchantEmail(email)
    \/ ClockTicks

AccountSpec == AccountInit /\ [][AccountNext]_accountVars

-----------------------------------------------------------------------------
(* Properties.                                                             *)

\* MerchantLogin by phone: merchants, then staff.
SignsIn(password) ==
    IF owner.exists THEN owner.password = password
    ELSE member.exists /\ member.password = password

\* "the caller is sent back to the login screen to sign in with the password they
\* just set": until somebody changes the accounts of that phone again it lets them in,
\* however registrations, resets and staff changes interleave, but for one order: a
\* merchant registers with the phone after the reset has looked for one and before it
\* writes.  The password is then a staff member's whom no login looks for any more.
ResetLetsYouIn ==
    promised.password # NoOne /\ ~SignsIn(promised.password) =>
        promised.overtaken /\ owner.exists

\* "a live token genuinely flips email_verified_at": only a used link verifies a merchant,
\* and unless its request was cut short between its two updates a used link has, or is
\* about to.  It vouches for the merchant, not for the address they now have.
VerifiedByLink ==
    LET used == {n \in DOMAIN link : link[n].used} IN
    /\ owner.verified => used # {}
    /\ ~cutShort =>
         \A n \in used : owner.verified \/ \E d \in Desks : AtDesk(d, "markEmail")

-----------------------------------------------------------------------------
(* The inductive invariant behind both.                                    *)

\* What a request has read still holds when it writes, or its history says otherwise.
DeskInOrder(d) ==
    LET w == desk[d] IN
    /\ w.pc \in {"countAttempt", "markCode"} => w.number \in DOMAIN otp
    /\ w.pc \in {"createLink", "setMerchant"} \/ w.late => owner.exists
    /\ w.pc \in {"findStaff", "setStaff"} /\ ~w.late => ~owner.exists
    /\ w.pc = "setStaff" /\ ~w.gone => member.exists
    /\ w.pc = "useLink" => w.number \in DOMAIN link
    /\ w.pc = "markEmail" => \E n \in DOMAIN link : link[n].used

\* Links go to merchants, and only a merchant is verified.
AccountInv ==
    /\ AccountTypeOK
    /\ \A d \in Desks : DeskInOrder(d)
    /\ DOMAIN link # {} \/ owner.verified => owner.exists
    /\ ResetLetsYouIn
    /\ VerifiedByLink
=============================================================================
