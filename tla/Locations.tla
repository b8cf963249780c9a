----------------------------- MODULE Locations -----------------------------
(***************************************************************************)
(* A merchant's pickup locations and which of them is the default.  Two    *)
(* handlers clear the old default and set the new one, in two statements   *)
(* of their own; a partial unique index admits one default.                *)
(***************************************************************************)
EXTENDS Naturals, FiniteSets

CONSTANTS
    Places,     \* bound: merchant_locations rows of the merchant
    Foreign,    \* rows of other merchants
    Editors     \* bound: requests in progress at once

ASSUME PlacesAssumption == Places \cap Foreign = {}

VARIABLES
    place,      \* the merchant's rows: status, and whether it is the default
    editor,     \* the requests in progress
    robbed      \* history: a request ended between clearing the default and setting one

locationVars == <<place, editor, robbed>>

Place == [status : {"absent", "active", "inactive"}, default : BOOLEAN]

NoPlace == [status |-> "absent", default |-> FALSE]

Editor ==
    [pc : {"idle", "clear", "insert", "set"}, place : Places \cup Foreign \cup {"new"},
     default : BOOLEAN]

IdleEditor == [pc |-> "idle", place |-> "new", default |-> FALSE]

LocationTypeOK ==
    /\ place \in [Places -> Place]
    /\ editor \in [Editors -> Editor]
    /\ robbed \in BOOLEAN

LocationInit ==
    /\ place = [p \in Places |-> NoPlace]
    /\ editor = [e \in Editors |-> IdleEditor]
    /\ robbed = FALSE

Existing == {p \in Places : place[p].status # "absent"}

Default == {p \in Existing : place[p].default}

Editing(e, pc) == editor[e].pc = pc

EndEdit(e) == editor' = [editor EXCEPT ![e] = IdleEditor]

-----------------------------------------------------------------------------

\* Mutant: the first location is the default only if the merchant says so.
MakeDefaultAsked(asked) == asked

\* The first location a merchant adds becomes the default.
MakeDefault(asked) == asked \/ Existing = {}

\* CreateMerchantLocation: ListMerchantLocationsByMerchant, ...
StartCreate(e, asked) ==
    /\ Editing(e, "idle")
    /\ editor' = [editor EXCEPT ![e] =
         [pc |-> IF MakeDefault(asked) THEN "clear" ELSE "insert", place |-> "new",
          default |-> MakeDefault(asked)]]
    /\ UNCHANGED <<place, robbed>>

\* ... the CreateMerchantLocation query, which the index refuses beside a default.
Insert(e, p) ==
    /\ Editing(e, "insert")
    /\ place[p].status = "absent"
    /\ place' = IF editor[e].default /\ Default # {} THEN place
                ELSE [place EXCEPT ![p] = [status |-> "active", default |-> editor[e].default]]
    /\ EndEdit(e)
    /\ UNCHANGED robbed

\* SetDefaultMerchantLocation: GetMerchantLocation finds any merchant's, ...
StartSetDefault(e, p) ==
    /\ Editing(e, "idle")
    /\ p \in Existing \cup Foreign
    /\ editor' = [editor EXCEPT ![e] = [pc |-> "clear", place |-> p, default |-> TRUE]]
    /\ UNCHANGED <<place, robbed>>

\* ... ClearDefaultMerchantLocation, the merchant's own, ...
Clear(e) ==
    /\ Editing(e, "clear")
    /\ place' = [p \in Places |-> [place[p] EXCEPT !.default = FALSE]]
    /\ editor' = [editor EXCEPT ![e].pc = IF editor[e].place = "new" THEN "insert" ELSE "set"]
    /\ UNCHANGED robbed

\* ... and the SetDefaultMerchantLocation query: no row of another merchant's, and
\* refused by the index beside another default.
SetDefault(e) ==
    LET p == editor[e].place IN
    /\ Editing(e, "set")
    /\ IF p \in Foreign
         THEN robbed' = TRUE /\ UNCHANGED place
         ELSE /\ place' = IF Default \subseteq {p} THEN [place EXCEPT ![p].default = TRUE] ELSE place
              /\ UNCHANGED robbed
    /\ EndEdit(e)

\* UpdateMerchantLocation: the default may be made inactive.
UpdateLocation(p, status) ==
    /\ p \in Existing /\ place[p].status # status
    /\ place' = [place EXCEPT ![p].status = status]
    /\ UNCHANGED <<editor, robbed>>

EditFails(e) ==
    /\ ~Editing(e, "idle")
    /\ robbed' = (robbed \/ (editor[e].default /\ ~Editing(e, "clear")))
    /\ EndEdit(e)
    /\ UNCHANGED place

LocationNext ==
    \/ \E e \in Editors :
         \/ Clear(e) \/ SetDefault(e) \/ EditFails(e)
         \/ \E asked \in BOOLEAN : StartCreate(e, asked)
         \/ \E p \in Places : Insert(e, p)
         \/ \E p \in Places \cup Foreign : StartSetDefault(e, p)
    \/ \E p \in Places, status \in {"active", "inactive"} : UpdateLocation(p, status)

LocationSpec == LocationInit /\ [][LocationNext]_locationVars

-----------------------------------------------------------------------------
(* Properties.                                                             *)

\* With no request in progress a merchant with locations has a default, however
\* requests interleave, unless one ended between clearing and setting it.
DefaultSurvivesRaces ==
    (\A e \in Editors : Editing(e, "idle")) /\ ~robbed /\ Existing # {} => Default # {}

\* "so there's always one to pre-fill with once any exist"; "as two statements in a
\* transaction".
DefaultOnceAny ==
    (\A e \in Editors : Editing(e, "idle")) /\ Existing # {} => Default # {}

-----------------------------------------------------------------------------
(* The inductive invariant behind the first.                               *)

\* A request that has cleared the default, or will, has one to set: a row that is there,
\* or a new one; and a row is inserted beside others unless it is the default.
EditorInOrder(e) ==
    LET w == editor[e] IN
    /\ w \in Editor
    /\ w.pc \in {"clear", "set"} => w.default
    /\ w.pc \in {"clear", "set"} /\ w.place # "new" => w.place \in Existing \cup Foreign
    /\ w.pc = "set" => w.place # "new"
    /\ w.pc = "insert" /\ ~w.default => Existing # {}

AboutToSet(e) == editor[e].pc \in {"insert", "set"} /\ editor[e].default

\* A default that is missing has a request about to set it.
LocationInv ==
    /\ place \in [Places -> Place]
    /\ editor = [e \in Editors |-> editor[e]]
    /\ \A e \in Editors : EditorInOrder(e)
    /\ robbed \in BOOLEAN
    /\ ~robbed /\ Existing # {} /\ Default = {} => \E e \in Editors : AboutToSet(e)
=============================================================================
