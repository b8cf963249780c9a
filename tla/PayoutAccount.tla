--------------------------- MODULE PayoutAccount ---------------------------
(***************************************************************************)
(* Where a merchant's money goes: the payout account on their row, which   *)
(* settlements are paid to, and the Paystack subaccount that split charges *)
(* pay, which SetPayoutAccount provisions or repoints, best effort, right  *)
(* after it has written the row.                                           *)
(***************************************************************************)
EXTENDS Naturals, FiniteSets

CONSTANTS
    Destinations,   \* accounts that Paystack resolves to a name
    Savers,         \* bound: SetPayoutAccount requests in progress at once
    Subaccounts     \* bound: subaccounts Paystack creates in a run

ASSUME SubaccountsAssumption == Subaccounts \subseteq Nat \ {0}

VARIABLES
    payout,         \* merchants: the payout account
    subcode,        \* merchants.paystack_subaccount_code; 0 is NULL
    paystack,       \* at Paystack: the account each subaccount pays out to
    saver,          \* the requests in progress
    healed          \* history: the last save to end had no other beside it and failed nowhere

payoutVars == <<payout, subcode, paystack, saver, healed>>

Nowhere == "none"

\* sub is what the UPDATE's RETURNING, then Paystack, said of the subaccount.
Saver ==
    [pc : {"idle", "save", "provision", "record"}, to : Destinations \cup {Nowhere},
     sub : Subaccounts \cup {0}, alone : BOOLEAN]

IdleSaver == [pc |-> "idle", to |-> Nowhere, sub |-> 0, alone |-> TRUE]

PayoutTypeOK ==
    /\ payout \in Destinations \cup {Nowhere}
    /\ subcode \in Subaccounts \cup {0}
    /\ paystack \in [Subaccounts -> Destinations \cup {Nowhere}]
    /\ saver \in [Savers -> Saver]
    /\ healed \in BOOLEAN

PayoutInit ==
    /\ payout = Nowhere
    /\ subcode = 0
    /\ paystack = [c \in Subaccounts |-> Nowhere]
    /\ saver = [s \in Savers |-> IdleSaver]
    /\ healed = TRUE

Saving(s, pc) == saver[s].pc = pc

Others(s) == {v \in Savers \ {s} : ~Saving(v, "idle")}

-----------------------------------------------------------------------------

\* GetMerchant, and ResolveAccount: Paystack knows the account.
StartSave(s, a) ==
    /\ Saving(s, "idle")
    /\ saver' = [v \in Savers |->
         IF v = s THEN [pc |-> "save", to |-> a, sub |-> 0, alone |-> Others(s) = {}]
         ELSE [saver[v] EXCEPT !.alone = @ /\ Saving(v, "idle")]]
    /\ UNCHANGED <<payout, subcode, paystack, healed>>

\* UpdateMerchantPayoutAccount, which returns the row.
Save(s) ==
    /\ Saving(s, "save")
    /\ payout' = saver[s].to
    /\ saver' = [saver EXCEPT ![s].pc = "provision", ![s].sub = subcode]
    /\ UNCHANGED <<subcode, paystack, healed>>

\* Mutant: a subaccount the merchant has already is left as it is.
CreateOnly(s) ==
    /\ Saving(s, "provision")
    /\ \E c \in Subaccounts :
         IF saver[s].sub # 0
           THEN c = saver[s].sub /\ UNCHANGED paystack
           ELSE paystack[c] = Nowhere /\ paystack' = [paystack EXCEPT ![c] = saver[s].to]
    /\ saver' = [saver EXCEPT ![s].pc = "record",
         ![s].sub = CHOOSE c \in Subaccounts : saver[s].sub \in {0, c}]
    /\ UNCHANGED <<payout, subcode, healed>>

\* provisionSubaccount: UpdateSubaccount if the row had a code, else CreateSubaccount.
Provision(s) ==
    /\ Saving(s, "provision")
    /\ \E c \in Subaccounts :
         /\ IF saver[s].sub # 0 THEN c = saver[s].sub ELSE paystack[c] = Nowhere
         /\ paystack' = [paystack EXCEPT ![c] = saver[s].to]
         /\ saver' = [saver EXCEPT ![s].pc = "record", ![s].sub = c]
    /\ UNCHANGED <<payout, subcode, healed>>

EndSave(s, well) ==
    /\ healed' = (well /\ saver[s].alone)
    /\ saver' = [saver EXCEPT ![s] = IdleSaver]

\* UpdateMerchantSubaccountCode
Record(s) ==
    /\ Saving(s, "record")
    /\ subcode' = saver[s].sub
    /\ EndSave(s, TRUE)
    /\ UNCHANGED <<payout, paystack>>

\* A statement, or Paystack, fails; past the first it is logged and the save stands.
SaveFails(s) ==
    /\ ~Saving(s, "idle")
    /\ IF Saving(s, "save") THEN EndSave(s, healed) ELSE EndSave(s, FALSE)
    /\ UNCHANGED <<payout, subcode, paystack>>

\* Paystack has done it, but its answer is lost.
ProvisionAnswerLost(s) ==
    /\ Saving(s, "provision")
    /\ \E c \in Subaccounts :
         /\ IF saver[s].sub # 0 THEN c = saver[s].sub ELSE paystack[c] = Nowhere
         /\ paystack' = [paystack EXCEPT ![c] = saver[s].to]
    /\ EndSave(s, FALSE)
    /\ UNCHANGED <<payout, subcode>>

PayoutNext ==
    \E s \in Savers :
        \/ Save(s) \/ Provision(s) \/ Record(s) \/ SaveFails(s) \/ ProvisionAnswerLost(s)
        \/ \E a \in Destinations : StartSave(s, a)

PayoutSpec == PayoutInit /\ [][PayoutNext]_payoutVars

-----------------------------------------------------------------------------
(* Properties.                                                             *)

\* "can't lag behind whichever payout account is actually current": once a save has run
\* with no other beside it and failed nowhere, a split charge pays the account that
\* settlements are paid to, whatever failed or raced before ("re-saving their payout
\* account retries this automatically").
SplitPaysCurrentAccount ==
    (\A s \in Savers : Saving(s, "idle")) /\ healed /\ subcode # 0 =>
        paystack[subcode] = payout

-----------------------------------------------------------------------------
(* The inductive invariant behind it.                                      *)

\* A save with no other beside it knows what the row says, and once Paystack has
\* answered, what the subaccount pays.
SaverInOrder(s) ==
    LET w == saver[s] IN
    /\ w \in Saver
    /\ w.pc = "idle" => w = IdleSaver
    /\ w.pc # "idle" /\ w.alone => \A v \in Savers : v # s => Saving(v, "idle")
    /\ w.pc \in {"provision", "record"} /\ w.alone => payout = w.to
    /\ w.pc = "record" => w.sub \in Subaccounts
    /\ w.pc = "record" /\ w.alone => paystack[w.sub] = w.to

\* A save that has yet to write anything leaves things as they were.
Untouched(s) == Saving(s, "idle") \/ (Saving(s, "save") /\ saver[s].alone)

PayoutInv ==
    /\ subcode \in Subaccounts \cup {0}
    /\ paystack \in [Subaccounts -> Destinations \cup {Nowhere}]
    /\ saver = [s \in Savers |-> saver[s]]
    /\ \A s \in Savers : SaverInOrder(s)
    /\ healed \in BOOLEAN
    /\ (\A s \in Savers : Untouched(s)) /\ healed /\ subcode # 0 => paystack[subcode] = payout
=============================================================================
