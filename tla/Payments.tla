------------------------------ MODULE Payments ------------------------------
(***************************************************************************)
(* Collecting money on invoices: a customer starts a Paystack checkout or  *)
(* a Hubtel USSD prompt, the provider charges them, and the server learns  *)
(* of it from a webhook or from the verify call of the returning browser.  *)
(*                                                                         *)
(* A worker is one HTTP request in progress.  Its pc names the statement   *)
(* it executes next, so that requests interleave between any two           *)
(* statements, as the goroutines of the server do.                         *)
(***************************************************************************)
EXTENDS Ledger, FiniteSetsExt

CONSTANTS
    Workers,           \* bound: requests the server handles at once
    Deposits,          \* amounts a customer asks to pay; 0 asks for all that is owed
    PerTransactionCap, DailyCap, CumulativeCap,  \* kyc_tier_limits; 0 is no cap
    UssdEnabled,       \* h.Hubtel.Enabled(); hubtel_ussd_fallback, which only stops prompts, is on
    MaxFaults          \* bound: statements that fail and server crashes of a run

ASSUME DepositsAssumption == Deposits \subseteq Nat
ASSUME CapsAssumption ==
    {PerTransactionCap, DailyCap, CumulativeCap} \subseteq Nat
ASSUME UssdAssumption == UssdEnabled \in BOOLEAN
ASSUME MaxFaultsAssumption == MaxFaults \in Nat

VARIABLES
    provider,    \* what the payment providers know of each reference
    unacked,     \* charged at Paystack, its webhook not yet answered 200
    worker,      \* the requests in progress
    saw,         \* history: the payments that were a success when each attempt read its balance
    named,       \* history: references a Hubtel callback has named with nobody charged
    disturbed,   \* history: invoices two requests credited at once, or one failed midway
    faults       \* failures so far

vars == <<ledgerVars, provider, unacked, worker, saw, named, disturbed, faults>>

\* The provider's transaction.  It can be paid once the customer holds its URL
\* (Paystack) or was sent the prompt (Hubtel).
Transaction ==
    [state : {"none", "initialized", "payable", "charged"},
     channel : {"paystack", "hubtel"}, invoice : Invoices, amount : Nat]

NoTransaction ==
    [state |-> "none", channel |-> "paystack",
     invoice |-> NoRow.invoice, amount |-> 0]

PC == {"idle", "balance", "limit", "charge", "insert",
       "verify", "lookup", "mark", "total", "roll", "announce"}

\* A request: the operation it serves and the locals it carries.
Request ==
    [pc : PC, op : {"none", "checkout", "ussd", "webhook", "callback", "verify"},
     invoice : Invoices, ref : Refs, amount : Nat, status : InvoiceStatus,
     saw : SUBSET Refs]

Idle ==
    [pc |-> "idle", op |-> "none", invoice |-> NoRow.invoice,
     ref |-> CHOOSE r \in Refs : TRUE, amount |-> 0, status |-> "sent", saw |-> {}]

TypeOK ==
    /\ LedgerTypeOK
    /\ provider \in [Refs -> Transaction]
    /\ unacked \subseteq Refs
    /\ worker \in [Workers -> Request]
    /\ saw \in [Refs -> SUBSET Refs]
    /\ named \subseteq Refs
    /\ disturbed \subseteq Invoices
    /\ faults \in 0..MaxFaults

Init ==
    /\ invoice = [i \in Invoices |-> "sent"]
    /\ payment = [r \in Refs |-> NoRow]
    /\ today = 1
    /\ provider = [r \in Refs |-> NoTransaction]
    /\ unacked = {}
    /\ worker = [w \in Workers |-> Idle]
    /\ saw = [r \in Refs |-> {}]
    /\ named = {}
    /\ disturbed = {}
    /\ faults = 0

At(w, pc) == worker[w].pc = pc

Goto(w, pc) == worker' = [worker EXCEPT ![w].pc = pc]

Return(w) == worker' = [worker EXCEPT ![w] = Idle]

-----------------------------------------------------------------------------
(* Starting a payment: InitiateCheckoutPayment and InitiateUSSDPayment.    *)

Payable(i) == invoice[i] \notin {"paid", "refunded"}

\* SUM(amount_pesewas) over a set of payments, as GetMerchantVolume has it.
Volume(S) == SumFunctionOnSet([r \in Refs |-> payment[r].amount], S)

\* SumSuccessfulPaymentsByInvoice
Collected(i) == Volume(SuccessfulOn(i))

\* Mutant: the balance forgets what was already paid.
OwedForgetsPayments(i) == Total[i]

Owed(i) == IF Collected(i) >= Total[i] THEN 0 ELSE Total[i] - Collected(i)

\* loadPayableInvoice: the request is dropped unless the invoice is payable.
StartPayment(w, i, op) ==
    /\ At(w, "idle")
    /\ Payable(i)
    /\ worker' = [worker EXCEPT ![w] = [Idle EXCEPT !.pc = "balance", !.op = op, !.invoice = i]]
    /\ UNCHANGED <<ledgerVars, provider, unacked, saw, named, disturbed, faults>>

StartCheckout(w, i) == StartPayment(w, i, "checkout")

StartUssd(w, i) == UssdEnabled /\ StartPayment(w, i, "ussd")

\* amountOwedPesewas, and the customer's choice of a deposit; a USSD prompt
\* always asks for everything owed.  Nothing owed, or too large a deposit, is a 400.
ReadBalance(w) ==
    LET owed == Owed(worker[w].invoice)
        Charges == {IF d = 0 THEN owed ELSE d :
                      d \in IF worker[w].op = "ussd" THEN {0} ELSE Deposits}
    IN  /\ At(w, "balance")
        /\ \/ \E amt \in Charges :
                /\ owed > 0 /\ amt <= owed
                /\ worker' = [worker EXCEPT ![w].pc = "limit", ![w].amount = amt,
                                            ![w].saw = Successful]
           \/ /\ owed <= 0 \/ \E amt \in Charges : amt > owed
              /\ Return(w)
        /\ UNCHANGED <<ledgerVars, provider, unacked, saw, named, disturbed, faults>>

\* Mutant: the caps are compared with usage alone, not with usage plus the amount.
WithinTierLimitBefore(amt) ==
    CumulativeCap > 0 => Volume(Successful) < CumulativeCap

\* checkTierLimit
WithinTierLimit(amt) ==
    /\ PerTransactionCap > 0 => amt <= PerTransactionCap
    /\ DailyCap > 0 =>
         Volume({r \in Successful : payment[r].day = today}) + amt <= DailyCap
    /\ CumulativeCap > 0 => Volume(Successful) + amt <= CumulativeCap

\* enforceTierLimit on the amount about to move.
CheckTierLimit(w) ==
    /\ At(w, "limit")
    /\ IF WithinTierLimit(worker[w].amount) THEN Goto(w, "charge") ELSE Return(w)
    /\ UNCHANGED <<ledgerVars, provider, unacked, saw, named, disturbed, faults>>

\* generatePaymentReference: a reference nobody has used.
Fresh(r) ==
    /\ provider[r].state = "none"
    /\ payment[r].status = "absent"

\* Mutant: the customer holds Paystack's URL before the row is inserted.
OpenTransactionPayable(w) ==
    /\ At(w, "charge")
    /\ \E r \in {q \in Refs : Fresh(q)} :
         /\ provider' = [provider EXCEPT ![r] =
              [state |-> "payable", channel |-> "paystack",
               invoice |-> worker[w].invoice, amount |-> worker[w].amount]]
         /\ worker' = [worker EXCEPT ![w].pc = "insert", ![w].ref = r]
         /\ saw' = [saw EXCEPT ![r] = worker[w].saw]
    /\ UNCHANGED <<ledgerVars, unacked, named, disturbed, faults>>

\* InitializeTransaction or ReceiveMoney.  Paystack's page is payable only once
\* its URL is handed out; Hubtel's prompt is already on the customer's phone.
OpenTransaction(w) ==
    /\ At(w, "charge")
    /\ \E r \in {q \in Refs : Fresh(q)} :
         LET ussd == worker[w].op = "ussd" IN
         /\ provider' = [provider EXCEPT ![r] =
              [state   |-> IF ussd THEN "payable" ELSE "initialized",
               channel |-> IF ussd THEN "hubtel" ELSE "paystack",
               invoice |-> worker[w].invoice, amount |-> worker[w].amount]]
         /\ worker' = [worker EXCEPT ![w].pc = "insert", ![w].ref = r]
         /\ saw' = [saw EXCEPT ![r] = worker[w].saw]
    /\ UNCHANGED <<ledgerVars, unacked, named, disturbed, faults>>

\* The provider refuses, or cannot be reached: a 502, nothing recorded.
ProviderRefuses(w) ==
    /\ At(w, "charge")
    /\ Return(w)
    /\ UNCHANGED <<ledgerVars, provider, unacked, saw, named, disturbed, faults>>

\* CreatePayment, which payments_psp_reference_uidx lets insert only a reference without
\* a row, and the response that hands the customer Paystack's URL.
RecordAttempt(w) ==
    LET r == worker[w].ref IN
    /\ At(w, "insert")
    /\ payment[r].status = "absent"
    /\ payment' = [payment EXCEPT ![r] =
         PendingRow(worker[w].invoice, worker[w].amount, FALSE)]
    /\ provider' = [provider EXCEPT ![r].state =
         IF @ = "initialized" THEN "payable" ELSE @]
    /\ Return(w)
    /\ UNCHANGED <<invoice, today, unacked, saw, named, disturbed, faults>>

-----------------------------------------------------------------------------
(* The customer, at the provider.                                          *)

Charged(r) == provider[r].state = "charged"

\* The customer pays; Paystack owes the server a webhook until it answers 200.
CustomerPays(r) ==
    /\ provider[r].state = "payable"
    /\ provider' = [provider EXCEPT ![r].state = "charged"]
    /\ unacked' = IF provider[r].channel = "paystack" THEN unacked \cup {r} ELSE unacked
    /\ UNCHANGED <<ledgerVars, worker, saw, named, disturbed, faults>>

\* HandlePSPWebhook: a delivery Paystack has signed, or a redelivery while an earlier one
\* is still unanswered.
DeliverWebhook(w, r) ==
    /\ At(w, "idle")
    /\ r \in unacked
    /\ worker' = [worker EXCEPT ![w] = [Idle EXCEPT !.pc = "lookup", !.op = "webhook", !.ref = r]]
    /\ UNCHANGED <<ledgerVars, provider, unacked, saw, named, disturbed, faults>>

\* HandleHubtelWebhook on a callback that reads as a success.  The handler has neither a
\* signature nor a confirmed success marker to go by, so a callback may name any
\* reference, a Paystack one too, whether or not its customer was charged; it changes
\* nothing unless the reference has a row that is not credited yet.
HubtelCallback(w, r) ==
    /\ UssdEnabled
    /\ At(w, "idle")
    /\ payment[r].status = "pending"
    /\ worker' = [worker EXCEPT ![w] = [Idle EXCEPT !.pc = "lookup", !.op = "callback", !.ref = r]]
    /\ named' = IF Charged(r) THEN named ELSE named \cup {r}
    /\ UNCHANGED <<ledgerVars, provider, unacked, saw, disturbed, faults>>

\* VerifyCheckoutPayment: a 404 without a row, the page as it is when credited.
StartVerify(w, r) ==
    /\ At(w, "idle")
    /\ payment[r].status = "pending"
    /\ worker' = [worker EXCEPT ![w] = [Idle EXCEPT !.pc = "verify", !.op = "verify", !.ref = r]]
    /\ UNCHANGED <<ledgerVars, provider, unacked, saw, named, disturbed, faults>>

\* Mutant: the redirect of the browser is trusted without asking Paystack.
AskNobody(w) ==
    /\ At(w, "verify")
    /\ Goto(w, "lookup")
    /\ UNCHANGED <<ledgerVars, provider, unacked, saw, named, disturbed, faults>>

\* VerifyTransaction asks Paystack, which knows nothing of a Hubtel prompt.
AskPaystack(w) ==
    LET t == provider[worker[w].ref] IN
    /\ At(w, "verify")
    /\ IF t.state = "charged" /\ t.channel = "paystack"
         THEN Goto(w, "lookup") ELSE Return(w)
    /\ UNCHANGED <<ledgerVars, provider, unacked, saw, named, disturbed, faults>>

-----------------------------------------------------------------------------
(* creditSuccessfulPayment, one statement at a time and no transaction.    *)

\* The request ends well; for a webhook that is the 200 the provider waits for.
Answer(w) ==
    /\ Return(w)
    /\ unacked' = IF worker[w].op = "webhook" THEN unacked \ {worker[w].ref} ELSE unacked

\* A request about to credit invoice i, or whose credit the invoice does not show yet.
Crediting(w, i) == worker[w].pc \in {"mark", "total", "roll"} /\ worker[w].invoice = i

\* The invoices that do not show yet what requests W have credited.
Unrolled(W) == {worker[w].invoice : w \in {v \in W : worker[v].pc \in {"total", "roll"}}}

\* An unknown reference is ignored and a success is already credited: both answer 200.
LookUp(w) ==
    LET row == payment[worker[w].ref] IN
    /\ At(w, "lookup")
    /\ IF row.status = "pending"
         THEN /\ worker' = [worker EXCEPT ![w].pc = "mark", ![w].invoice = row.invoice]
              /\ disturbed' = disturbed \cup
                   {row.invoice : v \in {u \in Workers \ {w} : Crediting(u, row.invoice)}}
              /\ UNCHANGED unacked
         ELSE Answer(w) /\ UNCHANGED disturbed
    /\ UNCHANGED <<ledgerVars, provider, saw, named, faults>>

\* SetPaymentStatus: by id, whatever the row has become since it was looked up.
MarkSuccess(w) ==
    LET r == worker[w].ref IN
    /\ At(w, "mark")
    /\ payment' = [payment EXCEPT ![r].status = "success", ![r].day = today]
    /\ Goto(w, "total")
    /\ UNCHANGED <<invoice, today, provider, unacked, saw, named, disturbed, faults>>

\* Mutants: the credited payment is counted twice; a sum that meets the total exactly
\* is not enough.
ReadTotalTwice(w) ==
    LET i == worker[w].invoice IN
    /\ At(w, "total")
    /\ worker' = [worker EXCEPT ![w].pc = "roll",
         ![w].status = IF Collected(i) + payment[worker[w].ref].amount >= Total[i]
                         THEN "paid" ELSE "partially_paid"]
    /\ UNCHANGED <<ledgerVars, provider, unacked, saw, named, disturbed, faults>>

ReadTotalStrictly(w) ==
    LET i == worker[w].invoice IN
    /\ At(w, "total")
    /\ worker' = [worker EXCEPT ![w].pc = "roll",
         ![w].status = IF Collected(i) > Total[i] THEN "paid" ELSE "partially_paid"]
    /\ UNCHANGED <<ledgerVars, provider, unacked, saw, named, disturbed, faults>>

\* GetInvoice (its total never changes) and SumSuccessfulPaymentsByInvoice.
ReadTotal(w) ==
    LET i == worker[w].invoice IN
    /\ At(w, "total")
    /\ worker' = [worker EXCEPT ![w].pc = "roll",
         ![w].status = IF Collected(i) >= Total[i] THEN "paid" ELSE "partially_paid"]
    /\ UNCHANGED <<ledgerVars, provider, unacked, saw, named, disturbed, faults>>

\* SetInvoiceStatus: by id, whatever the status has become.
RollInvoice(w) ==
    /\ At(w, "roll")
    /\ invoice' = [invoice EXCEPT ![worker[w].invoice] = worker[w].status]
    /\ Goto(w, "announce")
    /\ UNCHANGED <<payment, today, provider, unacked, saw, named, disturbed, faults>>

\* The audit entry and the notification, best effort, leave no trace in the model.
Announce(w) ==
    /\ At(w, "announce")
    /\ Answer(w)
    /\ UNCHANGED <<ledgerVars, provider, saw, named, disturbed, faults>>

-----------------------------------------------------------------------------
(* Failures.                                                               *)

\* Mutant: the webhook answers 200 to the provider although crediting failed.
StatementFailsSilently(w) ==
    /\ faults < MaxFaults
    /\ worker[w].pc \in PC \ {"idle", "charge", "announce"}
    /\ Answer(w)
    /\ disturbed' = disturbed \cup Unrolled({w})
    /\ faults' = faults + 1
    /\ UNCHANGED <<ledgerVars, provider, saw, named>>

\* A statement fails: a 500, and no statement after it runs.
StatementFails(w) ==
    /\ faults < MaxFaults
    /\ worker[w].pc \in PC \ {"idle", "charge", "announce"}
    /\ Return(w)
    /\ disturbed' = disturbed \cup Unrolled({w})
    /\ faults' = faults + 1
    /\ UNCHANGED <<ledgerVars, provider, unacked, saw, named>>

\* The server stops and starts again: every request in progress is lost.
Crash ==
    /\ faults < MaxFaults
    /\ worker' = [w \in Workers |-> Idle]
    /\ disturbed' = disturbed \cup Unrolled(Workers)
    /\ faults' = faults + 1
    /\ UNCHANGED <<ledgerVars, provider, unacked, saw, named>>

DayEnds == NextDay /\ UNCHANGED <<provider, unacked, worker, saw, named, disturbed, faults>>

Step(w) ==
    \/ ReadBalance(w) \/ CheckTierLimit(w) \/ OpenTransaction(w)
    \/ ProviderRefuses(w) \/ RecordAttempt(w) \/ AskPaystack(w)
    \/ LookUp(w) \/ MarkSuccess(w) \/ ReadTotal(w) \/ RollInvoice(w) \/ Announce(w)

Next ==
    \/ \E w \in Workers :
         \/ Step(w)
         \/ StatementFails(w)
         \/ \E i \in Invoices : StartCheckout(w, i) \/ StartUssd(w, i)
         \/ \E r \in Refs : DeliverWebhook(w, r) \/ HubtelCallback(w, r) \/ StartVerify(w, r)
    \/ \E r \in Refs : CustomerPays(r)
    \/ Crash
    \/ DayEnds

Spec == Init /\ [][Next]_vars

\* A request runs to its end, and the provider redelivers until it has its 200.
\* Nobody has to start a payment, to pay, or to ask for a verification.
Fairness ==
    /\ \A w \in Workers : WF_vars(Step(w))
    /\ \A r \in Refs : SF_vars(\E w \in Workers : DeliverWebhook(w, r))

FairSpec == Spec /\ Fairness

-----------------------------------------------------------------------------
(* Properties.                                                             *)

\* What vouches for a payment: that the provider charged the customer, or a callback the
\* server cannot check.
Reported(r) == Charged(r) \/ r \in named

\* Whatever webhooks, redeliveries and browsers report, and in whatever order, an amount
\* is credited to an invoice only if a transaction was opened for just that (the credit
\* trusts the reference alone) and the provider charged the customer: on any route but
\* Hubtel's callback, and on all of them where Hubtel is not configured.
CreditsAreRealMoney ==
    /\ \A r \in Successful :
         /\ Reported(r)
         /\ provider[r].invoice = payment[r].invoice
         /\ provider[r].amount = payment[r].amount
    /\ ~UssdEnabled => \A r \in Successful : Charged(r)

\* An invoice is called paid only when successful payments cover its total,
\* even when the request that said so read the sum long before.
PaidIsCovered ==
    \A i \in Invoices : invoice[i] = "paid" => Collected(i) >= Total[i]

\* A webhook is given up (answered 200) only for money that was credited:
\* LookUp's two silent answers never lose a Paystack charge.
AckedChargeIsCredited ==
    \A r \in Refs :
        Charged(r) /\ provider[r].channel = "paystack" /\ r \notin unacked
          => payment[r].status = "success"

\* What makes the last three inductive: how a request in progress, the row it works on
\* and the provider's transaction hang together.
RequestMatches(q) ==
    /\ q.pc \in {"mark", "total", "roll", "announce"} =>
         /\ payment[q.ref].status # "absent"
         /\ q.invoice = payment[q.ref].invoice
         /\ Reported(q.ref)
    /\ q.pc \in {"total", "roll", "announce"} => payment[q.ref].status = "success"
    /\ q.pc = "lookup" => Reported(q.ref)
    /\ q.pc = "roll" /\ q.status = "paid" => Collected(q.invoice) >= Total[q.invoice]
    /\ q.pc = "insert" =>
         /\ payment[q.ref].status = "absent"
         /\ provider[q.ref].invoice = q.invoice
         /\ provider[q.ref].amount = q.amount
         /\ provider[q.ref].state # "none"
         /\ provider[q.ref].channel = "paystack" => provider[q.ref].state = "initialized"

RequestsMatchRows == \A w \in Workers : RequestMatches(worker[w])

\* A reference is generated once: no two requests record the same attempt.
ReferencesAreUnique ==
    \A w, v \in Workers :
        w # v /\ At(w, "insert") /\ At(v, "insert") => worker[w].ref # worker[v].ref

RowsMatchTransactions ==
    \A r \in Refs :
        /\ payment[r].status # "absent" =>
             /\ provider[r].state # "none"
             /\ provider[r].invoice = payment[r].invoice
             /\ provider[r].amount = payment[r].amount
        /\ provider[r].channel = "paystack" /\ provider[r].state \in {"payable", "charged"}
             => payment[r].status # "absent"

CreditInv ==
    /\ TypeOK
    /\ RequestsMatchRows
    /\ ReferencesAreUnique
    /\ RowsMatchTransactions
    /\ \A r \in unacked : Charged(r)
    /\ named # {} => UssdEnabled
    /\ \A r \in named : payment[r].status # "absent"
    /\ CreditsAreRealMoney
    /\ AckedChargeIsCredited
    /\ PaidIsCovered

\* An invoice whose total is covered goes without "paid" only while the request that covered
\* it is about to write the status, or after two requests credited it at the same time or
\* one failed between the two writes: one credit after another always ends in "paid".
UnpaidNeedsInterference ==
    \A i \in Invoices : Collected(i) >= Total[i] /\ invoice[i] # "paid" =>
        i \in Unrolled(Workers) \/ i \in disturbed

\* What makes it inductive: on an undisturbed invoice one request credits at a time, and
\* the status it is about to write is the one the sum calls for.
OneCreditAtATime ==
    \A i \in Invoices \ disturbed : \A w \in Workers : Crediting(w, i) =>
        /\ \A v \in Workers : Crediting(v, i) => v = w
        /\ At(w, "roll") /\ Collected(i) >= Total[i] => worker[w].status = "paid"

CreditsInTurn == CreditInv /\ OneCreditAtATime /\ UnpaidNeedsInterference

\* An invoice collects more than its total only if two of its attempts were
\* open together, each unaware of the other: one attempt after the other never
\* overcharges, deposits included.
OvercollectionNeedsOverlap ==
    \A i \in Invoices : Collected(i) > Total[i] =>
        \E r, q \in SuccessfulOn(i) : r # q /\ r \notin saw[q] /\ q \notin saw[r]

\* The same of the lifetime cap: it is exceeded only by attempts that were open
\* together, so enforceTierLimit holds for a merchant paid one attempt at a time.
CapExceededNeedsOverlap ==
    CumulativeCap > 0 /\ Volume(Successful) > CumulativeCap =>
        \E r, q \in Successful : r # q /\ r \notin saw[q] /\ q \notin saw[r]

\* What makes the last two inductive: an attempt saw no later one and all that those
\* it saw had seen, and fits in the total and in the cap together with what it saw.
SightingsOrdered ==
    /\ \A q \in Refs :
         /\ q \notin saw[q]
         /\ saw[q] \subseteq Successful
         /\ \A r \in saw[q] : saw[r] \subseteq saw[q]
    /\ \A w \in Workers :
         /\ worker[w].saw \subseteq Successful
         /\ \A r \in worker[w].saw : saw[r] \subseteq worker[w].saw

VolumeOn(i, S) == Volume({r \in S : payment[r].invoice = i})

AttemptsFit ==
    /\ \A r \in Refs : provider[r].state # "none" =>
         VolumeOn(provider[r].invoice, saw[r]) + provider[r].amount <= Total[provider[r].invoice]
    /\ \A w \in Workers : At(w, "limit") \/ At(w, "charge") =>
         VolumeOn(worker[w].invoice, worker[w].saw) + worker[w].amount <= Total[worker[w].invoice]

AttemptsWithinCap ==
    CumulativeCap > 0 =>
        /\ \A r \in Refs : provider[r].state # "none" =>
             Volume(saw[r]) + provider[r].amount <= CumulativeCap
        /\ \A w \in Workers : At(w, "charge") =>
             Volume(worker[w].saw) + worker[w].amount <= CumulativeCap

OverlapInv ==
    CreditInv /\ SightingsOrdered /\ AttemptsFit /\ AttemptsWithinCap

\* A Paystack charge reaches the payments table in the end, whatever failed
\* on the way: the row exists before the customer can pay, and a 500 is retried.
ChargeIsCredited ==
    \A r \in Refs :
        Charged(r) /\ provider[r].channel = "paystack"
          ~> payment[r].status = "success"

\* The invoice follows the money: once its payments cover the total it is
\* shown paid, for good, so the customer is not asked to pay again.
CoveredInvoiceGetsPaid ==
    \A i \in Invoices : Collected(i) >= Total[i] ~> [](invoice[i] = "paid")
=============================================================================
