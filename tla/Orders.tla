------------------------------- MODULE Orders -------------------------------
(***************************************************************************)
(* From a customer's order to an invoice, for one merchant: the catalogue, *)
(* the order requests customers submit from the hosted page, and the       *)
(* requests by which the merchant confirms or declines one or sells at the *)
(* counter.  Confirming and selling share createInvoiceCore.               *)
(*                                                                         *)
(* A worker is one request in progress and its pc the statement it         *)
(* executes next; only insertInvoice is a transaction.  Prices are         *)
(* versions: the n-th price an item was given is n.                        *)
(***************************************************************************)
EXTENDS Naturals, FiniteSets

CONSTANTS
    Items,         \* catalogue items, made and yet to be made
    Requests,      \* order requests
    Numbers,       \* invoice references ("INV-..."), unique
    Workers,       \* bound: requests the server handles at once
    MaxVersion,    \* bound: prices an item is given in a run
    MaxFaults,     \* bound: statements of a run that fail
    LostAnswers,   \* whether a commit may succeed and its answer be lost
    Counter        \* stands for the absent order of a counter sale

maxReferenceAttempts == 3

ASSUME CounterAssumption == Counter \notin Requests
ASSUME RequestsAssumption == Requests # {}
ASSUME BoundsAssumption ==
    MaxVersion \in Nat /\ MaxFaults \in Nat /\ LostAnswers \in BOOLEAN

VARIABLES
    item,          \* the items table
    order,         \* the order_requests table
    invoice,       \* the invoices table with its line items
    suspended,     \* merchants.status = 'suspended'
    customer,      \* the merchant's saved name of the customer
    worker,        \* the requests in progress
    answered,      \* history: orders whose decision the merchant was told of
    failures       \* statements that have failed

vars == <<item, order, invoice, suspended, customer, worker, answered, failures>>

\* version 0 stands for an item that does not exist yet.
Item == [version : Nat, archived : BOOLEAN]

OrderStatus == {"absent", "pending", "confirmed", "declined"}

\* stale is history: the invoice bills what was over when its request began.  Its
\* lines, copied from the items, are never read here and never change.
Invoice == [raised : BOOLEAN, order : Requests \cup {Counter}, stale : BOOLEAN]

PC == {"idle", "merchant", "lines", "limit", "insert", "save", "decide"}

\* A request's locals; cart is what is left to price.  seen and stale are history:
\* the catalogue when the request began, and whether it has used anything older.
Request ==
    [pc : PC, op : {"none", "confirmed", "declined", "sale"},
     order : Requests \cup {Counter}, cart : SUBSET Items, tries : Nat,
     seen : [Items -> Item], stale : BOOLEAN]

NewItem == [i \in Items |-> [version |-> 0, archived |-> FALSE]]

Idle ==
    [pc |-> "idle", op |-> "none", order |-> Counter, cart |-> {}, tries |-> 0,
     seen |-> NewItem, stale |-> FALSE]

NoInvoice == [raised |-> FALSE, order |-> Counter, stale |-> FALSE]

TypeOK ==
    /\ item \in [Items -> Item]
    /\ order \in [Requests -> OrderStatus]
    /\ invoice \in [Numbers -> Invoice]
    /\ suspended \in BOOLEAN
    /\ customer \in {"unsaved", "unnamed", "named"}
    /\ worker \in [Workers -> Request]
    /\ answered \subseteq Requests
    /\ failures \in Nat

Init ==
    /\ item = NewItem
    /\ order = [o \in Requests |-> "absent"]
    /\ invoice = [n \in Numbers |-> NoInvoice]
    /\ suspended = FALSE
    /\ customer = "unsaved"
    /\ worker = [w \in Workers |-> Idle]
    /\ answered = {}
    /\ failures = 0

At(w, pc) == worker[w].pc = pc

Goto(w, pc) == worker' = [worker EXCEPT ![w].pc = pc]

Return(w) == worker' = [worker EXCEPT ![w] = Idle]

Raised == {n \in Numbers : invoice[n].raised}

-----------------------------------------------------------------------------
(* The catalogue, the saved customer and the merchant's standing.          *)

CreateItem(i) ==
    /\ item[i].version = 0
    /\ item' = [item EXCEPT ![i].version = 1]
    /\ UNCHANGED <<order, invoice, suspended, customer, worker, answered, failures>>

\* An archived item can still be edited; it stays archived.
UpdateItem(i) ==
    /\ item[i].version \in 1..(MaxVersion - 1)
    /\ item' = [item EXCEPT ![i].version = @ + 1]
    /\ UNCHANGED <<order, invoice, suspended, customer, worker, answered, failures>>

ArchiveItem(i) ==
    /\ item[i].version > 0
    /\ item' = [item EXCEPT ![i].archived = TRUE]
    /\ UNCHANGED <<order, invoice, suspended, customer, worker, answered, failures>>

\* UpsertCustomer: a call without a name keeps the one already known.
UpsertCustomer(name) ==
    customer' = IF name = "unnamed" /\ customer = "named" THEN "named" ELSE name

CreateCustomer ==
    /\ \E name \in {"unnamed", "named"} : UpsertCustomer(name)
    /\ UNCHANGED <<item, order, invoice, suspended, worker, answered, failures>>

\* The merchant's own edit may take the name away.
UpdateCustomer ==
    /\ customer # "unsaved"
    /\ customer' \in {"unnamed", "named"}
    /\ UNCHANGED <<item, order, invoice, suspended, worker, answered, failures>>

DeleteCustomer ==
    /\ customer # "unsaved"
    /\ customer' = "unsaved"
    /\ UNCHANGED <<item, order, invoice, suspended, worker, answered, failures>>

\* UpdateMerchantStatus, of which invoicing only sees whether it suspends.
UpdateMerchantStatus ==
    /\ suspended' = ~suspended
    /\ UNCHANGED <<item, order, invoice, customer, worker, answered, failures>>

-----------------------------------------------------------------------------
(* The order request, and the requests that begin to work on it.           *)

\* The merchant is notified as well, best effort; no handler acts on that.
CreateOrderRequest(o) ==
    /\ order[o] = "absent"
    /\ order' = [order EXCEPT ![o] = "pending"]
    /\ UNCHANGED <<item, invoice, suspended, customer, worker, answered, failures>>

\* GetOrderRequest, and "order request has already been ...".
Decidable(o) == order[o] = "pending"

\* SetOrderRequestStatus begins: a decline goes straight to the status.
StartDecision(w, o, status, cart) ==
    /\ At(w, "idle")
    /\ Decidable(o)
    /\ worker' = [worker EXCEPT ![w] =
         [Idle EXCEPT !.pc = IF status = "confirmed" THEN "merchant" ELSE "decide",
                      !.op = status, !.order = o,
                      !.cart = IF status = "confirmed" THEN cart ELSE {},
                      !.seen = IF status = "confirmed" THEN item ELSE NewItem,
                      !.stale = o \in answered]]
    /\ UNCHANGED <<item, order, invoice, suspended, customer, answered, failures>>

\* CreateInvoice begins.
StartSale(w, cart) ==
    /\ At(w, "idle")
    /\ worker' = [worker EXCEPT ![w] =
         [Idle EXCEPT !.pc = "merchant", !.op = "sale", !.cart = cart, !.seen = item]]
    /\ UNCHANGED <<item, order, invoice, suspended, customer, answered, failures>>

-----------------------------------------------------------------------------
(* createInvoiceCore.                                                      *)

LoadMerchant(w) ==
    /\ At(w, "merchant")
    /\ IF suspended THEN Return(w) ELSE Goto(w, "lines")
    /\ UNCHANGED <<item, order, invoice, suspended, customer, answered, failures>>

\* Mutant: an archived item is priced like any other.
SoldAnyway(i) == item[i].version > 0

OnSale(i) == item[i].version > 0 /\ ~item[i].archived

\* The item was archived, or its price superseded, before what the request saw.
OlderThan(seen, i) == seen.archived \/ item[i].version < seen.version

\* resolveLineItems, one GetItem a line; custom lines look nothing up.  An item
\* that is unknown or archived is a 400.
ResolveLine(w, i) ==
    /\ At(w, "lines")
    /\ i \in worker[w].cart
    /\ IF OnSale(i)
         THEN worker' = [worker EXCEPT ![w].cart = @ \ {i}, ![w].stale = @ \/ OlderThan(worker[w].seen[i], i)]
         ELSE Return(w)
    /\ UNCHANGED <<item, order, invoice, suspended, customer, answered, failures>>

LinesResolved(w) ==
    /\ At(w, "lines")
    /\ worker[w].cart = {}
    /\ worker' = [worker EXCEPT ![w].pc = "limit", ![w].seen = NewItem]
    /\ UNCHANGED <<item, order, invoice, suspended, customer, answered, failures>>

\* Mutant: the order is decided first, and its invoice raised by another request.
CheckLimitThenDecide(w) ==
    /\ At(w, "limit")
    /\ Goto(w, IF worker[w].op = "sale" THEN "insert" ELSE "decide")
    /\ UNCHANGED <<item, order, invoice, suspended, customer, answered, failures>>

\* Pricing, and enforceTierLimitFor on the total: over the cap is a 400.
CheckLimit(w) ==
    /\ At(w, "limit")
    /\ Goto(w, "insert") \/ Return(w)
    /\ UNCHANGED <<item, order, invoice, suspended, customer, answered, failures>>

\* The invoice a request raises.
InvoiceOf(w) ==
    [raised |-> TRUE, order |-> worker[w].order, stale |-> worker[w].stale]

\* insertInvoice: one transaction, from the row to its lines to "sent".
InsertInvoice(w, n) ==
    /\ At(w, "insert")
    /\ n \notin Raised
    /\ invoice' = [invoice EXCEPT ![n] = InvoiceOf(w)]
    /\ Goto(w, "save")
    /\ UNCHANGED <<item, order, suspended, customer, answered, failures>>

\* The reference drawn is taken: another is tried, three times in all.
ReferenceTaken(w, n) ==
    /\ At(w, "insert")
    /\ n \in Raised
    /\ IF worker[w].tries + 1 < maxReferenceAttempts
         THEN worker' = [worker EXCEPT ![w].tries = @ + 1] ELSE Return(w)
    /\ UNCHANGED <<item, order, invoice, suspended, customer, answered, failures>>

\* The customer is saved best effort; a counter sale is then answered.
SaveCustomer(w) ==
    /\ At(w, "save")
    /\ IF worker[w].op = "sale" THEN Return(w) ELSE Goto(w, "decide")
    /\ \/ \E name \in {"unnamed", "named"} : UpsertCustomer(name)
       \/ UNCHANGED customer
    /\ UNCHANGED <<item, order, invoice, suspended, answered, failures>>

\* SetOrderRequestStatus, by id, whatever the order has become.
Decide(w) ==
    /\ At(w, "decide")
    /\ order' = [order EXCEPT ![worker[w].order] = worker[w].op]
    /\ answered' = answered \cup {worker[w].order}
    /\ Return(w)
    /\ UNCHANGED <<item, invoice, suspended, customer, failures>>

-----------------------------------------------------------------------------
(* Failures, and the specification.                                        *)

\* A statement fails: a 500, and nothing of the request is undone.
StatementFails(w) ==
    /\ failures < MaxFaults
    /\ worker[w].pc \notin {"idle", "save"}
    /\ failures' = failures + 1
    /\ Return(w)
    /\ UNCHANGED <<item, order, invoice, suspended, customer, answered>>

\* The commit succeeds and its answer is lost: a 500 all the same.
CommitAnswerLost(w, n) ==
    /\ LostAnswers
    /\ failures < MaxFaults
    /\ At(w, "insert")
    /\ n \notin Raised
    /\ invoice' = [invoice EXCEPT ![n] = InvoiceOf(w)]
    /\ failures' = failures + 1
    /\ Return(w)
    /\ UNCHANGED <<item, order, suspended, customer, answered>>

Work(w) ==
    \/ LoadMerchant(w) \/ LinesResolved(w) \/ CheckLimit(w) \/ SaveCustomer(w)
    \/ Decide(w) \/ StatementFails(w)
    \/ \E i \in Items : ResolveLine(w, i)
    \/ \E n \in Numbers : InsertInvoice(w, n) \/ ReferenceTaken(w, n) \/ CommitAnswerLost(w, n)

Begin(w) ==
    \E cart \in SUBSET Items :
        \/ StartSale(w, cart)
        \/ \E o \in Requests, status \in {"confirmed", "declined"} :
              StartDecision(w, o, status, cart)

Next ==
    \/ \E w \in Workers : Begin(w) \/ Work(w)
    \/ \E i \in Items : CreateItem(i) \/ UpdateItem(i) \/ ArchiveItem(i)
    \/ \E o \in Requests : CreateOrderRequest(o)
    \/ CreateCustomer \/ UpdateCustomer \/ DeleteCustomer
    \/ UpdateMerchantStatus

Spec == Init /\ [][Next]_vars

-----------------------------------------------------------------------------
(* Properties.                                                             *)

\* An order is never called confirmed without an invoice for the customer to
\* pay, although the two are written by separate statements and other requests
\* overwrite the status in between.
ConfirmedHasInvoice ==
    \A o \in Requests : order[o] = "confirmed" =>
        \E n \in Raised : invoice[n].order = o

\* An invoice is never raised by a request that began after the merchant was told
\* of a decision on its order, and never sells what was archived, or at a price
\* superseded, before the request began.
NothingStaleIsBilled == \A n \in Raised : ~invoice[n].stale

\* What makes both inductive: decisions and archiving are permanent, prices only
\* get newer, and what a request carries was true when it began.
DecisionsStand == \A o \in answered : order[o] \in {"confirmed", "declined"}

RequestInOrder(q) ==
    /\ ~q.stale
    /\ \A i \in Items :
         /\ q.seen[i].archived => item[i].archived
         /\ q.seen[i].version <= item[i].version
    /\ q.pc = "decide" => q.op \in {"confirmed", "declined"} /\ q.order \in Requests
    /\ q.pc = "save" => q.op = "sale" \/ (q.op = "confirmed" /\ q.order \in Requests)
    /\ q.pc \in {"merchant", "lines", "limit", "insert"} =>
         q.op = "sale" \/ (q.op = "confirmed" /\ q.order \in Requests)
    /\ q.pc \in {"save", "decide"} /\ q.op = "confirmed" =>
         \E n \in Raised : invoice[n].order = q.order

RequestsInOrder == \A w \in Workers : RequestInOrder(worker[w])

OrdersInv ==
    /\ TypeOK
    /\ DecisionsStand
    /\ RequestsInOrder
    /\ ConfirmedHasInvoice
    /\ NothingStaleIsBilled

\* "Rare, and recoverable by retrying the confirm call": retrying does not bill
\* the order twice.
BilledOnce ==
    \A m, n \in Raised :
        m # n /\ invoice[m].order = invoice[n].order => invoice[m].order = Counter
=============================================================================
