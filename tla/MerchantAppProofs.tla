-------------------------- MODULE MerchantAppProofs --------------------------
(***************************************************************************)
(* What a merchant meets in the app, proved component by component: each   *)
(* one's inductive invariant says that what a request has read still holds *)
(* when it writes, or that its history says otherwise.                     *)
(***************************************************************************)
EXTENDS Orders, Accounts, Sessions, PayoutAccount, Locations, RiskFlags, FiniteSetTheorems, TLAPS

-----------------------------------------------------------------------------
(* Orders.                                                                 *)

\* A request that has not begun is in order, whatever the tables hold.
LEMMA IdleInOrder ==
    ASSUME TypeOK
    PROVE  Idle \in Request /\ RequestInOrder(Idle) /\ Idle.pc = "idle"
<1>1. NewItem \in [Items -> Item]
  BY DEF NewItem, Item
<1>2. Idle \in Request
  BY <1>1 DEF Idle, Request, PC
<1>3. \A i \in Items : Idle.seen[i].archived = FALSE /\ Idle.seen[i].version = 0
  BY DEF Idle, NewItem
<1>4. \A i \in Items : item[i].version \in Nat
  BY DEF TypeOK, Item
<1>5. RequestInOrder(Idle)
  BY <1>3, <1>4 DEF RequestInOrder, Idle
<1> QED BY <1>2, <1>5 DEF Idle

\* One request moves on, and the tables change in no way the others depend on.
LEMMA OthersInOrder ==
    ASSUME OrdersInv,
           NEW w \in Workers, NEW q \in Request,
           worker' = [worker EXCEPT ![w] = q],
           RequestInOrder(q)',
           item' = item,
           \A n \in Raised : n \in Raised' /\ invoice'[n].order = invoice[n].order
    PROVE  RequestsInOrder'
<1> SUFFICES ASSUME NEW v \in Workers
             PROVE  RequestInOrder(worker[v])'
  BY DEF RequestsInOrder
<1>1. CASE v = w
  <2>1. worker'[v] = q
    BY <1>1 DEF OrdersInv, TypeOK
  <2> QED BY <2>1 DEF RequestInOrder
<1>2. CASE v # w
  <2>1. worker'[v] = worker[v]
    BY <1>2 DEF OrdersInv, TypeOK
  <2>2. RequestInOrder(worker[v])
    BY DEF OrdersInv, RequestsInOrder
  <2> QED BY <2>1, <2>2 DEF RequestInOrder
<1> QED BY <1>1, <1>2

\* The catalogue moves on and no request does: items get newer or archived.
LEMMA CatalogueMoves ==
    ASSUME OrdersInv, TypeOK',
           \A i \in Items : /\ item[i].archived => item'[i].archived
                            /\ item[i].version <= item'[i].version,
           UNCHANGED <<order, invoice, suspended, customer, worker, answered, failures>>
    PROVE  OrdersInv'
<1>1. RequestsInOrder'
  <2> SUFFICES ASSUME NEW v \in Workers
               PROVE  RequestInOrder(worker[v])'
    BY DEF RequestsInOrder
  <2>1. RequestInOrder(worker[v]) /\ worker'[v] = worker[v]
    BY DEF OrdersInv, RequestsInOrder
  <2>2. \A i \in Items : /\ worker[v].seen[i].version \in Nat
                         /\ item[i].version \in Nat /\ item'[i].version \in Nat
    BY DEF OrdersInv, TypeOK, Request, Item
  <2>3. \A i \in Items : /\ worker[v].seen[i].archived => item'[i].archived
                         /\ worker[v].seen[i].version <= item'[i].version
    BY <2>1, <2>2 DEF RequestInOrder
  <2> QED BY <2>1, <2>3 DEF RequestInOrder, Raised
<1> QED BY <1>1 DEF OrdersInv, DecisionsStand, ConfirmedHasInvoice, NothingStaleIsBilled, Raised

\* An order or the merchant's standing changes, and no decision is undone.
LEMMA RequestsStand ==
    ASSUME OrdersInv, TypeOK',
           UNCHANGED <<item, invoice, worker, answered>>,
           \A o \in Requests : order'[o] = order[o] \/ (order[o] = "absent" /\ order'[o] = "pending")
    PROVE  OrdersInv'
<1>1. RequestsInOrder'
  BY DEF OrdersInv, RequestsInOrder, RequestInOrder, Raised
<1>2. DecisionsStand'
  BY DEF OrdersInv, DecisionsStand, TypeOK
<1>3. ConfirmedHasInvoice'
  BY DEF OrdersInv, ConfirmedHasInvoice, Raised
<1> QED BY <1>1, <1>2, <1>3 DEF OrdersInv, NothingStaleIsBilled, Raised

LEMMA InitInv == Init => OrdersInv
<1> SUFFICES ASSUME Init PROVE OrdersInv
  OBVIOUS
<1>1. TypeOK
  <2>1. NewItem \in [Items -> Item]
    BY DEF NewItem, Item
  <2>2. Idle \in Request
    BY <2>1 DEF Idle, Request, PC
  <2>3. NoInvoice \in Invoice
    BY DEF NoInvoice, Invoice
  <2> QED BY <2>1, <2>2, <2>3, BoundsAssumption DEF Init, TypeOK, OrderStatus
<1>2. \A w \in Workers : worker[w] = Idle
  BY DEF Init
<1>3. RequestsInOrder
  BY <1>1, <1>2, IdleInOrder DEF RequestsInOrder
<1> QED BY <1>1, <1>3 DEF Init, OrdersInv, DecisionsStand, ConfirmedHasInvoice,
                          NothingStaleIsBilled, Raised, NoInvoice

\* The steps of a request.
LEMMA WorkerStep ==
    ASSUME OrdersInv, NEW w \in Workers, Begin(w) \/ Work(w)
    PROVE  OrdersInv'
<1>0. /\ Idle \in Request /\ NewItem \in [Items -> Item] /\ TypeOK
      /\ RequestInOrder(Idle)
  BY IdleInOrder DEF OrdersInv, NewItem, Item
<1>t. \A i \in Items : item[i].version \in Nat /\ NewItem[i].version = 0 /\ ~NewItem[i].archived
  BY <1>0 DEF TypeOK, Item, NewItem
<1>a. worker[w] \in Request /\ RequestInOrder(worker[w])
  BY DEF OrdersInv, TypeOK, RequestsInOrder
\* Steps that write no table but customers.
<1>b. ASSUME NEW q \in Request, worker' = [worker EXCEPT ![w] = q], RequestInOrder(q),
             customer' \in {"unsaved", "unnamed", "named"}, failures' \in Nat,
             UNCHANGED <<item, order, invoice, suspended, answered>>
      PROVE  OrdersInv'
  <2>1. RequestInOrder(q)'
    BY <1>b DEF RequestInOrder, Raised
  <2>2. RequestsInOrder'
    BY <1>b, <2>1, OthersInOrder DEF Raised
  <2>3. TypeOK'
    BY <1>0, <1>b DEF TypeOK
  <2> QED BY <1>b, <2>2, <2>3 DEF OrdersInv, DecisionsStand, ConfirmedHasInvoice, NothingStaleIsBilled, Raised
<1>1. ASSUME NEW cart \in SUBSET Items, StartSale(w, cart) PROVE OrdersInv'
  <2> DEFINE q == [Idle EXCEPT !.pc = "merchant", !.op = "sale", !.cart = cart, !.seen = item]
  <2>1. q \in Request
    BY <1>0 DEF Request, PC, Idle, TypeOK
  <2>2. RequestInOrder(q)
    BY <1>0 DEF RequestInOrder, Idle, TypeOK, Item
  <2> QED BY <1>0, <1>1, <1>b, <2>1, <2>2 DEF StartSale, TypeOK
<1>2. ASSUME NEW cart \in SUBSET Items, NEW o \in Requests,
             NEW status \in {"confirmed", "declined"}, StartDecision(w, o, status, cart)
      PROVE  OrdersInv'
  <2> DEFINE q == [Idle EXCEPT !.pc = IF status = "confirmed" THEN "merchant" ELSE "decide",
                      !.op = status, !.order = o,
                      !.cart = IF status = "confirmed" THEN cart ELSE {},
                      !.seen = IF status = "confirmed" THEN item ELSE NewItem,
                      !.stale = o \in answered]
  <2>1. o \notin answered
    BY <1>2 DEF StartDecision, Decidable, OrdersInv, DecisionsStand
  <2>2. CASE status = "confirmed"
    <3>1. /\ q.pc = "merchant" /\ q.op = "confirmed" /\ q.order = o /\ q.seen = item
          /\ ~q.stale
      BY <2>1, <2>2 DEF Idle
    <3>2. q \in Request
      <4>1. [Idle EXCEPT !.pc = "merchant", !.op = status, !.order = o, !.cart = cart,
                         !.seen = item, !.stale = FALSE] \in Request
        BY <1>0, <2>2 DEF TypeOK, Request, PC
      <4>2. (o \in answered) = FALSE
        BY <2>1
      <4> QED BY <2>2, <4>1, <4>2, Zenon
    <3> HIDE DEF q
    <3>3. RequestInOrder(q)
      BY <1>t, <2>1, <3>1 DEF RequestInOrder
    <3> QED BY <1>0, <1>2, <1>b, <3>2, <3>3 DEF StartDecision, TypeOK, q
  <2>3. CASE status = "declined"
    <3>1. /\ q.pc = "decide" /\ q.op = "declined" /\ q.order = o /\ q.seen = NewItem
          /\ ~q.stale
      BY <2>1, <2>3 DEF Idle
    <3>2. q \in Request
      <4>1. [Idle EXCEPT !.pc = "decide", !.op = status, !.order = o, !.cart = {},
                         !.seen = NewItem, !.stale = FALSE] \in Request
        BY <1>0, <2>3 DEF TypeOK, Request, PC
      <4>2. (o \in answered) = FALSE
        BY <2>1
      <4> QED BY <2>3, <4>1, <4>2, Zenon
    <3> HIDE DEF q
    <3>3. RequestInOrder(q)
      BY <1>t, <2>1, <3>1 DEF RequestInOrder
    <3> QED BY <1>0, <1>2, <1>b, <3>2, <3>3 DEF StartDecision, TypeOK, q
  <2> QED BY <2>2, <2>3
<1>3. CASE LoadMerchant(w) \/ CheckLimit(w)
  <2> DEFINE q(pc) == [worker[w] EXCEPT !.pc = pc]
  <2>1. ASSUME NEW pc \in {"lines", "insert"}, At(w, "merchant") \/ At(w, "limit")
        PROVE  q(pc) \in Request /\ RequestInOrder(q(pc))
    BY <1>a, <2>1 DEF Request, PC, RequestInOrder, At
  <2>2. worker' = [worker EXCEPT ![w] = Idle] \/ \E pc \in {"lines", "insert"} : worker' = [worker EXCEPT ![w] = q(pc)]
    BY <1>3, <1>a DEF LoadMerchant, CheckLimit, Goto, Return
  <2>3. /\ UNCHANGED <<item, order, invoice, suspended, customer, answered, failures>>
        /\ At(w, "merchant") \/ At(w, "limit")
    BY <1>3 DEF LoadMerchant, CheckLimit
  <2>4. customer' \in {"unsaved", "unnamed", "named"} /\ failures' \in Nat
    BY <1>0, <2>3 DEF TypeOK
  <2> HIDE DEF q
  <2> QED BY <1>0, <1>b, <2>1, <2>2, <2>3, <2>4
<1>4. CASE LinesResolved(w)
  <2> DEFINE q == [worker[w] EXCEPT !.pc = "limit", !.seen = NewItem]
  <2>0. q \in Request
    BY <1>0, <1>a DEF Request, PC
  <2>1. q \in Request /\ RequestInOrder(q)
    BY <1>a, <1>t, <1>4, <2>0 DEF LinesResolved, At, Request, RequestInOrder
  <2>2. worker' = [worker EXCEPT ![w] = q]
    BY <1>4, <1>a DEF LinesResolved
  <2> QED BY <1>0, <1>4, <1>b, <2>1, <2>2 DEF LinesResolved, TypeOK
<1>5. ASSUME NEW i \in Items, ResolveLine(w, i) PROVE OrdersInv'
  <2> DEFINE q == [worker[w] EXCEPT !.cart = @ \ {i}, !.stale = @ \/ OlderThan(worker[w].seen[i], i)]
  <2>1. CASE OnSale(i)
    <3>1. item[i].version \in Nat /\ worker[w].seen[i].version \in Nat
      BY <1>a DEF OrdersInv, TypeOK, Request, Item
    <3>2. ~OlderThan(worker[w].seen[i], i)
      BY <1>a, <2>1, <3>1 DEF OlderThan, OnSale, RequestInOrder
    <3>3. q \in Request /\ RequestInOrder(q)
      BY <1>a, <3>2 DEF Request, RequestInOrder
    <3>4. worker' = [worker EXCEPT ![w] = q]
      BY <1>5, <1>a, <2>1 DEF ResolveLine
    <3> QED BY <1>0, <1>5, <1>b, <3>3, <3>4 DEF ResolveLine, TypeOK
  <2>2. CASE ~OnSale(i)
    BY <1>0, <1>5, <1>b, <2>2 DEF ResolveLine, Return, TypeOK
  <2> QED BY <2>1, <2>2
\* The invoice is committed, and the request goes on to q.
<1>c. ASSUME NEW n \in Numbers, NEW q \in Request, At(w, "insert"), n \notin Raised,
             invoice' = [invoice EXCEPT ![n] = InvoiceOf(w)],
             worker' = [worker EXCEPT ![w] = q],
             RequestInOrder(q)', failures' \in Nat,
             UNCHANGED <<item, order, suspended, customer, answered>>
      PROVE  OrdersInv'
  <2>1. \A m \in Numbers : invoice'[m] = IF m = n THEN InvoiceOf(w) ELSE invoice[m]
    BY <1>0, <1>c DEF TypeOK
  <2>2. \A m \in Raised : m \in Raised' /\ invoice'[m].order = invoice[m].order
    BY <1>c, <2>1 DEF Raised
  <2>3. RequestsInOrder'
    BY <1>c, <2>2, OthersInOrder
  <2>4. NothingStaleIsBilled'
    BY <1>a, <2>1 DEF OrdersInv, NothingStaleIsBilled, Raised, InvoiceOf, RequestInOrder
  <2>5. ConfirmedHasInvoice'
    BY <1>c, <2>2 DEF OrdersInv, ConfirmedHasInvoice
  <2>6. InvoiceOf(w) \in Invoice
    BY <1>a DEF InvoiceOf, Invoice, Request
  <2>7. TypeOK'
    BY <1>0, <1>c, <2>6 DEF TypeOK
  <2> QED BY <1>c, <2>3, <2>4, <2>5, <2>7 DEF OrdersInv, DecisionsStand
<1>6. ASSUME NEW n \in Numbers, InsertInvoice(w, n) PROVE OrdersInv'
  <2>1. [worker[w] EXCEPT !.pc = "save"] \in Request
    BY <1>a DEF Request, PC
  <2>0. PICK q \in Request : q = [worker[w] EXCEPT !.pc = "save"]
    BY <2>1
  <2>2. worker' = [worker EXCEPT ![w] = q]
    BY <1>6, <1>a, <2>0 DEF InsertInvoice, Goto
  <2>3. n \in Raised' /\ invoice'[n].order = q.order
    BY <1>0, <1>6, <1>a, <2>0 DEF InsertInvoice, InvoiceOf, Raised, TypeOK, Request
  <2>4. worker[w].op = "sale" \/ (worker[w].op = "confirmed" /\ worker[w].order \in Requests)
    BY <1>6, <1>a DEF InsertInvoice, At, RequestInOrder
  <2>5. \A i \in Items : /\ worker[w].seen[i].archived => item'[i].archived
                         /\ worker[w].seen[i].version <= item'[i].version
    BY <1>6, <1>a DEF InsertInvoice, RequestInOrder
  <2>6. ~worker[w].stale
    BY <1>a DEF RequestInOrder
  <2>7. /\ q.pc = "save" /\ q.op = worker[w].op /\ q.order = worker[w].order
        /\ q.seen = worker[w].seen /\ q.stale = worker[w].stale
    BY <1>a, <2>0 DEF Request
  <2>8. RequestInOrder(q)'
    BY <2>3, <2>4, <2>5, <2>6, <2>7 DEF RequestInOrder
  <2>9. failures' \in Nat
    BY <1>0, <1>6 DEF InsertInvoice, TypeOK
  <2> QED BY <1>6, <1>c, <2>1, <2>2, <2>8, <2>9 DEF InsertInvoice
<1>7. ASSUME NEW n \in Numbers, CommitAnswerLost(w, n) PROVE OrdersInv'
  <2>1. RequestInOrder(Idle)' /\ failures' \in Nat
    BY <1>0, <1>7 DEF CommitAnswerLost, RequestInOrder, Idle, TypeOK
  <2> QED BY <1>0, <1>7, <1>c, <2>1 DEF CommitAnswerLost, Return
<1>8. ASSUME NEW n \in Numbers, ReferenceTaken(w, n) PROVE OrdersInv'
  <2> DEFINE q == [worker[w] EXCEPT !.tries = @ + 1]
  <2>1. q \in Request /\ RequestInOrder(q)
    BY <1>a DEF Request, RequestInOrder
  <2>2. worker' = [worker EXCEPT ![w] = q] \/ worker' = [worker EXCEPT ![w] = Idle]
    BY <1>8, <1>a DEF ReferenceTaken, Return
  <2> QED BY <1>0, <1>8, <1>b, <2>1, <2>2 DEF ReferenceTaken, TypeOK
<1>9. CASE SaveCustomer(w)
  <2> DEFINE q == [worker[w] EXCEPT !.pc = "decide"]
  <2>1. q \in Request
    BY <1>a DEF Request, PC
  <2>2. worker[w].op # "sale" => RequestInOrder(q)
    BY <1>a, <1>9 DEF SaveCustomer, At, RequestInOrder, Request
  <2>3. \/ worker[w].op # "sale" /\ worker' = [worker EXCEPT ![w] = q]
        \/ worker' = [worker EXCEPT ![w] = Idle]
    BY <1>9, <1>a DEF SaveCustomer, Goto, Return
  <2>4. customer' \in {"unsaved", "unnamed", "named"} /\ failures' \in Nat
    BY <1>0, <1>9 DEF SaveCustomer, UpsertCustomer, TypeOK
  <2> HIDE DEF q
  <2> QED BY <1>0, <1>9, <1>b, <2>1, <2>2, <2>3, <2>4 DEF SaveCustomer
<1>10. CASE Decide(w)
  <2> DEFINE o == worker[w].order
  <2>1. o \in Requests /\ worker[w].op \in {"confirmed", "declined"}
    BY <1>a, <1>10 DEF Decide, At, RequestInOrder
  <2>2. worker[w].op = "confirmed" => \E n \in Raised : invoice[n].order = o
    BY <1>a, <1>10 DEF Decide, At, RequestInOrder
  <2>3. \A p \in Requests : order'[p] = IF p = o THEN worker[w].op ELSE order[p]
    BY <1>0, <1>10 DEF Decide, TypeOK
  <2>4. RequestInOrder(Idle)'
    BY <1>0, <1>10 DEF Decide, RequestInOrder, Idle
  <2>7. RequestsInOrder'
    BY <1>0, <1>10, <2>4, OthersInOrder DEF Decide, Return, Raised
  <2>5. ConfirmedHasInvoice'
    BY <1>10, <2>1, <2>2, <2>3 DEF Decide, OrdersInv, ConfirmedHasInvoice, Raised
  <2>6. DecisionsStand'
    BY <1>0, <1>10, <2>1, <2>3 DEF Decide, OrdersInv, DecisionsStand, TypeOK
  <2>8. TypeOK'
    BY <1>0, <1>10, <2>1 DEF Decide, Return, TypeOK, OrderStatus
  <2> QED BY <1>10, <2>5, <2>6, <2>7, <2>8 DEF Decide, OrdersInv, NothingStaleIsBilled, Raised
<1>11. CASE StatementFails(w)
  <2>1. failures' \in Nat /\ customer' \in {"unsaved", "unnamed", "named"}
    BY <1>0, <1>11 DEF StatementFails, TypeOK
  <2>2. /\ worker' = [worker EXCEPT ![w] = Idle]
        /\ UNCHANGED <<item, order, invoice, suspended, answered>>
    BY <1>11 DEF StatementFails, Return
  <2> QED BY <1>0, <1>b, <2>1, <2>2
<1> QED BY <1>1, <1>2, <1>3, <1>4, <1>5, <1>6, <1>7, <1>8, <1>9, <1>10, <1>11 DEF Begin, Work

LEMMA NextInv == OrdersInv /\ [Next]_vars => OrdersInv'
<1> SUFFICES ASSUME OrdersInv, [Next]_vars PROVE OrdersInv'
  OBVIOUS
<1>1. CASE Next
  <2>1. ASSUME NEW w \in Workers, Begin(w) \/ Work(w) PROVE OrdersInv'
    BY <2>1, WorkerStep
  <2>2. ASSUME NEW i \in Items, CreateItem(i) \/ UpdateItem(i) \/ ArchiveItem(i) PROVE OrdersInv'
    <3>1. \A j \in Items : item[j].version \in Nat
      BY DEF OrdersInv, TypeOK, Item
    <3>2. \A j \in Items : /\ item[j].archived => item'[j].archived
                           /\ item[j].version <= item'[j].version
      BY <2>2, <3>1 DEF CreateItem, UpdateItem, ArchiveItem, OrdersInv, TypeOK, Item
    <3>3. item' \in [Items -> Item]
      <4>1. CASE CreateItem(i)
        BY <4>1 DEF CreateItem, OrdersInv, TypeOK, Item
      <4>2. CASE UpdateItem(i)
        BY <4>2 DEF UpdateItem, OrdersInv, TypeOK, Item
      <4>3. CASE ArchiveItem(i)
        BY <4>3 DEF ArchiveItem, OrdersInv, TypeOK, Item
      <4> QED BY <2>2, <4>1, <4>2, <4>3
    <3>4. UNCHANGED <<order, invoice, suspended, customer, worker, answered, failures>>
      BY <2>2 DEF CreateItem, UpdateItem, ArchiveItem
    <3>5. TypeOK'
      BY <3>3, <3>4 DEF OrdersInv, TypeOK
    <3> QED BY <3>2, <3>4, <3>5, CatalogueMoves
  <2>3. ASSUME NEW o \in Requests, CreateOrderRequest(o) PROVE OrdersInv'
    <3>1. TypeOK'
      BY <2>3 DEF CreateOrderRequest, OrdersInv, TypeOK, OrderStatus
    <3> QED BY <2>3, <3>1, RequestsStand DEF CreateOrderRequest, OrdersInv, TypeOK
  <2>4. CASE CreateCustomer \/ UpdateCustomer \/ DeleteCustomer \/ UpdateMerchantStatus
    <3>1. TypeOK'
      BY <2>4 DEF CreateCustomer, UpsertCustomer, UpdateCustomer, DeleteCustomer,
                  UpdateMerchantStatus, OrdersInv, TypeOK
    <3> QED BY <2>4, <3>1, RequestsStand
       DEF CreateCustomer, UpdateCustomer, DeleteCustomer, UpdateMerchantStatus
  <2> QED BY <1>1, <2>1, <2>2, <2>3, <2>4 DEF Next
<1>2. CASE UNCHANGED vars
  BY <1>2 DEF vars, OrdersInv, TypeOK, DecisionsStand, RequestsInOrder, RequestInOrder,
              ConfirmedHasInvoice, NothingStaleIsBilled, Raised
<1> QED BY <1>1, <1>2

\* OrdersInv holds in every reachable state, for any catalogue and any number of
\* orders, requests in progress and failures.
THEOREM OrdersInvariant == Spec => []OrdersInv
<1> QED BY InitInv, NextInv, PTL DEF Spec

\* An order called confirmed has an invoice (SetOrderRequestStatus writes the
\* status last, by id and without a transaction).
THEOREM ConfirmedOrdersAreBilled == Spec => []ConfirmedHasInvoice
<1>1. OrdersInv => ConfirmedHasInvoice
  BY DEF OrdersInv
<1> QED BY <1>1, OrdersInvariant, PTL

\* No invoice of an order decided, or of a line gone, before its request began.
THEOREM NothingStale == Spec => []NothingStaleIsBilled
<1>1. OrdersInv => NothingStaleIsBilled
  BY DEF OrdersInv
<1> QED BY <1>1, OrdersInvariant, PTL

-----------------------------------------------------------------------------
(* Accounts.                                                               *)

LEMMA InitAccounts == AccountInit => AccountInv
<1> SUFFICES ASSUME AccountInit PROVE AccountInv
  OBVIOUS
<1>1. IdleDesk \in DeskRow /\ owner \in Owner /\ member \in Member
  BY DEF AccountInit, IdleDesk, DeskRow, NoOwner, Owner, NoMember, Member
<1>2. desk \in [Desks -> DeskRow] /\ \A d \in Desks : DeskInOrder(d)
  BY <1>1 DEF AccountInit, IdleDesk, DeskInOrder
<1>3. AccountTypeOK
  <2>1. 1 \in 1..LastTick
    BY AccountBounds, ClockAssumption
  <2>2. otp \in Seq(OtpRow) /\ link \in Seq(LinkRow)
    BY DEF AccountInit
  <2>3. clock \in 1..LastTick /\ promised \in Promise /\ cutShort \in BOOLEAN
    BY <2>1 DEF AccountInit, Promise, NoPromise
  <2> QED BY <1>1, <1>2, <2>2, <2>3 DEF AccountTypeOK
<1> QED
  BY <1>2, <1>3 DEF AccountInit, AccountInv, NoOwner, NoPromise, ResetLetsYouIn, VerifiedByLink

\* The requests when one of them moves on and nothing that the others have read changes.
LEMMA DesksInOrder ==
    ASSUME AccountInv, NEW d \in Desks, NEW w \in DeskRow, desk' = [desk EXCEPT ![d] = w],
           DOMAIN otp \subseteq DOMAIN otp', DOMAIN link \subseteq DOMAIN link',
           \A n \in DOMAIN link : link[n].used => link'[n].used,
           owner'.exists = owner.exists, member'.exists = member.exists
    PROVE  /\ desk' \in [Desks -> DeskRow]
           /\ desk'[d] = w
           /\ \A e \in Desks : e # d => desk'[e] = desk[e] /\ DeskInOrder(e)'
<1>1. desk \in [Desks -> DeskRow]
  BY DEF AccountInv, AccountTypeOK
<1>2. /\ desk' \in [Desks -> DeskRow]
      /\ desk'[d] = w
      /\ \A e \in Desks : e # d => desk'[e] = desk[e]
  BY <1>1
<1>3. ASSUME NEW e \in Desks, e # d PROVE DeskInOrder(e)'
  <2>1. DeskInOrder(e) /\ desk'[e] = desk[e]
    BY <1>2, <1>3 DEF AccountInv
  <2> QED BY <2>1 DEF DeskInOrder
<1> QED BY <1>2, <1>3

\* A request that ends, or goes on in order, without a word written to the accounts.
LEMMA QuietStep ==
    ASSUME AccountInv, NEW d \in Desks, NEW w \in DeskRow, desk' = [desk EXCEPT ![d] = w],
           otp' \in Seq(OtpRow), DOMAIN otp \subseteq DOMAIN otp',
           UNCHANGED <<clock, owner, member, link, promised>>,
           cutShort' \in BOOLEAN, ~cutShort' => ~cutShort /\ ~AtDesk(d, "markEmail"),
           desk'[d] = w => DeskInOrder(d)'
    PROVE  AccountInv'
<1>1. /\ desk' \in [Desks -> DeskRow]
      /\ \A e \in Desks : e # d => desk'[e] = desk[e]
      /\ \A e \in Desks : DeskInOrder(e)'
  BY DesksInOrder
<1>2. AccountTypeOK'
  BY <1>1 DEF AccountInv, AccountTypeOK
<1>3. ResetLetsYouIn'
  BY DEF AccountInv, ResetLetsYouIn, SignsIn
<1>4. VerifiedByLink'
  <2>1. ASSUME ~cutShort', NEW n \in DOMAIN link, link[n].used, ~owner.verified
        PROVE  \E e \in Desks : AtDesk(e, "markEmail")'
    <3>1. PICK e \in Desks : AtDesk(e, "markEmail")
      BY <2>1 DEF AccountInv, VerifiedByLink
    <3>2. e # d
      BY <2>1, <3>1
    <3> QED BY <1>1, <3>1, <3>2 DEF AtDesk
  <2> QED BY <2>1 DEF AccountInv, VerifiedByLink
<1> QED
  BY <1>1, <1>2, <1>3, <1>4 DEF AccountInv

\* An ended request is in order whatever the tables hold.
LEMMA IdleDeskInOrder ==
    /\ IdleDesk \in DeskRow
    /\ \A d \in Desks : desk'[d] = IdleDesk => DeskInOrder(d)'
BY DEF IdleDesk, DeskRow, DeskInOrder

LEMMA CodeRows ==
    ASSUME NEW row \in OtpRow, NEW k \in Nat, NEW t \in 0..LastTick
    PROVE  /\ row.attempts \in Nat
           /\ [row EXCEPT !.attempts = k] \in OtpRow
           /\ [row EXCEPT !.verified = t] \in OtpRow
BY DEF OtpRow

\* The codes of a phone.
LEMMA CodeSteps ==
    ASSUME AccountInv, NEW d \in Desks,
           \/ CountCodes(d) \/ InsertCode(d) \/ ReadCode(d) \/ CountAttempt(d) \/ MarkCode(d)
    PROVE  AccountInv'
<1>0. /\ desk[d] \in DeskRow /\ DeskInOrder(d) /\ desk \in [Desks -> DeskRow]
      /\ otp \in Seq(OtpRow) /\ clock \in 1..LastTick /\ cutShort \in BOOLEAN
      /\ DOMAIN otp = 1..Len(otp) /\ Len(otp) \in Nat /\ LastTick \in Nat
  BY AccountBounds DEF AccountInv, AccountTypeOK
<1>1. CASE CountCodes(d)
  <2> DEFINE w == [desk[d] EXCEPT !.pc = "insertCode"]
  <2>1. /\ desk' = [desk EXCEPT ![d] = w] /\ w \in DeskRow /\ w.pc = "insertCode" /\ w.late = desk[d].late
        /\ UNCHANGED <<clock, otp, owner, member, link, promised, cutShort>> /\ ~AtDesk(d, "markEmail")
    BY <1>0, <1>1 DEF CountCodes, MoveOn, DeskRow, AtDesk
  <2> HIDE DEF w
  <2>2. desk'[d] = w => DeskInOrder(d)'
    BY <1>0, <2>1 DEF DeskInOrder
  <2> QED BY <1>0, <2>1, <2>2, QuietStep
<1>2. CASE InsertCode(d)
  <2> DEFINE row == [at |-> clock, attempts |-> 0, verified |-> 0]
  <2>1. row \in OtpRow
    BY <1>0 DEF OtpRow
  <2>2. /\ desk' = [desk EXCEPT ![d] = IdleDesk] /\ otp' = Append(otp, row)
        /\ UNCHANGED <<clock, owner, member, link, promised, cutShort>> /\ ~AtDesk(d, "markEmail")
    BY <1>2 DEF InsertCode, Leave, AtDesk
  <2> HIDE DEF row
  <2>3. otp' \in Seq(OtpRow) /\ DOMAIN otp \subseteq DOMAIN otp'
    BY <1>0, <2>1, <2>2
  <2> QED BY <1>0, <2>2, <2>3, IdleDeskInOrder, QuietStep
<1>3. CASE ReadCode(d)
  <2>1. PICK pc \in {"markCode", "countAttempt"} :
          desk' = [desk EXCEPT ![d] = [IdleDesk EXCEPT !.pc = pc, !.number = Len(otp)]]
    BY <1>3 DEF ReadCode
  <2> DEFINE w == [IdleDesk EXCEPT !.pc = pc, !.number = Len(otp)]
  <2>2. w \in DeskRow /\ w.pc = pc /\ w.number = Len(otp) /\ w.late = FALSE
    BY <1>0 DEF IdleDesk, DeskRow
  <2>3. desk' = [desk EXCEPT ![d] = w]
    BY <2>1
  <2>5. /\ Len(otp) > 0 /\ AtDesk(d, "idle")
        /\ UNCHANGED <<clock, otp, owner, member, link, promised, cutShort>>
    BY <1>3 DEF ReadCode
  <2>6. Len(otp) \in DOMAIN otp /\ ~AtDesk(d, "markEmail")
    BY <1>0, <2>5 DEF AtDesk
  <2> HIDE DEF w
  <2>4. desk'[d] = w => DeskInOrder(d)'
    BY <2>2, <2>5, <2>6 DEF DeskInOrder
  <2> QED BY <1>0, <2>2, <2>3, <2>4, <2>5, <2>6, QuietStep
<1>4. ASSUME NEW row \in OtpRow, otp' = [otp EXCEPT ![desk[d].number] = row],
             AtDesk(d, "countAttempt") \/ AtDesk(d, "markCode"), Leave(d),
             UNCHANGED <<clock, owner, member, link, promised, cutShort>>
      PROVE  AccountInv'
  <2>1. desk[d].number \in DOMAIN otp
    BY <1>0, <1>4 DEF AtDesk, DeskInOrder
  <2>2. otp' \in Seq(OtpRow) /\ DOMAIN otp' = DOMAIN otp
    BY <1>0, <1>4, <2>1
  <2>3. desk' = [desk EXCEPT ![d] = IdleDesk] /\ ~AtDesk(d, "markEmail")
    BY <1>4 DEF Leave, AtDesk
  <2> QED BY <1>0, <1>4, <2>2, <2>3, IdleDeskInOrder, QuietStep
<1>5. CASE CountAttempt(d)
  <2> DEFINE n == desk[d].number
             row == [otp[n] EXCEPT !.attempts = @ + 1]
  <2>1. n \in DOMAIN otp
    BY <1>0, <1>5 DEF CountAttempt, AtDesk, DeskInOrder
  <2>2. row \in OtpRow
    <3>1. otp[n] \in OtpRow
      BY <1>0, <2>1
    <3>2. otp[n].attempts + 1 \in Nat /\ clock \in 0..LastTick
      BY <1>0, <3>1 DEF OtpRow
    <3> QED BY <3>1, <3>2, CodeRows
  <2> QED BY <1>4, <1>5, <2>2 DEF CountAttempt
<1>6. CASE MarkCode(d)
  <2> DEFINE n == desk[d].number
             row == [otp[n] EXCEPT !.verified = clock]
  <2>1. n \in DOMAIN otp
    BY <1>0, <1>6 DEF MarkCode, AtDesk, DeskInOrder
  <2>2. row \in OtpRow
    <3>1. otp[n] \in OtpRow
      BY <1>0, <2>1
    <3>2. clock \in 0..LastTick
      BY <1>0
    <3> QED BY <3>1, <3>2, CodeRows
  <2> QED BY <1>4, <1>6, <2>2 DEF MarkCode
<1> QED BY <1>1, <1>2, <1>3, <1>5, <1>6

\* Registration and the staff of a merchant.
LEMMA RegistrationSteps ==
    ASSUME AccountInv, NEW d \in Desks,
           \/ \E password \in Passwords :
                \/ StartReset(d, password)
                \/ \E email \in Emails \cup {NoOne} : StartRegistration(d, password, email)
           \/ FindMerchant(d) \/ FindStaff(d)
    PROVE  AccountInv'
<1>0. /\ desk[d] \in DeskRow /\ DeskInOrder(d) /\ desk \in [Desks -> DeskRow]
      /\ otp \in Seq(OtpRow) /\ cutShort \in BOOLEAN
      /\ UNCHANGED <<clock, otp, owner, member, link, promised, cutShort>>
      /\ ~AtDesk(d, "markEmail")
  BY DEF AccountInv, AccountTypeOK, StartRegistration, StartReset, FindMerchant, FindStaff, AtDesk
<1>1. ASSUME NEW w \in DeskRow, desk' = [desk EXCEPT ![d] = w], desk'[d] = w => DeskInOrder(d)'
      PROVE  AccountInv'
  BY <1>0, <1>1, QuietStep
<1>2. ASSUME NEW password \in Passwords, NEW email \in Emails \cup {NoOne},
             StartRegistration(d, password, email)
      PROVE  AccountInv'
  <2> DEFINE w == [IdleDesk EXCEPT !.pc = "insertMerchant", !.password = password, !.email = email]
  <2>1. desk' = [desk EXCEPT ![d] = w] /\ w \in DeskRow /\ w.pc = "insertMerchant" /\ w.late = FALSE
    BY <1>2 DEF StartRegistration, IdleDesk, DeskRow
  <2> HIDE DEF w
  <2>2. desk'[d] = w => DeskInOrder(d)'
    BY <2>1 DEF DeskInOrder
  <2> QED BY <1>1, <2>1, <2>2
<1>3. ASSUME NEW password \in Passwords, StartReset(d, password) PROVE AccountInv'
  <2> DEFINE w == [IdleDesk EXCEPT !.pc = "findMerchant", !.password = password]
  <2>1. desk' = [desk EXCEPT ![d] = w] /\ w \in DeskRow /\ w.pc = "findMerchant" /\ w.late = FALSE
    BY <1>3 DEF StartReset, IdleDesk, DeskRow
  <2> HIDE DEF w
  <2>2. desk'[d] = w => DeskInOrder(d)'
    BY <2>1 DEF DeskInOrder
  <2> QED BY <1>1, <2>1, <2>2
<1>4. ASSUME NEW pc \in {"setMerchant", "findStaff", "setStaff"}, MoveOn(d, pc),
             pc = "setMerchant" => owner.exists,
             pc # "setMerchant" /\ ~desk[d].late => ~owner.exists,
             pc = "setStaff" => member.exists
      PROVE  AccountInv'
  <2> DEFINE w == [desk[d] EXCEPT !.pc = pc]
  <2>1. desk' = [desk EXCEPT ![d] = w] /\ w \in DeskRow /\ w.pc = pc /\ w.late = desk[d].late
    BY <1>0, <1>4 DEF MoveOn, DeskRow
  <2> HIDE DEF w
  <2>2. desk'[d] = w => DeskInOrder(d)'
    BY <1>0, <1>4, <2>1 DEF DeskInOrder
  <2> QED BY <1>1, <2>1, <2>2
<1>5. CASE FindMerchant(d)
  BY <1>4, <1>5 DEF FindMerchant
<1>6. CASE FindStaff(d)
  <2>1. CASE member.exists
    BY <1>0, <1>4, <1>6, <2>1 DEF FindStaff, AtDesk, DeskInOrder
  <2>2. CASE ~member.exists
    BY <1>1, <1>6, <2>2, IdleDeskInOrder DEF FindStaff, Leave
  <2> QED BY <2>1, <2>2
<1> QED BY <1>2, <1>3, <1>5, <1>6

LEMMA InsertMerchantStep ==
    ASSUME AccountInv, NEW d \in Desks, InsertMerchant(d)
    PROVE  AccountInv'
<1>0. /\ desk[d] \in DeskRow /\ DeskInOrder(d) /\ desk \in [Desks -> DeskRow]
      /\ otp \in Seq(OtpRow) /\ cutShort \in BOOLEAN /\ desk[d].pc = "insertMerchant"
      /\ UNCHANGED <<clock, otp, member, link, cutShort>>
  BY DEF AccountInv, AccountTypeOK, InsertMerchant, AtDesk
<1>1. CASE owner.exists
  <2>1. desk' = [desk EXCEPT ![d] = IdleDesk] /\ UNCHANGED <<owner, promised>>
    BY <1>1 DEF InsertMerchant, Leave
  <2> QED BY <1>0, <2>1, IdleDeskInOrder, QuietStep DEF AtDesk
<1>2. CASE ~owner.exists
  <2>1. /\ owner' = [exists |-> TRUE, password |-> desk[d].password,
                     email |-> desk[d].email, verified |-> FALSE]
        /\ promised' = NoPromise
        /\ desk' = AfterInsert(d)
    BY <1>2 DEF InsertMerchant
  <2>2. owner' \in Owner /\ owner'.exists = TRUE /\ owner'.verified = FALSE
    BY <1>0, <2>1 DEF Owner, DeskRow
  <2>3. /\ desk'[d] \in DeskRow
        /\ desk'[d].pc \in {"idle", "createLink"}
    BY <1>0, <2>1, IdleDeskInOrder DEF AfterInsert, DeskRow, IdleDesk
  <2>4. ASSUME NEW e \in Desks, e # d
        PROVE  /\ desk'[e] \in DeskRow /\ desk'[e].pc = desk[e].pc
               /\ desk'[e].number = desk[e].number /\ desk'[e].gone = desk[e].gone
               /\ desk[e].pc \in {"findStaff", "setStaff"} => desk'[e].late = TRUE
    <3> DEFINE late == desk[e].late \/ desk[e].pc \in {"findStaff", "setStaff"}
    <3>1. desk'[e] = [desk[e] EXCEPT !.late = late]
      BY <2>1, <2>4 DEF AfterInsert
    <3>2. late \in BOOLEAN /\ (desk[e].pc \in {"findStaff", "setStaff"} => late = TRUE)
      OBVIOUS
    <3>3. desk[e] \in DeskRow
      BY <1>0
    <3> HIDE DEF late
    <3> QED BY <3>1, <3>2, <3>3 DEF DeskRow
  <2>5. DeskInOrder(d)'
    BY <2>2, <2>3 DEF DeskInOrder
  <2>6. ASSUME NEW e \in Desks, e # d PROVE DeskInOrder(e)'
    <3>1. DeskInOrder(e)
      BY DEF AccountInv
    <3> QED BY <1>0, <2>2, <2>4, <2>6, <3>1 DEF DeskInOrder
  <2>7. desk' = [e \in Desks |-> desk'[e]]
    BY <2>1 DEF AfterInsert
  <2>8. AccountTypeOK'
    BY <1>0, <2>1, <2>2, <2>3, <2>4, <2>7 DEF AccountInv, AccountTypeOK, Promise, NoPromise
  <2>9. VerifiedByLink'
    <3>1. ASSUME ~cutShort, NEW n \in DOMAIN link, link[n].used
          PROVE  \E e \in Desks : AtDesk(e, "markEmail")'
      <4>1. PICK e \in Desks : AtDesk(e, "markEmail")
        BY <1>2, <3>1 DEF AccountInv, VerifiedByLink
      <4> QED BY <1>0, <2>4, <4>1 DEF AtDesk
    <3> QED BY <1>0, <2>2, <3>1 DEF VerifiedByLink
  <2> QED
    BY <2>1, <2>2, <2>5, <2>6, <2>8, <2>9 DEF AccountInv, ResetLetsYouIn, NoPromise
<1> QED BY <1>1, <1>2

\* Setting a password, the merchant's or the staff member's.
LEMMA PasswordSteps ==
    ASSUME AccountInv, NEW d \in Desks, SetMerchantPassword(d) \/ SetStaffPassword(d)
    PROVE  AccountInv'
<1>0. /\ desk[d] \in DeskRow /\ DeskInOrder(d) /\ desk' = [desk EXCEPT ![d] = IdleDesk]
      /\ owner \in Owner /\ member \in Member /\ desk[d].password \in Passwords \cup {NoOne}
      /\ UNCHANGED <<clock, otp, link, cutShort>>
  BY DEF AccountInv, AccountTypeOK, SetMerchantPassword, SetStaffPassword, Leave, DeskRow
<1>1. ~AtDesk(d, "markEmail")
  BY DEF SetMerchantPassword, SetStaffPassword, AtDesk
<1>2. ASSUME owner' \in Owner, owner'.exists = owner.exists, owner'.verified = owner.verified,
             member' \in Member, member'.exists = member.exists,
             promised' \in Promise, ResetLetsYouIn'
      PROVE  AccountInv'
  <2>1. /\ desk' \in [Desks -> DeskRow] /\ desk'[d] = IdleDesk
        /\ \A e \in Desks : e # d => desk'[e] = desk[e] /\ DeskInOrder(e)'
    BY <1>0, <1>2, DesksInOrder, IdleDeskInOrder
  <2>2. \A e \in Desks : DeskInOrder(e)'
    BY <2>1, IdleDeskInOrder
  <2>3. AccountTypeOK'
    BY <1>0, <1>2, <2>1 DEF AccountInv, AccountTypeOK
  <2>4. VerifiedByLink'
    <3>1. ASSUME ~cutShort, NEW n \in DOMAIN link, link[n].used, ~owner.verified
          PROVE  \E e \in Desks : AtDesk(e, "markEmail")'
      <4>1. PICK e \in Desks : AtDesk(e, "markEmail")
        BY <3>1 DEF AccountInv, VerifiedByLink
      <4>2. e # d
        BY <1>1, <4>1
      <4> QED BY <2>1, <4>1, <4>2 DEF AtDesk
    <3> QED BY <1>0, <1>2, <3>1 DEF AccountInv, VerifiedByLink
  <2> QED BY <1>0, <1>2, <2>2, <2>3, <2>4 DEF AccountInv
<1>3. CASE SetMerchantPassword(d)
  <2>1. /\ owner.exists /\ UNCHANGED member
        /\ promised' = [password |-> desk[d].password, overtaken |-> FALSE]
        /\ promised' \in Promise
    BY <1>0, <1>3 DEF SetMerchantPassword, AtDesk, DeskInOrder, Promise
  <2>2. owner' = [owner EXCEPT !.password = desk[d].password]
    BY <1>3 DEF SetMerchantPassword
  <2>3. /\ owner' \in Owner /\ owner'.exists = owner.exists /\ owner'.verified = owner.verified
        /\ owner'.password = desk[d].password
    BY <1>0, <2>2 DEF Owner
  <2>4. ResetLetsYouIn'
    BY <2>1, <2>3 DEF ResetLetsYouIn, SignsIn
  <2> QED BY <1>0, <1>2, <2>1, <2>3, <2>4
<1>4. CASE SetStaffPassword(d)
  <2>1. UNCHANGED owner /\ desk[d].pc = "setStaff"
    BY <1>4 DEF SetStaffPassword, AtDesk
  <2>2. CASE desk[d].gone
    <3>1. UNCHANGED <<member, promised>>
      BY <1>4, <2>2 DEF SetStaffPassword
    <3>2. ResetLetsYouIn' /\ promised \in Promise
      BY <2>1, <3>1 DEF AccountInv, AccountTypeOK, ResetLetsYouIn, SignsIn
    <3> QED BY <1>0, <1>2, <2>1, <3>1, <3>2
  <2>3. CASE ~desk[d].gone
    <3>1. /\ member' = [member EXCEPT !.password = desk[d].password]
          /\ promised' = [password |-> desk[d].password, overtaken |-> desk[d].late]
      BY <1>4, <2>3 DEF SetStaffPassword
    <3>2. /\ member' \in Member /\ member'.exists = member.exists
          /\ member'.password = desk[d].password
      BY <1>0, <3>1 DEF Member
    <3>3. member.exists /\ (IF desk[d].late THEN owner.exists ELSE ~owner.exists)
      BY <1>0, <2>1, <2>3 DEF DeskInOrder
    <3>4. promised'.password = desk[d].password /\ promised'.overtaken = desk[d].late
      BY <3>1
    <3>5. ResetLetsYouIn'
      BY <2>1, <3>2, <3>3, <3>4 DEF ResetLetsYouIn, SignsIn
    <3>6. promised' \in Promise
      BY <1>0, <3>1 DEF Promise, DeskRow
    <3> QED BY <1>0, <1>2, <2>1, <3>2, <3>5, <3>6
  <2> QED BY <2>2, <2>3
<1> QED BY <1>3, <1>4

\* The links: sent, opened, used, and the email they verify.
LEMMA LinkSteps ==
    ASSUME AccountInv, NEW d \in Desks,
           \/ CreateLink(d) \/ UseLink(d) \/ MarkEmail(d) \/ Abandon(d)
           \/ \E n \in DOMAIN link : OpenLink(d, n)
    PROVE  AccountInv'
<1>0. /\ desk[d] \in DeskRow /\ DeskInOrder(d) /\ desk \in [Desks -> DeskRow]
      /\ otp \in Seq(OtpRow) /\ link \in Seq(LinkRow) /\ clock \in 1..LastTick
      /\ owner \in Owner /\ cutShort \in BOOLEAN
      /\ DOMAIN link = 1..Len(link) /\ Len(link) \in Nat
  BY DEF AccountInv, AccountTypeOK
<1>1. CASE CreateLink(d)
  <2> DEFINE row == [used |-> FALSE, at |-> clock]
  <2>1. /\ link' = Append(link, row) /\ row \in LinkRow /\ row.used = FALSE
        /\ desk' = [desk EXCEPT ![d] = IdleDesk] /\ desk[d].pc = "createLink"
        /\ UNCHANGED <<clock, otp, owner, member, promised, cutShort>>
    BY <1>0, <1>1 DEF CreateLink, Leave, AtDesk, LinkRow
  <2> HIDE DEF row
  <2>2. /\ link' \in Seq(LinkRow) /\ DOMAIN link' = DOMAIN link \cup {Len(link) + 1}
        /\ \A n \in DOMAIN link : link'[n] = link[n]
        /\ link'[Len(link) + 1] = row
    BY <1>0, <2>1
  <2>3. /\ desk' \in [Desks -> DeskRow] /\ desk'[d] = IdleDesk
        /\ \A e \in Desks : e # d => desk'[e] = desk[e] /\ DeskInOrder(e)'
    BY <2>1, <2>2, DesksInOrder, IdleDeskInOrder
  <2>4. \A e \in Desks : DeskInOrder(e)'
    BY <2>3, IdleDeskInOrder
  <2>5. AccountTypeOK'
    BY <2>1, <2>2, <2>3 DEF AccountInv, AccountTypeOK
  <2>6. {n \in DOMAIN link' : link'[n].used} = {n \in DOMAIN link : link[n].used}
    BY <2>1, <2>2
  <2>7. VerifiedByLink'
    <3>1. ASSUME ~cutShort, NEW n \in DOMAIN link, link[n].used, ~owner.verified
          PROVE  \E e \in Desks : AtDesk(e, "markEmail")'
      <4>1. PICK e \in Desks : AtDesk(e, "markEmail")
        BY <3>1 DEF AccountInv, VerifiedByLink
      <4> QED BY <2>1, <2>3, <4>1 DEF AtDesk
    <3> QED BY <2>1, <2>6, <3>1 DEF AccountInv, VerifiedByLink
  <2>8. owner.exists /\ ResetLetsYouIn'
    BY <1>0, <2>1 DEF AccountInv, DeskInOrder, ResetLetsYouIn, SignsIn
  <2> QED BY <2>1, <2>4, <2>5, <2>7, <2>8 DEF AccountInv
<1>2. CASE UseLink(d)
  <2> DEFINE k == desk[d].number
             row == [link[k] EXCEPT !.used = TRUE]
             w == [desk[d] EXCEPT !.pc = "markEmail"]
  <2>1. /\ link' = [link EXCEPT ![k] = row] /\ desk' = [desk EXCEPT ![d] = w]
        /\ k \in DOMAIN link
        /\ UNCHANGED <<clock, otp, owner, member, promised, cutShort>>
    BY <1>0, <1>2 DEF UseLink, MoveOn, AtDesk, DeskInOrder
  <2>2. /\ w \in DeskRow /\ w.pc = "markEmail" /\ w.late = desk[d].late
        /\ row \in LinkRow /\ row.used = TRUE
    <3>1. link[k] \in LinkRow
      BY <1>0, <2>1
    <3> QED BY <1>0, <3>1 DEF DeskRow, LinkRow
  <2> HIDE DEF k, row, w
  <2>3. /\ link' \in Seq(LinkRow) /\ DOMAIN link' = DOMAIN link /\ link'[k] = row
        /\ \A n \in DOMAIN link : n # k => link'[n] = link[n]
    BY <1>0, <2>1, <2>2
  <2>4. /\ desk' \in [Desks -> DeskRow] /\ desk'[d] = w
        /\ \A e \in Desks : e # d => desk'[e] = desk[e] /\ DeskInOrder(e)'
    BY <2>1, <2>2, <2>3, DesksInOrder
  <2>5. DeskInOrder(d)' /\ AtDesk(d, "markEmail")'
    BY <1>0, <2>1, <2>2, <2>3, <2>4 DEF DeskInOrder, AtDesk
  <2>6. AccountTypeOK'
    BY <2>1, <2>3, <2>4 DEF AccountInv, AccountTypeOK
  <2>7. VerifiedByLink'
    BY <2>1, <2>2, <2>3, <2>5 DEF VerifiedByLink
  <2>8. ResetLetsYouIn' /\ (DOMAIN link # {} => owner.exists)
    BY <2>1 DEF AccountInv, ResetLetsYouIn, SignsIn
  <2> QED BY <2>1, <2>3, <2>4, <2>5, <2>6, <2>7, <2>8 DEF AccountInv
<1>3. CASE MarkEmail(d)
  <2>1. /\ owner' = [owner EXCEPT !.verified = TRUE] /\ desk' = [desk EXCEPT ![d] = IdleDesk]
        /\ UNCHANGED <<clock, otp, member, link, promised, cutShort>>
        /\ \E n \in DOMAIN link : link[n].used
    BY <1>0, <1>3 DEF MarkEmail, Leave, AtDesk, DeskInOrder
  <2>2. /\ owner' \in Owner /\ owner'.exists = owner.exists /\ owner'.verified = TRUE
        /\ owner'.password = owner.password
    BY <1>0, <2>1 DEF Owner
  <2>3. /\ desk' \in [Desks -> DeskRow] /\ desk'[d] = IdleDesk
        /\ \A e \in Desks : e # d => desk'[e] = desk[e] /\ DeskInOrder(e)'
    BY <2>1, <2>2, DesksInOrder, IdleDeskInOrder
  <2>4. \A e \in Desks : DeskInOrder(e)'
    BY <2>3, IdleDeskInOrder
  <2>5. AccountTypeOK'
    BY <2>1, <2>2, <2>3 DEF AccountInv, AccountTypeOK
  <2>6. VerifiedByLink'
    BY <2>1, <2>2 DEF VerifiedByLink
  <2>7. ResetLetsYouIn' /\ owner.exists
    BY <2>1, <2>2 DEF AccountInv, ResetLetsYouIn, SignsIn
  <2> QED BY <2>2, <2>4, <2>5, <2>6, <2>7 DEF AccountInv
<1>4. CASE Abandon(d)
  <2>1. /\ cutShort' = (cutShort \/ AtDesk(d, "markEmail")) /\ desk' = [desk EXCEPT ![d] = IdleDesk]
        /\ UNCHANGED <<clock, otp, owner, member, link, promised>>
    BY <1>4 DEF Abandon, Leave
  <2>2. cutShort' \in BOOLEAN /\ (~cutShort' => ~cutShort /\ ~AtDesk(d, "markEmail"))
    BY <2>1, Zenon
  <2> QED BY <1>0, <2>1, <2>2, IdleDeskInOrder, QuietStep
<1>5. ASSUME NEW n \in DOMAIN link, OpenLink(d, n) PROVE AccountInv'
  <2> DEFINE w == [IdleDesk EXCEPT !.pc = "useLink", !.number = n]
  <2>1. w \in DeskRow /\ w.pc = "useLink" /\ w.number = n /\ w.late = FALSE
    <3>1. n \in Nat
      BY <1>0, <1>5
    <3> QED BY <3>1 DEF IdleDesk, DeskRow
  <2>2. /\ desk' = [desk EXCEPT ![d] = w]
        /\ UNCHANGED <<clock, otp, owner, member, link, promised, cutShort>> /\ ~AtDesk(d, "markEmail")
    BY <1>5 DEF OpenLink, AtDesk
  <2> HIDE DEF w
  <2>3. desk'[d] = w => DeskInOrder(d)'
    BY <2>1, <2>2 DEF DeskInOrder
  <2> QED BY <1>0, <2>1, <2>2, <2>3, QuietStep
<1> QED BY <1>1, <1>2, <1>3, <1>4, <1>5

\* What the merchant does to their staff and their address, and time.
LEMMA MerchantSteps ==
    ASSUME AccountInv,
           \/ \E password \in Passwords : CreateStaff(password)
           \/ DeleteStaff
           \/ \E email \in Emails : UpdateMerchantEmail(email)
           \/ ClockTicks
           \/ UNCHANGED accountVars
    PROVE  AccountInv'
<1>0. /\ desk \in [Desks -> DeskRow] /\ owner \in Owner /\ member \in Member /\ clock \in 1..LastTick
      /\ UNCHANGED <<otp, link, cutShort>>
  BY DEF AccountInv, AccountTypeOK, CreateStaff, DeleteStaff, UpdateMerchantEmail, ClockTicks,
         accountVars
<1>1. ASSUME NEW password \in Passwords, CreateStaff(password) PROVE AccountInv'
  <2>1. /\ ~member.exists /\ member' = [exists |-> TRUE, password |-> password]
        /\ UNCHANGED <<clock, owner, desk, promised>>
    BY <1>1 DEF CreateStaff
  <2>2. AccountTypeOK'
    BY <1>0, <2>1 DEF AccountInv, AccountTypeOK, Member
  <2>3. ASSUME NEW d \in Desks PROVE DeskInOrder(d)'
    BY <1>0, <2>1 DEF AccountInv, DeskInOrder
  <2>4. ResetLetsYouIn'
    BY <1>0, <2>1 DEF AccountInv, ResetLetsYouIn, SignsIn
  <2>5. VerifiedByLink'
    BY <1>0, <2>1 DEF AccountInv, VerifiedByLink, AtDesk
  <2> QED BY <1>0, <2>1, <2>2, <2>3, <2>4, <2>5 DEF AccountInv
<1>2. CASE DeleteStaff
  <2>1. /\ member' = NoMember /\ UNCHANGED <<clock, owner>>
        /\ promised' = IF owner.exists THEN promised ELSE NoPromise
        /\ desk' = [d \in Desks |-> [desk[d] EXCEPT !.gone = @ \/ AtDesk(d, "setStaff")]]
    BY <1>2 DEF DeleteStaff
  <2>2. ASSUME NEW d \in Desks
        PROVE  /\ desk'[d] \in DeskRow /\ desk'[d].pc = desk[d].pc
               /\ desk'[d].number = desk[d].number /\ desk'[d].late = desk[d].late
               /\ desk[d].pc = "setStaff" => desk'[d].gone = TRUE
    <3> DEFINE gone == desk[d].gone \/ AtDesk(d, "setStaff")
    <3>1. desk'[d] = [desk[d] EXCEPT !.gone = gone]
      BY <2>1
    <3>2. gone \in BOOLEAN /\ (desk[d].pc = "setStaff" => gone = TRUE)
      BY DEF AtDesk
    <3>3. desk[d] \in DeskRow
      BY <1>0
    <3> HIDE DEF gone
    <3> QED BY <3>1, <3>2, <3>3 DEF DeskRow
  <2>3. ASSUME NEW d \in Desks PROVE DeskInOrder(d)'
    <3>1. DeskInOrder(d)
      BY DEF AccountInv
    <3> QED BY <1>0, <2>1, <2>2, <3>1 DEF DeskInOrder
  <2>4. desk' = [d \in Desks |-> desk'[d]]
    BY <2>1
  <2>5. AccountTypeOK'
    BY <1>0, <2>1, <2>2, <2>4 DEF AccountInv, AccountTypeOK, NoMember, Member, NoPromise, Promise
  <2>6. ResetLetsYouIn'
    BY <2>1 DEF AccountInv, ResetLetsYouIn, SignsIn, NoPromise
  <2>7. VerifiedByLink'
    <3>1. ASSUME ~cutShort, NEW n \in DOMAIN link, link[n].used, ~owner.verified
          PROVE  \E d \in Desks : AtDesk(d, "markEmail")'
      <4>1. PICK d \in Desks : AtDesk(d, "markEmail")
        BY <3>1 DEF AccountInv, VerifiedByLink
      <4> QED BY <2>2, <4>1 DEF AtDesk
    <3> QED BY <1>0, <2>1, <3>1 DEF AccountInv, VerifiedByLink
  <2> QED BY <1>0, <2>1, <2>3, <2>5, <2>6, <2>7 DEF AccountInv
<1>3. ASSUME NEW email \in Emails, UpdateMerchantEmail(email) PROVE AccountInv'
  <2>1. owner' = [owner EXCEPT !.email = email] /\ UNCHANGED <<clock, member, desk, promised>>
    BY <1>3 DEF UpdateMerchantEmail
  <2>2. /\ owner' \in Owner /\ owner'.exists = owner.exists /\ owner'.verified = owner.verified
        /\ owner'.password = owner.password
    BY <1>0, <2>1 DEF Owner
  <2>3. AccountTypeOK'
    BY <1>0, <2>1, <2>2 DEF AccountInv, AccountTypeOK
  <2>4. ASSUME NEW d \in Desks PROVE DeskInOrder(d)'
    BY <1>0, <2>1, <2>2 DEF AccountInv, DeskInOrder
  <2>5. ResetLetsYouIn'
    BY <2>1, <2>2 DEF AccountInv, ResetLetsYouIn, SignsIn
  <2>6. VerifiedByLink'
    BY <1>0, <2>1, <2>2 DEF AccountInv, VerifiedByLink, AtDesk
  <2> QED BY <1>0, <2>2, <2>3, <2>4, <2>5, <2>6 DEF AccountInv
<1>4. CASE ClockTicks \/ UNCHANGED accountVars
  <2>1. clock' \in 1..LastTick /\ UNCHANGED <<owner, member, desk, promised>>
    BY <1>0, <1>4, AccountBounds DEF ClockTicks, accountVars
  <2>2. AccountTypeOK'
    BY <1>0, <2>1 DEF AccountInv, AccountTypeOK
  <2>3. ASSUME NEW d \in Desks PROVE DeskInOrder(d)'
    BY <1>0, <2>1 DEF AccountInv, DeskInOrder
  <2>4. ResetLetsYouIn' /\ VerifiedByLink'
    BY <1>0, <2>1 DEF AccountInv, ResetLetsYouIn, SignsIn, VerifiedByLink, AtDesk
  <2> QED BY <1>0, <2>1, <2>2, <2>3, <2>4 DEF AccountInv
<1> QED BY <1>1, <1>2, <1>3, <1>4

LEMMA NextAccounts == AccountInv /\ [AccountNext]_accountVars => AccountInv'
<1> SUFFICES ASSUME AccountInv, [AccountNext]_accountVars PROVE AccountInv'
  OBVIOUS
<1>1. ASSUME NEW d \in Desks, Serve(d) PROVE AccountInv'
  BY <1>1, CodeSteps, RegistrationSteps, InsertMerchantStep, PasswordSteps, LinkSteps DEF Serve
<1> QED BY <1>1, MerchantSteps DEF AccountNext

\* Types, for any number of requests, codes and links.
THEOREM AccountTypes == AccountSpec => []AccountTypeOK
<1>1. AccountInv => AccountTypeOK
  BY DEF AccountInv
<1> QED BY <1>1, InitAccounts, NextAccounts, PTL DEF AccountSpec

\* ResetPassword: the password just set lets its owner in, however registrations, resets
\* and staff changes interleave and fail, until somebody changes the phone's accounts;
\* unless a merchant registered with the phone between its look-ups and its write.
THEOREM ResetSignsIn == AccountSpec => []ResetLetsYouIn
<1>1. AccountInv => ResetLetsYouIn
  BY DEF AccountInv
<1> QED BY <1>1, InitAccounts, NextAccounts, PTL DEF AccountSpec

\* VerifyMerchantEmail: only a used link verifies a merchant, and a used link has, or is
\* about to, unless its request was cut short.
THEOREM LinksVerify == AccountSpec => []VerifiedByLink
<1>1. AccountInv => VerifiedByLink
  BY DEF AccountInv
<1> QED BY <1>1, InitAccounts, NextAccounts, PTL DEF AccountSpec

-----------------------------------------------------------------------------
(* Sessions.                                                               *)

\* What roles grant is in the catalogue.
LEMMA KeysAreKnown ==
    ASSUME NEW row \in UserRow
    PROVE  KeysOf(row) \subseteq Permissions
BY DEF UserRow, KeysOf, Permissions

LEMMA InitSessions == SessionInit => SessionInv
<1> SUFFICES ASSUME SessionInit PROVE SessionInv
  OBVIOUS
<1>1. 0 \in Hours /\ SeedUser \in Users /\ SeedRole \in Roles
  BY SessionBounds, SeedAssumption DEF Hours
<1>2. user \in [Users -> UserRow]
  BY <1>1 DEF SessionInit, UserRow
<1>3. NoLogin \in LoginRow /\ NoLogin.pc = "idle"
  BY <1>1 DEF NoLogin, LoginRow, Actors
<1>4. login \in [Logins -> LoginRow] /\ \A n \in Logins : LoginInOrder(n)
  BY <1>3 DEF SessionInit, LoginInOrder
<1>5. /\ hour = 0 /\ token = {} /\ shop \in [Shop -> BOOLEAN]
      /\ lastHeld = [u \in Users |-> [k \in Permissions |-> 0]]
      /\ lastGood = [a \in Actors |-> 0]
  BY DEF SessionInit
<1>6. SessionTypeOK
  BY <1>1, <1>2, <1>4, <1>5 DEF SessionTypeOK
<1>7. HistoryInOrder
  BY <1>5 DEF HistoryInOrder
<1> QED
  BY <1>4, <1>5, <1>6, <1>7 DEF SessionInv

\* Steps that are observed: they change users, the shop or the hour, no login or token.
LEMMA ObservedStep ==
    ASSUME SessionInv, Observed,
           user' \in [Users -> UserRow], shop' \in [Shop -> BOOLEAN], UNCHANGED <<login, token>>,
           \/ hour' = hour
           \/ hour' = hour + 1 /\ hour' \in Hours /\ \A n \in Logins : login[n].pc = "idle"
    PROVE  SessionInv'
<1>1. /\ hour \in Nat /\ hour' \in Hours /\ hour' \in Nat /\ hour <= hour'
      /\ SessionTypeOK /\ HistoryInOrder
  BY SessionBounds DEF SessionInv, SessionTypeOK, Hours
<1>2. /\ lastHeld \in [Users -> [Permissions -> Hours]] /\ lastGood \in [Actors -> Hours]
      /\ Hours \subseteq Nat
  BY <1>1 DEF SessionTypeOK, Hours
<1>3. ASSUME NEW a \in Actors
      PROVE  /\ lastGood'[a] \in Hours /\ lastGood[a] <= lastGood'[a] /\ lastGood'[a] <= hour'
             /\ InGoodStanding(a)' => lastGood'[a] = hour'
             /\ lastGood[a] = hour' => lastGood'[a] = hour'
  <2>1. /\ lastGood'[a] = IF InGoodStanding(a)' THEN hour' ELSE lastGood[a]
        /\ lastGood[a] \in Hours /\ lastGood[a] <= hour
    BY <1>1, <1>2 DEF Observed, HistoryInOrder
  <2>2. lastGood[a] \in Nat
    BY <1>2, <2>1
  <2>3. CASE InGoodStanding(a)'
    BY <1>1, <2>1, <2>2, <2>3
  <2>4. CASE ~InGoodStanding(a)'
    BY <1>1, <2>1, <2>2, <2>4
  <2> QED BY <2>3, <2>4
<1>4. ASSUME NEW u \in Users, NEW k \in Permissions
      PROVE  /\ lastHeld'[u][k] \in Hours /\ lastHeld[u][k] <= lastHeld'[u][k]
             /\ lastHeld'[u][k] <= hour'
             /\ k \in KeysOf(user'[u]) => lastHeld'[u][k] = hour'
             /\ lastHeld[u][k] = hour' => lastHeld'[u][k] = hour'
  <2>1. /\ lastHeld'[u][k] = IF k \in KeysOf(user'[u]) THEN hour' ELSE lastHeld[u][k]
        /\ lastHeld[u][k] \in Hours /\ lastHeld[u][k] <= hour
    BY <1>1, <1>2 DEF Observed, HistoryInOrder
  <2>2. lastHeld[u][k] \in Nat
    BY <1>2, <2>1
  <2>3. CASE k \in KeysOf(user'[u])
    BY <1>1, <2>1, <2>2, <2>3
  <2>4. CASE k \notin KeysOf(user'[u])
    BY <1>1, <2>1, <2>2, <2>4
  <2> QED BY <2>3, <2>4
<1>5. lastHeld' \in [Users -> [Permissions -> Hours]] /\ lastGood' \in [Actors -> Hours]
  BY <1>3, <1>4 DEF Observed
<1>6. SessionTypeOK'
  BY <1>1, <1>5 DEF SessionTypeOK
<1>7. HistoryInOrder'
  <2>1. \A u \in Users : KeysOf(user[u])' = KeysOf(user'[u])
    BY DEF KeysOf
  <2> QED BY <1>3, <1>4, <2>1 DEF HistoryInOrder
<1>8. ASSUME NEW n \in Logins PROVE LoginInOrder(n)'
  <2>1. LoginInOrder(n) /\ login[n] \in LoginRow
    BY <1>1 DEF SessionInv, SessionTypeOK
  <2>2. login[n].actor \in Actors /\ login[n].permissions \subseteq Permissions
    BY <2>1 DEF LoginRow
  <2>3. CASE hour' = hour
    BY <1>3, <1>4, <2>1, <2>2, <2>3 DEF LoginInOrder
  <2>4. CASE login[n].pc = "idle"
    BY <2>4 DEF LoginInOrder
  <2> QED BY <2>3, <2>4
<1>9. ASSUME NEW t \in token PROVE TokenInOrder(t)'
  <2>1. TokenInOrder(t) /\ t \in Token
    BY <1>1 DEF SessionInv, SessionTypeOK
  <2>2. t.actor \in Actors /\ t.permissions \subseteq Permissions /\ t.at \in Nat
    BY <1>2, <2>1 DEF Token
  <2>3. lastGood[t.actor] \in Nat /\ lastGood'[t.actor] \in Nat /\ lastGood[t.actor] <= lastGood'[t.actor]
    BY <1>2, <1>3, <2>2
  <2>4. ASSUME NEW k \in t.permissions PROVE t.at <= lastHeld'[t.actor][k]
    <3>1. t.actor \in Users /\ k \in Permissions /\ t.at <= lastHeld[t.actor][k]
      BY <2>1, <2>2, <2>4 DEF TokenInOrder
    <3>2. /\ lastHeld[t.actor][k] \in Nat /\ lastHeld'[t.actor][k] \in Nat
          /\ lastHeld[t.actor][k] <= lastHeld'[t.actor][k]
      BY <1>2, <1>4, <3>1
    <3> QED BY <2>2, <3>1, <3>2
  <2> QED BY <2>1, <2>2, <2>3, <2>4 DEF TokenInOrder
<1> QED
  BY <1>6, <1>7, <1>8, <1>9 DEF SessionInv

\* Steps of one login, which change no history.
LEMMA LoginStep ==
    ASSUME SessionInv, NEW n \in Logins, NEW w \in LoginRow, login' = [login EXCEPT ![n] = w],
           UNCHANGED <<hour, user, shop, lastHeld, lastGood>>,
           login'[n] = w => LoginInOrder(n)',
           token' \in SUBSET Token, \A t \in token' \ token : TokenInOrder(t)
    PROVE  SessionInv'
<1>0. login \in [Logins -> LoginRow]
  BY DEF SessionInv, SessionTypeOK
<1>1. /\ login' \in [Logins -> LoginRow] /\ login'[n] = w
      /\ \A m \in Logins : m # n => login'[m] = login[m]
  BY <1>0
<1>2. SessionTypeOK'
  BY <1>1 DEF SessionInv, SessionTypeOK
<1>3. HistoryInOrder'
  BY DEF SessionInv, HistoryInOrder, InGoodStanding, KeysOf
<1>4. \A m \in Logins : LoginInOrder(m)'
  BY <1>1 DEF SessionInv, LoginInOrder
<1>5. \A t \in token' : TokenInOrder(t)'
  BY DEF SessionInv, TokenInOrder
<1> QED
  BY <1>2, <1>3, <1>4, <1>5 DEF SessionInv

LEMMA LoginSteps ==
    ASSUME SessionInv, NEW n \in Logins,
           \/ LoadRoles(n) \/ LoadPermissions(n) \/ IssueToken(n) \/ LoginFails(n)
           \/ \E a \in Actors : StartLogin(n, a)
    PROVE  SessionInv'
<1>0. /\ UNCHANGED <<hour, user, shop, lastHeld, lastGood>>
      /\ login[n] \in LoginRow /\ LoginInOrder(n) /\ token \in SUBSET Token
      /\ user \in [Users -> UserRow] /\ HistoryInOrder /\ hour \in Hours
  BY DEF SessionInv, SessionTypeOK, LoadRoles, LoadPermissions, IssueToken, LoginFails, StartLogin
<1>1. NoLogin \in LoginRow /\ NoLogin.pc = "idle" /\ NoLogin.permissions = {}
  BY SeedAssumption DEF NoLogin, LoginRow, Actors
<1>2. ASSUME NEW w \in LoginRow, login' = [login EXCEPT ![n] = w], UNCHANGED token,
             login'[n] = w => LoginInOrder(n)'
      PROVE  SessionInv'
  BY <1>0, <1>2, LoginStep
<1>3. CASE LoadRoles(n)
  <2> DEFINE w == [login[n] EXCEPT !.pc = "permissions"]
  <2>1. /\ login' = [login EXCEPT ![n] = w] /\ UNCHANGED token /\ w \in LoginRow
        /\ w.pc = "permissions" /\ w.actor = login[n].actor /\ w.permissions = login[n].permissions
        /\ login[n].pc = "roles"
    BY <1>0, <1>3 DEF LoadRoles, LoginRow
  <2> HIDE DEF w
  <2>2. login'[n] = w => LoginInOrder(n)'
    BY <1>0, <2>1 DEF LoginInOrder
  <2> QED BY <1>2, <2>1, <2>2
<1>4. CASE LoadPermissions(n)
  <2> DEFINE u == login[n].actor
             w == [login[n] EXCEPT !.pc = "token", !.permissions = KeysOf(user[u])]
  <2>1. u \in Users /\ lastGood[u] = hour
    BY <1>0, <1>4 DEF LoadPermissions, LoginInOrder
  <2>2. KeysOf(user[u]) \subseteq Permissions
    BY <1>0, <2>1, KeysAreKnown
  <2>3. /\ login' = [login EXCEPT ![n] = w] /\ UNCHANGED token
    BY <1>4 DEF LoadPermissions
  <2>4. w \in LoginRow /\ w.pc = "token" /\ w.actor = u /\ w.permissions = KeysOf(user[u])
    BY <1>0, <2>2 DEF LoginRow
  <2>5. \A k \in KeysOf(user[u]) : lastHeld[u][k] = hour
    BY <1>0, <2>1, <2>2 DEF HistoryInOrder
  <2> HIDE DEF w, u
  <2>6. login'[n] = w => LoginInOrder(n)'
    BY <1>0, <2>1, <2>4, <2>5 DEF LoginInOrder
  <2> QED BY <1>2, <2>3, <2>4, <2>6
<1>5. CASE IssueToken(n)
  <2> DEFINE t == [actor |-> login[n].actor, permissions |-> login[n].permissions, at |-> hour]
  <2>1. token' = token \cup {t} /\ login' = [login EXCEPT ![n] = NoLogin] /\ login[n].pc = "token"
    BY <1>5 DEF IssueToken
  <2>2. /\ t \in Token /\ t.actor = login[n].actor /\ t.permissions = login[n].permissions
        /\ t.at = hour
    BY <1>0 DEF Token, LoginRow
  <2> HIDE DEF t
  <2>3. TokenInOrder(t)
    <3>1. lastGood[t.actor] = hour /\ \A k \in t.permissions : lastHeld[t.actor][k] = hour
      BY <1>0, <2>1, <2>2 DEF LoginInOrder
    <3>2. hour <= hour
      BY <1>0, SessionBounds DEF Hours
    <3> QED BY <1>0, <2>1, <2>2, <3>1, <3>2 DEF TokenInOrder, LoginInOrder
  <2>4. login'[n] = NoLogin => LoginInOrder(n)'
    BY <1>1 DEF LoginInOrder
  <2> QED BY <1>0, <1>1, <2>1, <2>2, <2>3, <2>4, LoginStep
<1>6. CASE LoginFails(n)
  BY <1>1, <1>2, <1>6 DEF LoginFails, LoginInOrder
<1>7. ASSUME NEW a \in Actors, StartLogin(n, a) PROVE SessionInv'
  <2> DEFINE w == [NoLogin EXCEPT !.pc = IF a \in Users THEN "roles" ELSE "token", !.actor = a]
  <2>1. /\ login' = [login EXCEPT ![n] = w] /\ UNCHANGED token /\ InGoodStanding(a)
    BY <1>7 DEF StartLogin
  <2>2. /\ w \in LoginRow /\ w.actor = a /\ w.permissions = {}
        /\ w.pc = IF a \in Users THEN "roles" ELSE "token"
    BY DEF NoLogin, LoginRow
  <2> HIDE DEF w
  <2>3. lastGood[a] = hour
    BY <1>0, <2>1 DEF HistoryInOrder
  <2>4. login'[n] = w => LoginInOrder(n)'
    BY <1>0, <2>2, <2>3 DEF LoginInOrder
  <2> QED BY <1>2, <2>1, <2>2, <2>4
<1> QED BY <1>3, <1>4, <1>5, <1>6, <1>7

\* What users do through their tokens, and the hours.
LEMMA NextSessions == SessionInv /\ [SessionNext]_sessionVars => SessionInv'
<1> SUFFICES ASSUME SessionInv, [SessionNext]_sessionVars PROVE SessionInv'
  OBVIOUS
<1>0. /\ user \in [Users -> UserRow] /\ shop \in [Shop -> BOOLEAN] /\ hour \in Hours
  BY DEF SessionInv, SessionTypeOK
<1>1. CASE HourPasses
  <2>1. hour' = hour + 1 /\ hour' \in Hours
    BY <1>0, <1>1, SessionBounds DEF HourPasses, Hours
  <2> QED BY <1>0, <1>1, <2>1, ObservedStep DEF HourPasses
<1>2. ASSUME NEW u \in Users, NEW row \in UserRow, user' = [user EXCEPT ![u] = row],
             UNCHANGED <<hour, shop, login, token>>, Observed
      PROVE  SessionInv'
  BY <1>0, <1>2, ObservedStep
<1>3. ASSUME NEW u \in Users, CreateUser(u) PROVE SessionInv'
  <2>1. [user[u] EXCEPT !.exists = TRUE] \in UserRow
    BY <1>0 DEF UserRow
  <2> QED BY <1>2, <1>3, <2>1 DEF CreateUser
<1>4. ASSUME NEW u \in Users, NEW active \in BOOLEAN, SetUserStatus(u, active) PROVE SessionInv'
  <2>1. [user[u] EXCEPT !.active = active] \in UserRow
    BY <1>0 DEF UserRow
  <2> QED BY <1>2, <1>4, <2>1 DEF SetUserStatus
<1>5. ASSUME NEW u \in Users, NEW r \in Roles, AssignUserRole(u, r) PROVE SessionInv'
  <2>1. [user[u] EXCEPT !.roles = user[u].roles \cup {r}] \in UserRow
    BY <1>0 DEF UserRow
  <2> QED BY <1>2, <1>5, <2>1 DEF AssignUserRole
<1>6. ASSUME NEW u \in Users, NEW r \in Roles, RemoveUserRole(u, r) PROVE SessionInv'
  <2>1. [user[u] EXCEPT !.roles = user[u].roles \ {r}] \in UserRow
    BY <1>0 DEF UserRow
  <2> QED BY <1>2, <1>6, <2>1 DEF RemoveUserRole
<1>7. ASSUME NEW yes \in BOOLEAN, SetMerchantStanding(yes) \/ SetStaffRow(yes) PROVE SessionInv'
  <2>1. shop' \in [Shop -> BOOLEAN] /\ UNCHANGED <<hour, user, login, token>> /\ Observed
    BY <1>0, <1>7 DEF SetMerchantStanding, SetStaffRow
  <2> QED BY <1>0, <2>1, ObservedStep
<1>8. CASE UNCHANGED sessionVars
  <2>1. SessionTypeOK' /\ HistoryInOrder'
    BY <1>8 DEF sessionVars, SessionInv, SessionTypeOK, HistoryInOrder, InGoodStanding, KeysOf
  <2>2. (\A n \in Logins : LoginInOrder(n)') /\ \A t \in token' : TokenInOrder(t)'
    BY <1>8 DEF sessionVars, SessionInv, LoginInOrder, TokenInOrder
  <2> QED BY <2>1, <2>2 DEF SessionInv
<1> QED
  BY <1>1, <1>3, <1>4, <1>5, <1>6, <1>7, <1>8, LoginSteps DEF SessionNext

\* RequireAuth and RequirePermission: a permission taken away, or an account suspended or
\* removed, opens nothing once the life of a token has passed, for any number of users,
\* roles, logins and tokens, and whatever their holders did with them until then.
THEOREM AccessEnds == SessionSpec => []AccessRunsOut
<1>1. SessionInv => AccessRunsOut
  <2> SUFFICES ASSUME SessionInv, NEW t \in token PROVE
        /\ OpensShop(t) => hour - lastGood[t.actor] <= MerchantLife
        /\ \A k \in Permissions : Opens(t, k) =>
             /\ hour - lastHeld[t.actor][k] <= UserLife
             /\ hour - lastGood[t.actor] <= UserLife
    BY DEF AccessRunsOut
  <2>1. TokenInOrder(t) /\ t \in Token /\ hour \in Hours /\ Hours \subseteq Nat
    BY SessionBounds DEF SessionInv, SessionTypeOK, Hours
  <2>2. t.at \in Nat /\ t.actor \in Actors /\ hour \in Nat /\ UserLife \in Nat /\ MerchantLife \in Nat
    BY <2>1, SessionBounds DEF Token
  <2>3. lastGood[t.actor] \in Nat /\ t.at <= lastGood[t.actor]
    BY <2>1, <2>2 DEF SessionInv, SessionTypeOK, TokenInOrder
  <2>4. ASSUME OpensShop(t) PROVE hour - lastGood[t.actor] <= MerchantLife
    <3>1. t.actor \notin Users /\ hour <= t.at + Life(t)
      BY <2>4, ActorsAssumption DEF OpensShop, Valid, Shop
    <3>2. hour <= t.at + MerchantLife
      BY <3>1 DEF Life
    <3> QED BY <2>2, <2>3, <3>2
  <2>5. ASSUME NEW k \in Permissions, Opens(t, k)
        PROVE  /\ hour - lastHeld[t.actor][k] <= UserLife
               /\ hour - lastGood[t.actor] <= UserLife
    <3>1. t.actor \in Users /\ k \in t.permissions /\ hour <= t.at + UserLife
      BY <2>5 DEF Opens, Valid, Life
    <3>2. lastHeld[t.actor][k] \in Nat /\ t.at <= lastHeld[t.actor][k]
      BY <2>1, <3>1 DEF SessionInv, SessionTypeOK, TokenInOrder
    <3> QED BY <2>2, <2>3, <3>1, <3>2
  <2> QED BY <2>4, <2>5
<1> QED BY <1>1, InitSessions, NextSessions, PTL DEF SessionSpec

-----------------------------------------------------------------------------
(* The payout account.                                                     *)

LEMMA InitPayout == PayoutInit => PayoutInv
BY DEF PayoutInit, PayoutInv, SaverInOrder, IdleSaver, Saver, Saving

\* What a step of one request does to the requests.
LEMMA SaverMoves ==
    ASSUME PayoutInv, NEW s \in Savers, NEW w, saver' = [saver EXCEPT ![s] = w]
    PROVE  /\ saver' = [v \in Savers |-> saver'[v]]
           /\ saver'[s] = w
           /\ \A v \in Savers : v # s => saver'[v] = saver[v]
BY DEF PayoutInv

\* Others beside a request that ends or writes are not alone.
LEMMA SaversInOrder ==
    ASSUME PayoutInv, NEW s \in Savers, ~Saving(s, "idle"),
           \A v \in Savers : v # s => saver'[v] = saver[v],
           NEW v \in Savers, v # s
    PROVE  SaverInOrder(v)'
<1>1. SaverInOrder(v) /\ saver'[v] = saver[v]
    BY DEF PayoutInv
<1>2. ~Saving(v, "idle") => ~saver[v].alone
    BY <1>1 DEF SaverInOrder, Saving
<1>3. saver[v] \in Saver
    BY <1>1 DEF SaverInOrder
<1> QED
    BY <1>1, <1>2, <1>3 DEF SaverInOrder, Saving, Saver, IdleSaver

LEMMA NextPayout == PayoutInv /\ [PayoutNext]_payoutVars => PayoutInv'
<1> SUFFICES ASSUME PayoutInv, [PayoutNext]_payoutVars PROVE PayoutInv'
    OBVIOUS
<1> USE SubaccountsAssumption
<1>1. CASE UNCHANGED payoutVars
    BY <1>1 DEF payoutVars, PayoutInv, SaverInOrder, Untouched, Saving
<1>2. ASSUME NEW s \in Savers, NEW a \in Destinations, StartSave(s, a) PROVE PayoutInv'
    <2>1. /\ Saving(s, "idle")
          /\ saver' = [v \in Savers |-> saver'[v]]
          /\ saver'[s] = [pc |-> "save", to |-> a, sub |-> 0, alone |-> Others(s) = {}]
          /\ \A v \in Savers : v # s =>
                saver'[v] = [saver[v] EXCEPT !.alone = @ /\ Saving(v, "idle")]
          /\ UNCHANGED <<payout, subcode, paystack, healed>>
        BY <1>2 DEF StartSave
    <2>2. ASSUME NEW v \in Savers, v # s
          PROVE  /\ SaverInOrder(v)'
                 /\ Untouched(v)' => saver[v].pc = "idle"
        <3>1. saver[v] \in Saver /\ SaverInOrder(v)
            BY DEF PayoutInv, SaverInOrder
        <3>2. CASE saver[v].pc = "idle"
            <4>1. saver[v] = IdleSaver
                BY <3>1, <3>2 DEF SaverInOrder
            <4>2. saver'[v] = [IdleSaver EXCEPT !.alone = TRUE]
                <5>1. (saver[v].alone /\ Saving(v, "idle")) = TRUE
                    BY <4>1 DEF IdleSaver, Saving
                <5>2. saver'[v] = [saver[v] EXCEPT !.alone = saver[v].alone /\ Saving(v, "idle")]
                    BY <2>1, <2>2
                <5> QED
                    BY <4>1, <5>1, <5>2, Zenon
            <4>3. saver'[v] = saver[v]
                BY <4>1, <4>2 DEF IdleSaver
            <4> QED
                BY <3>1, <3>2, <4>1, <4>3 DEF SaverInOrder, IdleSaver
        <3>3. CASE saver[v].pc # "idle"
            <4>1. /\ saver'[v].alone = FALSE /\ saver'[v].pc = saver[v].pc
                  /\ saver'[v].sub = saver[v].sub /\ saver'[v] \in Saver
                BY <2>1, <2>2, <3>1, <3>3 DEF Saving, Saver
            <4> QED
                BY <3>1, <3>3, <4>1 DEF SaverInOrder, Untouched, Saving
        <3> QED
            BY <3>2, <3>3
    <2>3. SaverInOrder(s)'
        <3>1. saver'[s] \in Saver /\ saver'[s].pc = "save"
            BY <2>1 DEF Saver
        <3>2. ASSUME saver'[s].alone, NEW v \in Savers, v # s PROVE saver'[v].pc = "idle"
            <4>1. Others(s) = {}
                <5> DEFINE only == Others(s) = {}
                <5>1. saver'[s] = [pc |-> "save", to |-> a, sub |-> 0, alone |-> only]
                    BY <2>1
                <5>2. only \in BOOLEAN
                    OBVIOUS
                <5> HIDE DEF only
                <5>3. only
                    BY <3>2, <5>1, <5>2
                <5> QED
                    BY <5>3 DEF only
            <4>2. saver[v].pc = "idle"
                BY <3>2, <4>1 DEF Others, Saving
            <4>3. saver[v] \in Saver
                BY DEF PayoutInv, SaverInOrder
            <4>4. saver'[v] = [saver[v] EXCEPT !.alone = @ /\ Saving(v, "idle")]
                BY <2>1, <3>2
            <4> QED
                BY <4>2, <4>3, <4>4 DEF Saver
        <3> QED
            BY <3>1, <3>2 DEF SaverInOrder, Saving
    <2>4. (\A v \in Savers : Untouched(v))' => \A v \in Savers : Untouched(v)
        BY <2>1, <2>2 DEF Untouched, Saving
    <2> QED
        BY <2>1, <2>2, <2>3, <2>4 DEF PayoutInv
<1>3. ASSUME NEW s \in Savers, Save(s) PROVE PayoutInv'
    <2>0. saver[s] \in Saver /\ SaverInOrder(s) /\ saver[s].pc = "save"
        BY <1>3 DEF PayoutInv, SaverInOrder, Save, Saving
    <2> DEFINE w == [saver[s] EXCEPT !.pc = "provision", !.sub = subcode]
    <2>1. saver' = [saver EXCEPT ![s] = w]
        BY <1>3, <2>0 DEF Save
    <2>2. w \in Saver /\ w.pc = "provision" /\ w.to = saver[s].to /\ w.alone = saver[s].alone
        BY <2>0 DEF Saver, PayoutInv
    <2> HIDE DEF w
    <2>3. /\ saver' = [v \in Savers |-> saver'[v]] /\ saver'[s] = w
          /\ \A v \in Savers : v # s => saver'[v] = saver[v]
        BY <2>1, SaverMoves
    <2>4. ASSUME NEW v \in Savers, v # s PROVE SaverInOrder(v)'
        BY <2>0, <2>3, <2>4, SaversInOrder DEF Saving
    <2>5. SaverInOrder(s)'
        BY <1>3, <2>0, <2>2, <2>3 DEF SaverInOrder, Saving, Save
    <2>6. ~Untouched(s)'
        BY <2>2, <2>3 DEF Untouched, Saving
    <2> QED
        BY <1>3, <2>3, <2>4, <2>5, <2>6 DEF PayoutInv, Save
<1>4. ASSUME NEW s \in Savers, Provision(s) PROVE PayoutInv'
    <2>0. saver[s] \in Saver /\ SaverInOrder(s) /\ saver[s].pc = "provision"
        BY <1>4 DEF PayoutInv, SaverInOrder, Provision, Saving
    <2>1. PICK c \in Subaccounts :
            /\ paystack' = [paystack EXCEPT ![c] = saver[s].to]
            /\ saver' = [saver EXCEPT ![s].pc = "record", ![s].sub = c]
        BY <1>4 DEF Provision
    <2> DEFINE w == [saver[s] EXCEPT !.pc = "record", !.sub = c]
    <2>2. saver' = [saver EXCEPT ![s] = w]
        BY <2>0, <2>1
    <2>3. /\ w \in Saver /\ w.pc = "record" /\ w.to = saver[s].to /\ w.alone = saver[s].alone
          /\ w.sub = c
        BY <2>0, <2>1 DEF Saver
    <2> HIDE DEF w
    <2>4. /\ saver' = [v \in Savers |-> saver'[v]] /\ saver'[s] = w
          /\ \A v \in Savers : v # s => saver'[v] = saver[v]
        BY <2>2, SaverMoves
    <2>5. ASSUME NEW v \in Savers, v # s PROVE SaverInOrder(v)'
        BY <2>0, <2>4, <2>5, SaversInOrder DEF Saving
    <2>6. /\ paystack'[c] = saver[s].to
          /\ paystack' \in [Subaccounts -> Destinations \cup {Nowhere}]
        BY <2>0, <2>1 DEF PayoutInv, Saver
    <2>7. SaverInOrder(s)'
        <3>1. w.alone => \A v \in Savers : v # s => Saving(v, "idle")'
            BY <2>0, <2>3, <2>4 DEF SaverInOrder, Saving
        <3>2. w.alone => payout' = w.to
            BY <1>4, <2>0, <2>3 DEF SaverInOrder, Provision
        <3>3. paystack'[w.sub] = w.to
            BY <2>3, <2>6
        <3> QED
            BY <2>3, <2>4, <3>1, <3>2, <3>3 DEF SaverInOrder
    <2>8. ~Untouched(s)'
        BY <2>3, <2>4 DEF Untouched, Saving
    <2> QED
        BY <1>4, <2>4, <2>5, <2>6, <2>7, <2>8 DEF PayoutInv, Provision
<1>5. ASSUME NEW s \in Savers, NEW well \in BOOLEAN, EndSave(s, well), ~Saving(s, "idle"),
             UNCHANGED payout,
             subcode' \in Subaccounts \cup {0},
             paystack' \in [Subaccounts -> Destinations \cup {Nowhere}],
             well /\ saver[s].alone /\ subcode' # 0 => paystack'[subcode'] = payout
      PROVE  PayoutInv'
    <2>1. /\ saver' = [v \in Savers |-> saver'[v]] /\ saver'[s] = IdleSaver
          /\ \A v \in Savers : v # s => saver'[v] = saver[v]
        BY <1>5, SaverMoves DEF EndSave
    <2>2. ASSUME NEW v \in Savers, v # s PROVE SaverInOrder(v)'
        BY <1>5, <2>1, <2>2, SaversInOrder
    <2>3. SaverInOrder(s)'
        BY <2>1 DEF SaverInOrder, IdleSaver, Saver
    <2>4. saver[s].alone \in BOOLEAN
        BY DEF PayoutInv, SaverInOrder, Saver
    <2>5. healed' = (well /\ saver[s].alone)
        BY <1>5 DEF EndSave
    <2> QED
        BY <1>5, <2>1, <2>2, <2>3, <2>4, <2>5 DEF PayoutInv
<1>6. ASSUME NEW s \in Savers, Record(s) PROVE PayoutInv'
    <2>1. /\ SaverInOrder(s) /\ saver[s].pc = "record" /\ EndSave(s, TRUE) /\ ~Saving(s, "idle")
          /\ subcode' = saver[s].sub /\ UNCHANGED <<payout, paystack>>
        BY <1>6 DEF PayoutInv, Record, Saving
    <2>2. saver[s].alone => paystack'[subcode'] = payout
        BY <2>1 DEF SaverInOrder
    <2>3. subcode' \in Subaccounts \cup {0} /\ paystack' \in [Subaccounts -> Destinations \cup {Nowhere}]
        BY <2>1 DEF SaverInOrder, PayoutInv
    <2> QED
        BY <1>5, <2>1, <2>2, <2>3
<1>7. ASSUME NEW s \in Savers, SaveFails(s) PROVE PayoutInv'
    <2>1. /\ SaverInOrder(s) /\ ~Saving(s, "idle") /\ UNCHANGED <<payout, subcode, paystack>>
          /\ subcode' \in Subaccounts \cup {0}
          /\ paystack' \in [Subaccounts -> Destinations \cup {Nowhere}]
        BY <1>7 DEF PayoutInv, SaveFails
    <2>2. CASE Saving(s, "save")
        <3>1. EndSave(s, healed) /\ healed \in BOOLEAN
            BY <1>7, <2>2 DEF SaveFails, PayoutInv
        <3>2. saver[s].alone => \A v \in Savers : Untouched(v)
            BY <2>1, <2>2 DEF SaverInOrder, Untouched, Saving
        <3>3. healed /\ saver[s].alone /\ subcode' # 0 => paystack'[subcode'] = payout
            BY <2>1, <3>2 DEF PayoutInv
        <3> QED
            BY <1>5, <2>1, <3>1, <3>3
    <2>3. CASE ~Saving(s, "save")
        <3>1. EndSave(s, FALSE)
            BY <1>7, <2>3 DEF SaveFails
        <3> QED
            BY <1>5, <2>1, <3>1
    <2> QED
        BY <2>2, <2>3
<1>8. ASSUME NEW s \in Savers, ProvisionAnswerLost(s) PROVE PayoutInv'
    <2>1. /\ ~Saving(s, "idle") /\ UNCHANGED <<payout, subcode>> /\ EndSave(s, FALSE)
          /\ saver[s] \in Saver /\ saver[s].pc = "provision"
          /\ \E c \in Subaccounts : paystack' = [paystack EXCEPT ![c] = saver[s].to]
        BY <1>8 DEF PayoutInv, SaverInOrder, ProvisionAnswerLost, Saving
    <2>2. subcode' \in Subaccounts \cup {0} /\ paystack' \in [Subaccounts -> Destinations \cup {Nowhere}]
        BY <2>1 DEF PayoutInv, Saver
    <2> QED
        BY <1>5, <2>1, <2>2
<1> QED
    BY <1>1, <1>2, <1>3, <1>4, <1>6, <1>7, <1>8 DEF PayoutNext

\* SetPayoutAccount: for any number of saves that race, fail or lose an answer, one that
\* ran alone and failed nowhere leaves split charges paying the current account.
THEOREM SplitPaysWhereSettlementsDo == PayoutSpec => []SplitPaysCurrentAccount
<1>1. PayoutInv => SplitPaysCurrentAccount
    BY DEF PayoutInv, SplitPaysCurrentAccount, Untouched
<1> QED
    BY <1>1, InitPayout, NextPayout, PTL DEF PayoutSpec

-----------------------------------------------------------------------------
(* Pickup locations.                                                       *)

LEMMA InitLocations == LocationInit => LocationInv
<1> SUFFICES ASSUME LocationInit PROVE LocationInv
  OBVIOUS
<1>1. place \in [Places -> Place] /\ Existing = {}
  BY DEF LocationInit, Place, NoPlace, Existing
<1>2. ASSUME NEW e \in Editors PROVE EditorInOrder(e)
  <2>1. editor[e] = IdleEditor
    BY DEF LocationInit
  <2> QED BY <2>1 DEF EditorInOrder, IdleEditor, Editor
<1>3. editor = [e \in Editors |-> editor[e]] /\ robbed = FALSE
  BY DEF LocationInit
<1> QED
  BY <1>1, <1>2, <1>3 DEF LocationInv

\* A request that has ended is in order, and about to set nothing.
LEMMA IdleEditorInOrder ==
    ASSUME NEW e \in Editors, editor'[e] = IdleEditor
    PROVE  EditorInOrder(e)' /\ ~AboutToSet(e)'
BY DEF EditorInOrder, AboutToSet, IdleEditor, Editor

\* The others stay in order, for no location is ever removed.
LEMMA EditorsInOrder ==
    ASSUME LocationInv, NEW e \in Editors, NEW w, editor' = [editor EXCEPT ![e] = w],
           Existing \subseteq Existing'
    PROVE  /\ editor' = [v \in Editors |-> editor'[v]]
           /\ editor'[e] = w
           /\ \A v \in Editors : v # e =>
                EditorInOrder(v)' /\ (AboutToSet(v)' <=> AboutToSet(v))
<1>1. /\ editor' = [v \in Editors |-> editor'[v]]
      /\ editor'[e] = w
      /\ \A v \in Editors : v # e => editor'[v] = editor[v]
  BY DEF LocationInv
<1>2. ASSUME NEW v \in Editors, v # e
      PROVE  EditorInOrder(v)' /\ (AboutToSet(v)' <=> AboutToSet(v))
  <2>1. EditorInOrder(v) /\ editor'[v] = editor[v]
    BY <1>1, <1>2 DEF LocationInv
  <2> QED BY <2>1 DEF EditorInOrder, AboutToSet
<1> QED BY <1>1, <1>2

LEMMA NextLocations == LocationInv /\ [LocationNext]_locationVars => LocationInv'
<1> SUFFICES ASSUME LocationInv, [LocationNext]_locationVars PROVE LocationInv'
  OBVIOUS
<1>1. CASE UNCHANGED locationVars
  BY <1>1 DEF locationVars, LocationInv, EditorInOrder, AboutToSet, Existing, Default
<1>2. ASSUME NEW e \in Editors, NEW asked \in BOOLEAN, StartCreate(e, asked)
      PROVE  LocationInv'
  <2> DEFINE m == MakeDefault(asked)
             w == [pc |-> IF m THEN "clear" ELSE "insert", place |-> "new", default |-> m]
  <2>1. /\ editor' = [editor EXCEPT ![e] = w] /\ editor[e].pc = "idle"
        /\ UNCHANGED <<place, robbed>>
    BY <1>2 DEF StartCreate, Editing
  <2>2. m \in BOOLEAN /\ (~m => Existing # {})
    BY DEF MakeDefault
  <2> HIDE DEF m
  <2>3. /\ w \in Editor /\ w.place = "new" /\ w.default = m
        /\ w.pc = IF m THEN "clear" ELSE "insert"
    BY <2>2 DEF Editor
  <2> HIDE DEF w
  <2>4. Existing' = Existing /\ Default' = Default
    BY <2>1 DEF Existing, Default
  <2>5. /\ editor' = [v \in Editors |-> editor'[v]]
        /\ editor'[e] = w
        /\ \A v \in Editors : v # e =>
             EditorInOrder(v)' /\ (AboutToSet(v)' <=> AboutToSet(v))
    BY <2>1, <2>4, EditorsInOrder
  <2>6. EditorInOrder(e)' /\ ~AboutToSet(e)
    BY <2>1, <2>2, <2>3, <2>4, <2>5 DEF EditorInOrder, AboutToSet
  <2> QED
    BY <2>1, <2>4, <2>5, <2>6 DEF LocationInv
<1>3. ASSUME NEW e \in Editors, NEW p \in Places, Insert(e, p) PROVE LocationInv'
  <2>1. /\ editor' = [editor EXCEPT ![e] = IdleEditor] /\ UNCHANGED robbed
        /\ editor[e].pc = "insert" /\ EditorInOrder(e) /\ p \notin Existing
    BY <1>3 DEF Insert, EndEdit, Editing, LocationInv, Existing
  <2>2. CASE editor[e].default /\ Default # {}
    <3>1. place' = place
      BY <1>3, <2>2 DEF Insert
    <3>2. Existing' = Existing /\ Default' = Default
      BY <3>1 DEF Existing, Default
    <3> QED
      BY <2>1, <2>2, <3>1, <3>2, EditorsInOrder, IdleEditorInOrder DEF LocationInv
  <2>3. CASE ~(editor[e].default /\ Default # {})
    <3>1. place' = [place EXCEPT ![p] = [status |-> "active", default |-> editor[e].default]]
      BY <1>3, <2>3 DEF Insert
    <3>2. /\ place' \in [Places -> Place] /\ place'[p].status = "active"
          /\ place'[p].default = editor[e].default
          /\ \A r \in Places : r # p => place'[r] = place[r]
      BY <2>1, <3>1 DEF LocationInv, Place, EditorInOrder, Editor
    <3>3. Existing' = Existing \cup {p} /\ Default \subseteq Default'
          /\ (editor[e].default => p \in Default')
      BY <2>1, <3>2 DEF Existing, Default
    <3>4. ~editor[e].default => Existing # {} /\ ~AboutToSet(e)
      BY <2>1 DEF EditorInOrder, AboutToSet
    <3>5. /\ editor' = [v \in Editors |-> editor'[v]]
          /\ editor'[e] = IdleEditor
          /\ \A v \in Editors : v # e =>
               EditorInOrder(v)' /\ (AboutToSet(v)' <=> AboutToSet(v))
      BY <2>1, <3>3, EditorsInOrder
    <3>6. EditorInOrder(e)' /\ ~AboutToSet(e)'
      BY <3>5, IdleEditorInOrder
    <3>7. ASSUME ~robbed', Default' = {} PROVE \E v \in Editors : AboutToSet(v)'
      <4>1. ~editor[e].default /\ Default = {} /\ ~robbed
        BY <2>1, <3>3, <3>7
      <4>2. PICK v \in Editors : AboutToSet(v)
        BY <3>4, <4>1 DEF LocationInv
      <4> QED BY <3>4, <3>5, <4>1, <4>2
    <3> QED
      BY <2>1, <3>2, <3>5, <3>6, <3>7 DEF LocationInv
  <2> QED BY <2>2, <2>3
<1>4. ASSUME NEW e \in Editors, NEW p \in Places \cup Foreign, StartSetDefault(e, p)
      PROVE  LocationInv'
  <2> DEFINE w == [pc |-> "clear", place |-> p, default |-> TRUE]
  <2>1. /\ editor' = [editor EXCEPT ![e] = w] /\ editor[e].pc = "idle"
        /\ UNCHANGED <<place, robbed>> /\ p \in Existing \cup Foreign
    BY <1>4 DEF StartSetDefault, Editing
  <2>2. Existing' = Existing /\ Default' = Default
    BY <2>1 DEF Existing, Default
  <2>3. /\ editor' = [v \in Editors |-> editor'[v]]
        /\ editor'[e] = w
        /\ \A v \in Editors : v # e =>
             EditorInOrder(v)' /\ (AboutToSet(v)' <=> AboutToSet(v))
    BY <2>1, <2>2, EditorsInOrder
  <2>4. EditorInOrder(e)' /\ ~AboutToSet(e)
    BY <2>1, <2>2, <2>3 DEF EditorInOrder, Editor, AboutToSet
  <2> QED
    BY <2>1, <2>2, <2>3, <2>4 DEF LocationInv
<1>5. ASSUME NEW e \in Editors, Clear(e) PROVE LocationInv'
  <2>1. EditorInOrder(e) /\ editor[e].pc = "clear" /\ editor[e].default = TRUE
    BY <1>5 DEF LocationInv, EditorInOrder, Editor, Clear, Editing
  <2> DEFINE w == [editor[e] EXCEPT !.pc = IF editor[e].place = "new" THEN "insert" ELSE "set"]
  <2>2. editor' = [editor EXCEPT ![e] = w] /\ UNCHANGED robbed
    BY <1>5 DEF Clear
  <2>3. /\ w \in Editor /\ w.place = editor[e].place /\ w.default = TRUE
        /\ w.pc = IF w.place = "new" THEN "insert" ELSE "set"
    BY <2>1 DEF EditorInOrder, Editor
  <2> HIDE DEF w
  <2>4. /\ place' = [p \in Places |-> [place[p] EXCEPT !.default = FALSE]]
        /\ place' \in [Places -> Place] /\ Existing' = Existing
    BY <1>5 DEF Clear, LocationInv, Place, Existing
  <2>5. /\ editor' = [v \in Editors |-> editor'[v]]
        /\ editor'[e] = w
        /\ \A v \in Editors : v # e => EditorInOrder(v)'
    BY <2>2, <2>4, EditorsInOrder
  <2>6. EditorInOrder(e)' /\ AboutToSet(e)'
    BY <2>1, <2>3, <2>4, <2>5 DEF EditorInOrder, AboutToSet
  <2> QED
    BY <2>2, <2>4, <2>5, <2>6 DEF LocationInv
<1>6. ASSUME NEW e \in Editors, SetDefault(e) PROVE LocationInv'
  <2> DEFINE p == editor[e].place
  <2>1. /\ editor' = [editor EXCEPT ![e] = IdleEditor] /\ editor[e].pc = "set"
        /\ p \in Existing \cup Foreign
        /\ IF p \in Foreign
             THEN robbed' = TRUE /\ UNCHANGED place
             ELSE /\ place' = IF Default \subseteq {p} THEN [place EXCEPT ![p].default = TRUE]
                              ELSE place
                  /\ UNCHANGED robbed
    BY <1>6 DEF SetDefault, EndEdit, Editing, LocationInv, EditorInOrder
  <2> HIDE DEF p
  <2>2. /\ place' \in [Places -> Place] /\ Existing' = Existing
        /\ ~robbed' => robbed' = FALSE /\ Default' # {}
    <3>1. CASE p \in Foreign
      BY <2>1, <3>1 DEF LocationInv, Existing, Default
    <3>2. CASE p \notin Foreign /\ Default \subseteq {p}
      <4>1. /\ p \in Existing /\ UNCHANGED robbed
            /\ place' = [place EXCEPT ![p] = [place[p] EXCEPT !.default = TRUE]]
        BY <2>1, <3>2
      <4>2. /\ place' \in [Places -> Place] /\ place'[p].default = TRUE
            /\ place'[p].status = place[p].status
            /\ \A r \in Places : r # p => place'[r] = place[r]
        BY <4>1 DEF LocationInv, Place, Existing
      <4> QED
        BY <4>1, <4>2 DEF LocationInv, Existing, Default
    <3>3. CASE p \notin Foreign /\ ~(Default \subseteq {p})
      BY <2>1, <3>3 DEF LocationInv, Existing, Default
    <3> QED BY <3>1, <3>2, <3>3
  <2>3. /\ editor' = [v \in Editors |-> editor'[v]]
        /\ editor'[e] = IdleEditor
        /\ \A v \in Editors : v # e => EditorInOrder(v)'
    BY <2>1, <2>2, EditorsInOrder
  <2>4. EditorInOrder(e)'
    BY <2>3, IdleEditorInOrder
  <2>5. robbed' \in BOOLEAN
    BY <2>1 DEF LocationInv
  <2> QED
    BY <2>2, <2>3, <2>4, <2>5 DEF LocationInv
<1>7. ASSUME NEW p \in Places, NEW status \in {"active", "inactive"}, UpdateLocation(p, status)
      PROVE  LocationInv'
  <2>1. /\ UNCHANGED <<editor, robbed>> /\ p \in Existing
        /\ place' \in [Places -> Place]
        /\ place'[p].default = place[p].default /\ place'[p].status # "absent"
        /\ \A r \in Places : r # p => place'[r] = place[r]
    BY <1>7 DEF UpdateLocation, LocationInv, Place, Existing
  <2>2. Existing' = Existing /\ Default' = Default
    BY <2>1 DEF Existing, Default
  <2> QED
    BY <2>1, <2>2 DEF LocationInv, EditorInOrder, AboutToSet
<1>8. ASSUME NEW e \in Editors, EditFails(e) PROVE LocationInv'
  <2>1. /\ editor' = [editor EXCEPT ![e] = IdleEditor] /\ UNCHANGED place
        /\ robbed' = (robbed \/ (editor[e].default /\ editor[e].pc # "clear"))
        /\ editor[e].pc # "idle"
    BY <1>8 DEF EditFails, EndEdit, Editing
  <2>2. Existing' = Existing /\ Default' = Default
    BY <2>1 DEF Existing, Default
  <2>3. /\ editor' = [v \in Editors |-> editor'[v]]
        /\ editor'[e] = IdleEditor
        /\ \A v \in Editors : v # e =>
             EditorInOrder(v)' /\ (AboutToSet(v)' <=> AboutToSet(v))
    BY <2>1, <2>2, EditorsInOrder
  <2>4. EditorInOrder(e)'
    BY <2>3, IdleEditorInOrder
  <2>5. robbed' \in BOOLEAN
    BY <2>1, Zenon
  <2>6. ~robbed' => ~robbed /\ ~(editor[e].default /\ editor[e].pc # "clear")
    BY <2>1, Zenon
  <2>7. ~robbed' => ~AboutToSet(e)
    BY <2>6 DEF AboutToSet
  <2>8. ASSUME ~robbed', Existing' # {}, Default' = {} PROVE \E v \in Editors : AboutToSet(v)'
    <3>1. PICK v \in Editors : AboutToSet(v)
      BY <2>2, <2>6, <2>8 DEF LocationInv
    <3> QED BY <2>3, <2>7, <2>8, <3>1
  <2> QED
    BY <2>1, <2>2, <2>3, <2>4, <2>5, <2>8 DEF LocationInv
<1> QED
  BY <1>1, <1>2, <1>3, <1>4, <1>5, <1>6, <1>7, <1>8 DEF LocationNext

\* CreateMerchantLocation and SetDefaultMerchantLocation: however many requests
\* interleave, a merchant with locations is left with a default unless one of them ended
\* between clearing the old default and setting the new.
THEOREM DefaultIsThere == LocationSpec => []DefaultSurvivesRaces
<1>1. LocationInv => DefaultSurvivesRaces
  BY DEF LocationInv, DefaultSurvivesRaces, AboutToSet, Editing
<1> QED
  BY <1>1, InitLocations, NextLocations, PTL DEF LocationSpec

-----------------------------------------------------------------------------
(* Risk flags.                                                             *)

LEMMA InitRisk == RiskInit => RiskInv
BY DEF RiskInit, RiskInv, VerdictInOrder, NoVerdict, OpenFlags

\* A step that takes no reviewer's flag away, and leaves closed ones closed.
LEMMA VerdictsInOrder ==
    ASSUME RiskInv, verdict' = verdict,
           DOMAIN flag \subseteq DOMAIN flag', \A n \in DOMAIN flag : flag'[n] = flag[n],
           clashed' = clashed
    PROVE  verdict' = [v \in Reviewers |-> verdict'[v]] /\ \A v \in Reviewers : VerdictInOrder(v)'
BY DEF RiskInv, VerdictInOrder

\* What a step keeps: the invariant, and verdicts that nobody clashed over.
RiskKept == RiskInv' /\ \A n \in DOMAIN flag \ clashed : flag[n].status # "open" => flag'[n] = flag[n]

LEMMA NextRisk == RiskInv /\ [RiskNext]_riskVars => RiskKept
<1> SUFFICES ASSUME RiskInv, [RiskNext]_riskVars PROVE RiskKept
  OBVIOUS
<1>0. DOMAIN flag = 1..Len(flag) /\ Len(flag) \in Nat /\ \A n \in DOMAIN flag : flag[n] \in FlagRow
  BY DEF RiskInv
<1>1. CASE UNCHANGED <<flag, verdict, clashed>>
  BY <1>1 DEF RiskKept, RiskInv, VerdictInOrder, OpenFlags
<1>2. ASSUME NEW s \in Scanners, NEW f \in Findings, CreateRiskFlag(s, f) PROVE RiskKept
  <2>0. UNCHANGED <<verdict, clashed>>
    BY <1>2 DEF CreateRiskFlag
  <2>1. CASE OpenFlags(f) # {}
    BY <1>1, <1>2, <2>0, <2>1 DEF CreateRiskFlag
  <2>2. CASE OpenFlags(f) = {}
    <3> DEFINE row == [finding |-> f, status |-> "open"]
    <3>1. flag' = Append(flag, row) /\ row \in FlagRow
      BY <1>2, <2>2 DEF CreateRiskFlag, FlagRow
    <3>2. row.finding = f
      OBVIOUS
    <3> HIDE DEF row
    <3>3. /\ flag' \in Seq(FlagRow) /\ DOMAIN flag' = DOMAIN flag \cup {Len(flag) + 1}
          /\ \A n \in DOMAIN flag : flag'[n] = flag[n]
          /\ flag'[Len(flag) + 1] = row
      BY <1>0, <3>1 DEF RiskInv
    <3>4. ASSUME NEW g \in Findings, NEW m \in OpenFlags(g)', NEW n \in OpenFlags(g)' PROVE m = n
      <4>1. CASE g = f
        BY <2>2, <3>3, <3>4, <4>1 DEF OpenFlags
      <4>2. CASE g # f
        <5>1. m \in OpenFlags(g) /\ n \in OpenFlags(g)
          BY <3>2, <3>3, <3>4, <4>2 DEF OpenFlags
        <5> QED BY <5>1 DEF RiskInv
      <4> QED BY <4>1, <4>2
    <3>5. verdict' = [v \in Reviewers |-> verdict'[v]] /\ \A v \in Reviewers : VerdictInOrder(v)'
      BY <2>0, <3>3, VerdictsInOrder
    <3> QED
      BY <3>3, <3>4, <3>5 DEF RiskKept, RiskInv
  <2> QED BY <2>1, <2>2
<1>3. ASSUME NEW v \in Reviewers, NEW n \in DOMAIN flag, NEW status \in {"dismissed", "escalated"},
             StartVerdict(v, n, status)
      PROVE  RiskKept
  <2>1. /\ flag[n].status = "open" /\ UNCHANGED <<flag, clashed>>
        /\ verdict' = [verdict EXCEPT ![v] = [flag |-> n, status |-> status]]
    BY <1>3 DEF StartVerdict
  <2>2. /\ verdict' = [u \in Reviewers |-> verdict'[u]]
        /\ verdict'[v] = [flag |-> n, status |-> status]
        /\ \A u \in Reviewers : u # v => verdict'[u] = verdict[u]
    BY <2>1 DEF RiskInv
  <2>3. \A u \in Reviewers : VerdictInOrder(u)'
    BY <2>1, <2>2 DEF RiskInv, VerdictInOrder
  <2>4. \A g \in Findings : OpenFlags(g)' = OpenFlags(g)
    BY <2>1 DEF OpenFlags
  <2> QED
    BY <2>1, <2>2, <2>3, <2>4 DEF RiskKept, RiskInv
<1>4. ASSUME NEW v \in Reviewers, ResolveFlag(v) PROVE RiskKept
  <2> DEFINE n == verdict[v].flag
             others == {u \in Reviewers \ {v} : verdict[u].flag = n}
  <2>1. /\ n \in DOMAIN flag /\ verdict[v].status \in {"dismissed", "escalated"}
        /\ flag[n].status # "open" => n \in clashed
        /\ flag' = [flag EXCEPT ![n] = [flag[n] EXCEPT !.status = verdict[v].status]]
        /\ verdict' = [verdict EXCEPT ![v] = NoVerdict]
        /\ clashed' = clashed \cup {verdict[u].flag : u \in others}
    BY <1>4 DEF ResolveFlag, RiskInv, VerdictInOrder
  <2>2. /\ flag' \in Seq(FlagRow) /\ DOMAIN flag' = DOMAIN flag
        /\ flag'[n].finding = flag[n].finding /\ flag'[n].status # "open"
        /\ \A m \in DOMAIN flag : m # n => flag'[m] = flag[m]
    BY <1>0, <2>1 DEF FlagRow, RiskInv
  <2>3. /\ verdict' = [u \in Reviewers |-> verdict'[u]] /\ verdict'[v] = NoVerdict
        /\ \A u \in Reviewers : u # v => verdict'[u] = verdict[u]
    BY <2>1 DEF RiskInv
  <2>4. ASSUME NEW u \in Reviewers PROVE VerdictInOrder(u)'
    <3>1. CASE u = v
      BY <2>3, <3>1 DEF VerdictInOrder, NoVerdict
    <3>2. CASE u # v
      <4>1. VerdictInOrder(u) /\ verdict'[u] = verdict[u]
        BY <2>3, <3>2 DEF RiskInv
      <4>2. CASE verdict[u].flag = n
        <5>1. u \in others
          BY <3>2, <4>2
        <5>2. verdict[u].flag \in clashed'
          BY <2>1, <5>1
        <5> QED BY <2>2, <4>1, <5>2 DEF VerdictInOrder
      <4>3. CASE verdict[u].flag # n
        BY <2>1, <2>2, <4>1, <4>3 DEF VerdictInOrder
      <4> QED BY <4>2, <4>3
    <3> QED BY <3>1, <3>2
  <2>5. \A g \in Findings : OpenFlags(g)' \subseteq OpenFlags(g)
    BY <2>1, <2>2 DEF OpenFlags
  <2>6. \A m \in DOMAIN flag \ clashed : flag[m].status # "open" => flag'[m] = flag[m]
    BY <2>1, <2>2
  <2> HIDE DEF n, others
  <2>7. \A g \in Findings : \A m, k \in OpenFlags(g)' : m = k
    BY <2>5 DEF RiskInv
  <2> QED
    BY <2>2, <2>3, <2>4, <2>6, <2>7 DEF RiskKept, RiskInv
<1>5. ASSUME NEW v \in Reviewers, VerdictFails(v) PROVE RiskKept
  <2>1. UNCHANGED <<flag, clashed>> /\ verdict' = [verdict EXCEPT ![v] = NoVerdict]
    BY <1>5 DEF VerdictFails
  <2>2. /\ verdict' = [u \in Reviewers |-> verdict'[u]] /\ verdict'[v] = NoVerdict
        /\ \A u \in Reviewers : u # v => verdict'[u] = verdict[u]
    BY <2>1 DEF RiskInv
  <2>3. \A u \in Reviewers : VerdictInOrder(u)'
    BY <2>1, <2>2 DEF RiskInv, VerdictInOrder, NoVerdict
  <2>4. \A g \in Findings : OpenFlags(g)' = OpenFlags(g)
    BY <2>1 DEF OpenFlags
  <2> QED
    BY <2>1, <2>2, <2>3, <2>4 DEF RiskKept, RiskInv
<1> QED
  BY <1>1, <1>2, <1>3, <1>4, <1>5
     DEF RiskNext, riskVars, FindingAppears, FindingFades, StartScan, ScanFails

\* A set with no two members has one at most.
LEMMA AtMostOne ==
    ASSUME NEW S, \A m, n \in S : m = n
    PROVE  Cardinality(S) <= 1
<1>1. CASE S = {}
  BY <1>1, FS_EmptySet
<1>2. CASE S # {}
  <2>1. PICK m : S = {m}
    BY <1>2
  <2>2. Cardinality({m}) = 1
    BY FS_Singleton
  <2> QED BY <2>1, <2>2
<1> QED BY <1>1, <1>2

\* RunRiskScan and ResolveRiskFlag: a verdict stands unless reviewers who had read the
\* flag before it overturn it, and no scan, however many race, adds a second open flag
\* of a finding.
THEOREM ScansAndVerdicts == RiskSpec => VerdictsStand
<1>1. ASSUME RiskInv, [RiskNext]_riskVars
      PROVE  [/\ \A n \in DOMAIN flag \ clashed : flag[n].status # "open" => flag'[n] = flag[n]
              /\ \A f \in Findings : Cardinality(OpenFlags(f)') <= 1]_riskVars
  <2>1. RiskKept
    BY <1>1, NextRisk
  <2>2. ASSUME NEW f \in Findings PROVE Cardinality(OpenFlags(f)') <= 1
    <3>1. \A m, n \in OpenFlags(f)' : m = n
      BY <2>1 DEF RiskKept, RiskInv
    <3> QED BY <3>1, AtMostOne
  <2> QED BY <2>1, <2>2 DEF RiskKept
<1>2. RiskInv /\ [RiskNext]_riskVars => RiskInv'
  BY NextRisk DEF RiskKept
<1> QED
  BY <1>1, <1>2, InitRisk, PTL DEF RiskSpec, VerdictsStand
=============================================================================
