--------------------------- MODULE PaymentsProofs ---------------------------
(***************************************************************************)
(* Proofs about Payments, for any number of invoices, references, workers  *)
(* and faults, and for any caps and deposits.                              *)
(***************************************************************************)
EXTENDS Payments, SumLemmas, TLAPS

USE InvoicesAssumption, RefsAssumption, TotalAssumption, LastDayAssumption,
    DepositsAssumption, MaxFaultsAssumption

CreditPC == {"mark", "total", "roll", "announce"}

\* The defaults are rows, transactions and requests like any other.
LEMMA DefaultsTyped ==
    /\ NoRow \in PaymentRow
    /\ NoTransaction \in Transaction
    /\ Idle \in Request
BY DEF NoRow, PaymentRow, PaymentStatus, NoTransaction, Transaction,
       Idle, Request, PC, InvoiceStatus

LEMMA InitTyped == Init => TypeOK
BY DefaultsTyped DEF Init, TypeOK, LedgerTypeOK, InvoiceStatus

LEMMA InitInv == Init => CreditInv
<1> SUFFICES ASSUME Init PROVE CreditInv
    OBVIOUS
<1>1. TypeOK
    BY InitTyped
<1>2. \A w \in Workers : worker[w].pc = "idle"
    BY DEF Init, Idle
<1>3. \A r \in Refs : payment[r].status = "absent" /\ provider[r].state = "none"
    BY DEF Init, NoRow, NoTransaction
<1>4. Successful = {}
    BY <1>3 DEF Successful
<1>5. PaidIsCovered /\ unacked = {} /\ named = {}
    BY DEF Init, PaidIsCovered
<1>6. RequestsMatchRows /\ ReferencesAreUnique
    BY <1>2 DEF RequestsMatchRows, RequestMatches, ReferencesAreUnique, CreditPC, At
<1>7. RowsMatchTransactions /\ CreditsAreRealMoney /\ AckedChargeIsCredited
    BY <1>3, <1>4 DEF RowsMatchTransactions, CreditsAreRealMoney, AckedChargeIsCredited, Charged
<1> QED
    BY <1>1, <1>5, <1>6, <1>7 DEF CreditInv

\* What Goto, Return and Answer do to a request.
LEMMA ReturnTyped ==
    ASSUME TypeOK, NEW w \in Workers, Return(w)
    PROVE  worker' \in [Workers -> Request]
BY DefaultsTyped DEF TypeOK, Return

LEMMA GotoTyped ==
    ASSUME TypeOK, NEW w \in Workers, NEW pc \in PC, Goto(w, pc)
    PROVE  worker' \in [Workers -> Request]
<1>1. worker \in [Workers -> Request] /\ worker[w] \in Request
    BY DEF TypeOK
<1>2. [worker[w] EXCEPT !.pc = pc] \in Request
    BY <1>1 DEF Request
<1>3. worker' = [worker EXCEPT ![w] = [worker[w] EXCEPT !.pc = pc]]
    BY <1>1 DEF Goto
<1> QED
    BY <1>1, <1>2, <1>3

LEMMA AnswerTyped ==
    ASSUME TypeOK, NEW w \in Workers, Answer(w)
    PROVE  worker' \in [Workers -> Request] /\ unacked' \subseteq Refs
BY ReturnTyped DEF TypeOK, Answer

LEMMA WorkerFields ==
    ASSUME TypeOK, NEW w \in Workers
    PROVE  /\ worker[w] \in Request
           /\ worker[w].pc \in PC
           /\ worker[w].invoice \in Invoices
           /\ worker[w].ref \in Refs
           /\ worker[w].amount \in Nat
           /\ worker[w].status \in InvoiceStatus
           /\ worker[w].saw \in SUBSET Refs
BY DEF TypeOK, Request

LEMMA RowFields ==
    ASSUME TypeOK, NEW r \in Refs
    PROVE  /\ payment[r] \in PaymentRow
           /\ payment[r].invoice \in Invoices
           /\ payment[r].amount \in Nat
           /\ payment[r].status \in PaymentStatus
           /\ provider[r] \in Transaction
BY DEF TypeOK, LedgerTypeOK, PaymentRow

\* GetMerchantVolume of payments whose amounts a step leaves alone.
LEMMA VolumeKept ==
    ASSUME NEW S \in SUBSET Refs, \A r \in S : payment'[r].amount = payment[r].amount
    PROVE  SumFunctionOnSet([r \in Refs |-> payment'[r].amount], S) = Volume(S)
<1> DEFINE f == [r \in Refs |-> payment[r].amount]
           e == [r \in Refs |-> payment'[r].amount]
<1>1. IsFiniteSet(S) /\ \A r \in S : e[r] = f[r]
    BY FS_Subset
<1> HIDE DEF e, f
<1>2. SumFunctionOnSet(e, S) = SumFunctionOnSet(f, S)
    BY <1>1, SumEqual
<1> QED
    BY <1>2 DEF Volume, e, f

LEMMA VolumeIsNat ==
    ASSUME TypeOK, NEW S \in SUBSET Refs
    PROVE  Volume(S) \in Nat
<1> DEFINE f == [r \in Refs |-> payment[r].amount]
<1>1. IsFiniteSet(S) /\ \A r \in S : f[r] \in Nat
    BY FS_Subset, RowFields
<1> HIDE DEF f
<1>2. SumFunctionOnSet(f, S) \in Nat
    BY <1>1, SumIsNat
<1> QED
    BY <1>2 DEF Volume, f

LEMMA VolumeWith ==
    ASSUME TypeOK, NEW S \in SUBSET Refs, NEW r \in Refs \ S
    PROVE  Volume(S \cup {r}) = Volume(S) + payment[r].amount
<1> DEFINE f == [p \in Refs |-> payment[p].amount]
<1>1. IsFiniteSet(S) /\ \A p \in S \cup {r} : f[p] \in Int
    BY FS_Subset, RowFields
<1>2. f[r] = payment[r].amount
    OBVIOUS
<1> HIDE DEF f
<1>3. SumFunctionOnSet(f, S \cup {r}) = SumFunctionOnSet(f, S) + f[r]
    BY <1>1, SumAdd
<1> QED
    BY <1>2, <1>3 DEF Volume, f

LEMMA VolumeOfPart ==
    ASSUME TypeOK, NEW S \in SUBSET Refs, NEW T \in SUBSET S
    PROVE  Volume(T) <= Volume(S)
<1> DEFINE f == [p \in Refs |-> payment[p].amount]
<1>1. IsFiniteSet(S) /\ \A p \in S : f[p] \in Nat
    BY FS_Subset, RowFields
<1> HIDE DEF f
<1>2. SumFunctionOnSet(f, T) <= SumFunctionOnSet(f, S)
    BY <1>1, SumPart
<1> QED
    BY <1>2 DEF Volume, f

\* SumSuccessfulPaymentsByInvoice never falls while successes stay and keep their amounts.
LEMMA CollectedGrows ==
    ASSUME TypeOK, TypeOK', NEW i \in Invoices,
           \A r \in Successful :
               /\ r \in Successful'
               /\ payment'[r].invoice = payment[r].invoice
               /\ payment'[r].amount = payment[r].amount
    PROVE  Collected(i) >= Total[i] => Collected(i)' >= Total[i]
<1> DEFINE e == [r \in Refs |-> payment'[r].amount]
           S == SuccessfulOn(i)
           T == SuccessfulOn(i)'
<1>1. S \in SUBSET Refs /\ T \in SUBSET Refs /\ S \subseteq T
    BY DEF SuccessfulOn, Successful
<1>2. \A r \in S : payment'[r].amount = payment[r].amount
    BY DEF SuccessfulOn
<1>3. SumFunctionOnSet(e, S) = Volume(S)
    BY ONLY <1>1, <1>2, VolumeKept
<1>4. IsFiniteSet(S) /\ IsFiniteSet(T) /\ \A r \in T : e[r] \in Nat
    BY <1>1, FS_Subset DEF TypeOK, LedgerTypeOK, PaymentRow
<1>5. Collected(i) = Volume(S) /\ Collected(i)' = SumFunctionOnSet(e, T)
    BY DEF Collected, Volume
<1> HIDE DEF e, S, T
<1>6. /\ SumFunctionOnSet(e, S) <= SumFunctionOnSet(e, T)
      /\ SumFunctionOnSet(e, S) \in Nat /\ SumFunctionOnSet(e, T) \in Nat
    BY <1>1, <1>4, SumPart, SumIsNat
<1> QED
    BY <1>3, <1>5, <1>6, TotalAssumption

LEMMA CollectedKept ==
    ASSUME UNCHANGED payment, NEW i
    PROVE  Collected(i)' = Collected(i)
BY DEF Collected, Volume, SuccessfulOn, Successful

LEMMA UnrolledTyped ==
    ASSUME TypeOK, NEW W \in SUBSET Workers
    PROVE  Unrolled(W) \subseteq Invoices
BY WorkerFields DEF Unrolled

LEMMA OwedTyped ==
    ASSUME TypeOK, NEW i \in Invoices
    PROVE  Owed(i) \in Nat /\ Collected(i) \in Nat /\ Total[i] \in Nat
<1>1. SuccessfulOn(i) \in SUBSET Refs
    BY DEF SuccessfulOn, Successful
<1>2. Collected(i) \in Nat
    BY <1>1, VolumeIsNat DEF Collected
<1> QED
    BY <1>2 DEF Owed

-----------------------------------------------------------------------------
(* Type correctness.                                                       *)

LEMMA NextTyped == TypeOK /\ [Next]_vars => TypeOK'
<1> SUFFICES ASSUME TypeOK, [Next]_vars PROVE TypeOK'
    OBVIOUS
<1> USE DEF PC
<1>1. ASSUME NEW w \in Workers, NEW i \in Invoices, StartCheckout(w, i) \/ StartUssd(w, i)
      PROVE TypeOK'
  <2>1. PICK op \in {"checkout", "ussd"} : StartPayment(w, i, op)
    BY <1>1 DEF StartCheckout, StartUssd
  <2>2. [Idle EXCEPT !.pc = "balance", !.op = op, !.invoice = i] \in Request
    BY DefaultsTyped DEF Request
  <2> QED
    BY <2>1, <2>2 DEF StartPayment, TypeOK, LedgerTypeOK, ledgerVars
<1>2. ASSUME NEW w \in Workers, ReadBalance(w) PROVE TypeOK'
  <2>1. worker[w] \in Request /\ Owed(worker[w].invoice) \in Nat
    BY OwedTyped DEF TypeOK, Request
  <2>2. Successful \in SUBSET Refs
    BY DEF Successful
  <2>3. CASE Return(w)
    BY <1>2, <2>3, ReturnTyped DEF ReadBalance, TypeOK, LedgerTypeOK, ledgerVars
  <2>4. ASSUME NEW amt \in Nat,
               worker' = [worker EXCEPT ![w].pc = "limit", ![w].amount = amt,
                                        ![w].saw = Successful]
        PROVE TypeOK'
    <3>1. [worker[w] EXCEPT !.pc = "limit", !.amount = amt, !.saw = Successful] \in Request
      BY <2>1, <2>2 DEF Request
    <3>2. worker' \in [Workers -> Request]
      BY <2>4, <3>1 DEF TypeOK
    <3> QED
      BY <1>2, <3>2 DEF ReadBalance, TypeOK, LedgerTypeOK, ledgerVars
  <2> QED
    BY <1>2, <2>1, <2>3, <2>4 DEF ReadBalance
<1>3. ASSUME NEW w \in Workers, CheckTierLimit(w) PROVE TypeOK'
    BY <1>3, ReturnTyped, GotoTyped DEF CheckTierLimit, TypeOK, LedgerTypeOK, ledgerVars
<1>4. ASSUME NEW w \in Workers, OpenTransaction(w) PROVE TypeOK'
  <2>1. PICK r \in Refs :
          /\ provider' = [provider EXCEPT ![r] =
               [state   |-> IF worker[w].op = "ussd" THEN "payable" ELSE "initialized",
                channel |-> IF worker[w].op = "ussd" THEN "hubtel" ELSE "paystack",
                invoice |-> worker[w].invoice, amount |-> worker[w].amount]]
          /\ worker' = [worker EXCEPT ![w].pc = "insert", ![w].ref = r]
          /\ saw' = [saw EXCEPT ![r] = worker[w].saw]
    BY <1>4 DEF OpenTransaction
  <2>2. worker[w] \in Request
    BY DEF TypeOK
  <2>3. [worker[w] EXCEPT !.pc = "insert", !.ref = r] \in Request
    BY <2>2 DEF Request
  <2>4. worker' \in [Workers -> Request]
    BY <2>1, <2>3 DEF TypeOK
  <2>5. worker[w].invoice \in Invoices /\ worker[w].amount \in Nat /\ worker[w].saw \in SUBSET Refs
    BY <2>2 DEF Request
  <2>6. provider' \in [Refs -> Transaction]
    BY <2>1, <2>5 DEF TypeOK, Transaction
  <2>7. saw' \in [Refs -> SUBSET Refs]
    BY <2>1, <2>5 DEF TypeOK
  <2> QED
    BY <1>4, <2>4, <2>6, <2>7 DEF OpenTransaction, TypeOK, LedgerTypeOK, ledgerVars
<1>5. ASSUME NEW w \in Workers, ProviderRefuses(w) PROVE TypeOK'
    BY <1>5, ReturnTyped DEF ProviderRefuses, TypeOK, LedgerTypeOK, ledgerVars
<1>6. ASSUME NEW w \in Workers, RecordAttempt(w) PROVE TypeOK'
  <2> DEFINE r == worker[w].ref
             row == PendingRow(worker[w].invoice, worker[w].amount, FALSE)
             tx == [provider[r] EXCEPT !.state = IF @ = "initialized" THEN "payable" ELSE @]
  <2>1. row \in PaymentRow
    BY DefaultsTyped, WorkerFields DEF PendingRow, PaymentRow, PaymentStatus
  <2>2. tx \in Transaction
    BY WorkerFields, RowFields DEF Transaction
  <2>3. payment' = [payment EXCEPT ![r] = row] /\ provider' = [provider EXCEPT ![r] = tx]
    BY <1>6 DEF RecordAttempt
  <2>4. payment' \in [Refs -> PaymentRow] /\ provider' \in [Refs -> Transaction]
    BY <2>1, <2>2, <2>3 DEF TypeOK, LedgerTypeOK
  <2> QED
    BY <1>6, <2>4, ReturnTyped DEF RecordAttempt, TypeOK, LedgerTypeOK
<1>7. ASSUME NEW w \in Workers, AskPaystack(w) PROVE TypeOK'
    BY <1>7, ReturnTyped, GotoTyped DEF AskPaystack, TypeOK, LedgerTypeOK, ledgerVars
<1>8. ASSUME NEW w \in Workers, LookUp(w) PROVE TypeOK'
  <2>1. CASE payment[worker[w].ref].status = "pending"
    <3> DEFINE q == [worker[w] EXCEPT !.pc = "mark", !.invoice = payment[worker[w].ref].invoice]
    <3>1. q \in Request
      BY WorkerFields, RowFields DEF Request
    <3>2. worker' = [worker EXCEPT ![w] = q] /\ UNCHANGED unacked
      BY <1>8, <2>1 DEF LookUp
    <3>3. worker' \in [Workers -> Request]
      BY <3>1, <3>2 DEF TypeOK
    <3>4. disturbed' \subseteq Invoices
      BY <1>8, <2>1, WorkerFields, RowFields DEF LookUp, TypeOK
    <3> QED
      BY <1>8, <2>1, <3>2, <3>3, <3>4 DEF LookUp, TypeOK, LedgerTypeOK, ledgerVars
  <2>2. CASE payment[worker[w].ref].status # "pending"
    <3>1. Answer(w)
      BY <1>8, <2>2 DEF LookUp
    <3>2. worker' \in [Workers -> Request] /\ unacked' \subseteq Refs
      BY <3>1, AnswerTyped
    <3> QED
      BY <1>8, <2>2, <3>2 DEF LookUp, TypeOK, LedgerTypeOK, ledgerVars
  <2> QED
    BY <2>1, <2>2
<1>9. ASSUME NEW w \in Workers, MarkSuccess(w) PROVE TypeOK'
  <2> DEFINE r == worker[w].ref
  <2>1. [payment[r] EXCEPT !.status = "success", !.day = today] \in PaymentRow
    <3>1. today \in 0..LastDay
      BY DEF TypeOK, LedgerTypeOK
    <3>2. payment[r] \in PaymentRow
      BY WorkerFields, RowFields
    <3> HIDE DEF r
    <3> QED
      BY <3>1, <3>2 DEF PaymentRow, PaymentStatus
  <2>2. payment' \in [Refs -> PaymentRow]
    BY <1>9, <2>1 DEF MarkSuccess, TypeOK, LedgerTypeOK
  <2> QED
    BY <1>9, <2>2, GotoTyped DEF MarkSuccess, TypeOK, LedgerTypeOK
<1>10. ASSUME NEW w \in Workers, ReadTotal(w) PROVE TypeOK'
  <2> DEFINE st == IF Collected(worker[w].invoice) >= Total[worker[w].invoice]
                     THEN "paid" ELSE "partially_paid"
  <2>1. [worker[w] EXCEPT !.pc = "roll", !.status = st] \in Request
    BY WorkerFields DEF Request, InvoiceStatus
  <2>2. worker' \in [Workers -> Request]
    BY <1>10, <2>1 DEF ReadTotal, TypeOK
  <2> QED
    BY <1>10, <2>2 DEF ReadTotal, TypeOK, LedgerTypeOK, ledgerVars
<1>11. ASSUME NEW w \in Workers, RollInvoice(w) PROVE TypeOK'
  <2>1. invoice' \in [Invoices -> InvoiceStatus]
    BY <1>11, WorkerFields DEF RollInvoice, TypeOK, LedgerTypeOK
  <2> QED
    BY <1>11, <2>1, GotoTyped DEF RollInvoice, TypeOK, LedgerTypeOK
<1>12. ASSUME NEW w \in Workers, Announce(w) PROVE TypeOK'
    BY <1>12, AnswerTyped DEF Announce, TypeOK, LedgerTypeOK, ledgerVars
<1>13. ASSUME NEW w \in Workers, StatementFails(w) PROVE TypeOK'
    BY <1>13, ReturnTyped, UnrolledTyped DEF StatementFails, TypeOK, LedgerTypeOK, ledgerVars
<1>14. ASSUME NEW w \in Workers, NEW r \in Refs, 
              DeliverWebhook(w, r) \/ HubtelCallback(w, r) \/ StartVerify(w, r)
       PROVE TypeOK'
  <2>1. /\ [Idle EXCEPT !.pc = "lookup", !.op = "callback", !.ref = r] \in Request
        /\ [Idle EXCEPT !.pc = "lookup", !.op = "webhook", !.ref = r] \in Request
        /\ [Idle EXCEPT !.pc = "verify", !.op = "verify", !.ref = r] \in Request
    BY DefaultsTyped DEF Request
  <2>2. worker' \in [Workers -> Request]
    BY <1>14, <2>1 DEF DeliverWebhook, HubtelCallback, StartVerify, TypeOK
  <2> QED
    BY <1>14, <2>2 DEF DeliverWebhook, HubtelCallback, StartVerify, TypeOK, LedgerTypeOK, ledgerVars
<1>15. ASSUME NEW r \in Refs, CustomerPays(r) PROVE TypeOK'
  <2>1. [provider[r] EXCEPT !.state = "charged"] \in Transaction
    BY RowFields DEF Transaction
  <2>2. provider' \in [Refs -> Transaction]
    BY <1>15, <2>1 DEF CustomerPays, TypeOK
  <2> QED
    BY <1>15, <2>2 DEF CustomerPays, TypeOK, LedgerTypeOK, ledgerVars
<1>16. CASE Crash
    BY <1>16, DefaultsTyped, UnrolledTyped DEF Crash, TypeOK, LedgerTypeOK, ledgerVars
<1>17. CASE DayEnds
    BY <1>17 DEF DayEnds, NextDay, TypeOK, LedgerTypeOK
<1>18. CASE UNCHANGED vars
    BY <1>18 DEF vars, ledgerVars, TypeOK, LedgerTypeOK
<1> QED
    BY <1>1, <1>2, <1>3, <1>4, <1>5, <1>6, <1>7, <1>8, <1>9, <1>10, <1>11, <1>12,
       <1>13, <1>14, <1>15, <1>16, <1>17, <1>18 DEF Next, Step

\* Every variable keeps its type.
THEOREM TypeCorrect == Spec => []TypeOK
<1> QED
    BY InitTyped, NextTyped, PTL DEF Spec

-----------------------------------------------------------------------------
(* The inductive invariant CreditInv.                                      *)

\* A step that moves one request, may answer a webhook or hear a callback, and writes no
\* table.
LEMMA ReportStep ==
    ASSUME CreditInv, TypeOK',
           NEW w \in Workers, NEW q \in Request,
           worker' = [worker EXCEPT ![w] = q],
           RequestMatches(q)', q.pc # "insert",
           UNCHANGED <<invoice, payment, provider>>,
           named \subseteq named', named' # {} => UssdEnabled,
           \A r \in named' : payment[r].status # "absent",
           unacked' \subseteq unacked,
           \A r \in unacked \ unacked' :
               payment[r].status = "success" \/ provider[r].channel # "paystack"
    PROVE  CreditInv'
<1>1. \A v \in Workers : worker'[v] = IF v = w THEN q ELSE worker[v]
    BY DEF CreditInv, TypeOK
<1>2. RequestsMatchRows'
    <2>1. ASSUME NEW v \in Workers, RequestMatches(worker[v])
          PROVE  RequestMatches(worker[v])' \/ worker'[v] = q
        BY <1>1, <2>1, CollectedKept DEF RequestMatches, Reported, Charged
    <2> QED
        BY <2>1 DEF CreditInv, RequestsMatchRows
<1>3. ReferencesAreUnique'
    BY <1>1 DEF CreditInv, ReferencesAreUnique, At
<1>4. RowsMatchTransactions'
    BY DEF CreditInv, RowsMatchTransactions
<1>5. CreditsAreRealMoney'
    BY DEF CreditInv, CreditsAreRealMoney, Successful, Reported, Charged
<1>6. AckedChargeIsCredited'
    BY DEF CreditInv, AckedChargeIsCredited, Charged
<1>7. PaidIsCovered' /\ \A r \in unacked' : Charged(r)'
    BY CollectedKept DEF CreditInv, PaidIsCovered, Charged
<1> QED
    BY <1>2, <1>3, <1>4, <1>5, <1>6, <1>7 DEF CreditInv

LEMMA LocalStep ==
    ASSUME CreditInv, TypeOK',
           NEW w \in Workers, NEW q \in Request,
           worker' = [worker EXCEPT ![w] = q],
           RequestMatches(q), q.pc # "insert",
           UNCHANGED <<invoice, payment, provider, named>>,
           unacked' \subseteq unacked,
           \A r \in unacked \ unacked' :
               payment[r].status = "success" \/ provider[r].channel # "paystack"
    PROVE  CreditInv'
<1>1. RequestMatches(q)'
    BY CollectedKept DEF RequestMatches, Reported, Charged
<1>2. /\ named \subseteq named' /\ (named' # {} => UssdEnabled)
      /\ \A r \in named' : payment[r].status # "absent"
    BY DEF CreditInv
<1> QED
    BY <1>1, <1>2, ReportStep

\* A request that neither credits nor records an attempt promises nothing.
LEMMA HarmlessRequest ==
    ASSUME NEW q, q.pc \in PC \ (CreditPC \cup {"lookup", "insert"})
    PROVE  RequestMatches(q) /\ q.pc # "insert"
BY DEF RequestMatches, CreditPC, PC

LEMMA HarmlessStep ==
    ASSUME CreditInv, TypeOK', NEW w \in Workers, NEW q \in Request,
           q.pc \in PC \ (CreditPC \cup {"lookup", "insert"}),
           worker' = [worker EXCEPT ![w] = q],
           UNCHANGED <<invoice, payment, provider, named, unacked>>
    PROVE  CreditInv'
BY HarmlessRequest, LocalStep

LEMMA ReturnKeepsInv ==
    ASSUME CreditInv, TypeOK', NEW w \in Workers, Return(w),
           UNCHANGED <<invoice, payment, provider, named, unacked>>
    PROVE  CreditInv'
<1>1. Idle.pc \in PC \ (CreditPC \cup {"lookup", "insert"})
    BY DEF Idle, PC, CreditPC
<1> QED
    BY <1>1, HarmlessStep, DefaultsTyped DEF Return

LEMMA AnswerKeepsInv ==
    ASSUME CreditInv, TypeOK', NEW w \in Workers, Answer(w),
           \/ payment[worker[w].ref].status = "success"
           \/ provider[worker[w].ref].channel # "paystack",
           UNCHANGED <<invoice, payment, provider, named>>
    PROVE  CreditInv'
<1>1. RequestMatches(Idle) /\ Idle.pc # "insert" /\ Idle \in Request
    BY DefaultsTyped, HarmlessRequest DEF Idle, PC, CreditPC
<1>2. unacked' \subseteq unacked /\ \A r \in unacked \ unacked' : r = worker[w].ref
    BY DEF Answer
<1> QED
    BY <1>1, <1>2, LocalStep DEF Answer, Return

\* What a step that leaves rows, transactions and reports alone keeps.
LEMMA RowsStand ==
    ASSUME CreditInv, UNCHANGED <<payment, provider, unacked, named>>
    PROVE  /\ RowsMatchTransactions' /\ CreditsAreRealMoney' /\ AckedChargeIsCredited'
           /\ \A r \in unacked' : Charged(r)'
           /\ named' # {} => UssdEnabled
           /\ \A r \in named' : payment'[r].status # "absent"
BY DEF CreditInv, RowsMatchTransactions, CreditsAreRealMoney, AckedChargeIsCredited, Successful,
       Reported, Charged

LEMMA NextInv == CreditInv /\ [Next]_vars => CreditInv'
<1> SUFFICES ASSUME CreditInv, [Next]_vars PROVE CreditInv'
    OBVIOUS
<1>0. TypeOK /\ TypeOK'
    BY NextTyped DEF CreditInv
<1> DEFINE Harmless == PC \ (CreditPC \cup {"lookup", "insert"})
<1>1. ASSUME NEW w \in Workers, NEW i \in Invoices, StartCheckout(w, i) \/ StartUssd(w, i)
      PROVE CreditInv'
  <2>1. PICK op \in {"checkout", "ussd"} : StartPayment(w, i, op)
    BY <1>1 DEF StartCheckout, StartUssd
  <2> DEFINE q == [Idle EXCEPT !.pc = "balance", !.op = op, !.invoice = i]
  <2>2. q \in Request /\ q.pc \in Harmless
    BY DefaultsTyped DEF Request, PC, CreditPC
  <2>3. worker' = [worker EXCEPT ![w] = q]
    BY <2>1 DEF StartPayment
  <2> QED
    BY <1>0, <2>1, <2>2, <2>3, HarmlessStep DEF StartPayment, ledgerVars
<1>2. ASSUME NEW w \in Workers, ReadBalance(w) PROVE CreditInv'
  <2>1. UNCHANGED <<invoice, payment, provider, named, unacked>>
    BY <1>2 DEF ReadBalance, ledgerVars
  <2>2. CASE Return(w)
    BY <1>0, <2>1, <2>2, ReturnKeepsInv
  <2>3. ASSUME NEW amt \in Nat,
               worker' = [worker EXCEPT ![w].pc = "limit", ![w].amount = amt,
                                        ![w].saw = Successful]
        PROVE CreditInv'
    <3> DEFINE q == [worker[w] EXCEPT !.pc = "limit", !.amount = amt, !.saw = Successful]
    <3>1. Successful \in SUBSET Refs
      BY DEF Successful
    <3>2. q \in Request /\ q.pc \in Harmless
      BY <1>0, <3>1, WorkerFields DEF Request, PC, CreditPC
    <3>3. worker' = [worker EXCEPT ![w] = q]
      BY <2>3
    <3> QED
      BY <1>0, <2>1, <3>2, <3>3, HarmlessStep
  <2>4. worker[w].invoice \in Invoices /\ Owed(worker[w].invoice) \in Nat
    BY <1>0, WorkerFields, OwedTyped
  <2> QED
    BY <1>2, <2>2, <2>3, <2>4 DEF ReadBalance
<1>3. ASSUME NEW w \in Workers, CheckTierLimit(w) PROVE CreditInv'
  <2>1. UNCHANGED <<invoice, payment, provider, named, unacked>>
    BY <1>3 DEF CheckTierLimit, ledgerVars
  <2>2. CASE Return(w)
    BY <1>0, <2>1, <2>2, ReturnKeepsInv
  <2>3. CASE Goto(w, "charge")
    <3> DEFINE q == [worker[w] EXCEPT !.pc = "charge"]
    <3>1. q \in Request /\ q.pc \in Harmless
      BY <1>0, WorkerFields DEF Request, PC, CreditPC
    <3>2. worker' = [worker EXCEPT ![w] = q]
      BY <2>3 DEF Goto
    <3> QED
      BY <1>0, <2>1, <3>1, <3>2, HarmlessStep
  <2> QED
    BY <1>3, <2>2, <2>3 DEF CheckTierLimit
<1>4. ASSUME NEW w \in Workers, OpenTransaction(w) PROVE CreditInv'
  <2>1. PICK r \in Refs :
          /\ Fresh(r)
          /\ provider' = [provider EXCEPT ![r] =
               [state   |-> IF worker[w].op = "ussd" THEN "payable" ELSE "initialized",
                channel |-> IF worker[w].op = "ussd" THEN "hubtel" ELSE "paystack",
                invoice |-> worker[w].invoice, amount |-> worker[w].amount]]
          /\ worker' = [worker EXCEPT ![w].pc = "insert", ![w].ref = r]
    BY <1>4 DEF OpenTransaction
  <2>2. UNCHANGED <<invoice, payment, unacked, named>>
    BY <1>4 DEF OpenTransaction, ledgerVars
  <2>3. \A p \in Refs : p # r => provider'[p] = provider[p]
    BY <1>0, <2>1 DEF TypeOK
  <2>4. /\ provider'[r].invoice = worker[w].invoice /\ provider'[r].amount = worker[w].amount
        /\ provider'[r].state # "none" /\ provider'[r].state # "charged"
        /\ provider'[r].channel = "paystack" => provider'[r].state = "initialized"
    BY <1>0, <2>1 DEF TypeOK
  <2>5. /\ \A v \in Workers : v # w => worker'[v] = worker[v]
        /\ worker'[w].pc = "insert" /\ worker'[w].ref = r
        /\ worker'[w].invoice = worker[w].invoice /\ worker'[w].amount = worker[w].amount
    BY <1>0, <2>1, WorkerFields DEF TypeOK, Request
  <2>6. provider[r].state = "none" /\ payment[r].status = "absent"
    BY <2>1 DEF Fresh
  <2>7. \A v \in Workers : worker[v].pc \in CreditPC \cup {"lookup", "insert"} => worker[v].ref # r
    BY <2>6 DEF CreditInv, RequestsMatchRows, RequestMatches, CreditPC, Reported, Charged
  <2>8. RequestsMatchRows'
    <3>1. RequestMatches(worker[w])'
      BY <2>2, <2>4, <2>5, <2>6 DEF RequestMatches, CreditPC
    <3>2. ASSUME NEW v \in Workers, v # w PROVE RequestMatches(worker[v])'
      <4>1. RequestMatches(worker[v]) /\ worker'[v] = worker[v] /\ worker[v].ref \in Refs
        BY <1>0, <2>5, <3>2, WorkerFields DEF CreditInv, RequestsMatchRows
      <4>2. worker[v].pc \in CreditPC \cup {"lookup", "insert"}
              => provider'[worker[v].ref] = provider[worker[v].ref]
        BY <2>3, <2>7, <4>1
      <4> QED
        BY <2>2, <4>1, <4>2, CollectedKept DEF RequestMatches, CreditPC, Reported, Charged
    <3> QED
      BY <3>1, <3>2 DEF RequestsMatchRows
  <2>9. ReferencesAreUnique'
    BY <2>5, <2>7 DEF CreditInv, ReferencesAreUnique, At
  <2>10. RowsMatchTransactions'
    BY <2>2, <2>3, <2>4, <2>6 DEF CreditInv, RowsMatchTransactions
  <2>11. CreditsAreRealMoney'
    BY <2>2, <2>3, <2>6 DEF CreditInv, CreditsAreRealMoney, Successful, Reported, Charged
  <2>12. AckedChargeIsCredited'
    BY <2>2, <2>3, <2>4 DEF CreditInv, AckedChargeIsCredited, Charged
  <2>13. PaidIsCovered' /\ \A p \in unacked' : Charged(p)'
    BY <1>0, <2>2, <2>3, <2>6, CollectedKept DEF CreditInv, PaidIsCovered, TypeOK, Charged
  <2>15. (named' # {} => UssdEnabled) /\ \A p \in named' : payment'[p].status # "absent"
    BY <2>2 DEF CreditInv, TypeOK
  <2> QED
    BY <1>0, <2>8, <2>9, <2>10, <2>11, <2>12, <2>13, <2>15 DEF CreditInv
<1>5. ASSUME NEW w \in Workers, ProviderRefuses(w) PROVE CreditInv'
    BY <1>0, <1>5, ReturnKeepsInv DEF ProviderRefuses, ledgerVars
<1>6. ASSUME NEW w \in Workers, RecordAttempt(w) PROVE CreditInv'
  <2> DEFINE r == worker[w].ref
             row == PendingRow(worker[w].invoice, worker[w].amount, FALSE)
  <2>1. UNCHANGED <<invoice, unacked, named>> /\ At(w, "insert") /\ r \in Refs
    BY <1>0, <1>6, WorkerFields DEF RecordAttempt
  <2>2. /\ \A p \in Refs : p # r => payment'[p] = payment[p] /\ provider'[p] = provider[p]
        /\ payment'[r] = row
    BY <1>0, <1>6, <2>1 DEF RecordAttempt, TypeOK, LedgerTypeOK
  <2>3. row.status = "pending" /\ row.invoice = worker[w].invoice /\ row.amount = worker[w].amount
    BY DEF PendingRow, NoRow
  <2>4. /\ provider'[r].invoice = provider[r].invoice /\ provider'[r].amount = provider[r].amount
        /\ provider'[r].channel = provider[r].channel
        /\ provider'[r].state =
             IF provider[r].state = "initialized" THEN "payable" ELSE provider[r].state
    <3>1. provider' = [provider EXCEPT ![r] =
            [provider[r] EXCEPT !.state = IF @ = "initialized" THEN "payable" ELSE @]]
      BY <1>6 DEF RecordAttempt
    <3>2. provider[r] \in Transaction
      BY <1>0, <2>1, RowFields
    <3> QED
      BY <1>0, <2>1, <3>1, <3>2 DEF TypeOK, Transaction
  <2>5. /\ \A v \in Workers : v # w => worker'[v] = worker[v]
        /\ worker'[w] = Idle
    BY <1>0, <1>6 DEF RecordAttempt, Return, TypeOK
  <2>6. RequestMatches(worker[w])
    BY DEF CreditInv, RequestsMatchRows
  <2>7. /\ payment[r].status = "absent" /\ provider[r].state # "none"
        /\ provider[r].invoice = worker[w].invoice /\ provider[r].amount = worker[w].amount
        /\ provider[r].channel = "paystack" => provider[r].state = "initialized"
    BY <2>1, <2>6 DEF RequestMatches, At
  <2>14. \A i \in Invoices : Collected(i) >= Total[i] => Collected(i)' >= Total[i]
    <3>1. \A p \in Successful : p # r /\ p \in Refs
      BY <2>7 DEF Successful
    <3>2. \A p \in Successful : /\ p \in Successful'
                                /\ payment'[p].invoice = payment[p].invoice
                                /\ payment'[p].amount = payment[p].amount
      BY <2>2, <3>1 DEF Successful
    <3> QED
      BY <1>0, <3>2, CollectedGrows
  <2>8. RequestsMatchRows'
    <3>1. RequestMatches(Idle)'
      BY DEF RequestMatches, Idle, CreditPC
    <3>2. ASSUME NEW v \in Workers, v # w PROVE RequestMatches(worker[v])'
      <4>1. RequestMatches(worker[v]) /\ worker'[v] = worker[v] /\ worker[v].ref \in Refs
        BY <1>0, <2>5, <3>2, WorkerFields DEF CreditInv, RequestsMatchRows
      <4>5. /\ worker[v].invoice \in Invoices
            /\ Collected(worker[v].invoice) >= Total[worker[v].invoice]
                 => Collected(worker[v].invoice)' >= Total[worker[v].invoice]
        BY <1>0, <2>14, <4>1, WorkerFields
      <4>2. CASE worker[v].ref # r
        BY <2>1, <2>2, <4>1, <4>2, <4>5 DEF RequestMatches, Reported, Charged
      <4>3. CASE worker[v].ref = r
        <5>1. worker[v].pc # "insert"
          BY <2>1, <3>2, <4>3 DEF CreditInv, ReferencesAreUnique, At
        <5>2. worker[v].pc \notin CreditPC
          BY <2>7, <4>1, <4>3 DEF RequestMatches, CreditPC
        <5> QED
          BY <2>1, <2>4, <4>1, <4>3, <5>1, <5>2, <4>5 DEF RequestMatches, CreditPC, Reported, Charged
      <4> QED
        BY <4>2, <4>3
    <3> QED
      BY <2>5, <3>1, <3>2 DEF RequestsMatchRows
  <2>9. ReferencesAreUnique'
    BY <2>5 DEF CreditInv, ReferencesAreUnique, At, Idle
  <2>10. RowsMatchTransactions'
    <3>1. ASSUME NEW p \in Refs, p # r
          PROVE  payment'[p] = payment[p] /\ provider'[p] = provider[p]
      BY <2>2, <3>1
    <3>2. /\ payment'[r].status = "pending" /\ provider'[r].state # "none"
          /\ provider'[r].invoice = payment'[r].invoice
          /\ provider'[r].amount = payment'[r].amount
      BY <2>2, <2>3, <2>4, <2>7
    <3> HIDE DEF r, row
    <3> QED
      BY <3>1, <3>2 DEF CreditInv, RowsMatchTransactions
  <2>11. CreditsAreRealMoney'
    <3>1. Successful' = Successful /\ r \notin Successful
      <4>1. \A p \in Refs : payment'[p].status = "success" <=> payment[p].status = "success"
        BY <2>2, <2>3, <2>7
      <4> QED
        BY <2>7, <4>1 DEF Successful
    <3>2. \A p \in Successful : p \in Refs /\ payment'[p] = payment[p] /\ provider'[p] = provider[p]
      BY <2>2, <3>1 DEF Successful
    <3> QED
      BY <2>1, <3>1, <3>2 DEF CreditInv, CreditsAreRealMoney, Reported, Charged
  <2>12. AckedChargeIsCredited'
    BY <2>1, <2>2, <2>4, <2>7 DEF CreditInv, AckedChargeIsCredited, Charged
  <2>13. PaidIsCovered' /\ \A p \in unacked' : Charged(p)'
    BY <1>0, <2>1, <2>2, <2>4, <2>14 DEF CreditInv, PaidIsCovered, TypeOK, Charged
  <2>15. (named' # {} => UssdEnabled) /\ \A p \in named' : payment'[p].status # "absent"
    BY <1>0, <2>1, <2>2, <2>3 DEF CreditInv, TypeOK
  <2> QED
    BY <1>0, <2>8, <2>9, <2>10, <2>11, <2>12, <2>13, <2>15 DEF CreditInv
<1>7. ASSUME NEW w \in Workers, AskPaystack(w) PROVE CreditInv'
  <2>1. UNCHANGED <<invoice, payment, provider, named, unacked>>
    BY <1>7 DEF AskPaystack, ledgerVars
  <2>2. CASE Return(w)
    BY <1>0, <2>1, <2>2, ReturnKeepsInv
  <2>3. CASE provider[worker[w].ref].state = "charged" /\ Goto(w, "lookup")
    <3> DEFINE q == [worker[w] EXCEPT !.pc = "lookup"]
    <3>1. q \in Request /\ q.pc = "lookup" /\ q.ref = worker[w].ref
      BY <1>0, WorkerFields DEF Request, PC
    <3>2. worker' = [worker EXCEPT ![w] = q]
      BY <2>3 DEF Goto
    <3>3. RequestMatches(q)
      BY <2>3, <3>1 DEF RequestMatches, CreditPC, Reported, Charged
    <3> HIDE DEF q
    <3> QED
      BY <1>0, <2>1, <3>1, <3>2, <3>3, LocalStep
  <2> QED
    BY <1>7, <2>2, <2>3 DEF AskPaystack
<1>8. ASSUME NEW w \in Workers, LookUp(w) PROVE CreditInv'
  <2> DEFINE row == payment[worker[w].ref]
  <2>1. /\ UNCHANGED <<invoice, payment, provider, named>> /\ At(w, "lookup")
        /\ worker[w].ref \in Refs
    BY <1>0, <1>8, WorkerFields DEF LookUp, ledgerVars
  <2>2. Reported(worker[w].ref)
    BY <2>1 DEF CreditInv, RequestsMatchRows, RequestMatches, At
  <2>3. CASE row.status = "pending"
    <3> DEFINE q == [worker[w] EXCEPT !.pc = "mark", !.invoice = row.invoice]
    <3>1. /\ q \in Request /\ q.pc = "mark" /\ q.ref = worker[w].ref
          /\ q.invoice = row.invoice
      BY <1>0, <2>1, WorkerFields, RowFields DEF Request, PC
    <3>2. worker' = [worker EXCEPT ![w] = q] /\ unacked' = unacked
      BY <1>8, <2>3 DEF LookUp
    <3>3. RequestMatches(q)
      BY <2>2, <2>3, <3>1 DEF RequestMatches, CreditPC
    <3> HIDE DEF q
    <3> QED
      BY <1>0, <2>1, <3>1, <3>2, <3>3, LocalStep
  <2>4. CASE row.status # "pending"
    <3>1. Answer(w)
      BY <1>8, <2>4 DEF LookUp
    <3>2. row.status = "success" \/ provider[worker[w].ref].channel # "paystack"
      BY <1>0, <2>1, <2>2, <2>4, RowFields DEF CreditInv, RowsMatchTransactions, PaymentStatus, Reported, Charged
    <3> QED
      BY <1>0, <2>1, <3>1, <3>2, AnswerKeepsInv
  <2> QED
    BY <2>3, <2>4
<1>9. ASSUME NEW w \in Workers, MarkSuccess(w) PROVE CreditInv'
  <2> DEFINE r == worker[w].ref
  <2>1. UNCHANGED <<invoice, provider, unacked, named>> /\ At(w, "mark") /\ r \in Refs
    BY <1>0, <1>9, WorkerFields DEF MarkSuccess
  <2>2. /\ \A p \in Refs : p # r => payment'[p] = payment[p]
        /\ payment'[r].status = "success"
        /\ payment'[r].invoice = payment[r].invoice /\ payment'[r].amount = payment[r].amount
    <3>1. payment' = [payment EXCEPT ![r] =
            [payment[r] EXCEPT !.status = "success", !.day = today]]
      BY <1>9 DEF MarkSuccess
    <3>2. payment[r] \in PaymentRow
      BY <1>0, <2>1, RowFields
    <3> QED
      BY <1>0, <2>1, <3>1, <3>2 DEF TypeOK, LedgerTypeOK, PaymentRow
  <2>3. \A i \in Invoices : Collected(i) >= Total[i] => Collected(i)' >= Total[i]
    <3>1. \A p \in Successful : /\ p \in Successful'
                                /\ payment'[p].invoice = payment[p].invoice
                                /\ payment'[p].amount = payment[p].amount
      BY <2>1, <2>2 DEF Successful
    <3> QED
      BY <1>0, <3>1, CollectedGrows
  <2>4. /\ \A v \in Workers : v # w => worker'[v] = worker[v]
        /\ worker'[w].pc = "total" /\ worker'[w].ref = r
        /\ worker'[w].invoice = worker[w].invoice
    <3>1. worker' = [worker EXCEPT ![w] = [worker[w] EXCEPT !.pc = "total"]]
      BY <1>9 DEF MarkSuccess, Goto
    <3> QED
      BY <1>0, <3>1, WorkerFields DEF TypeOK, Request
  <2>5. RequestMatches(worker[w])
    BY DEF CreditInv, RequestsMatchRows
  <2>6. /\ payment[r].status # "absent" /\ Reported(r)
        /\ worker[w].invoice = payment[r].invoice
    BY <2>1, <2>5 DEF RequestMatches, At, CreditPC
  <2>7. RequestsMatchRows'
    <3>1. RequestMatches(worker[w])'
      BY <2>1, <2>2, <2>4, <2>6 DEF RequestMatches, CreditPC, Reported, Charged
    <3>2. ASSUME NEW v \in Workers, v # w PROVE RequestMatches(worker[v])'
      <4>1. /\ RequestMatches(worker[v]) /\ worker'[v] = worker[v]
            /\ worker[v].ref \in Refs /\ worker[v].invoice \in Invoices
        BY <1>0, <2>4, <3>2, WorkerFields DEF CreditInv, RequestsMatchRows
      <4>2. worker[v].pc = "roll" /\ worker[v].status = "paid"
              => Collected(worker[v].invoice)' >= Total[worker[v].invoice]
        BY <2>3, <4>1 DEF RequestMatches
      <4>3. /\ payment'[worker[v].ref].invoice = payment[worker[v].ref].invoice
            /\ payment'[worker[v].ref].status # payment[worker[v].ref].status
                 => worker[v].ref = r /\ payment'[worker[v].ref].status = "success"
        BY <2>1, <2>2, <4>1
      <4>4. worker[v].pc = "insert" => worker[v].ref # r
        BY <2>6, <4>1 DEF RequestMatches
      <4> QED
        BY <2>1, <4>1, <4>2, <4>3, <4>4 DEF RequestMatches, CreditPC, Reported, Charged
    <3> QED
      BY <3>1, <3>2 DEF RequestsMatchRows
  <2>8. ReferencesAreUnique'
    BY <2>4 DEF CreditInv, ReferencesAreUnique, At
  <2>9. RowsMatchTransactions'
    BY <2>1, <2>2, <2>6 DEF CreditInv, RowsMatchTransactions
  <2>10. CreditsAreRealMoney'
    BY <2>1, <2>2, <2>6 DEF CreditInv, CreditsAreRealMoney, Successful, RowsMatchTransactions, Reported, Charged
  <2>11. AckedChargeIsCredited'
    BY <2>1, <2>2 DEF CreditInv, AckedChargeIsCredited, Charged
  <2>12. PaidIsCovered' /\ \A p \in unacked' : Charged(p)'
    BY <1>0, <2>1, <2>3 DEF CreditInv, PaidIsCovered, TypeOK, Charged
  <2>15. (named' # {} => UssdEnabled) /\ \A p \in named' : payment'[p].status # "absent"
    BY <1>0, <2>1, <2>2 DEF CreditInv, TypeOK
  <2> QED
    BY <1>0, <2>7, <2>8, <2>9, <2>10, <2>11, <2>12, <2>15 DEF CreditInv
<1>10. ASSUME NEW w \in Workers, ReadTotal(w) PROVE CreditInv'
  <2> DEFINE i == worker[w].invoice
             st == IF Collected(i) >= Total[i] THEN "paid" ELSE "partially_paid"
             q  == [worker[w] EXCEPT !.pc = "roll", !.status = st]
  <2>1. /\ UNCHANGED <<invoice, payment, provider, named, unacked>> /\ At(w, "total")
        /\ worker' = [worker EXCEPT ![w] = q]
    BY <1>10 DEF ReadTotal, ledgerVars
  <2>2. /\ q \in Request /\ q.pc = "roll" /\ q.ref = worker[w].ref
        /\ q.invoice = i /\ q.status = st
    BY <1>0, WorkerFields DEF Request, PC, InvoiceStatus
  <2>3. RequestMatches(worker[w])
    BY DEF CreditInv, RequestsMatchRows
  <2>4. RequestMatches(q)
    <3> HIDE DEF q
    <3> QED
      BY <2>1, <2>2, <2>3 DEF RequestMatches, CreditPC, At
  <2> HIDE DEF q
  <2> QED
    BY <1>0, <2>1, <2>2, <2>4, LocalStep
<1>11. ASSUME NEW w \in Workers, RollInvoice(w) PROVE CreditInv'
  <2>1. UNCHANGED <<payment, provider, named, unacked>> /\ At(w, "roll")
    BY <1>11 DEF RollInvoice
  <2>2. /\ \A v \in Workers : v # w => worker'[v] = worker[v]
        /\ worker'[w].pc = "announce" /\ worker'[w].ref = worker[w].ref
        /\ worker'[w].invoice = worker[w].invoice
    <3>1. worker' = [worker EXCEPT ![w] = [worker[w] EXCEPT !.pc = "announce"]]
      BY <1>11 DEF RollInvoice, Goto
    <3> QED
      BY <1>0, <3>1, WorkerFields DEF TypeOK, Request
  <2>3. RequestMatches(worker[w])
    BY DEF CreditInv, RequestsMatchRows
  <2>4. \A j \in Invoices : invoice'[j] = "paid" /\ invoice[j] # "paid"
          => j = worker[w].invoice /\ worker[w].status = "paid"
    BY <1>0, <1>11 DEF RollInvoice, TypeOK, LedgerTypeOK
  <2>5. PaidIsCovered'
    BY <2>1, <2>3, <2>4, CollectedKept DEF CreditInv, PaidIsCovered, RequestMatches, At
  <2>6. RequestsMatchRows'
    BY <2>1, <2>2, <2>3, CollectedKept DEF CreditInv, RequestsMatchRows, RequestMatches, CreditPC, At, Reported, Charged
  <2>7. ReferencesAreUnique'
    BY <2>2 DEF CreditInv, ReferencesAreUnique, At
  <2> QED
    BY <1>0, <2>1, <2>5, <2>6, <2>7, RowsStand DEF CreditInv
<1>12. ASSUME NEW w \in Workers, Announce(w) PROVE CreditInv'
  <2>1. /\ UNCHANGED <<invoice, payment, provider, named>> /\ At(w, "announce")
        /\ Answer(w)
    BY <1>12 DEF Announce, ledgerVars
  <2>2. payment[worker[w].ref].status = "success"
    BY <2>1 DEF CreditInv, RequestsMatchRows, RequestMatches, CreditPC, At
  <2> QED
    BY <1>0, <2>1, <2>2, AnswerKeepsInv
<1>13. ASSUME NEW w \in Workers, StatementFails(w) PROVE CreditInv'
    BY <1>0, <1>13, ReturnKeepsInv DEF StatementFails, ledgerVars
<1>14. ASSUME NEW w \in Workers, NEW r \in Refs, DeliverWebhook(w, r) PROVE CreditInv'
  <2> DEFINE q == [Idle EXCEPT !.pc = "lookup", !.op = "webhook", !.ref = r]
  <2>1. q \in Request /\ q.pc = "lookup" /\ q.ref = r
    BY DefaultsTyped DEF Request, PC
  <2>2. /\ worker' = [worker EXCEPT ![w] = q]
        /\ UNCHANGED <<invoice, payment, provider, named, unacked>>
    BY <1>14 DEF DeliverWebhook, ledgerVars
  <2>3. Reported(r)
    BY <1>14 DEF DeliverWebhook, CreditInv, Reported
  <2> HIDE DEF q
  <2>4. RequestMatches(q)
    BY <2>1, <2>3 DEF RequestMatches, CreditPC
  <2> QED
    BY <1>0, <2>1, <2>2, <2>4, LocalStep
<1>19. ASSUME NEW w \in Workers, NEW r \in Refs, HubtelCallback(w, r) PROVE CreditInv'
  <2> DEFINE q == [Idle EXCEPT !.pc = "lookup", !.op = "callback", !.ref = r]
  <2>1. q \in Request /\ q.pc = "lookup" /\ q.ref = r
    BY DefaultsTyped DEF Request, PC
  <2>2. /\ worker' = [worker EXCEPT ![w] = q]
        /\ UNCHANGED <<invoice, payment, provider, unacked>>
        /\ named \subseteq named' /\ UssdEnabled
        /\ Charged(r) \/ r \in named'
        /\ named' \subseteq named \cup {r} /\ payment[r].status # "absent"
    BY <1>19 DEF HubtelCallback, ledgerVars
  <2>3. Reported(r)'
    BY <2>2 DEF Reported, Charged
  <2> HIDE DEF q
  <2>4. RequestMatches(q)'
    BY <2>1, <2>3 DEF RequestMatches, CreditPC
  <2>5. \A p \in named' : payment[p].status # "absent"
    BY <2>2 DEF CreditInv
  <2> QED
    BY <1>0, <2>1, <2>2, <2>4, <2>5, ReportStep
<1>15. ASSUME NEW w \in Workers, NEW r \in Refs, StartVerify(w, r) PROVE CreditInv'
  <2> DEFINE q == [Idle EXCEPT !.pc = "verify", !.op = "verify", !.ref = r]
  <2>1. q \in Request /\ q.pc \in Harmless
    BY DefaultsTyped DEF Request, PC, CreditPC
  <2>2. /\ worker' = [worker EXCEPT ![w] = q]
        /\ UNCHANGED <<invoice, payment, provider, named, unacked>>
    BY <1>15 DEF StartVerify, ledgerVars
  <2> QED
    BY <1>0, <2>1, <2>2, HarmlessStep
<1>16. ASSUME NEW r \in Refs, CustomerPays(r) PROVE CreditInv'
  <2>1. UNCHANGED <<invoice, payment, worker, named>> /\ unacked' \subseteq unacked \cup {r}
    BY <1>16 DEF CustomerPays, ledgerVars
  <2>8. provider[r].channel = "paystack" => r \in unacked'
    BY <1>16 DEF CustomerPays
  <2>2. /\ \A p \in Refs : p # r => provider'[p] = provider[p]
        /\ provider[r].state = "payable" /\ provider'[r].state = "charged"
        /\ provider'[r].invoice = provider[r].invoice /\ provider'[r].amount = provider[r].amount
        /\ provider'[r].channel = provider[r].channel
    <3>1. provider' = [provider EXCEPT ![r] = [provider[r] EXCEPT !.state = "charged"]]
      BY <1>16 DEF CustomerPays
    <3>2. provider[r] \in Transaction /\ provider[r].state = "payable"
      BY <1>0, <1>16, RowFields DEF CustomerPays
    <3> QED
      BY <1>0, <3>1, <3>2 DEF TypeOK, Transaction
  <2>3. RequestsMatchRows'
    <3>1. ASSUME NEW v \in Workers PROVE RequestMatches(worker[v])'
      <4>1. RequestMatches(worker[v]) /\ worker'[v] = worker[v] /\ worker[v].ref \in Refs
        BY <1>0, <2>1, WorkerFields DEF CreditInv, RequestsMatchRows
      <4>2. CASE worker[v].ref # r
        BY <2>1, <2>2, <4>1, <4>2, CollectedKept DEF RequestMatches, Reported, Charged
      <4>3. CASE worker[v].ref = r
        BY <2>1, <2>2, <4>1, <4>3, CollectedKept DEF RequestMatches, Reported, Charged
      <4> QED
        BY <4>2, <4>3
    <3> QED
      BY <3>1 DEF RequestsMatchRows
  <2>4. RowsMatchTransactions'
    BY <2>1, <2>2 DEF CreditInv, RowsMatchTransactions
  <2>5. CreditsAreRealMoney'
    BY <2>1, <2>2 DEF CreditInv, CreditsAreRealMoney, Successful, Reported, Charged
  <2>6. AckedChargeIsCredited'
    <3>1. unacked \subseteq unacked'
      BY <1>16 DEF CustomerPays
    <3> QED
      BY <2>1, <2>2, <2>8, <3>1 DEF CreditInv, AckedChargeIsCredited, Charged
  <2>7. \A p \in unacked' : Charged(p)'
    BY <1>0, <2>1, <2>2 DEF CreditInv, TypeOK, Charged
  <2> QED
    BY <1>0, <2>1, <2>3, <2>4, <2>5, <2>6, <2>7, CollectedKept
    DEF CreditInv, PaidIsCovered, ReferencesAreUnique, At
<1>17. CASE Crash
  <2>0. Idle.pc = "idle"
    BY DEF Idle
  <2>1. \A v \in Workers : worker'[v] = Idle
    BY <1>17 DEF Crash
  <2>2. UNCHANGED <<invoice, payment, provider, named, unacked>>
    BY <1>17 DEF Crash, ledgerVars
  <2>3. \A v \in Workers : worker'[v].pc = "idle"
    BY <2>0, <2>1
  <2>4. RequestsMatchRows' /\ ReferencesAreUnique'
    BY <2>3 DEF RequestsMatchRows, RequestMatches, ReferencesAreUnique, At, CreditPC
  <2> QED
    BY <1>0, <2>2, <2>4, RowsStand, CollectedKept DEF CreditInv, PaidIsCovered
<1>18. CASE DayEnds \/ UNCHANGED vars
  <2>1. UNCHANGED <<invoice, payment, provider, unacked, worker, named>>
    BY <1>18 DEF DayEnds, NextDay, vars, ledgerVars
  <2>2. RequestsMatchRows' /\ ReferencesAreUnique'
    BY <2>1, CollectedKept DEF CreditInv, RequestsMatchRows, RequestMatches, ReferencesAreUnique,
                               At, Reported, Charged
  <2> QED
    BY <1>0, <2>1, <2>2, RowsStand, CollectedKept DEF CreditInv, PaidIsCovered
<1> QED
    BY <1>1, <1>2, <1>3, <1>4, <1>5, <1>6, <1>7, <1>8, <1>9, <1>10, <1>11, <1>12,
       <1>13, <1>14, <1>15, <1>16, <1>17, <1>18, <1>19 DEF Next, Step

\* What requests in progress, rows and transactions have to do with each other holds in
\* every reachable state, for any number of each.
THEOREM CreditInvariant == Spec => []CreditInv
<1> QED
    BY InitInv, NextInv, PTL DEF Spec

\* Only what the provider charged, or a callback of Hubtel's has named, is ever credited,
\* in the amount and to the invoice its transaction was opened for.
THEOREM RealMoney == Spec => []CreditsAreRealMoney
<1>1. CreditInv => CreditsAreRealMoney
    BY DEF CreditInv
<1> QED
    BY <1>1, CreditInvariant, PTL

\* A paid invoice is covered by successful payments, whatever requests interleave.
THEOREM PaidMeansCovered == Spec => []PaidIsCovered
<1>1. CreditInv => PaidIsCovered
    BY DEF CreditInv
<1> QED
    BY <1>1, CreditInvariant, PTL

\* No Paystack webhook is given up before its charge is credited.
THEOREM AckedMeansCredited == Spec => []AckedChargeIsCredited
<1>1. CreditInv => AckedChargeIsCredited
    BY DEF CreditInv
<1> QED
    BY <1>1, CreditInvariant, PTL

\* Of the handlers' steps only two write a payments row: the insert of a new
\* reference, and SetPaymentStatus, which leaves invoice and amount alone.
LEMMA StepMovesForward ==
    ASSUME CreditInv, [Next]_vars, NEW r \in Refs, payment[r].status # "absent"
    PROVE  /\ payment'[r].invoice = payment[r].invoice
           /\ payment'[r].amount = payment[r].amount
           /\ payment[r].status = "success" => payment'[r].status = "success"
<1>0. payment \in [Refs -> PaymentRow] /\ worker \in [Workers -> Request]
    BY DEF CreditInv, TypeOK, LedgerTypeOK
<1>1. ASSUME NEW w \in Workers, RecordAttempt(w)
      PROVE  payment'[r] = payment[r]
    <2>1. worker[w].ref \in Refs /\ payment[worker[w].ref].status = "absent"
        BY <1>0, <1>1 DEF RecordAttempt, CreditInv, RequestsMatchRows, RequestMatches, At, Request
    <2> QED
        BY <1>0, <1>1, <2>1 DEF RecordAttempt
<1>2. ASSUME NEW w \in Workers, MarkSuccess(w)
      PROVE  /\ payment'[r].invoice = payment[r].invoice
             /\ payment'[r].amount = payment[r].amount
             /\ payment[r].status = "success" => payment'[r].status = "success"
    <2>1. payment' = [payment EXCEPT ![worker[w].ref] =
                        [payment[worker[w].ref] EXCEPT !.status = "success", !.day = today]]
        BY <1>0, <1>2 DEF MarkSuccess
    <2>2. CASE r = worker[w].ref
        BY <1>0, <2>1, <2>2 DEF PaymentRow
    <2>3. CASE r # worker[w].ref
        BY <1>0, <2>1, <2>3
    <2> QED
        BY <2>2, <2>3
<1>3. ASSUME NEW w \in Workers, Step(w), ~RecordAttempt(w), ~MarkSuccess(w)
      PROVE  UNCHANGED payment
    BY <1>3 DEF Step, ReadBalance, CheckTierLimit, OpenTransaction, ProviderRefuses, AskPaystack,
                LookUp, ReadTotal, RollInvoice, Announce, ledgerVars
<1>4. ASSUME NEW w \in Workers,
             \/ StatementFails(w)
             \/ \E i \in Invoices : StartCheckout(w, i) \/ StartUssd(w, i)
             \/ \E q \in Refs : DeliverWebhook(w, q) \/ HubtelCallback(w, q) \/ StartVerify(w, q)
      PROVE  UNCHANGED payment
    BY <1>4 DEF StatementFails, StartCheckout, StartUssd, StartPayment, DeliverWebhook,
                HubtelCallback, StartVerify, ledgerVars
<1>5. ASSUME \/ \E q \in Refs : CustomerPays(q)
             \/ Crash \/ DayEnds \/ UNCHANGED vars
      PROVE  UNCHANGED payment
    BY <1>5 DEF CustomerPays, Crash, DayEnds, NextDay, vars, ledgerVars
<1> QED
    BY <1>1, <1>2, <1>3, <1>4, <1>5 DEF Next

-----------------------------------------------------------------------------
(* One credit after another ends in "paid".                                *)

\* A request stays as it is, or stops crediting; one that leaves a credit the invoice does
\* not show disturbs the invoice.
KeepsTurn(v) ==
    \/ /\ worker'[v].pc = worker[v].pc
       /\ worker'[v].invoice = worker[v].invoice
       /\ worker'[v].status = worker[v].status
    \/ /\ worker'[v].pc \notin {"mark", "total", "roll"}
       /\ worker[v].pc \in {"total", "roll"} => worker[v].invoice \in disturbed'

LEMMA QuietTurn ==
    ASSUME CreditsInTurn, disturbed \subseteq disturbed', UNCHANGED invoice,
           \A i \in Invoices : Collected(i)' = Collected(i),
           \A v \in Workers : KeepsTurn(v)
    PROVE  OneCreditAtATime' /\ UnpaidNeedsInterference'
<1>1. ASSUME NEW i \in Invoices, NEW v \in Workers, Crediting(v, i)'
      PROVE  /\ Crediting(v, i) /\ worker'[v].pc = worker[v].pc
             /\ worker'[v].status = worker[v].status
    BY <1>1 DEF Crediting, KeepsTurn
<1>2. OneCreditAtATime'
    BY <1>1 DEF CreditsInTurn, OneCreditAtATime, At
<1>3. ASSUME NEW i \in Invoices, Collected(i)' >= Total[i], invoice'[i] # "paid", i \notin disturbed'
      PROVE  i \in Unrolled(Workers)'
    <2>1. PICK v \in Workers : worker[v].pc \in {"total", "roll"} /\ worker[v].invoice = i
        BY <1>3 DEF CreditsInTurn, UnpaidNeedsInterference, Unrolled
    <2>2. worker'[v].pc = worker[v].pc /\ worker'[v].invoice = worker[v].invoice
        BY <1>3, <2>1 DEF KeepsTurn
    <2> QED
        BY <2>1, <2>2 DEF Unrolled
<1> QED
    BY <1>2, <1>3 DEF UnpaidNeedsInterference

\* One request changes its place and nothing else the invariant speaks of.
LEMMA QuietStep ==
    ASSUME CreditsInTurn, NEW w \in Workers, NEW q,
           worker' = [worker EXCEPT ![w] = q],
           q.pc \notin {"mark", "total", "roll"},
           worker[w].pc \in {"total", "roll"} => worker[w].invoice \in disturbed',
           disturbed \subseteq disturbed', UNCHANGED <<invoice, payment>>
    PROVE  OneCreditAtATime' /\ UnpaidNeedsInterference'
<1>1. worker \in [Workers -> Request]
    BY DEF CreditsInTurn, CreditInv, TypeOK
<1>2. \A v \in Workers : KeepsTurn(v)
    BY <1>1 DEF KeepsTurn
<1> QED
    BY <1>2, QuietTurn, CollectedKept

LEMMA QuietReturn ==
    ASSUME CreditsInTurn, NEW w \in Workers, Return(w),
           worker[w].pc \in {"total", "roll"} => worker[w].invoice \in disturbed',
           disturbed \subseteq disturbed', UNCHANGED <<invoice, payment>>
    PROVE  OneCreditAtATime' /\ UnpaidNeedsInterference'
<1>1. Idle.pc \notin {"mark", "total", "roll"}
    BY DEF Idle
<1> QED
    BY <1>1, QuietStep DEF Return

LEMMA QuietGoto ==
    ASSUME CreditsInTurn, NEW w \in Workers, NEW pc, Goto(w, pc),
           pc \notin {"mark", "total", "roll"}, worker[w].pc \notin {"total", "roll"},
           disturbed \subseteq disturbed', UNCHANGED <<invoice, payment>>
    PROVE  OneCreditAtATime' /\ UnpaidNeedsInterference'
<1> DEFINE q == [worker[w] EXCEPT !.pc = pc]
<1>1. q.pc = pc
    BY WorkerFields DEF CreditsInTurn, CreditInv, Request
<1>2. worker' = [worker EXCEPT ![w] = q]
    BY DEF Goto
<1> HIDE DEF q
<1> QED
    BY <1>1, <1>2, QuietStep

LEMMA InitInTurn == Init => CreditsInTurn
<1> SUFFICES ASSUME Init PROVE CreditsInTurn
    OBVIOUS
<1>1. CreditInv
    BY InitInv
<1>2. \A w \in Workers : worker[w].pc = "idle"
    BY DEF Init, Idle
<1>3. ASSUME NEW i \in Invoices PROVE ~(Collected(i) >= Total[i])
    <2>1. SuccessfulOn(i) = {}
        BY DEF Init, NoRow, SuccessfulOn, Successful
    <2>2. Collected(i) = 0
        BY <2>1, SumEmpty DEF Collected, Volume
    <2>3. Total[i] \in Nat \ {0}
        OBVIOUS
    <2> QED
        BY <2>2, <2>3
<1> QED
    BY <1>1, <1>2, <1>3 DEF CreditsInTurn, OneCreditAtATime, UnpaidNeedsInterference, Crediting

\* SetPaymentStatus: the sum of its own invoice may grow, no other sum changes.
LEMMA MarkInTurn ==
    ASSUME CreditsInTurn, NEW w \in Workers, MarkSuccess(w)
    PROVE  OneCreditAtATime' /\ UnpaidNeedsInterference'
<1> DEFINE r == worker[w].ref
           j == worker[w].invoice
<1>1. /\ worker \in [Workers -> Request] /\ payment \in [Refs -> PaymentRow]
      /\ r \in Refs /\ j \in Invoices /\ payment[r] \in PaymentRow
    BY WorkerFields DEF CreditsInTurn, CreditInv, TypeOK, LedgerTypeOK
<1>2. payment[r].invoice = j /\ worker[w].pc = "mark"
    BY DEF MarkSuccess, At, CreditsInTurn, CreditInv, RequestsMatchRows, RequestMatches
<1>3. payment' = [payment EXCEPT ![r] = [payment[r] EXCEPT !.status = "success", !.day = today]]
    BY DEF MarkSuccess
<1>4. /\ \A p \in Refs : p # r => payment'[p] = payment[p]
      /\ payment'[r].invoice = j
    BY <1>1, <1>2, <1>3 DEF PaymentRow
<1>5. /\ \A v \in Workers : v # w => worker'[v] = worker[v]
      /\ worker'[w].pc = "total" /\ worker'[w].invoice = j
    <2>1. worker' = [worker EXCEPT ![w] = [worker[w] EXCEPT !.pc = "total"]]
        BY DEF MarkSuccess, Goto
    <2> QED
        BY <1>1, <2>1 DEF Request
<1>6. UNCHANGED <<invoice, disturbed>>
    BY DEF MarkSuccess
<1> HIDE DEF r, j
<1>7. ASSUME NEW i \in Invoices, i # j PROVE Collected(i)' = Collected(i)
    <2>1. \A p \in Refs : p \in SuccessfulOn(i)' <=> p \in SuccessfulOn(i)
        BY <1>2, <1>4, <1>7 DEF SuccessfulOn, Successful
    <2>2. SuccessfulOn(i)' = SuccessfulOn(i) /\ SuccessfulOn(i) \in SUBSET Refs
        BY <2>1 DEF SuccessfulOn, Successful
    <2>3. \A p \in SuccessfulOn(i) : payment'[p].amount = payment[p].amount
        BY <1>2, <1>4, <1>7 DEF SuccessfulOn, Successful
    <2>4. SumFunctionOnSet([p \in Refs |-> payment'[p].amount], SuccessfulOn(i)) = Volume(SuccessfulOn(i))
        BY ONLY <2>2, <2>3, VolumeKept
    <2> QED
        BY <2>2, <2>4 DEF Collected, Volume
<1>8. \A v \in Workers, i \in Invoices : Crediting(v, i)' <=> Crediting(v, i)
    BY <1>2, <1>5 DEF Crediting, j
<1>9. j \in Unrolled(Workers)'
    BY <1>5 DEF Unrolled
<1>10. \A i \in Invoices : i \in Unrolled(Workers) => i \in Unrolled(Workers)'
    BY <1>2, <1>5 DEF Unrolled
<1>11. OneCreditAtATime'
    <2> SUFFICES ASSUME NEW i \in Invoices, i \notin disturbed, NEW u \in Workers, Crediting(u, i)
                 PROVE  /\ \A v \in Workers : Crediting(v, i) => v = u
                        /\ At(u, "roll")' /\ Collected(i)' >= Total[i] => worker'[u].status = "paid"
        BY <1>6, <1>8 DEF OneCreditAtATime
    <2>1. /\ \A v \in Workers : Crediting(v, i) => v = u
          /\ At(u, "roll") /\ Collected(i) >= Total[i] => worker[u].status = "paid"
        BY DEF CreditsInTurn, OneCreditAtATime
    <2>2. CASE i = j
        <3>1. u = w
            BY <1>2, <2>1, <2>2 DEF Crediting, j
        <3> QED
            BY <1>5, <2>1, <3>1 DEF At
    <2>3. CASE i # j
        <3>1. u # w
            BY <2>3 DEF Crediting, j
        <3> QED
            BY <1>5, <1>7, <2>1, <2>3, <3>1 DEF At
    <2> QED
        BY <2>2, <2>3
<1>12. UnpaidNeedsInterference'
    BY <1>6, <1>7, <1>9, <1>10 DEF CreditsInTurn, UnpaidNeedsInterference
<1> QED
    BY <1>11, <1>12

\* GetPaymentByReference: a request that finds another one crediting its invoice
\* disturbs it.
LEMMA LookUpInTurn ==
    ASSUME CreditsInTurn, NEW w \in Workers, LookUp(w)
    PROVE  OneCreditAtATime' /\ UnpaidNeedsInterference'
<1>1. /\ worker \in [Workers -> Request] /\ UNCHANGED <<invoice, payment>>
      /\ worker[w].pc = "lookup"
    BY DEF LookUp, ledgerVars, At, CreditsInTurn, CreditInv, TypeOK
<1>2. CASE payment[worker[w].ref].status # "pending"
    <2>1. Return(w) /\ UNCHANGED disturbed
        BY <1>2 DEF LookUp, Answer
    <2> QED
        BY <1>1, <2>1, QuietReturn
<1>3. CASE payment[worker[w].ref].status = "pending"
    <2> DEFINE j == payment[worker[w].ref].invoice
    <2>1. /\ \A v \in Workers : v # w => worker'[v] = worker[v]
          /\ worker'[w].pc = "mark" /\ worker'[w].invoice = j
        BY <1>1, <1>3 DEF LookUp, Request
    <2>2. /\ disturbed \subseteq disturbed'
          /\ j \notin disturbed' => \A u \in Workers : u # w => ~Crediting(u, j)
        BY <1>3 DEF LookUp
    <2> HIDE DEF j
    <2>3. \A v \in Workers, i \in Invoices :
             Crediting(v, i)' <=> Crediting(v, i) \/ (v = w /\ i = j)
        BY <1>1, <2>1 DEF Crediting
    <2>4. OneCreditAtATime'
        <3> SUFFICES ASSUME NEW i \in Invoices, i \notin disturbed', NEW u \in Workers, Crediting(u, i)'
                     PROVE  /\ \A v \in Workers : Crediting(v, i)' => v = u
                            /\ At(u, "roll")' /\ Collected(i)' >= Total[i] => worker'[u].status = "paid"
            BY DEF OneCreditAtATime
        <3>1. CASE u = w
            <4>1. i = j
                BY <2>1, <3>1 DEF Crediting
            <4> QED
                BY <2>1, <2>2, <2>3, <3>1, <4>1 DEF At
        <3>2. CASE u # w
            <4>1. Crediting(u, i) /\ i # j
                BY <2>2, <2>3, <3>2
            <4>2. /\ \A v \in Workers : Crediting(v, i) => v = u
                  /\ At(u, "roll") /\ Collected(i) >= Total[i] => worker[u].status = "paid"
                BY <2>2, <4>1 DEF CreditsInTurn, OneCreditAtATime
            <4> QED
                BY <1>1, <2>1, <2>3, <3>2, <4>1, <4>2, CollectedKept DEF At
        <3> QED
            BY <3>1, <3>2
    <2>5. \A i \in Invoices : i \in Unrolled(Workers) => i \in Unrolled(Workers)'
        BY <1>1, <2>1 DEF Unrolled
    <2>6. UnpaidNeedsInterference'
        BY <1>1, <2>2, <2>5, CollectedKept DEF CreditsInTurn, UnpaidNeedsInterference
    <2> QED
        BY <2>4, <2>6
<1> QED
    BY <1>2, <1>3

\* The sum a request reads is the one it rolls the invoice by.
LEMMA ReadInTurn ==
    ASSUME CreditsInTurn, NEW w \in Workers, ReadTotal(w)
    PROVE  OneCreditAtATime' /\ UnpaidNeedsInterference'
<1> DEFINE j == worker[w].invoice
           st == IF Collected(j) >= Total[j] THEN "paid" ELSE "partially_paid"
<1>1. /\ worker \in [Workers -> Request] /\ UNCHANGED <<invoice, payment, disturbed>>
      /\ worker[w].pc = "total" /\ j \in Invoices
    BY WorkerFields DEF ReadTotal, ledgerVars, At, CreditsInTurn, CreditInv, TypeOK
<1>2. /\ \A v \in Workers : v # w => worker'[v] = worker[v]
      /\ worker'[w].pc = "roll" /\ worker'[w].invoice = j /\ worker'[w].status = st
    BY <1>1 DEF ReadTotal, Request
<1>3. Collected(j) >= Total[j] => st = "paid"
    OBVIOUS
<1> HIDE DEF st, j
<1>4. \A v \in Workers, i \in Invoices : Crediting(v, i)' <=> Crediting(v, i)
    BY <1>1, <1>2 DEF Crediting, j
<1>5. OneCreditAtATime'
    <2> SUFFICES ASSUME NEW i \in Invoices, i \notin disturbed, NEW u \in Workers, Crediting(u, i)
                 PROVE  /\ \A v \in Workers : Crediting(v, i) => v = u
                        /\ At(u, "roll")' /\ Collected(i)' >= Total[i] => worker'[u].status = "paid"
        BY <1>1, <1>4 DEF OneCreditAtATime
    <2>1. /\ \A v \in Workers : Crediting(v, i) => v = u
          /\ At(u, "roll") /\ Collected(i) >= Total[i] => worker[u].status = "paid"
        BY DEF CreditsInTurn, OneCreditAtATime
    <2>2. CASE u = w
        <3>1. i = j
            BY <2>2 DEF Crediting, j
        <3> QED
            BY <1>1, <1>2, <1>3, <2>1, <2>2, <3>1, CollectedKept DEF At
    <2>3. CASE u # w
        BY <1>1, <1>2, <2>1, <2>3, CollectedKept DEF At
    <2> QED
        BY <2>2, <2>3
<1>6. \A i \in Invoices : i \in Unrolled(Workers) => i \in Unrolled(Workers)'
    BY <1>1, <1>2 DEF Unrolled, j
<1>7. UnpaidNeedsInterference'
    BY <1>1, <1>6, CollectedKept DEF CreditsInTurn, UnpaidNeedsInterference
<1> QED
    BY <1>5, <1>7

\* SetInvoiceStatus: undisturbed, the request writes "paid" when the sum covers the total.
LEMMA RollInTurn ==
    ASSUME CreditsInTurn, NEW w \in Workers, RollInvoice(w)
    PROVE  OneCreditAtATime' /\ UnpaidNeedsInterference'
<1> DEFINE j == worker[w].invoice
<1>1. /\ worker \in [Workers -> Request] /\ UNCHANGED <<payment, disturbed>>
      /\ worker[w].pc = "roll" /\ j \in Invoices
      /\ invoice \in [Invoices -> InvoiceStatus]
    BY WorkerFields DEF RollInvoice, At, CreditsInTurn, CreditInv, TypeOK, LedgerTypeOK
<1>2. /\ \A v \in Workers : v # w => worker'[v] = worker[v]
      /\ worker'[w].pc = "announce"
    <2>1. worker' = [worker EXCEPT ![w] = [worker[w] EXCEPT !.pc = "announce"]]
        BY DEF RollInvoice, Goto
    <2> QED
        BY <1>1, <2>1 DEF Request
<1>3. /\ \A i \in Invoices : i # j => invoice'[i] = invoice[i]
      /\ invoice'[j] = worker[w].status
    BY <1>1 DEF RollInvoice
<1>4. \A v \in Workers, i \in Invoices : Crediting(v, i)' => Crediting(v, i) /\ v # w
    BY <1>1, <1>2 DEF Crediting
<1>5. OneCreditAtATime'
    BY <1>1, <1>2, <1>4, CollectedKept DEF CreditsInTurn, OneCreditAtATime, At
<1>6. ASSUME NEW i \in Invoices, Collected(i)' >= Total[i], invoice'[i] # "paid", i \notin disturbed'
      PROVE  i \in Unrolled(Workers)'
    <2>1. Collected(i) >= Total[i] /\ i \notin disturbed
        BY <1>1, <1>6, CollectedKept
    <2>2. i # j
        <3>1. i = j => worker[w].status = "paid"
            BY <1>1, <2>1 DEF CreditsInTurn, OneCreditAtATime, Crediting, At
        <3> QED
            BY <1>3, <1>6, <3>1
    <2>3. PICK v \in Workers : worker[v].pc \in {"total", "roll"} /\ worker[v].invoice = i
        BY <1>3, <1>6, <2>1, <2>2 DEF CreditsInTurn, UnpaidNeedsInterference, Unrolled
    <2> QED
        BY <1>2, <2>2, <2>3 DEF Unrolled
<1> QED
    BY <1>5, <1>6 DEF UnpaidNeedsInterference

\* CreatePayment: the new row is not a success yet, so no sum changes.
LEMMA RecordInTurn ==
    ASSUME CreditsInTurn, NEW w \in Workers, RecordAttempt(w)
    PROVE  OneCreditAtATime' /\ UnpaidNeedsInterference'
<1> DEFINE r == worker[w].ref
           row == PendingRow(worker[w].invoice, worker[w].amount, FALSE)
<1>1. /\ worker \in [Workers -> Request] /\ payment \in [Refs -> PaymentRow]
      /\ r \in Refs /\ worker[w].pc = "insert" /\ payment[r].status = "absent"
    BY WorkerFields DEF CreditsInTurn, CreditInv, TypeOK, LedgerTypeOK, RecordAttempt, At
<1>2. payment' = [payment EXCEPT ![r] = row] /\ UNCHANGED <<invoice, disturbed>> /\ Return(w)
    BY DEF RecordAttempt
<1>3. row.status = "pending"
    BY DEF PendingRow, NoRow
<1> HIDE DEF r, row
<1>4. \A p \in Refs : /\ payment'[p].status = "success" <=> payment[p].status = "success"
                      /\ payment[p].status = "success" => payment'[p] = payment[p]
    BY <1>1, <1>2, <1>3
<1>5. ASSUME NEW i \in Invoices PROVE Collected(i)' = Collected(i)
    <2>1. SuccessfulOn(i)' = SuccessfulOn(i) /\ SuccessfulOn(i) \in SUBSET Refs
        BY <1>4 DEF SuccessfulOn, Successful
    <2>2. \A p \in SuccessfulOn(i) : payment'[p].amount = payment[p].amount
        BY <1>4 DEF SuccessfulOn, Successful
    <2>3. SumFunctionOnSet([p \in Refs |-> payment'[p].amount], SuccessfulOn(i)) = Volume(SuccessfulOn(i))
        BY ONLY <2>1, <2>2, VolumeKept
    <2> QED
        BY <2>1, <2>3 DEF Collected, Volume
<1>6. Idle.pc \notin {"mark", "total", "roll"}
    BY DEF Idle
<1>7. \A v \in Workers : KeepsTurn(v)
    BY <1>1, <1>2, <1>6 DEF KeepsTurn, Return
<1> QED
    BY <1>2, <1>5, <1>7, QuietTurn

LEMMA NextInTurn == CreditsInTurn /\ [Next]_vars => CreditsInTurn'
<1> SUFFICES ASSUME CreditsInTurn, [Next]_vars
             PROVE  OneCreditAtATime' /\ UnpaidNeedsInterference'
    BY NextInv DEF CreditsInTurn
<1> DEFINE Turn == OneCreditAtATime' /\ UnpaidNeedsInterference'
<1>0. worker \in [Workers -> Request]
    BY DEF CreditsInTurn, CreditInv, TypeOK
<1>1. ASSUME NEW w \in Workers, NEW i \in Invoices, StartCheckout(w, i) \/ StartUssd(w, i)
      PROVE  Turn
    <2>1. PICK op \in {"checkout", "ussd"} : StartPayment(w, i, op)
        BY <1>1 DEF StartCheckout, StartUssd
    <2> DEFINE q == [Idle EXCEPT !.pc = "balance", !.op = op, !.invoice = i]
    <2>2. q.pc = "balance"
        BY DefaultsTyped DEF Request
    <2>3. /\ worker' = [worker EXCEPT ![w] = q] /\ worker[w].pc = "idle"
          /\ UNCHANGED <<invoice, payment, disturbed>>
        BY <2>1 DEF StartPayment, ledgerVars, At
    <2> HIDE DEF q
    <2> QED
        BY <2>2, <2>3, QuietStep
<1>2. ASSUME NEW w \in Workers, NEW r \in Refs,
             DeliverWebhook(w, r) \/ HubtelCallback(w, r) \/ StartVerify(w, r)
      PROVE  Turn
    <2>1. PICK pc \in {"lookup", "verify"}, op \in {"webhook", "callback", "verify"} :
             worker' = [worker EXCEPT ![w] = [Idle EXCEPT !.pc = pc, !.op = op, !.ref = r]]
        BY <1>2 DEF DeliverWebhook, HubtelCallback, StartVerify
    <2> DEFINE q == [Idle EXCEPT !.pc = pc, !.op = op, !.ref = r]
    <2>2. q.pc = pc
        BY DefaultsTyped DEF Request
    <2>3. worker[w].pc = "idle" /\ UNCHANGED <<invoice, payment, disturbed>>
        BY <1>2 DEF DeliverWebhook, HubtelCallback, StartVerify, ledgerVars, At
    <2> HIDE DEF q
    <2> QED
        BY <2>1, <2>2, <2>3, QuietStep DEF q
<1>3. ASSUME NEW w \in Workers, ReadBalance(w) PROVE Turn
    <2>1. worker[w].pc = "balance" /\ UNCHANGED <<invoice, payment, disturbed>>
        BY <1>3 DEF ReadBalance, ledgerVars, At
    <2>2. CASE Return(w)
        BY <2>1, <2>2, QuietReturn
    <2>3. ASSUME NEW amt, worker' = [worker EXCEPT ![w].pc = "limit", ![w].amount = amt,
                                                   ![w].saw = Successful]
          PROVE  Turn
        <3> DEFINE q == [worker[w] EXCEPT !.pc = "limit", !.amount = amt, !.saw = Successful]
        <3>1. q.pc = "limit" /\ worker' = [worker EXCEPT ![w] = q]
            BY <1>0, <2>3 DEF Request
        <3> HIDE DEF q
        <3> QED
            BY <2>1, <3>1, QuietStep
    <2> QED
        BY <1>3, <2>2, <2>3 DEF ReadBalance
<1>4. ASSUME NEW w \in Workers, CheckTierLimit(w) \/ AskPaystack(w) PROVE Turn
    <2>1. /\ worker[w].pc \in {"limit", "verify"} /\ UNCHANGED <<invoice, payment, disturbed>>
          /\ Return(w) \/ Goto(w, "charge") \/ Goto(w, "lookup")
        BY <1>4 DEF CheckTierLimit, AskPaystack, ledgerVars, At
    <2> QED
        BY <2>1, QuietReturn, QuietGoto
<1>5. ASSUME NEW w \in Workers, OpenTransaction(w) PROVE Turn
    <2>1. PICK r \in Refs : worker' = [worker EXCEPT ![w].pc = "insert", ![w].ref = r]
        BY <1>5 DEF OpenTransaction
    <2> DEFINE q == [worker[w] EXCEPT !.pc = "insert", !.ref = r]
    <2>2. q.pc = "insert" /\ worker' = [worker EXCEPT ![w] = q]
        BY <1>0, <2>1 DEF Request
    <2>3. worker[w].pc = "charge" /\ UNCHANGED <<invoice, payment, disturbed>>
        BY <1>5 DEF OpenTransaction, ledgerVars, At
    <2> HIDE DEF q
    <2> QED
        BY <2>2, <2>3, QuietStep
<1>6. ASSUME NEW w \in Workers, ProviderRefuses(w) \/ Announce(w) PROVE Turn
    <2>1. /\ worker[w].pc \in {"charge", "announce"} /\ Return(w)
          /\ UNCHANGED <<invoice, payment, disturbed>>
        BY <1>6 DEF ProviderRefuses, Announce, Answer, ledgerVars, At
    <2> QED
        BY <2>1, QuietReturn
<1>7. ASSUME NEW w \in Workers, StatementFails(w) PROVE Turn
    <2>1. /\ Return(w) /\ UNCHANGED <<invoice, payment>> /\ disturbed \subseteq disturbed'
          /\ worker[w].pc \in {"total", "roll"} => worker[w].invoice \in disturbed'
        BY <1>7 DEF StatementFails, ledgerVars, Unrolled
    <2> QED
        BY <2>1, QuietReturn
<1>8. CASE Crash
    <2>1. /\ UNCHANGED <<invoice, payment>> /\ disturbed \subseteq disturbed'
          /\ \A v \in Workers : /\ worker'[v] = Idle
                                /\ worker[v].pc \in {"total", "roll"} => worker[v].invoice \in disturbed'
        BY <1>8 DEF Crash, ledgerVars, Unrolled
    <2>2. Idle.pc \notin {"mark", "total", "roll"}
        BY DEF Idle
    <2>3. \A v \in Workers : KeepsTurn(v)
        BY <2>1, <2>2 DEF KeepsTurn
    <2> QED
        BY <2>1, <2>3, QuietTurn, CollectedKept
<1>9. CASE DayEnds \/ UNCHANGED vars \/ \E r \in Refs : CustomerPays(r)
    <2>1. UNCHANGED <<invoice, payment, disturbed, worker>>
        BY <1>9 DEF DayEnds, NextDay, vars, CustomerPays, ledgerVars
    <2>2. \A v \in Workers : KeepsTurn(v)
        BY <2>1 DEF KeepsTurn
    <2> QED
        BY <2>1, <2>2, QuietTurn, CollectedKept
<1> HIDE DEF Turn
<1>10. Turn
    BY <1>1, <1>2, <1>3, <1>4, <1>5, <1>6, <1>7, <1>8, <1>9, MarkInTurn, LookUpInTurn,
       ReadInTurn, RollInTurn, RecordInTurn DEF Next, Step, Turn
<1> QED
    BY <1>10 DEF Turn

\* The status of an invoice fails to follow its payments only when two requests credit it
\* at once or one fails between its writes, for any number of invoices and requests.
THEOREM UnpaidOnlyFromInterference == Spec => []UnpaidNeedsInterference
<1>1. CreditsInTurn => UnpaidNeedsInterference
    BY DEF CreditsInTurn
<1> QED
    BY <1>1, InitInTurn, NextInTurn, PTL DEF Spec

-----------------------------------------------------------------------------
(* What overlapping attempts collect.                                      *)

\* No step takes a successful payment back or restates it.
LEMMA SuccessesGrow ==
    ASSUME CreditInv, [Next]_vars, NEW r \in Successful
    PROVE  /\ r \in Successful'
           /\ payment'[r].invoice = payment[r].invoice
           /\ payment'[r].amount = payment[r].amount
BY StepMovesForward DEF Successful

\* What a step makes of one request: it keeps what it saw and wants, ends, or has
\* just read the balance; only checkTierLimit takes it to the charge.
LEMMA RequestMoves ==
    ASSUME CreditInv, [Next]_vars, NEW v \in Workers
    PROVE  /\ worker'[v].saw \in {{}, worker[v].saw, Successful}
           /\ worker'[v].pc \in {"limit", "charge"} =>
                \/ /\ worker[v].pc \in {"limit", "charge"}
                   /\ worker'[v].saw = worker[v].saw
                   /\ worker'[v].invoice = worker[v].invoice
                   /\ worker'[v].amount = worker[v].amount
                   /\ worker'[v].pc = "charge" =>
                        worker[v].pc = "charge" \/ WithinTierLimit(worker[v].amount)
                \/ /\ worker'[v].pc = "limit"
                   /\ worker'[v].saw = Successful
                   /\ worker'[v].invoice = worker[v].invoice
                   /\ Owed(worker[v].invoice) > 0
                   /\ worker'[v].amount <= Owed(worker[v].invoice)
<1> DEFINE Moves ==
              /\ worker'[v].saw \in {{}, worker[v].saw, Successful}
              /\ worker'[v].pc \in {"limit", "charge"} =>
                   \/ /\ worker[v].pc \in {"limit", "charge"}
                      /\ worker'[v].saw = worker[v].saw
                      /\ worker'[v].invoice = worker[v].invoice
                      /\ worker'[v].amount = worker[v].amount
                      /\ worker'[v].pc = "charge" =>
                           worker[v].pc = "charge" \/ WithinTierLimit(worker[v].amount)
                   \/ /\ worker'[v].pc = "limit"
                      /\ worker'[v].saw = Successful
                      /\ worker'[v].invoice = worker[v].invoice
                      /\ Owed(worker[v].invoice) > 0
                      /\ worker'[v].amount <= Owed(worker[v].invoice)
<1> SUFFICES Moves
    OBVIOUS
<1>0. /\ worker \in [Workers -> Request] /\ worker[v] \in Request
      /\ Idle.pc = "idle" /\ Idle.saw = {} /\ Idle \in Request
    BY DefaultsTyped DEF CreditInv, TypeOK, Idle
<1>1. ASSUME worker'[v] = worker[v] PROVE Moves
    BY <1>1
<1>2. ASSUME NEW q, worker'[v] = q, q.pc \notin {"limit", "charge"}, q.saw \in {{}, worker[v].saw}
      PROVE  Moves
    BY <1>2
<1>3. ASSUME NEW w \in Workers, Return(w) PROVE Moves
    <2>1. worker'[v] = worker[v] \/ worker'[v] = Idle
        BY <1>0, <1>3 DEF Return
    <2> QED
        BY <1>0, <1>1, <1>2, <2>1
<1>4. ASSUME NEW w \in Workers, NEW pc, Goto(w, pc), pc \notin {"limit", "charge"} PROVE Moves
    <2>1. \/ worker'[v] = worker[v]
          \/ worker'[v] = [worker[v] EXCEPT !.pc = pc]
        BY <1>0, <1>4 DEF Goto
    <2>2. [worker[v] EXCEPT !.pc = pc].saw = worker[v].saw /\ [worker[v] EXCEPT !.pc = pc].pc = pc
        BY <1>0 DEF Request
    <2> QED
        BY <1>1, <1>2, <1>4, <2>1, <2>2
<1>5. ASSUME NEW w \in Workers, NEW i \in Invoices, StartCheckout(w, i) \/ StartUssd(w, i)
      PROVE  Moves
    <2>1. PICK op \in {"checkout", "ussd"} : StartPayment(w, i, op)
        BY <1>5 DEF StartCheckout, StartUssd
    <2> DEFINE q == [Idle EXCEPT !.pc = "balance", !.op = op, !.invoice = i]
    <2>2. q.pc = "balance" /\ q.saw = {}
        BY <1>0 DEF Request
    <2>3. worker'[v] = worker[v] \/ worker'[v] = q
        BY <1>0, <2>1 DEF StartPayment
    <2> HIDE DEF q
    <2> QED
        BY <1>1, <1>2, <2>2, <2>3
<1>6. ASSUME NEW w \in Workers, NEW r \in Refs,
             DeliverWebhook(w, r) \/ HubtelCallback(w, r) \/ StartVerify(w, r)
      PROVE  Moves
    <2>1. PICK pc \in {"lookup", "verify"}, op \in {"webhook", "callback", "verify"} :
             worker' = [worker EXCEPT ![w] = [Idle EXCEPT !.pc = pc, !.op = op, !.ref = r]]
        BY <1>6 DEF DeliverWebhook, HubtelCallback, StartVerify
    <2> DEFINE q == [Idle EXCEPT !.pc = pc, !.op = op, !.ref = r]
    <2>2. q.pc = pc /\ q.saw = {}
        BY <1>0 DEF Request
    <2>3. worker'[v] = worker[v] \/ worker'[v] = q
        BY <1>0, <2>1
    <2> HIDE DEF q
    <2> QED
        BY <1>1, <1>2, <2>2, <2>3
<1>7. ASSUME NEW w \in Workers, ReadBalance(w) PROVE Moves
    <2>1. CASE Return(w)
        BY <1>3, <2>1
    <2>2. ASSUME NEW amt, amt <= Owed(worker[w].invoice), Owed(worker[w].invoice) > 0,
                 worker' = [worker EXCEPT ![w].pc = "limit", ![w].amount = amt,
                                          ![w].saw = Successful]
          PROVE  Moves
        <3>1. CASE v # w
            BY <1>0, <1>1, <2>2, <3>1
        <3>2. CASE v = w
            <4> DEFINE q == [worker[v] EXCEPT !.pc = "limit", !.amount = amt, !.saw = Successful]
            <4>1. /\ q.pc = "limit" /\ q.amount = amt /\ q.saw = Successful
                  /\ q.invoice = worker[v].invoice
                BY <1>0 DEF Request
            <4>2. worker'[v] = q
                BY <1>0, <2>2, <3>2
            <4> HIDE DEF q
            <4> QED
                BY <2>2, <3>2, <4>1, <4>2
        <3> QED
            BY <3>1, <3>2
    <2> QED
        BY <1>7, <2>1, <2>2 DEF ReadBalance
<1>8. ASSUME NEW w \in Workers, CheckTierLimit(w) PROVE Moves
    <2>1. CASE Return(w)
        BY <1>3, <2>1
    <2>2. CASE ~Return(w)
        <3>1. WithinTierLimit(worker[w].amount) /\ Goto(w, "charge") /\ At(w, "limit")
            BY <1>8, <2>2 DEF CheckTierLimit
        <3>2. CASE v # w
            BY <1>0, <1>1, <3>1, <3>2 DEF Goto
        <3>3. CASE v = w
            <4> DEFINE q == [worker[v] EXCEPT !.pc = "charge"]
            <4>1. /\ q.pc = "charge" /\ q.amount = worker[v].amount /\ q.saw = worker[v].saw
                  /\ q.invoice = worker[v].invoice
                BY <1>0 DEF Request
            <4>2. worker'[v] = q
                BY <1>0, <3>1, <3>3 DEF Goto
            <4> HIDE DEF q
            <4> QED
                BY <3>1, <3>3, <4>1, <4>2 DEF At
        <3> QED
            BY <3>2, <3>3
    <2> QED
        BY <2>1, <2>2
<1>9. ASSUME NEW w \in Workers, OpenTransaction(w) PROVE Moves
    <2>1. PICK r \in Refs : worker' = [worker EXCEPT ![w].pc = "insert", ![w].ref = r]
        BY <1>9 DEF OpenTransaction
    <2> DEFINE q == [worker[v] EXCEPT !.pc = "insert", !.ref = r]
    <2>2. q.pc = "insert" /\ q.saw = worker[v].saw
        BY <1>0 DEF Request
    <2>3. worker'[v] = worker[v] \/ worker'[v] = q
        BY <1>0, <2>1
    <2> HIDE DEF q
    <2> QED
        BY <1>1, <1>2, <2>2, <2>3
<1>10. ASSUME NEW w \in Workers, ReadTotal(w) PROVE Moves
    <2>1. PICK st : worker' = [worker EXCEPT ![w].pc = "roll", ![w].status = st]
        BY <1>10 DEF ReadTotal
    <2> DEFINE q == [worker[v] EXCEPT !.pc = "roll", !.status = st]
    <2>2. q.pc = "roll" /\ q.saw = worker[v].saw
        BY <1>0 DEF Request
    <2>3. worker'[v] = worker[v] \/ worker'[v] = q
        BY <1>0, <2>1
    <2> HIDE DEF q
    <2> QED
        BY <1>1, <1>2, <2>2, <2>3
<1>11. ASSUME NEW w \in Workers, LookUp(w) PROVE Moves
    <2>1. CASE Return(w)
        BY <1>3, <2>1
    <2>2. CASE ~Return(w)
        <3>1. PICK i : worker' = [worker EXCEPT ![w].pc = "mark", ![w].invoice = i]
            BY <1>11, <2>2 DEF LookUp, Answer
        <3> DEFINE q == [worker[v] EXCEPT !.pc = "mark", !.invoice = i]
        <3>2. q.pc = "mark" /\ q.saw = worker[v].saw
            BY <1>0 DEF Request
        <3>3. worker'[v] = worker[v] \/ worker'[v] = q
            BY <1>0, <3>1
        <3> HIDE DEF q
        <3> QED
            BY <1>1, <1>2, <3>2, <3>3
    <2> QED
        BY <2>1, <2>2
<1>12. ASSUME NEW w \in Workers,
              ProviderRefuses(w) \/ RecordAttempt(w) \/ Announce(w) \/ StatementFails(w)
       PROVE  Moves
    BY <1>3, <1>12 DEF ProviderRefuses, RecordAttempt, Announce, StatementFails, Answer
<1>13. ASSUME NEW w \in Workers, AskPaystack(w) PROVE Moves
    BY <1>3, <1>4, <1>13 DEF AskPaystack
<1>14. ASSUME NEW w \in Workers, MarkSuccess(w) \/ RollInvoice(w) PROVE Moves
    BY <1>4, <1>14 DEF MarkSuccess, RollInvoice
<1>15. CASE Crash
    <2>1. worker'[v] = Idle
        BY <1>15 DEF Crash
    <2> QED
        BY <1>0, <1>2, <2>1
<1>16. CASE DayEnds \/ UNCHANGED vars \/ \E r \in Refs : CustomerPays(r)
    BY <1>1, <1>16 DEF DayEnds, vars, CustomerPays
<1> QED
    BY <1>5, <1>6, <1>7, <1>8, <1>9, <1>10, <1>11, <1>12, <1>13, <1>14, <1>15, <1>16
    DEF Next, Step

\* What a step makes of one reference: it is as it was, or a request past the checks
\* has just opened it.
LEMMA AttemptOpens ==
    ASSUME CreditInv, [Next]_vars, NEW r \in Refs
    PROVE  \/ /\ saw'[r] = saw[r]
              /\ provider'[r].invoice = provider[r].invoice
              /\ provider'[r].amount = provider[r].amount
              /\ provider'[r].state # "none" => provider[r].state # "none"
           \/ \E w \in Workers :
                /\ At(w, "charge")
                /\ r \notin Successful
                /\ saw'[r] = worker[w].saw
                /\ provider'[r].invoice = worker[w].invoice
                /\ provider'[r].amount = worker[w].amount
<1> DEFINE Same ==
              /\ saw'[r] = saw[r]
              /\ provider'[r].invoice = provider[r].invoice
              /\ provider'[r].amount = provider[r].amount
              /\ provider'[r].state # "none" => provider[r].state # "none"
<1>0. /\ provider \in [Refs -> Transaction] /\ saw \in [Refs -> SUBSET Refs]
      /\ worker \in [Workers -> Request]
    BY DEF CreditInv, TypeOK
<1>1. ASSUME NEW w \in Workers, OpenTransaction(w)
      PROVE  Same \/ /\ At(w, "charge")
                     /\ r \notin Successful
                     /\ saw'[r] = worker[w].saw
                     /\ provider'[r].invoice = worker[w].invoice
                     /\ provider'[r].amount = worker[w].amount
    <2>1. PICK q \in Refs :
            /\ Fresh(q)
            /\ provider' = [provider EXCEPT ![q] =
                 [state   |-> IF worker[w].op = "ussd" THEN "payable" ELSE "initialized",
                  channel |-> IF worker[w].op = "ussd" THEN "hubtel" ELSE "paystack",
                  invoice |-> worker[w].invoice, amount |-> worker[w].amount]]
            /\ saw' = [saw EXCEPT ![q] = worker[w].saw]
        BY <1>1 DEF OpenTransaction
    <2>2. CASE q # r
        BY <1>0, <2>1, <2>2
    <2>3. CASE q = r
        BY <1>0, <1>1, <2>1, <2>3 DEF OpenTransaction, Fresh, Successful
    <2> QED
        BY <2>2, <2>3
<1>2. ASSUME NEW w \in Workers, RecordAttempt(w) PROVE Same
    <2> DEFINE q == worker[w].ref
               st == IF provider[q].state = "initialized" THEN "payable" ELSE provider[q].state
    <2>1. provider' = [provider EXCEPT ![q] = [provider[q] EXCEPT !.state = st]] /\ UNCHANGED saw
        BY <1>2 DEF RecordAttempt
    <2>2. st # "none" => provider[q].state # "none"
        OBVIOUS
    <2> HIDE DEF st, q
    <2> QED
        BY <1>0, <2>1, <2>2 DEF Transaction
<1>3. ASSUME NEW q \in Refs, CustomerPays(q) PROVE Same
    BY <1>0, <1>3 DEF CustomerPays, Transaction
<1>4. ASSUME NEW w \in Workers, Step(w), ~RecordAttempt(w), ~OpenTransaction(w)
      PROVE  UNCHANGED <<provider, saw>>
    BY <1>4 DEF Step, ReadBalance, CheckTierLimit, ProviderRefuses, AskPaystack,
                LookUp, MarkSuccess, ReadTotal, RollInvoice, Announce
<1>5. ASSUME NEW w \in Workers,
             \/ StatementFails(w)
             \/ \E i \in Invoices : StartCheckout(w, i) \/ StartUssd(w, i)
             \/ \E q \in Refs : DeliverWebhook(w, q) \/ HubtelCallback(w, q) \/ StartVerify(w, q)
      PROVE  UNCHANGED <<provider, saw>>
    BY <1>5 DEF StatementFails, StartCheckout, StartUssd, StartPayment, DeliverWebhook,
                HubtelCallback, StartVerify
<1>6. ASSUME Crash \/ DayEnds \/ UNCHANGED vars PROVE UNCHANGED <<provider, saw>>
    BY <1>6 DEF Crash, DayEnds, vars
<1>7. UNCHANGED <<provider, saw>> => Same
    OBVIOUS
<1> HIDE DEF Same
<1>8. Same \/ \E w \in Workers :
                /\ At(w, "charge")
                /\ r \notin Successful
                /\ saw'[r] = worker[w].saw
                /\ provider'[r].invoice = worker[w].invoice
                /\ provider'[r].amount = worker[w].amount
    BY <1>1, <1>2, <1>3, <1>4, <1>5, <1>6, <1>7 DEF Next
<1> QED
    BY <1>8 DEF Same

\* Payments already successful weigh as much after a step as before it.
LEMMA SeenVolumeKept ==
    ASSUME CreditInv, [Next]_vars, NEW S \in SUBSET Successful, NEW i
    PROVE  /\ SumFunctionOnSet([r \in Refs |-> payment'[r].amount], S) = Volume(S)
           /\ SumFunctionOnSet([r \in Refs |-> payment'[r].amount],
                               {r \in S : payment'[r].invoice = i}) = VolumeOn(i, S)
<1> DEFINE T == {r \in S : payment[r].invoice = i}
<1>1. \A r \in S : payment'[r].amount = payment[r].amount /\ payment'[r].invoice = payment[r].invoice
    BY SuccessesGrow
<1>2. {r \in S : payment'[r].invoice = i} = T
    BY <1>1
<1>3. S \in SUBSET Refs /\ T \in SUBSET Refs /\ \A r \in T : payment'[r].amount = payment[r].amount
    BY <1>1 DEF Successful
<1> HIDE DEF T
<1>4. /\ SumFunctionOnSet([r \in Refs |-> payment'[r].amount], S) = Volume(S)
      /\ SumFunctionOnSet([r \in Refs |-> payment'[r].amount], T) = Volume(T)
    BY <1>1, <1>3, VolumeKept
<1> QED
    BY <1>2, <1>4 DEF VolumeOn, T

LEMMA InitOverlap == Init => OverlapInv
<1> SUFFICES ASSUME Init PROVE OverlapInv
    OBVIOUS
<1>1. CreditInv
    BY InitInv
<1>2. /\ \A w \in Workers : worker[w].pc = "idle" /\ worker[w].saw = {}
      /\ \A r \in Refs : provider[r].state = "none" /\ saw[r] = {}
    BY DEF Init, Idle, NoTransaction
<1> QED
    BY <1>1, <1>2
    DEF OverlapInv, SightingsOrdered, AttemptsFit, AttemptsWithinCap, At

LEMMA NextOrdered ==
    ASSUME CreditInv, SightingsOrdered, [Next]_vars
    PROVE  SightingsOrdered'
<1>0. Successful \subseteq Successful'
    BY SuccessesGrow
<1>1. ASSUME NEW q \in Refs, q \in Successful
      PROVE  saw'[q] = saw[q]
    BY <1>1, AttemptOpens
<1>2. Successful \subseteq Refs
    BY DEF Successful
<1>3. ASSUME NEW q \in Refs
      PROVE  /\ q \notin saw'[q]
             /\ saw'[q] \subseteq Successful'
             /\ \A r \in saw'[q] : saw'[r] \subseteq saw'[q]
    <2>1. CASE saw'[q] = saw[q]
        BY <1>0, <1>1, <1>2, <2>1 DEF SightingsOrdered
    <2>2. ASSUME NEW w \in Workers, q \notin Successful, saw'[q] = worker[w].saw
          PROVE  /\ q \notin saw'[q]
                 /\ saw'[q] \subseteq Successful'
                 /\ \A r \in saw'[q] : saw'[r] \subseteq saw'[q]
        BY <1>0, <1>1, <1>2, <2>2 DEF SightingsOrdered
    <2> QED
        BY <2>1, <2>2, AttemptOpens
<1>4. ASSUME NEW w \in Workers
      PROVE  /\ worker'[w].saw \subseteq Successful'
             /\ \A r \in worker'[w].saw : saw'[r] \subseteq worker'[w].saw
    <2>1. CASE worker'[w].saw = {}
        BY <2>1
    <2>2. CASE worker'[w].saw = worker[w].saw
        BY <1>0, <1>1, <1>2, <2>2 DEF SightingsOrdered
    <2>3. CASE worker'[w].saw = Successful
        BY <1>0, <1>1, <1>2, <2>3 DEF SightingsOrdered
    <2> QED
        BY <2>1, <2>2, <2>3, RequestMoves
<1> QED
    BY <1>3, <1>4 DEF SightingsOrdered

LEMMA NextFits ==
    ASSUME CreditInv, SightingsOrdered, AttemptsFit, SightingsOrdered', [Next]_vars
    PROVE  AttemptsFit'
<1>0. TypeOK
    BY DEF CreditInv
<1>1. ASSUME NEW r \in Refs, provider'[r].state # "none"
      PROVE  VolumeOn(provider'[r].invoice, saw'[r]) + provider'[r].amount
               <= Total[provider'[r].invoice]
    BY <1>1, AttemptOpens DEF AttemptsFit
<1>2. ASSUME NEW r \in Refs, provider'[r].state # "none"
      PROVE  (VolumeOn(provider[r].invoice, saw[r]) + provider[r].amount
               <= Total[provider[r].invoice])'
    <2>1. saw'[r] \in SUBSET Successful
        BY AttemptOpens DEF SightingsOrdered
    <2>2. SumFunctionOnSet([q \in Refs |-> payment'[q].amount],
                           {q \in saw'[r] : payment'[q].invoice = provider'[r].invoice})
            = VolumeOn(provider'[r].invoice, saw'[r])
        BY <2>1, SeenVolumeKept
    <2>3. VolumeOn(provider[r].invoice, saw[r])' = VolumeOn(provider'[r].invoice, saw'[r])
        BY <2>2 DEF VolumeOn, Volume
    <2> QED
        BY <1>1, <1>2, <2>3
<1>3. ASSUME NEW w \in Workers, worker'[w].pc \in {"limit", "charge"}
      PROVE  /\ VolumeOn(worker'[w].invoice, worker'[w].saw) + worker'[w].amount
                  <= Total[worker'[w].invoice]
             /\ worker'[w].saw \in SUBSET Successful
    <2>1. CASE /\ worker[w].pc \in {"limit", "charge"}
               /\ worker'[w].saw = worker[w].saw
               /\ worker'[w].invoice = worker[w].invoice
               /\ worker'[w].amount = worker[w].amount
        BY <2>1 DEF AttemptsFit, SightingsOrdered, At
    <2>2. CASE /\ worker'[w].saw = Successful
               /\ worker'[w].invoice = worker[w].invoice
               /\ Owed(worker[w].invoice) > 0
               /\ worker'[w].amount <= Owed(worker[w].invoice)
        <3> DEFINE i == worker[w].invoice
        <3>1. i \in Invoices /\ Collected(i) \in Nat /\ Total[i] \in Nat
            BY <1>0, WorkerFields, OwedTyped
        <3>2. VolumeOn(i, Successful) = Collected(i)
            BY DEF VolumeOn, Collected, SuccessfulOn
        <3>3. Owed(i) = Total[i] - Collected(i)
            BY <2>2, <3>1 DEF Owed
        <3>4. worker'[w].amount \in Nat
            BY NextTyped, <1>0 DEF TypeOK, Request
        <3> HIDE DEF i
        <3>5. VolumeOn(i, Successful) + worker'[w].amount <= Total[i]
            BY <2>2, <3>1, <3>2, <3>3, <3>4 DEF i
        <3> QED
            BY <2>2, <3>5 DEF i
    <2> QED
        BY <1>3, <2>1, <2>2, RequestMoves
<1>4. ASSUME NEW w \in Workers, worker'[w].pc \in {"limit", "charge"}
      PROVE  (VolumeOn(worker[w].invoice, worker[w].saw) + worker[w].amount
                <= Total[worker[w].invoice])'
    <2>1. SumFunctionOnSet([q \in Refs |-> payment'[q].amount],
                           {q \in worker'[w].saw : payment'[q].invoice = worker'[w].invoice})
            = VolumeOn(worker'[w].invoice, worker'[w].saw)
        BY <1>3, <1>4, SeenVolumeKept
    <2>2. VolumeOn(worker[w].invoice, worker[w].saw)' = VolumeOn(worker'[w].invoice, worker'[w].saw)
        BY <2>1 DEF VolumeOn, Volume
    <2> QED
        BY <1>3, <1>4, <2>2
<1> QED
    BY <1>2, <1>4 DEF AttemptsFit, At

LEMMA NextWithinCap ==
    ASSUME CreditInv, SightingsOrdered, AttemptsWithinCap, [Next]_vars
    PROVE  AttemptsWithinCap'
<1>0. TypeOK /\ CumulativeCap \in Nat
    BY CapsAssumption DEF CreditInv
<1> SUFFICES ASSUME CumulativeCap > 0
             PROVE  /\ \A r \in Refs : provider'[r].state # "none" =>
                         (Volume(saw[r]) + provider[r].amount <= CumulativeCap)'
                    /\ \A w \in Workers : worker'[w].pc = "charge" =>
                         (Volume(worker[w].saw) + worker[w].amount <= CumulativeCap)'
    BY DEF AttemptsWithinCap, At
<1>1. ASSUME NEW r \in Refs, provider'[r].state # "none"
      PROVE  (Volume(saw[r]) + provider[r].amount <= CumulativeCap)'
    <2>1. Volume(saw'[r]) + provider'[r].amount <= CumulativeCap
        BY <1>1, AttemptOpens DEF AttemptsWithinCap
    <2>2. saw'[r] \in SUBSET Successful
        BY AttemptOpens DEF SightingsOrdered
    <2> QED
        BY <2>1, <2>2, SeenVolumeKept DEF Volume
<1>2. ASSUME NEW w \in Workers, worker'[w].pc = "charge"
      PROVE  (Volume(worker[w].saw) + worker[w].amount <= CumulativeCap)'
    <2>1. /\ worker'[w].saw = worker[w].saw
          /\ worker'[w].amount = worker[w].amount
          /\ worker[w].pc = "charge" \/ WithinTierLimit(worker[w].amount)
        BY <1>2, RequestMoves
    <2>2. worker[w].saw \in SUBSET Successful /\ Successful \in SUBSET Refs
        BY DEF SightingsOrdered, Successful
    <2>3. Volume(worker[w].saw) + worker[w].amount <= CumulativeCap
        <3>1. CASE worker[w].pc = "charge"
            BY <3>1 DEF AttemptsWithinCap, At
        <3>2. CASE WithinTierLimit(worker[w].amount)
            <4>1. Volume(Successful) + worker[w].amount <= CumulativeCap
                BY <3>2 DEF WithinTierLimit
            <4>2. Volume(worker[w].saw) <= Volume(Successful)
                BY <1>0, <2>2, VolumeOfPart
            <4>3. /\ Volume(worker[w].saw) \in Nat /\ Volume(Successful) \in Nat
                  /\ worker[w].amount \in Nat
                BY <1>0, <2>2, VolumeIsNat, WorkerFields
            <4> QED
                BY <1>0, <4>1, <4>2, <4>3
        <3> QED
            BY <2>1, <3>1, <3>2
    <2> QED
        BY <2>1, <2>2, <2>3, SeenVolumeKept DEF Volume
<1> QED
    BY <1>1, <1>2

\* The inductive invariant behind overcollection: each attempt fits in what it saw.
THEOREM OverlapInvariant == Spec => []OverlapInv
<1>1. OverlapInv /\ [Next]_vars => OverlapInv'
    BY NextInv, NextOrdered, NextFits, NextWithinCap DEF OverlapInv
<1> QED
    BY <1>1, InitOverlap, PTL DEF Spec

\* Of payments of which each two saw one another in some order, the last one saw
\* all the others.
LEMMA LastSawOthers ==
    ASSUME SightingsOrdered, NEW S \in SUBSET Successful, S # {},
           \A r, q \in S : r # q => r \in saw[q] \/ q \in saw[r]
    PROVE  \E q \in S : S \ {q} \subseteq saw[q]
<1>1. Successful \subseteq Refs /\ IsFiniteSet(S)
    BY FS_Subset DEF Successful
<1> DEFINE Missed(q) == S \ saw[q]
           C == {Missed(q) : q \in S}
<1>2. PICK s : IsSmallest(s, C)
    <2>1. C \subseteq SUBSET S /\ C # {}
        OBVIOUS
    <2> HIDE DEF C
    <2> QED
        BY <1>1, <2>1, SmallestSet
<1>3. PICK q \in S : s = Missed(q)
    BY <1>2 DEF IsSmallest
<1>4. ASSUME NEW r \in S, r # q, r \notin saw[q]
      PROVE  FALSE
    <2>1. q \in saw[r]
        BY <1>4
    <2>2. q \notin saw[q] /\ saw[q] \subseteq saw[r]
        BY <1>1, <2>1 DEF SightingsOrdered
    <2>3. Missed(r) \subseteq s /\ Missed(r) \in C
        BY <1>3, <2>2
    <2>4. q \in s /\ q \notin Missed(r)
        BY <1>3, <2>1, <2>2
    <2> QED
        BY <1>2, <2>3, <2>4 DEF IsSmallest
<1> QED
    BY <1>4

\* Payments that make up a sum larger than the last of them found room for.
LEMMA LastFits ==
    ASSUME TypeOK, NEW S \in SUBSET Refs, NEW q \in S, NEW T \in SUBSET Refs,
           S \ {q} \subseteq T
    PROVE  Volume(S) <= Volume(T) + payment[q].amount
<1>1. S \ {q} \in SUBSET Refs /\ q \in Refs \ (S \ {q}) /\ (S \ {q}) \cup {q} = S
    OBVIOUS
<1>2. Volume(S) = Volume(S \ {q}) + payment[q].amount
    <2>1. Volume((S \ {q}) \cup {q}) = Volume(S \ {q}) + payment[q].amount
        BY <1>1, VolumeWith
    <2> QED
        BY <1>1, <2>1
<1>3. Volume(S \ {q}) <= Volume(T)
    BY VolumeOfPart
<1>4. Volume(S \ {q}) \in Nat /\ Volume(T) \in Nat /\ payment[q].amount \in Nat
    BY <1>1, VolumeIsNat, RowFields
<1> HIDE DEF Volume
<1> QED
    BY <1>2, <1>3, <1>4

\* amountOwedPesewas: an invoice collects more than its total only through attempts
\* that were open together, for any deposits, faults and interleaving.
THEOREM OvercollectionOnlyFromOverlap == Spec => []OvercollectionNeedsOverlap
<1>1. OverlapInv => OvercollectionNeedsOverlap
    <2> SUFFICES ASSUME OverlapInv, NEW i \in Invoices, Collected(i) > Total[i],
                        \A r, q \in SuccessfulOn(i) : r # q => r \in saw[q] \/ q \in saw[r]
                 PROVE  FALSE
        BY DEF OvercollectionNeedsOverlap
    <2>0. /\ TypeOK /\ SightingsOrdered /\ AttemptsFit /\ RowsMatchTransactions
          /\ SuccessfulOn(i) \in SUBSET Successful /\ Successful \in SUBSET Refs
          /\ Collected(i) = Volume(SuccessfulOn(i))
        BY DEF OverlapInv, CreditInv, Collected, SuccessfulOn, Successful
    <2>1. Total[i] \in Nat /\ Collected(i) \in Nat
        BY <2>0, OwedTyped
    <2>2. SuccessfulOn(i) # {}
        <3>1. SuccessfulOn(i) = {} => Collected(i) = 0
            BY <2>0, SumEmpty DEF Volume
        <3> QED
            BY <2>1, <3>1
    <2>3. PICK q \in SuccessfulOn(i) : SuccessfulOn(i) \ {q} \subseteq saw[q]
        BY <2>0, <2>2, LastSawOthers
    <2>4. /\ q \in Refs /\ provider[q].state # "none"
          /\ provider[q].invoice = i /\ provider[q].amount = payment[q].amount
        BY <2>0 DEF RowsMatchTransactions, SuccessfulOn, Successful
    <2> DEFINE T == {r \in saw[q] : payment[r].invoice = i}
    <2>5. T \in SUBSET Refs /\ SuccessfulOn(i) \ {q} \subseteq T
        BY <2>0, <2>3, <2>4 DEF SightingsOrdered, SuccessfulOn
    <2>6. Volume(T) + payment[q].amount <= Total[i]
        BY <2>0, <2>4 DEF AttemptsFit, VolumeOn
    <2> HIDE DEF T
    <2>7. Volume(SuccessfulOn(i)) <= Volume(T) + payment[q].amount
        BY <2>0, <2>5, LastFits
    <2>8. Volume(T) \in Nat /\ payment[q].amount \in Nat
        BY <2>0, <2>4, <2>5, VolumeIsNat, RowFields
    <2> QED
        BY <2>0, <2>1, <2>6, <2>7, <2>8
<1> QED
    BY <1>1, OverlapInvariant, PTL

\* enforceTierLimit: so is the lifetime cap exceeded only through such attempts.
THEOREM CapExceededOnlyFromOverlap == Spec => []CapExceededNeedsOverlap
<1>1. OverlapInv => CapExceededNeedsOverlap
    <2> SUFFICES ASSUME OverlapInv, CumulativeCap > 0, Volume(Successful) > CumulativeCap,
                        \A r, q \in Successful : r # q => r \in saw[q] \/ q \in saw[r]
                 PROVE  FALSE
        BY DEF CapExceededNeedsOverlap
    <2>0. /\ TypeOK /\ SightingsOrdered /\ AttemptsWithinCap /\ RowsMatchTransactions
          /\ Successful \in SUBSET Refs
        BY DEF OverlapInv, CreditInv, Successful
    <2>1. CumulativeCap \in Nat /\ Volume(Successful) \in Nat
        BY <2>0, CapsAssumption, VolumeIsNat
    <2>2. Successful # {}
        <3>1. Successful = {} => Volume(Successful) = 0
            BY SumEmpty DEF Volume
        <3> QED
            BY <2>1, <3>1
    <2>3. PICK q \in Successful : Successful \ {q} \subseteq saw[q]
        BY <2>0, <2>2, LastSawOthers
    <2>4. /\ q \in Refs /\ provider[q].state # "none"
          /\ provider[q].amount = payment[q].amount /\ saw[q] \in SUBSET Refs
        BY <2>0 DEF RowsMatchTransactions, Successful, TypeOK
    <2>5. Volume(saw[q]) + payment[q].amount <= CumulativeCap
        BY <2>0, <2>4 DEF AttemptsWithinCap
    <2>6. Volume(Successful) <= Volume(saw[q]) + payment[q].amount
        BY <2>0, <2>3, <2>4, LastFits
    <2>7. Volume(saw[q]) \in Nat /\ payment[q].amount \in Nat
        BY <2>0, <2>4, VolumeIsNat, RowFields
    <2> QED
        BY <2>1, <2>5, <2>6, <2>7
<1> QED
    BY <1>1, OverlapInvariant, PTL

=============================================================================
