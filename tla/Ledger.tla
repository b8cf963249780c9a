------------------------------- MODULE Ledger -------------------------------
(***************************************************************************)
(* The rows of the database that money moves through, for one merchant:    *)
(* invoices and payments.  Payments, Settlements and Disputes EXTEND this  *)
(* module: the handlers they model share no memory, only these tables.     *)
(*                                                                         *)
(* Every statement of a handler is one atomic step (autocommit, READ       *)
(* COMMITTED); the code takes no row lock between two statements.          *)
(***************************************************************************)
EXTENDS Integers, FiniteSets

CONSTANTS
    Invoices,     \* invoices of the merchant, already sent to customers
    Refs,         \* payment references (payments.psp_reference, unique)
    Total,        \* total_pesewas of each invoice
    Commission,   \* commission_pesewas of each invoice, part of its total
    LastDay       \* bound: calendar days of a run are 1..LastDay

ASSUME InvoicesAssumption == Invoices # {}
ASSUME RefsAssumption == Refs # {} /\ IsFiniteSet(Refs)
ASSUME TotalAssumption == Total \in [Invoices -> Nat \ {0}]
ASSUME CommissionAssumption ==
    /\ Commission \in [Invoices -> Nat]
    /\ \A i \in Invoices : Commission[i] <= Total[i]
ASSUME LastDayAssumption == LastDay \in Nat \ {0}

VARIABLES
    invoice,      \* invoices.status
    payment,      \* the payments table
    today         \* the calendar day the database's now() falls on

ledgerVars == <<invoice, payment, today>>

\* The statuses a sent invoice takes; no handler sets viewed, expired or cancelled.
InvoiceStatus == {"sent", "partially_paid", "paid", "refunded"}

PaymentStatus == {"absent", "pending", "success"}

\* A row of payments.  settlement = 0 stands for a NULL settlement_id,
\* split for a non-NULL paystack_subaccount_code, day for date(paid_at).
PaymentRow ==
    [invoice : Invoices, amount : Nat, status : PaymentStatus,
     refunded : Nat, settlement : Nat, split : BOOLEAN, day : 0..LastDay]

\* The value of payment[r] while no row has reference r.
NoRow ==
    [invoice |-> CHOOSE i \in Invoices : TRUE, amount |-> 0, status |-> "absent",
     refunded |-> 0, settlement |-> 0, split |-> FALSE, day |-> 0]

PendingRow(i, amt, split) ==
    [NoRow EXCEPT !.invoice = i, !.amount = amt, !.status = "pending", !.split = split]

Successful == {r \in Refs : payment[r].status = "success"}

SuccessfulOn(i) == {r \in Successful : payment[r].invoice = i}

\* The calendar day ends: paid_at of later credits falls on the next one.
NextDay ==
    /\ today < LastDay
    /\ today' = today + 1
    /\ UNCHANGED <<invoice, payment>>

LedgerTypeOK ==
    /\ invoice \in [Invoices -> InvoiceStatus]
    /\ payment \in [Refs -> PaymentRow]
    /\ today \in 1..LastDay
=============================================================================
