----------------------------- MODULE MCPayments -----------------------------
(* Constants for model-checking Payments with TLC. *)
EXTENDS Payments, TLC

\* Sound without liveness: nothing orders invoices, references or workers.
MCSymmetry == Permutations(Invoices) \cup Permutations(Refs) \cup Permutations(Workers)

\* Two deposits of 2 cover an invoice; one USSD prompt for everything does at once.
MCTotal == [i \in Invoices |-> 4]
MCCommission == [i \in Invoices |-> 0]
=============================================================================
