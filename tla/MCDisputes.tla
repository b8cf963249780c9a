----------------------------- MODULE MCDisputes -----------------------------
(* Constants for model-checking Disputes, with Settlements, with TLC. *)
EXTENDS Disputes, TLC

\* A third of an invoice is commission, so some shares are rounded, and the commission
\* on the smallest charge rounds to nothing.
MCTotal == [i \in Invoices |-> 6]
MCCommission == [i \in Invoices |-> 2]

Symmetry ==
    Permutations(Refs) \cup Permutations(Cases) \cup Permutations(Resolvers)
    \cup Permutations(Admins)
=============================================================================
