------------------------------ MODULE MCPricing ------------------------------
(* Constants for model-checking Pricing with TLC. *)
EXTENDS Pricing

Rule(collection, margin, floor, cap) ==
    [collection |-> collection, margin |-> margin, floor |-> floor, cap |-> cap]

\* The columns' defaults: 1.95% passed through, 0.55% margin, clamped.
Standard == Rule(195, 55, 20, 2500)

\* A dear one with clamps close together, one without margin, and three that are
\* refused: 100%, a cap below the floor, and a sum that wraps.
MCRequests ==
    {Standard, Rule(450, 500, 50, 100), Rule(195, 0, 0, 0),
     Rule(9500, 500, 0, 0), Rule(195, 55, 20, 10), Rule(2147483647, 1, 0, 0)}

\* A basket of free items, prices where the floor exceeds the price, on both sides of the standard floor (3636) and
\* of the dear rule's clamps (1000 and 2000), and far beyond them.
MCBases ==
    {0, 1, 19, 20, 21, 333, 949, 950, 999, 1000, 1001, 1809, 1810, 1811, 1999, 2000,
     3540, 3545, 3546, 3635, 3636, 3637, 45000, 99999}

\* Prices whose parts round in different ways, small enough for TLC to multiply two.
SmallBases == {333, 3637}
=============================================================================
