----------------------------- MODULE MCPurchase -----------------------------
(* Symmetry for the runs of Purchase. *)
EXTENDS Purchase, TLC

\* Plans are interchangeable, and so are confirmations.
Symmetry == Permutations(Plans) \cup Permutations(Buyers)
=============================================================================
