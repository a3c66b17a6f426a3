------------------------------ MODULE MCOrders ------------------------------
(* Values for the runs of Orders that a configuration file cannot write. *)
EXTENDS Orders

\* All orders belong to one user: the most that two approvals can share.
OneOwner == [o \in Orders |-> CHOOSE u \in Users : TRUE]
=============================================================================
