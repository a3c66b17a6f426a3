--------------------------- MODULE OrderLifecycle ---------------------------
(***************************************************************************)
(* What the shop promises about an order: it is placed (or sold from the   *)
(* wallet, which is placing and provisioning at once), it is decided once, *)
(* the decision is final, and nothing stays undecided for ever.  "paid" is *)
(* not a state of its own: nobody ever finds an order paid for and not     *)
(* provisioned.                                                            *)
(***************************************************************************)
CONSTANT Orders

VARIABLE status

Statuses == {"none", "pending", "provisioned", "failed", "cancelled"}

LifecycleTypeOK == status \in [Orders -> Statuses]

Init == status = [o \in Orders |-> "none"]

\* The orders of S go from one status to another.
Move(S, from, to) ==
  /\ S # {} /\ \A o \in S : status[o] = from
  /\ status' = [o \in Orders |-> IF o \in S THEN to ELSE status[o]]

Place(o)     == Move({o}, "none", "pending")
Sell(o)      == Move({o}, "none", "provisioned")
Provision(o) == Move({o}, "pending", "provisioned")
Fail(o)      == Move({o}, "pending", "failed")
Cancel(S)    == Move(S, "pending", "cancelled")

Next ==
  \/ \E o \in Orders : Place(o) \/ Sell(o) \/ Provision(o) \/ Fail(o)
  \/ \E S \in SUBSET Orders : Cancel(S)

Spec == Init /\ [][Next]_status

Decide(o) == Provision(o) \/ Fail(o) \/ \E S \in SUBSET Orders : o \in S /\ Cancel(S)

FairSpec == Spec /\ \A o \in Orders : WF_status(Decide(o))
=============================================================================
