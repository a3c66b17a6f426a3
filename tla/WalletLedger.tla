---------------------------- MODULE WalletLedger ----------------------------
(***************************************************************************)
(* What the shop promises about money.  Every transaction happens at once: *)
(* a request is decided once, and approving it adds its amount; a credit   *)
(* by hand, a plan and an extra volume change the balance by what they     *)
(* are; whoever buys has the price; a plan is sold after the panel has it, *)
(* a volume is charged before the panel adds it.                           *)
(*                                                                         *)
(* Credits by hand and sales compute with a reading of the balance.  It is *)
(* the balance, unless the user is `raced'; then it is some balance, and   *)
(* what was committed in between is lost.                                  *)
(***************************************************************************)
EXTENDS Integers

CONSTANTS Users, TopUps, Amounts, Corrections, Price, GBCost, MaxBalance

VARIABLES
  balance,  \* of each user
  topup,    \* requests to charge a wallet, each with its status
  orders,   \* plans sold to each user
  granted,  \* plans the panel has provisioned for each user
  gbPaid,   \* extra volumes charged to each user
  gbAdded,  \* extra volumes the panel has added for each user
  raced     \* users whose transactions have met

ledgerVars == <<balance, topup, orders, granted, gbPaid, gbAdded, raced>>

Init ==
  /\ balance = [u \in Users |-> 0]
  /\ \A t \in TopUps : topup[t].status = "unused"
  /\ orders = [u \in Users |-> 0] /\ granted = [u \in Users |-> 0]
  /\ gbPaid = [u \in Users |-> 0] /\ gbAdded = [u \in Users |-> 0]
  /\ raced = [u \in Users |-> FALSE]

Fits(x) == -MaxBalance <= x /\ x <= MaxBalance

Readings(u) == {b \in -MaxBalance..MaxBalance : raced[u] \/ b = balance[u]}

\* A transaction may meet another one when it changes the balance.
Store(u, new) ==
  /\ Fits(new)
  /\ balance' = [balance EXCEPT ![u] = new]
  /\ raced' \in {raced, [raced EXCEPT ![u] = TRUE]}

Request(t, u, a) ==
  /\ topup[t].status = "unused"
  /\ topup' = [topup EXCEPT ![t] = [status |-> "pending", user |-> u, amt |-> a]]
  /\ UNCHANGED <<balance, orders, granted, gbPaid, gbAdded, raced>>

Decide(t, decision) ==
  /\ topup[t].status = "pending"
  /\ topup' = [topup EXCEPT ![t].status = decision]
  /\ UNCHANGED <<orders, granted, gbPaid, gbAdded>>

\* The database adds: nothing is lost, raced or not.
Approve(t) ==
  /\ Decide(t, "approved")
  /\ topup[t].user \in Users
  /\ Store(topup[t].user, balance[topup[t].user] + topup[t].amt)
Reject(t) == Decide(t, "rejected") /\ UNCHANGED <<balance, raced>>

Credit(u, a) ==
  /\ \E b \in Readings(u) : Store(u, b + a)
  /\ UNCHANGED <<topup, orders, granted, gbPaid, gbAdded>>

Sell(u) ==
  /\ orders[u] < granted[u]
  /\ orders' = [orders EXCEPT ![u] = @ + 1]
  /\ \E b \in Readings(u) : b >= Price /\ Store(u, b - Price)
  /\ UNCHANGED <<topup, granted, gbPaid, gbAdded>>

Charge(u) ==
  /\ gbPaid' = [gbPaid EXCEPT ![u] = @ + 1]
  /\ \E b \in Readings(u) : b >= GBCost /\ Store(u, b - GBCost)
  /\ UNCHANGED <<topup, orders, granted, gbAdded>>

Grant(u) ==
  /\ granted' = [granted EXCEPT ![u] = @ + 1]
  /\ UNCHANGED <<balance, topup, orders, gbPaid, gbAdded, raced>>

AddVolume(u) ==
  /\ gbAdded[u] < gbPaid[u]
  /\ gbAdded' = [gbAdded EXCEPT ![u] = @ + 1]
  /\ UNCHANGED <<balance, topup, orders, granted, gbPaid, raced>>

Next ==
  \/ \E t \in TopUps, u \in Users, a \in Amounts : Request(t, u, a)
  \/ \E t \in TopUps : Approve(t) \/ Reject(t)
  \/ \E u \in Users, a \in Corrections : Credit(u, a)
  \/ \E u \in Users : Sell(u) \/ Charge(u) \/ Grant(u) \/ AddVolume(u)

Spec == Init /\ [][Next]_ledgerVars
=============================================================================
