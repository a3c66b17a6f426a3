------------------------------- MODULE Wallet -------------------------------
(***************************************************************************)
(* The balance column of table users and every handler that writes it.     *)
(*                                                                         *)
(* The bot is one asyncio process: a handler runs until it awaits, and     *)
(* each database statement or HTTP call is an await.  A step below is one  *)
(* statement (or one panel call) of one handler, so any two handlers       *)
(* interleave between their statements.  The database is MariaDB 10.11 at  *)
(* REPEATABLE READ: a SELECT reads the snapshot of its transaction, an     *)
(* UPDATE works on the latest committed row and keeps it locked until      *)
(* COMMIT, and session_scope rolls back whatever was not committed.        *)
(*                                                                         *)
(* Approving a top-up adds to the balance inside the UPDATE.  The other    *)
(* writers (manual credit, plan purchase, extra volume) compute the new    *)
(* balance from their snapshot and store it: `loc[k].snap'.                *)
(***************************************************************************)
EXTENDS Integers

CONSTANTS
  Users,        \* rows of table users
  TopUps,       \* primary keys of table wallet_topups
  Tasks,        \* updates being handled at the same time
  Amounts,      \* what a user may ask to charge (IRR)
  Corrections,  \* what an admin may credit by hand; /admin_wallet_add takes any sign
  Price,        \* price of the plan on sale (IRR)
  GBCost,       \* price of the extra volume asked for (IRR)
  MaxBalance,   \* largest value of Numeric(12,2)
  MaxUpdates,   \* bound: updates handled in a behaviour
  None

ASSUME WalletAssumption ==
  /\ Amounts \subseteq Nat \ {0} /\ Corrections \subseteq Int
  /\ Price \in Nat \ {0} /\ GBCost \in Nat
  /\ MaxBalance \in Nat /\ MaxUpdates \in Nat
  /\ None \notin Users /\ None \notin TopUps

VARIABLES
  balance,     \* users.balance, committed
  topup,       \* wallet_topups rows, committed
  gbPending,   \* _EXTRA_GB_PENDING: users with an amount to confirm (memory)
  pc,          \* the next statement of each task
  loc,         \* its local variables
  orders,      \* wallet orders committed as provisioned, per user
  granted,     \* plans the panel has provisioned, per user
  gbPaid,      \* extra volumes charged, per user
  gbAdded,     \* extra volumes the panel has added, per user
  updates,     \* updates handled so far
  ledger,      \* history: what the committed transactions add up to
  credits,     \* history: how often each top-up has been credited
  overtaken,   \* history: a commit fell between a snapshot and its write
  lowered      \* history: an admin has taken money from the user

vars == <<balance, topup, gbPending, pc, loc, orders, granted, gbPaid,
          gbAdded, updates, ledger, credits, overtaken, lowered>>

panelVars == <<granted, gbAdded>>
salesVars == <<orders, gbPaid>>
moneyVars == <<balance, ledger, overtaken, lowered>>

Statuses == {"unused", "pending", "approved", "rejected"}

PCs == {"idle", "approve_read", "approve_marked", "approve_credited",
        "reject_read", "reject_marked", "add_read", "add_written",
        "buy_read", "buy_inserted", "buy_written", "buy_provisioned",
        "extra_read", "extra_charged"}

NoLocals == [user |-> None, topup |-> None, snap |-> 0, amt |-> 0]
Unused   == [status |-> "unused", user |-> None, amt |-> 0]

\* The status a new row of wallet_topups gets.
Undecided == "new"
NewStatus == "pending"

TypeOK ==
  /\ balance \in [Users -> Int]
  /\ topup \in [TopUps -> [status: Statuses, user: Users \cup {None}, amt: Nat]]
  /\ gbPending \in [Users -> BOOLEAN]
  /\ pc \in [Tasks -> PCs]
  /\ loc \in [Tasks -> [user: Users \cup {None}, topup: TopUps \cup {None},
                        snap: Int, amt: Int]]
  /\ orders \in [Users -> Nat] /\ granted \in [Users -> Nat]
  /\ gbPaid \in [Users -> Nat] /\ gbAdded \in [Users -> Nat]
  /\ updates \in Nat
  /\ ledger \in [Users -> Int]
  /\ credits \in [TopUps -> Nat]
  /\ overtaken \in [Users -> BOOLEAN] /\ lowered \in [Users -> BOOLEAN]

Init ==
  /\ balance = [u \in Users |-> 0]
  /\ topup = [t \in TopUps |-> Unused]
  /\ gbPending = [u \in Users |-> FALSE]
  /\ pc = [k \in Tasks |-> "idle"]
  /\ loc = [k \in Tasks |-> NoLocals]
  /\ orders = [u \in Users |-> 0] /\ granted = [u \in Users |-> 0]
  /\ gbPaid = [u \in Users |-> 0] /\ gbAdded = [u \in Users |-> 0]
  /\ updates = 0
  /\ ledger = [u \in Users |-> 0]
  /\ credits = [t \in TopUps |-> 0]
  /\ overtaken = [u \in Users |-> FALSE] /\ lowered = [u \in Users |-> FALSE]

-----------------------------------------------------------------------------
(* Row locks, as InnoDB holds them until the end of the transaction. *)

\* UPDATE users ... locks the row exclusively.
HoldsUser(k, u) ==
  /\ loc[k].user = u
  /\ pc[k] \in {"approve_credited", "add_written", "buy_written", "buy_provisioned"}

\* INSERT INTO orders locks the parent row in share mode (foreign key).
SharesUser(k, u) == loc[k].user = u /\ pc[k] = "buy_inserted"

\* UPDATE wallet_topups ... locks the row exclusively.
HoldsTopUp(k, t) ==
  /\ loc[k].topup = t
  /\ pc[k] \in {"approve_marked", "approve_credited", "reject_marked"}

CanShare(k, u)      == \A j \in Tasks \ {k} : ~HoldsUser(j, u)
CanLock(k, u)       == \A j \in Tasks \ {k} : ~HoldsUser(j, u) /\ ~SharesUser(j, u)
CanLockTopUp(k, t)  == \A j \in Tasks \ {k} : ~HoldsTopUp(j, t)

\* k is going to store a balance computed from its snapshot.
HasSnapshot(k, u) ==
  /\ loc[k].user = u
  /\ pc[k] \in {"add_read", "add_written", "buy_read", "buy_inserted",
                "buy_written", "buy_provisioned", "extra_read"}

-----------------------------------------------------------------------------
(* Conditions and values the handlers compute. *)

\* What Numeric(12,2) holds.
Fits(x) == -MaxBalance <= x /\ x <= MaxBalance

\* WHERE status = 'pending' of the moderation handlers.
AnyStatus(t) == topup[t].status # "unused"
IsPending(t) == topup[t].status = "pending"

\* The balance an approval stores: computed by the database, not by the handler.
SnapshotCredit(k) == loc[k].snap + loc[k].amt
CreditedBalance(k) == balance[loc[k].user] + loc[k].amt

\* if balance_irr < price_irr: return
AnyBalance(u) == TRUE
CanAfford(u) == balance[u] >= Price

-----------------------------------------------------------------------------
(* Steps the handlers share. *)

Start(k, at, locals) ==
  /\ pc[k] = "idle" /\ updates < MaxUpdates
  /\ updates' = updates + 1
  /\ pc' = [pc EXCEPT ![k] = at]
  /\ loc' = [loc EXCEPT ![k] = locals]

Continue(k, from, to) ==
  /\ pc[k] = from
  /\ pc' = [pc EXCEPT ![k] = to]
  /\ UNCHANGED <<loc, updates>>

\* The handler returns; a transaction it did not commit is rolled back.
Return(k) ==
  /\ pc' = [pc EXCEPT ![k] = "idle"]
  /\ loc' = [loc EXCEPT ![k] = NoLocals]
  /\ UNCHANGED updates

\* COMMIT of a transaction that marked the top-up.
Decide(t, decision) == topup' = [topup EXCEPT ![t].status = decision]

\* COMMIT of a transaction that stored `new' in the row of user u.
CommitBalance(k, u, new, change) ==
  /\ balance' = [balance EXCEPT ![u] = new]
  /\ ledger' = [ledger EXCEPT ![u] = @ + change]
  /\ overtaken' = [overtaken EXCEPT
                     ![u] = @ \/ \E j \in Tasks \ {k} : HasSnapshot(j, u)]
  /\ lowered' = [lowered EXCEPT ![u] = @ \/ (pc[k] = "add_written" /\ change < 0)]

-----------------------------------------------------------------------------
(* handle_wallet_photo, last transaction: the receipt becomes a top-up. *)
Submit(t, u, a) ==
  /\ topup[t].status = "unused" /\ updates < MaxUpdates
  /\ \A j \in Tasks : ~HoldsUser(j, u)
  /\ topup' = [topup EXCEPT ![t] = [status |-> NewStatus, user |-> u, amt |-> a]]
  /\ updates' = updates + 1
  /\ UNCHANGED <<gbPending, pc, loc, credits>>
  /\ UNCHANGED moneyVars /\ UNCHANGED salesVars /\ UNCHANGED panelVars

-----------------------------------------------------------------------------
(* cb_wallet_approve *)

ApproveRead(k, t) ==
  /\ topup[t].status # "unused"
  /\ Start(k, "approve_read", [user |-> topup[t].user, topup |-> t,
                               snap |-> balance[topup[t].user], amt |-> topup[t].amt])
  /\ UNCHANGED <<topup, gbPending, credits>>
  /\ UNCHANGED moneyVars /\ UNCHANGED salesVars /\ UNCHANGED panelVars

\* UPDATE ... WHERE status = 'pending'; no row means "Already processed".
ApproveMark(k) ==
  /\ pc[k] = "approve_read" /\ CanLockTopUp(k, loc[k].topup)
  /\ IF IsPending(loc[k].topup)
     THEN Continue(k, "approve_read", "approve_marked")
     ELSE Return(k)
  /\ UNCHANGED <<topup, gbPending, credits>>
  /\ UNCHANGED moneyVars /\ UNCHANGED salesVars /\ UNCHANGED panelVars

\* UPDATE users SET balance = balance + add.  In strict mode a sum that
\* Numeric(12,2) cannot hold is an error, and the handler's `> max_irr'
\* branch, for a sum the column did hold, has nothing left to catch.
ApproveCredit(k) ==
  /\ pc[k] = "approve_marked" /\ CanLock(k, loc[k].user)
  /\ IF Fits(CreditedBalance(k))
     THEN Continue(k, "approve_marked", "approve_credited")
     ELSE Return(k)
  /\ UNCHANGED <<topup, gbPending, credits>>
  /\ UNCHANGED moneyVars /\ UNCHANGED salesVars /\ UNCHANGED panelVars

ApproveCommit(k) ==
  LET u == loc[k].user
      t == loc[k].topup
  IN  /\ pc[k] = "approve_credited"
      /\ Decide(t, "approved")
      /\ credits' = [credits EXCEPT ![t] = @ + 1]
      /\ CommitBalance(k, u, CreditedBalance(k), loc[k].amt)
      /\ Return(k)
      /\ UNCHANGED gbPending
      /\ UNCHANGED salesVars /\ UNCHANGED panelVars

-----------------------------------------------------------------------------
(* cb_wallet_reject and admin_wallet_reject_with_reason_text *)

RejectRead(k, t) ==
  /\ topup[t].status # "unused"
  /\ Start(k, "reject_read", [user |-> None, topup |-> t, snap |-> 0, amt |-> 0])
  /\ UNCHANGED <<topup, gbPending, credits>>
  /\ UNCHANGED moneyVars /\ UNCHANGED salesVars /\ UNCHANGED panelVars

RejectMark(k) ==
  /\ pc[k] = "reject_read" /\ CanLockTopUp(k, loc[k].topup)
  /\ IF IsPending(loc[k].topup)
     THEN Continue(k, "reject_read", "reject_marked")
     ELSE Return(k)
  /\ UNCHANGED <<topup, gbPending, credits>>
  /\ UNCHANGED moneyVars /\ UNCHANGED salesVars /\ UNCHANGED panelVars

RejectCommit(k) ==
  /\ pc[k] = "reject_marked"
  /\ Decide(loc[k].topup, "rejected")
  /\ Return(k)
  /\ UNCHANGED <<gbPending, credits>>
  /\ UNCHANGED moneyVars /\ UNCHANGED salesVars /\ UNCHANGED panelVars

-----------------------------------------------------------------------------
(* Manual credit by an admin: the two steps of the button flow that take   *)
(* an amount, both slash commands, and the credit of the user page.        *)

AddRead(k, u, a) ==
  /\ Start(k, "add_read", [user |-> u, topup |-> None, snap |-> balance[u], amt |-> a])
  /\ UNCHANGED <<topup, gbPending, credits>>
  /\ UNCHANGED moneyVars /\ UNCHANGED salesVars /\ UNCHANGED panelVars

\* The flush inside log_audit.
AddWrite(k) ==
  /\ pc[k] = "add_read" /\ CanLock(k, loc[k].user)
  /\ IF Fits(loc[k].snap + loc[k].amt)
     THEN Continue(k, "add_read", "add_written")
     ELSE Return(k)
  /\ UNCHANGED <<topup, gbPending, credits>>
  /\ UNCHANGED moneyVars /\ UNCHANGED salesVars /\ UNCHANGED panelVars

AddCommit(k) ==
  /\ pc[k] = "add_written"
  /\ CommitBalance(k, loc[k].user, loc[k].snap + loc[k].amt, loc[k].amt)
  /\ Return(k)
  /\ UNCHANGED <<topup, gbPending, credits>>
  /\ UNCHANGED salesVars /\ UNCHANGED panelVars

-----------------------------------------------------------------------------
(* _do_purchase.  One transaction, open across the call to the panel. *)

\* The early returns (no such plan, price not set, balance too low) change
\* nothing and are left out.
BuyRead(k, u) ==
  /\ CanAfford(u)
  /\ Start(k, "buy_read", [user |-> u, topup |-> None, snap |-> balance[u], amt |-> Price])
  /\ UNCHANGED <<topup, gbPending, credits>>
  /\ UNCHANGED moneyVars /\ UNCHANGED salesVars /\ UNCHANGED panelVars

\* session.flush(): INSERT INTO orders first, then UPDATE users.
BuyInsert(k) ==
  /\ CanShare(k, loc[k].user)
  /\ Continue(k, "buy_read", "buy_inserted")
  /\ UNCHANGED <<topup, gbPending, credits>>
  /\ UNCHANGED moneyVars /\ UNCHANGED salesVars /\ UNCHANGED panelVars

BuyDebit(k) ==
  /\ CanLock(k, loc[k].user)
  /\ Continue(k, "buy_inserted", "buy_written")
  /\ UNCHANGED <<topup, gbPending, credits>>
  /\ UNCHANGED moneyVars /\ UNCHANGED salesVars /\ UNCHANGED panelVars

\* Two purchases share the row and both want it exclusively: one is the victim.
BuyDeadlock(k) ==
  /\ pc[k] = "buy_inserted"
  /\ \E j \in Tasks \ {k} : SharesUser(j, loc[k].user)
  /\ Return(k)
  /\ UNCHANGED <<topup, gbPending, credits>>
  /\ UNCHANGED moneyVars /\ UNCHANGED salesVars /\ UNCHANGED panelVars

\* Faults: the error of the panel is swallowed; the call has no timeout.
BuyProvisionSwallowed(k) ==
  /\ Continue(k, "buy_written", "buy_provisioned")
  /\ granted' \in {granted, [granted EXCEPT ![loc[k].user] = @ + 1]}
  /\ UNCHANGED <<topup, gbPending, credits, gbAdded>>
  /\ UNCHANGED moneyVars /\ UNCHANGED salesVars
BuyProvisionHangs(k) == FALSE

\* provision_for_plan: it fails before or after its effect on the panel.
BuyProvision(k) ==
  LET done == [granted EXCEPT ![loc[k].user] = @ + 1]
  IN  /\ pc[k] = "buy_written"
      /\ \/ Continue(k, "buy_written", "buy_provisioned") /\ granted' = done
         \/ Return(k) /\ granted' \in {granted, done}
      /\ UNCHANGED <<topup, gbPending, credits, gbAdded>>
      /\ UNCHANGED moneyVars /\ UNCHANGED salesVars

BuyCommit(k) ==
  LET u == loc[k].user
  IN  /\ pc[k] = "buy_provisioned"
      /\ orders' = [orders EXCEPT ![u] = @ + 1]
      /\ CommitBalance(k, u, loc[k].snap - loc[k].amt, 0 - loc[k].amt)
      /\ Return(k)
      /\ UNCHANGED <<topup, gbPending, credits, gbPaid>>
      /\ UNCHANGED panelVars

-----------------------------------------------------------------------------
(* Extra volume for a service.  The amount waits in memory for the OK. *)

ExtraAsk(u) ==
  /\ ~gbPending[u] /\ updates < MaxUpdates
  /\ gbPending' = [gbPending EXCEPT ![u] = TRUE]
  /\ updates' = updates + 1
  /\ UNCHANGED <<topup, pc, loc, credits>>
  /\ UNCHANGED moneyVars /\ UNCHANGED salesVars /\ UNCHANGED panelVars

ExtraCancel(u) ==
  /\ gbPending[u]
  /\ gbPending' = [gbPending EXCEPT ![u] = FALSE]
  /\ UNCHANGED <<topup, pc, loc, credits, updates>>
  /\ UNCHANGED moneyVars /\ UNCHANGED salesVars /\ UNCHANGED panelVars

\* cb_account_buy_gb_ok up to the comparison of balance and cost.
ExtraRead(k, u) ==
  /\ gbPending[u]
  /\ IF balance[u] >= GBCost
     THEN /\ Start(k, "extra_read", [user |-> u, topup |-> None,
                                     snap |-> balance[u], amt |-> GBCost])
          /\ UNCHANGED gbPending
     ELSE /\ pc[k] = "idle"
          /\ gbPending' = [gbPending EXCEPT ![u] = FALSE]
          /\ UNCHANGED <<pc, loc, updates>>
  /\ UNCHANGED <<topup, credits>>
  /\ UNCHANGED moneyVars /\ UNCHANGED salesVars /\ UNCHANGED panelVars

\* session.commit(): UPDATE and COMMIT at once, before the panel is called.
ExtraCharge(k) ==
  LET u == loc[k].user
  IN  /\ CanLock(k, u)
      /\ Continue(k, "extra_read", "extra_charged")
      /\ gbPaid' = [gbPaid EXCEPT ![u] = @ + 1]
      /\ CommitBalance(k, u, loc[k].snap - loc[k].amt, 0 - loc[k].amt)
      /\ UNCHANGED <<topup, gbPending, credits, orders>>
      /\ UNCHANGED panelVars

\* add_data_gb; an error leaves the amount pending and gives nothing back.
ExtraAdd(k) ==
  LET u    == loc[k].user
      done == [gbAdded EXCEPT ![u] = @ + 1]
  IN  /\ pc[k] = "extra_charged"
      /\ \/ gbAdded' = done /\ gbPending' = [gbPending EXCEPT ![u] = FALSE]
         \/ gbAdded' \in {gbAdded, done} /\ UNCHANGED gbPending
      /\ Return(k)
      /\ UNCHANGED <<topup, credits, granted>>
      /\ UNCHANGED moneyVars /\ UNCHANGED salesVars

-----------------------------------------------------------------------------
\* A statement fails (lost connection, lock wait timeout, duplicate service
\* name), or the process stops: the open transaction is rolled back.
Abort(k) ==
  /\ pc[k] # "idle"
  /\ Return(k)
  /\ UNCHANGED <<topup, gbPending, credits>>
  /\ UNCHANGED moneyVars /\ UNCHANGED salesVars /\ UNCHANGED panelVars

\* The statements of a handler that has been started.
Step(k) ==
  \/ ApproveMark(k) \/ ApproveCredit(k) \/ ApproveCommit(k)
  \/ RejectMark(k) \/ RejectCommit(k)
  \/ AddWrite(k) \/ AddCommit(k)
  \/ BuyInsert(k) \/ BuyDebit(k) \/ BuyDeadlock(k) \/ BuyProvision(k) \/ BuyCommit(k)
  \/ ExtraCharge(k) \/ ExtraAdd(k)

Next ==
  \/ \E t \in TopUps, u \in Users, a \in Amounts : Submit(t, u, a)
  \/ \E k \in Tasks, t \in TopUps : ApproveRead(k, t) \/ RejectRead(k, t)
  \/ \E k \in Tasks, u \in Users, a \in Corrections : AddRead(k, u, a)
  \/ \E k \in Tasks, u \in Users : BuyRead(k, u) \/ ExtraRead(k, u)
  \/ \E u \in Users : ExtraAsk(u) \/ ExtraCancel(u)
  \/ \E k \in Tasks : Step(k) \/ Abort(k)

Spec == Init /\ [][Next]_vars

\* The event loop keeps running every handler it has started.
FairSpec == Spec /\ \A k \in Tasks : WF_vars(Step(k))

-----------------------------------------------------------------------------
(* Properties *)

\* A top-up is credited exactly once, and only if its row says approved:
\* the conditional UPDATE of the moderation handlers, whatever admins click.
CreditedOnce ==
  \A t \in TopUps : credits[t] = IF topup[t].status = "approved" THEN 1 ELSE 0

\* A decision about a top-up is final: no approve or reject, in any order,
\* changes the row of a top-up that has been decided.
DecisionFinal ==
  [][\A t \in TopUps : topup[t].status \in {"approved", "rejected"}
                         => topup'[t] = topup[t]]_vars

\* A balance is what the committed credits and debits add up to, as long as
\* no commit has fallen between another handler's read and its write.
LedgerExact ==
  \A u \in Users : ~overtaken[u] => balance[u] = ledger[u]

\* No interleaving of purchases, extra volume and credits overdraws a wallet
\* an admin has not taken money from, or stores what the column cannot hold.
BalanceInRange ==
  \A u \in Users : Fits(balance[u]) /\ (balance[u] < 0 => lowered[u])

\* Every plan sold was provisioned, and no volume was added without being
\* charged: the order of panel call and COMMIT in the two sales.
SoldIsGranted ==
  \A u \in Users : orders[u] <= granted[u] /\ gbAdded[u] <= gbPaid[u]

\* The handlers, whose statements interleave, do what WalletLedger promises,
\* where every transaction happens at once: each COMMIT is one transaction of
\* it, and nothing else a handler does can be told from doing nothing.
Ledger == INSTANCE WalletLedger WITH raced <- overtaken
Transactions == Ledger!Spec

\* Handlers waiting for each other's row locks all finish.
HandlersReturn == \A k \in Tasks : []<>(pc[k] = "idle")

\* docs/Roadmap.md: operations lock by user or order.  If balance writers
\* did, their sum would be the balance in every interleaving.
LedgerAlwaysExact == \A u \in Users : balance[u] = ledger[u]
=============================================================================
