---------------------------- MODULE WalletProofs ----------------------------
(***************************************************************************)
(* Proofs about Wallet: its type invariant and the safety properties of    *)
(* the balance and of the sales, for any number of users, top-ups and      *)
(* concurrent handlers.                                                    *)
(***************************************************************************)
EXTENDS Wallet, FiniteSets, FiniteSetTheorems, TLAPS

(***************************************************************************)
(* The inductive invariant.  A safety property of the balance needs to     *)
(* know what the handlers in flight will store, so the invariant says what *)
(* a handler knows at each statement: which rows it has locked and that    *)
(* nobody else has them, that a top-up it has marked is still pending, and *)
(* that its snapshot is current unless somebody has overtaken it.          *)
(***************************************************************************)
InApproval(k)   == pc[k] \in {"approve_read", "approve_marked", "approve_credited"}
InModeration(k) == InApproval(k) \/ pc[k] \in {"reject_read", "reject_marked"}
InDebit(k)      == pc[k] \in {"buy_read", "buy_inserted", "buy_written",
                              "buy_provisioned", "extra_read"}

\* The local variables of a handler name rows that exist.
LocalsOK ==
  \A k \in Tasks :
    /\ pc[k] \notin {"idle", "reject_read", "reject_marked"} => loc[k].user \in Users
    /\ InModeration(k) => loc[k].topup \in TopUps

\* A row that has been inserted belongs to a user.
TopUpsOwned ==
  \A t \in TopUps : topup[t].status # "unused" => topup[t].user \in Users

\* Row locks exclude each other.
LocksExclude ==
  \A j, k \in Tasks : j # k =>
    /\ \A u \in Users : HoldsUser(j, u) => ~HoldsUser(k, u) /\ ~SharesUser(k, u)
    /\ \A t \in TopUps : HoldsTopUp(j, t) => ~HoldsTopUp(k, t)

\* A top-up somebody has marked is pending in the committed table.
MarkedPending ==
  \A k \in Tasks, t \in TopUps : HoldsTopUp(k, t) => topup[t].status = "pending"

\* A snapshot is current unless it has been overtaken.
SnapshotCurrent ==
  \A k \in Tasks, u \in Users :
    HasSnapshot(k, u) /\ ~overtaken[u] => loc[k].snap = balance[u]

\* What a handler is going to store fits the column and is not negative.
WritesInRange ==
  \A k \in Tasks :
    /\ \A u \in Users : HasSnapshot(k, u) =>
         Fits(loc[k].snap) /\ (loc[k].snap < 0 => lowered[u])
    /\ InDebit(k) => 0 <= loc[k].amt /\ loc[k].amt <= loc[k].snap
    /\ InApproval(k) => 0 <= loc[k].amt
    /\ pc[k] = "add_written" => Fits(loc[k].snap + loc[k].amt)
    /\ pc[k] = "approve_credited" => Fits(CreditedBalance(k))

IInv ==
  /\ TypeOK /\ LocalsOK /\ TopUpsOwned
  /\ LocksExclude /\ MarkedPending /\ SnapshotCurrent /\ WritesInRange
  /\ CreditedOnce /\ LedgerExact /\ BalanceInRange

-----------------------------------------------------------------------------
(* Types *)

\* What a handler that returns, or goes on, leaves behind.
LEMMA ReturnKeeps ==
  ASSUME TypeOK, LocalsOK, NEW k \in Tasks, Return(k)
  PROVE  /\ pc' \in [Tasks -> PCs] /\ updates' \in Nat
         /\ loc' \in [Tasks -> [user: Users \cup {None}, topup: TopUps \cup {None},
                                snap: Int, amt: Int]]
         /\ LocalsOK'
<1>1. NoLocals \in [user: Users \cup {None}, topup: TopUps \cup {None}, snap: Int, amt: Int]
  BY DEF NoLocals
<1>2. "idle" \in PCs
  BY DEF PCs
<1>3. LocalsOK'
  BY DEF TypeOK, LocalsOK, InModeration, InApproval, Return
<1>4. QED
  BY <1>1, <1>2, <1>3 DEF TypeOK, Return

\* A statement that needs no more of the local variables than the one before.
LEMMA ContinueKeeps ==
  ASSUME TypeOK, LocalsOK, NEW k \in Tasks, NEW from, NEW to \in PCs, Continue(k, from, to),
         from \notin {"idle", "reject_read", "reject_marked"} \/ to = "reject_marked",
         to \in {"approve_marked", "approve_credited", "reject_marked"}
           => from \in {"approve_read", "approve_marked", "reject_read"},
         to \notin {"approve_read", "reject_read"}
  PROVE  /\ pc' \in [Tasks -> PCs] /\ updates' \in Nat
         /\ loc' \in [Tasks -> [user: Users \cup {None}, topup: TopUps \cup {None},
                                snap: Int, amt: Int]]
         /\ LocalsOK'
<1>1. LocalsOK'
  BY DEF TypeOK, LocalsOK, InModeration, InApproval, Continue
<1>2. QED
  BY <1>1 DEF TypeOK, Continue

\* Deciding about a top-up changes its status and nothing else.
LEMMA DecideKeeps ==
  ASSUME TypeOK, TopUpsOwned, NEW t \in TopUps, NEW decision \in Statuses \ {"unused"},
         topup[t].status # "unused", Decide(t, decision)
  PROVE  /\ topup' \in [TopUps -> [status: Statuses, user: Users \cup {None}, amt: Nat]]
         /\ \A s \in TopUps : /\ topup'[s].user = topup[s].user /\ topup'[s].amt = topup[s].amt
                              /\ topup'[s].status = IF s = t THEN decision ELSE topup[s].status
         /\ TopUpsOwned'
<1> DEFINE Row == [status: Statuses, user: Users \cup {None}, amt: Nat]
           row == [topup[t] EXCEPT !.status = decision]
<1>1. topup \in [TopUps -> Row] /\ topup[t] \in Row
  BY DEF TypeOK
<1>2. row \in Row /\ row.user = topup[t].user /\ row.amt = topup[t].amt /\ row.status = decision
  BY <1>1
<1>3. topup' = [topup EXCEPT ![t] = row]
  BY DEF Decide
<1> HIDE DEF row, Row
<1>4. topup' \in [TopUps -> Row]
  BY <1>1, <1>2, <1>3
<1>5. \A s \in TopUps : topup'[s] = IF s = t THEN row ELSE topup[s]
  BY <1>1, <1>3
<1>6. QED
  BY <1>2, <1>4, <1>5 DEF Row, TopUpsOwned

\* Every handler leaves well-formed rows, and its own variables in order.
LEMMA TypeStep ==
  ASSUME TypeOK, LocalsOK, TopUpsOwned, MarkedPending, [Next]_vars
  PROVE  TypeOK' /\ LocalsOK' /\ TopUpsOwned'
<1> DEFINE Kept == TypeOK' /\ LocalsOK' /\ TopUpsOwned'
<1> USE WalletAssumption DEF moneyVars, salesVars, panelVars
<1>1. ASSUME NEW t \in TopUps, NEW u \in Users, NEW a \in Amounts, Submit(t, u, a) PROVE Kept
  BY <1>1
     DEF Submit, NewStatus, Unused, TypeOK, LocalsOK, TopUpsOwned, InModeration, InApproval,
         PCs, Statuses
<1>2. ASSUME NEW k \in Tasks, NEW t \in TopUps, ApproveRead(k, t) PROVE Kept
  BY <1>2
     DEF ApproveRead, Start, TypeOK, LocalsOK, TopUpsOwned, InModeration, InApproval, PCs,
         Statuses
<1>3. ASSUME NEW k \in Tasks, NEW t \in TopUps, RejectRead(k, t) PROVE Kept
  BY <1>3
     DEF RejectRead, Start, TypeOK, LocalsOK, TopUpsOwned, InModeration, InApproval, PCs,
         Statuses
<1>4. ASSUME NEW k \in Tasks, NEW u \in Users, NEW a \in Corrections, AddRead(k, u, a) PROVE Kept
  BY <1>4
     DEF AddRead, Start, TypeOK, LocalsOK, TopUpsOwned, InModeration, InApproval, PCs,
         Statuses
<1>5. ASSUME NEW k \in Tasks, NEW u \in Users, BuyRead(k, u) PROVE Kept
  BY <1>5
     DEF BuyRead, Start, TypeOK, LocalsOK, TopUpsOwned, InModeration, InApproval, PCs,
         Statuses
<1>6. ASSUME NEW k \in Tasks, NEW u \in Users, ExtraRead(k, u) PROVE Kept
  <2>1. CASE balance[u] >= GBCost
    <3>1. Start(k, "extra_read", [user |-> u, topup |-> None, snap |-> balance[u], amt |-> GBCost])
      BY <1>6, <2>1 DEF ExtraRead
    <3>2. QED
      BY <1>6, <2>1, <3>1
         DEF ExtraRead, Start, TypeOK, LocalsOK, TopUpsOwned, InModeration, InApproval, PCs,
             Statuses
  <2>2. CASE ~(balance[u] >= GBCost)
    BY <1>6, <2>2
       DEF ExtraRead, TypeOK, LocalsOK, TopUpsOwned, InModeration, InApproval, PCs, Statuses
  <2>3. QED
    BY <2>1, <2>2
<1>7. ASSUME NEW u \in Users, ExtraAsk(u) PROVE Kept
  BY <1>7 DEF ExtraAsk, TypeOK, LocalsOK, TopUpsOwned, InModeration, InApproval, PCs, Statuses
<1>8. ASSUME NEW u \in Users, ExtraCancel(u) PROVE Kept
  BY <1>8
     DEF ExtraCancel, TypeOK, LocalsOK, TopUpsOwned, InModeration, InApproval, PCs, Statuses
<1>9. ASSUME NEW k \in Tasks, ApproveMark(k) PROVE Kept
  <2>1. CASE Return(k)
    BY <1>9, <2>1, ReturnKeeps DEF ApproveMark, TypeOK, TopUpsOwned
  <2>2. CASE Continue(k, "approve_read", "approve_marked")
    BY <1>9, <2>2, ContinueKeeps DEF ApproveMark, TypeOK, TopUpsOwned, PCs
  <2>3. QED
    BY <1>9, <2>1, <2>2 DEF ApproveMark
<1>10. ASSUME NEW k \in Tasks, ApproveCredit(k) PROVE Kept
  <2>1. CASE Return(k)
    BY <1>10, <2>1, ReturnKeeps DEF ApproveCredit, TypeOK, TopUpsOwned
  <2>2. CASE Continue(k, "approve_marked", "approve_credited")
    BY <1>10, <2>2, ContinueKeeps DEF ApproveCredit, TypeOK, TopUpsOwned, PCs
  <2>3. QED
    BY <1>10, <2>1, <2>2 DEF ApproveCredit
<1>11. ASSUME NEW k \in Tasks, ApproveCommit(k) PROVE Kept
  <2>1. Return(k) /\ loc[k].topup \in TopUps
    BY <1>11 DEF ApproveCommit, LocalsOK, InModeration, InApproval
  <2>2. topup' \in [TopUps -> [status: Statuses, user: Users \cup {None}, amt: Nat]] /\ TopUpsOwned'
    BY <1>11, <2>1, DecideKeeps DEF ApproveCommit, MarkedPending, HoldsTopUp, Statuses
  <2>3. loc[k].user \in Users
    BY <1>11 DEF ApproveCommit, LocalsOK
  <2>4. credits' \in [TopUps -> Nat] /\ balance' \in [Users -> Int] /\ ledger' \in [Users -> Int]
        /\ overtaken' \in [Users -> BOOLEAN] /\ lowered' \in [Users -> BOOLEAN]
    BY <1>11, <2>1, <2>3 DEF ApproveCommit, TypeOK, CommitBalance, CreditedBalance
  <2>5. QED
    BY <1>11, <2>1, <2>2, <2>4, ReturnKeeps DEF ApproveCommit, TypeOK
<1>12. ASSUME NEW k \in Tasks, RejectMark(k) PROVE Kept
  <2>1. CASE Return(k)
    BY <1>12, <2>1, ReturnKeeps DEF RejectMark, TypeOK, TopUpsOwned
  <2>2. CASE Continue(k, "reject_read", "reject_marked")
    BY <1>12, <2>2, ContinueKeeps DEF RejectMark, TypeOK, TopUpsOwned, PCs
  <2>3. QED
    BY <1>12, <2>1, <2>2 DEF RejectMark
<1>13. ASSUME NEW k \in Tasks, RejectCommit(k) PROVE Kept
  <2>1. Return(k) /\ loc[k].topup \in TopUps
    BY <1>13 DEF RejectCommit, LocalsOK, InModeration, InApproval
  <2>2. topup' \in [TopUps -> [status: Statuses, user: Users \cup {None}, amt: Nat]] /\ TopUpsOwned'
    BY <1>13, <2>1, DecideKeeps DEF RejectCommit, MarkedPending, HoldsTopUp, Statuses
  <2>3. QED
    BY <1>13, <2>1, <2>2, ReturnKeeps DEF RejectCommit, TypeOK
<1>14. ASSUME NEW k \in Tasks, AddWrite(k) PROVE Kept
  <2>1. CASE Return(k)
    BY <1>14, <2>1, ReturnKeeps DEF AddWrite, TypeOK, TopUpsOwned
  <2>2. CASE Continue(k, "add_read", "add_written")
    BY <1>14, <2>2, ContinueKeeps DEF AddWrite, TypeOK, TopUpsOwned, PCs
  <2>3. QED
    BY <1>14, <2>1, <2>2 DEF AddWrite
<1>15. ASSUME NEW k \in Tasks, AddCommit(k) PROVE Kept
  BY <1>15
     DEF AddCommit, Return, CommitBalance, NoLocals, TypeOK, LocalsOK, TopUpsOwned,
         InModeration, InApproval, PCs, Statuses
<1>16. ASSUME NEW k \in Tasks, BuyInsert(k) PROVE Kept
  BY <1>16
     DEF BuyInsert, Continue, TypeOK, LocalsOK, TopUpsOwned, InModeration, InApproval, PCs,
         Statuses
<1>17. ASSUME NEW k \in Tasks, BuyDebit(k) PROVE Kept
  BY <1>17
     DEF BuyDebit, Continue, TypeOK, LocalsOK, TopUpsOwned, InModeration, InApproval, PCs,
         Statuses
<1>18. ASSUME NEW k \in Tasks, BuyDeadlock(k) PROVE Kept
  BY <1>18, ReturnKeeps DEF BuyDeadlock, TypeOK, TopUpsOwned
<1>19. ASSUME NEW k \in Tasks, BuyProvision(k) PROVE Kept
  <2>1. granted' \in [Users -> Nat]
    <3>1. CASE granted' = [granted EXCEPT ![loc[k].user] = @ + 1]
      <4>1. loc[k].user \in Users
        BY <1>19 DEF BuyProvision, LocalsOK
      <4>2. granted \in [Users -> Nat] /\ granted[loc[k].user] + 1 \in Nat
        BY <4>1 DEF TypeOK
      <4>3. QED
        BY <3>1, <4>1, <4>2
    <3>2. CASE granted' = granted
      BY <3>2 DEF TypeOK
    <3>3. granted' = [granted EXCEPT ![loc[k].user] = @ + 1] \/ granted' = granted
      BY <1>19, Zenon DEF BuyProvision
    <3>4. QED
      BY <3>1, <3>2, <3>3
  <2>2. CASE Return(k)
    BY <1>19, <2>1, <2>2, ReturnKeeps DEF BuyProvision, TypeOK, TopUpsOwned
  <2>3. CASE Continue(k, "buy_written", "buy_provisioned")
    BY <1>19, <2>1, <2>3, ContinueKeeps DEF BuyProvision, TypeOK, TopUpsOwned, PCs
  <2>4. QED
    BY <1>19, <2>2, <2>3 DEF BuyProvision
<1>20. ASSUME NEW k \in Tasks, BuyCommit(k) PROVE Kept
  BY <1>20
     DEF BuyCommit, Return, CommitBalance, NoLocals, TypeOK, LocalsOK, TopUpsOwned,
         InModeration, InApproval, PCs, Statuses
<1>21. ASSUME NEW k \in Tasks, ExtraCharge(k) PROVE Kept
  BY <1>21
     DEF ExtraCharge, Continue, CommitBalance, TypeOK, LocalsOK, TopUpsOwned, InModeration,
         InApproval, PCs, Statuses
<1>22. ASSUME NEW k \in Tasks, ExtraAdd(k) PROVE Kept
  <2>1. gbAdded' \in [Users -> Nat]
    <3>1. CASE gbAdded' = [gbAdded EXCEPT ![loc[k].user] = @ + 1]
      <4>1. loc[k].user \in Users
        BY <1>22 DEF ExtraAdd, LocalsOK
      <4>2. gbAdded \in [Users -> Nat] /\ gbAdded[loc[k].user] + 1 \in Nat
        BY <4>1 DEF TypeOK
      <4>3. QED
        BY <3>1, <4>1, <4>2
    <3>2. CASE gbAdded' = gbAdded
      BY <3>2 DEF TypeOK
    <3>3. gbAdded' = [gbAdded EXCEPT ![loc[k].user] = @ + 1] \/ gbAdded' = gbAdded
      BY <1>22, Zenon DEF ExtraAdd
    <3>4. QED
      BY <3>1, <3>2, <3>3
  <2>2. gbPending' \in [Users -> BOOLEAN]
    <3>1. CASE gbPending' = [gbPending EXCEPT ![loc[k].user] = FALSE]
      BY <3>1 DEF TypeOK
    <3>2. CASE gbPending' = gbPending
      BY <3>2 DEF TypeOK
    <3>3. QED
      BY <1>22, <3>1, <3>2 DEF ExtraAdd
  <2>3. QED
    BY <1>22, <2>1, <2>2, ReturnKeeps DEF ExtraAdd, TypeOK, TopUpsOwned
<1>23. ASSUME NEW k \in Tasks, Abort(k) PROVE Kept
  BY <1>23, ReturnKeeps DEF Abort, TypeOK, TopUpsOwned
<1>24. CASE UNCHANGED vars
  BY <1>24 DEF vars, TypeOK, LocalsOK, TopUpsOwned, InModeration, InApproval, PCs, Statuses
<1>25. QED
  BY <1>1, <1>2, <1>3, <1>4, <1>5, <1>6, <1>7, <1>8, <1>9, <1>10, <1>11, <1>12, <1>13, <1>14,
     <1>15, <1>16, <1>17, <1>18, <1>19, <1>20, <1>21, <1>22, <1>23, <1>24
     DEF Next, Step

-----------------------------------------------------------------------------
(* Row locks *)

\* A lock is taken only when nobody else has it, and a marked top-up was pending.
LEMMA LockStep ==
  ASSUME TypeOK, LocalsOK, LocksExclude, MarkedPending, [Next]_vars
  PROVE  LocksExclude' /\ MarkedPending'
<1> DEFINE Kept == LocksExclude' /\ MarkedPending'
<1> USE WalletAssumption DEF moneyVars, salesVars, panelVars, TypeOK, LocalsOK,
       LocksExclude, MarkedPending, HoldsUser, SharesUser, HoldsTopUp, InModeration,
       InApproval
<1>1. ASSUME NEW t \in TopUps, NEW u \in Users, NEW a \in Amounts, Submit(t, u, a) PROVE Kept
  BY <1>1 DEF Submit, NewStatus
<1>2. ASSUME NEW k \in Tasks, NEW t \in TopUps, ApproveRead(k, t) PROVE Kept
  BY <1>2 DEF ApproveRead, Start
<1>3. ASSUME NEW k \in Tasks, NEW t \in TopUps, RejectRead(k, t) PROVE Kept
  BY <1>3 DEF RejectRead, Start
<1>4. ASSUME NEW k \in Tasks, NEW u \in Users, NEW a \in Corrections, AddRead(k, u, a) PROVE Kept
  BY <1>4 DEF AddRead, Start
<1>5. ASSUME NEW k \in Tasks, NEW u \in Users, BuyRead(k, u) PROVE Kept
  BY <1>5 DEF BuyRead, Start
<1>6. ASSUME NEW k \in Tasks, NEW u \in Users, ExtraRead(k, u) PROVE Kept
  <2>1. CASE balance[u] >= GBCost
    <3>1. Start(k, "extra_read", [user |-> u, topup |-> None, snap |-> balance[u], amt |-> GBCost])
      BY <1>6, <2>1 DEF ExtraRead
    <3>2. QED
      BY <1>6, <2>1, <3>1 DEF ExtraRead, Start
  <2>2. CASE ~(balance[u] >= GBCost)
    BY <1>6, <2>2 DEF ExtraRead
  <2>3. QED
    BY <2>1, <2>2
<1>7. ASSUME NEW u \in Users, ExtraAsk(u) PROVE Kept
  BY <1>7 DEF ExtraAsk
<1>8. ASSUME NEW u \in Users, ExtraCancel(u) PROVE Kept
  BY <1>8 DEF ExtraCancel
<1>9. ASSUME NEW k \in Tasks, ApproveMark(k) PROVE Kept
  <2>1. CASE Return(k)
    BY <1>9, <2>1 DEF ApproveMark, Return, NoLocals
  <2>2. CASE Continue(k, "approve_read", "approve_marked")
    <3>1. IsPending(loc[k].topup)
      BY <1>9, <2>2 DEF ApproveMark, Continue, Return
    <3>2. QED
      BY <1>9, <2>2, <3>1 DEF ApproveMark, Continue, CanLockTopUp, IsPending
  <2>3. QED
    BY <1>9, <2>1, <2>2 DEF ApproveMark
<1>10. ASSUME NEW k \in Tasks, ApproveCredit(k) PROVE Kept
  <2>1. CASE Return(k)
    BY <1>10, <2>1 DEF ApproveCredit, Return, NoLocals
  <2>2. CASE Continue(k, "approve_marked", "approve_credited")
    BY <1>10, <2>2 DEF ApproveCredit, Continue, CanLock
  <2>3. QED
    BY <1>10, <2>1, <2>2 DEF ApproveCredit
<1>11. ASSUME NEW k \in Tasks, ApproveCommit(k) PROVE Kept
  BY <1>11 DEF ApproveCommit, Decide, Return, NoLocals, CommitBalance, CreditedBalance
<1>12. ASSUME NEW k \in Tasks, RejectMark(k) PROVE Kept
  <2>1. CASE Return(k)
    BY <1>12, <2>1 DEF RejectMark, Return, NoLocals
  <2>2. CASE Continue(k, "reject_read", "reject_marked")
    <3>1. IsPending(loc[k].topup)
      BY <1>12, <2>2 DEF RejectMark, Continue, Return
    <3>2. QED
      BY <1>12, <2>2, <3>1 DEF RejectMark, Continue, CanLockTopUp, IsPending
  <2>3. QED
    BY <1>12, <2>1, <2>2 DEF RejectMark
<1>13. ASSUME NEW k \in Tasks, RejectCommit(k) PROVE Kept
  BY <1>13 DEF RejectCommit, Decide, Return, NoLocals
<1>14. ASSUME NEW k \in Tasks, AddWrite(k) PROVE Kept
  BY <1>14 DEF AddWrite, Continue, Return, NoLocals, CanLock
<1>15. ASSUME NEW k \in Tasks, AddCommit(k) PROVE Kept
  BY <1>15 DEF AddCommit, Return, NoLocals, CommitBalance
<1>16. ASSUME NEW k \in Tasks, BuyInsert(k) PROVE Kept
  BY <1>16 DEF BuyInsert, Continue, CanShare
<1>17. ASSUME NEW k \in Tasks, BuyDebit(k) PROVE Kept
  BY <1>17 DEF BuyDebit, Continue, CanLock
<1>18. ASSUME NEW k \in Tasks, BuyDeadlock(k) PROVE Kept
  BY <1>18 DEF BuyDeadlock, Return, NoLocals
<1>19. ASSUME NEW k \in Tasks, BuyProvision(k) PROVE Kept
  <2>1. CASE Return(k)
    BY <1>19, <2>1 DEF BuyProvision, Return, NoLocals
  <2>2. CASE Continue(k, "buy_written", "buy_provisioned")
    BY <1>19, <2>2 DEF BuyProvision, Continue
  <2>3. QED
    BY <1>19, <2>1, <2>2 DEF BuyProvision
<1>20. ASSUME NEW k \in Tasks, BuyCommit(k) PROVE Kept
  BY <1>20 DEF BuyCommit, Return, NoLocals, CommitBalance
<1>21. ASSUME NEW k \in Tasks, ExtraCharge(k) PROVE Kept
  BY <1>21 DEF ExtraCharge, Continue, CanLock, CommitBalance
<1>22. ASSUME NEW k \in Tasks, ExtraAdd(k) PROVE Kept
  BY <1>22 DEF ExtraAdd, Return, NoLocals
<1>23. ASSUME NEW k \in Tasks, Abort(k) PROVE Kept
  BY <1>23 DEF Abort, Return, NoLocals
<1>24. CASE UNCHANGED vars
  BY <1>24 DEF vars
<1>25. QED
  BY <1>1, <1>2, <1>3, <1>4, <1>5, <1>6, <1>7, <1>8, <1>9, <1>10, <1>11, <1>12, <1>13, <1>14,
     <1>15, <1>16, <1>17, <1>18, <1>19, <1>20, <1>21, <1>22, <1>23, <1>24
     DEF Next, Step

-----------------------------------------------------------------------------
(* Snapshots and the ledger *)

\* A commit that leaves somebody with an old snapshot marks the user as overtaken.
LEMMA SnapshotStep ==
  ASSUME TypeOK, LocalsOK, SnapshotCurrent, [Next]_vars
  PROVE  SnapshotCurrent'
<1> DEFINE Kept == SnapshotCurrent'
<1> USE WalletAssumption DEF moneyVars, salesVars, panelVars, TypeOK, LocalsOK,
       SnapshotCurrent, HasSnapshot, HoldsUser, SharesUser, InModeration, InApproval
<1>1. ASSUME NEW t \in TopUps, NEW u \in Users, NEW a \in Amounts, Submit(t, u, a) PROVE Kept
  BY <1>1 DEF Submit, NewStatus
<1>2. ASSUME NEW k \in Tasks, NEW t \in TopUps, ApproveRead(k, t) PROVE Kept
  BY <1>2 DEF ApproveRead, Start
<1>3. ASSUME NEW k \in Tasks, NEW t \in TopUps, RejectRead(k, t) PROVE Kept
  BY <1>3 DEF RejectRead, Start
<1>4. ASSUME NEW k \in Tasks, NEW u \in Users, NEW a \in Corrections, AddRead(k, u, a) PROVE Kept
  BY <1>4 DEF AddRead, Start
<1>5. ASSUME NEW k \in Tasks, NEW u \in Users, BuyRead(k, u) PROVE Kept
  BY <1>5 DEF BuyRead, Start
<1>6. ASSUME NEW k \in Tasks, NEW u \in Users, ExtraRead(k, u) PROVE Kept
  <2>1. CASE balance[u] >= GBCost
    <3>1. Start(k, "extra_read", [user |-> u, topup |-> None, snap |-> balance[u], amt |-> GBCost])
      BY <1>6, <2>1 DEF ExtraRead
    <3>2. QED
      BY <1>6, <2>1, <3>1 DEF ExtraRead, Start
  <2>2. CASE ~(balance[u] >= GBCost)
    BY <1>6, <2>2 DEF ExtraRead
  <2>3. QED
    BY <2>1, <2>2
<1>7. ASSUME NEW u \in Users, ExtraAsk(u) PROVE Kept
  BY <1>7 DEF ExtraAsk
<1>8. ASSUME NEW u \in Users, ExtraCancel(u) PROVE Kept
  BY <1>8 DEF ExtraCancel
<1>9. ASSUME NEW k \in Tasks, ApproveMark(k) PROVE Kept
  <2>1. CASE Return(k)
    BY <1>9, <2>1 DEF ApproveMark, Return, NoLocals
  <2>2. CASE Continue(k, "approve_read", "approve_marked")
    BY <1>9, <2>2 DEF ApproveMark, Continue, CanLockTopUp, IsPending
  <2>3. QED
    BY <1>9, <2>1, <2>2 DEF ApproveMark
<1>10. ASSUME NEW k \in Tasks, ApproveCredit(k) PROVE Kept
  <2>1. CASE Return(k)
    BY <1>10, <2>1 DEF ApproveCredit, Return, NoLocals
  <2>2. CASE Continue(k, "approve_marked", "approve_credited")
    BY <1>10, <2>2 DEF ApproveCredit, Continue, CanLock
  <2>3. QED
    BY <1>10, <2>1, <2>2 DEF ApproveCredit
<1>11. ASSUME NEW k \in Tasks, ApproveCommit(k) PROVE Kept
  BY <1>11 DEF ApproveCommit, Decide, Return, NoLocals, CommitBalance, CreditedBalance
<1>12. ASSUME NEW k \in Tasks, RejectMark(k) PROVE Kept
  <2>1. CASE Return(k)
    BY <1>12, <2>1 DEF RejectMark, Return, NoLocals
  <2>2. CASE Continue(k, "reject_read", "reject_marked")
    BY <1>12, <2>2 DEF RejectMark, Continue, CanLockTopUp, IsPending
  <2>3. QED
    BY <1>12, <2>1, <2>2 DEF RejectMark
<1>13. ASSUME NEW k \in Tasks, RejectCommit(k) PROVE Kept
  BY <1>13 DEF RejectCommit, Decide, Return, NoLocals
<1>14. ASSUME NEW k \in Tasks, AddWrite(k) PROVE Kept
  <2>1. CASE Return(k)
    BY <1>14, <2>1 DEF AddWrite, Return, NoLocals
  <2>2. CASE Continue(k, "add_read", "add_written")
    BY <1>14, <2>2 DEF AddWrite, Continue, CanLock
  <2>3. QED
    BY <1>14, <2>1, <2>2 DEF AddWrite
<1>15. ASSUME NEW k \in Tasks, AddCommit(k) PROVE Kept
  BY <1>15 DEF AddCommit, Return, NoLocals, CommitBalance
<1>16. ASSUME NEW k \in Tasks, BuyInsert(k) PROVE Kept
  BY <1>16 DEF BuyInsert, Continue, CanShare
<1>17. ASSUME NEW k \in Tasks, BuyDebit(k) PROVE Kept
  BY <1>17 DEF BuyDebit, Continue, CanLock
<1>18. ASSUME NEW k \in Tasks, BuyDeadlock(k) PROVE Kept
  BY <1>18 DEF BuyDeadlock, Return, NoLocals
<1>19. ASSUME NEW k \in Tasks, BuyProvision(k) PROVE Kept
  <2>1. CASE Return(k)
    BY <1>19, <2>1 DEF BuyProvision, Return, NoLocals
  <2>2. CASE Continue(k, "buy_written", "buy_provisioned")
    BY <1>19, <2>2 DEF BuyProvision, Continue
  <2>3. QED
    BY <1>19, <2>1, <2>2 DEF BuyProvision
<1>20. ASSUME NEW k \in Tasks, BuyCommit(k) PROVE Kept
  BY <1>20 DEF BuyCommit, Return, NoLocals, CommitBalance
<1>21. ASSUME NEW k \in Tasks, ExtraCharge(k) PROVE Kept
  BY <1>21 DEF ExtraCharge, Continue, CanLock, CommitBalance
<1>22. ASSUME NEW k \in Tasks, ExtraAdd(k) PROVE Kept
  BY <1>22 DEF ExtraAdd, Return, NoLocals
<1>23. ASSUME NEW k \in Tasks, Abort(k) PROVE Kept
  BY <1>23 DEF Abort, Return, NoLocals
<1>24. CASE UNCHANGED vars
  BY <1>24 DEF vars
<1>25. QED
  BY <1>1, <1>2, <1>3, <1>4, <1>5, <1>6, <1>7, <1>8, <1>9, <1>10, <1>11, <1>12, <1>13, <1>14,
     <1>15, <1>16, <1>17, <1>18, <1>19, <1>20, <1>21, <1>22, <1>23, <1>24
     DEF Next, Step

\* A commit changes the balance by what it adds to the ledger, unless its
\* snapshot had been overtaken.
LEMMA LedgerStep ==
  ASSUME TypeOK, LocalsOK, SnapshotCurrent, LedgerExact, [Next]_vars
  PROVE  LedgerExact'
<1> DEFINE Kept == LedgerExact'
<1> USE WalletAssumption DEF moneyVars, salesVars, panelVars, TypeOK, LocalsOK,
       SnapshotCurrent, HasSnapshot, LedgerExact
<1>1. ASSUME NEW t \in TopUps, NEW u \in Users, NEW a \in Amounts, Submit(t, u, a) PROVE Kept
  BY <1>1 DEF Submit, NewStatus
<1>2. ASSUME NEW k \in Tasks, NEW t \in TopUps, ApproveRead(k, t) PROVE Kept
  BY <1>2 DEF ApproveRead, Start
<1>3. ASSUME NEW k \in Tasks, NEW t \in TopUps, RejectRead(k, t) PROVE Kept
  BY <1>3 DEF RejectRead, Start
<1>4. ASSUME NEW k \in Tasks, NEW u \in Users, NEW a \in Corrections, AddRead(k, u, a) PROVE Kept
  BY <1>4 DEF AddRead, Start
<1>5. ASSUME NEW k \in Tasks, NEW u \in Users, BuyRead(k, u) PROVE Kept
  BY <1>5 DEF BuyRead, Start
<1>6. ASSUME NEW k \in Tasks, NEW u \in Users, ExtraRead(k, u) PROVE Kept
  <2>1. CASE balance[u] >= GBCost
    <3>1. Start(k, "extra_read", [user |-> u, topup |-> None, snap |-> balance[u], amt |-> GBCost])
      BY <1>6, <2>1 DEF ExtraRead
    <3>2. QED
      BY <1>6, <2>1, <3>1 DEF ExtraRead, Start
  <2>2. CASE ~(balance[u] >= GBCost)
    BY <1>6, <2>2 DEF ExtraRead
  <2>3. QED
    BY <2>1, <2>2
<1>7. ASSUME NEW u \in Users, ExtraAsk(u) PROVE Kept
  BY <1>7 DEF ExtraAsk
<1>8. ASSUME NEW u \in Users, ExtraCancel(u) PROVE Kept
  BY <1>8 DEF ExtraCancel
<1>9. ASSUME NEW k \in Tasks, ApproveMark(k) PROVE Kept
  BY <1>9 DEF ApproveMark, Continue, Return, NoLocals, CanLockTopUp, IsPending
<1>10. ASSUME NEW k \in Tasks, ApproveCredit(k) PROVE Kept
  BY <1>10 DEF ApproveCredit, Continue, Return, NoLocals, CanLock, CreditedBalance
<1>11. ASSUME NEW k \in Tasks, ApproveCommit(k) PROVE Kept
  BY <1>11 DEF ApproveCommit, Decide, Return, NoLocals, CommitBalance, CreditedBalance
<1>12. ASSUME NEW k \in Tasks, RejectMark(k) PROVE Kept
  BY <1>12 DEF RejectMark, Continue, Return, NoLocals, CanLockTopUp, IsPending
<1>13. ASSUME NEW k \in Tasks, RejectCommit(k) PROVE Kept
  BY <1>13 DEF RejectCommit, Decide, Return, NoLocals
<1>14. ASSUME NEW k \in Tasks, AddWrite(k) PROVE Kept
  BY <1>14 DEF AddWrite, Continue, Return, NoLocals, CanLock
<1>15. ASSUME NEW k \in Tasks, AddCommit(k) PROVE Kept
  BY <1>15 DEF AddCommit, Return, NoLocals, CommitBalance
<1>16. ASSUME NEW k \in Tasks, BuyInsert(k) PROVE Kept
  BY <1>16 DEF BuyInsert, Continue, CanShare
<1>17. ASSUME NEW k \in Tasks, BuyDebit(k) PROVE Kept
  BY <1>17 DEF BuyDebit, Continue, CanLock
<1>18. ASSUME NEW k \in Tasks, BuyDeadlock(k) PROVE Kept
  BY <1>18 DEF BuyDeadlock, Return, NoLocals
<1>19. ASSUME NEW k \in Tasks, BuyProvision(k) PROVE Kept
  BY <1>19 DEF BuyProvision, Continue, Return, NoLocals
<1>20. ASSUME NEW k \in Tasks, BuyCommit(k) PROVE Kept
  BY <1>20 DEF BuyCommit, Return, NoLocals, CommitBalance
<1>21. ASSUME NEW k \in Tasks, ExtraCharge(k) PROVE Kept
  BY <1>21 DEF ExtraCharge, Continue, CanLock, CommitBalance
<1>22. ASSUME NEW k \in Tasks, ExtraAdd(k) PROVE Kept
  BY <1>22 DEF ExtraAdd, Return, NoLocals
<1>23. ASSUME NEW k \in Tasks, Abort(k) PROVE Kept
  BY <1>23 DEF Abort, Return, NoLocals
<1>24. CASE UNCHANGED vars
  BY <1>24 DEF vars
<1>25. QED
  BY <1>1, <1>2, <1>3, <1>4, <1>5, <1>6, <1>7, <1>8, <1>9, <1>10, <1>11, <1>12, <1>13, <1>14,
     <1>15, <1>16, <1>17, <1>18, <1>19, <1>20, <1>21, <1>22, <1>23, <1>24
     DEF Next, Step

-----------------------------------------------------------------------------
(* Ranges *)

\* COMMIT of a value the column holds keeps every other handler's plans valid:
\* the only one that depends on the balance, an approval, has the row locked.
LEMMA CommitKeepsRange ==
  ASSUME TypeOK, LocalsOK, WritesInRange, BalanceInRange,
         NEW k \in Tasks, NEW u \in Users, NEW new \in Int, NEW change \in Int,
         CommitBalance(k, u, new, change), Fits(new),
         new < 0 => lowered[u] \/ (pc[k] = "add_written" /\ change < 0),
         \A j \in Tasks \ {k} : ~HoldsUser(j, u),
         \A j \in Tasks \ {k} : pc'[j] = pc[j] /\ loc'[j] = loc[j],
         pc'[k] \in {"idle", "extra_charged"}
  PROVE  WritesInRange' /\ BalanceInRange'
<1>1. /\ \A v \in Users : balance'[v] = IF v = u THEN new ELSE balance[v]
      /\ \A v \in Users : lowered[v] => lowered'[v]
      /\ new < 0 => lowered'[u]
  BY DEF CommitBalance, TypeOK
<1>2. BalanceInRange'
  BY <1>1 DEF BalanceInRange, Fits
<1>3. ASSUME NEW j \in Tasks, j # k
      PROVE  /\ \A v \in Users : HasSnapshot(j, v)' =>
                  Fits(loc'[j].snap) /\ (loc'[j].snap < 0 => lowered'[v])
             /\ InDebit(j)' => 0 <= loc'[j].amt /\ loc'[j].amt <= loc'[j].snap
             /\ InApproval(j)' => 0 <= loc'[j].amt
             /\ pc'[j] = "add_written" => Fits(loc'[j].snap + loc'[j].amt)
  BY <1>1, <1>3 DEF WritesInRange, HasSnapshot, InDebit, InApproval
<1>4. ASSUME NEW j \in Tasks, j # k, pc'[j] = "approve_credited"
      PROVE  Fits(CreditedBalance(j)')
  <2>1. pc[j] = "approve_credited" /\ loc'[j] = loc[j] /\ loc[j].user \in Users /\ loc[j].user # u
    BY <1>4 DEF LocalsOK, HoldsUser
  <2>2. balance'[loc[j].user] = balance[loc[j].user]
    BY <1>1, <2>1
  <2>3. Fits(CreditedBalance(j))
    BY <2>1 DEF WritesInRange
  <2>4. QED
    BY <2>1, <2>2, <2>3 DEF CreditedBalance
<1>5. QED
  BY <1>2, <1>3, <1>4 DEF WritesInRange, HasSnapshot, InDebit, InApproval

\* Every balance about to be stored fits, by the checks the handler has passed.
LEMMA RangeStep ==
  ASSUME TypeOK, LocalsOK, TopUpsOwned, LocksExclude, WritesInRange, BalanceInRange, [Next]_vars
  PROVE  WritesInRange' /\ BalanceInRange'
<1> DEFINE Kept == WritesInRange' /\ BalanceInRange'
<1> USE WalletAssumption DEF moneyVars, salesVars, panelVars, TypeOK, LocalsOK,
       TopUpsOwned, WritesInRange, BalanceInRange, HasSnapshot, InDebit, Fits,
       CreditedBalance, InModeration, InApproval
<1>1. ASSUME NEW t \in TopUps, NEW u \in Users, NEW a \in Amounts, Submit(t, u, a) PROVE Kept
  BY <1>1 DEF Submit, NewStatus
<1>2. ASSUME NEW k \in Tasks, NEW t \in TopUps, ApproveRead(k, t) PROVE Kept
  BY <1>2 DEF ApproveRead, Start
<1>3. ASSUME NEW k \in Tasks, NEW t \in TopUps, RejectRead(k, t) PROVE Kept
  BY <1>3 DEF RejectRead, Start
<1>4. ASSUME NEW k \in Tasks, NEW u \in Users, NEW a \in Corrections, AddRead(k, u, a) PROVE Kept
  BY <1>4 DEF AddRead, Start
<1>5. ASSUME NEW k \in Tasks, NEW u \in Users, BuyRead(k, u) PROVE Kept
  BY <1>5 DEF BuyRead, Start, CanAfford
<1>6. ASSUME NEW k \in Tasks, NEW u \in Users, ExtraRead(k, u) PROVE Kept
  <2>1. CASE balance[u] >= GBCost
    <3>1. Start(k, "extra_read", [user |-> u, topup |-> None, snap |-> balance[u], amt |-> GBCost])
      BY <1>6, <2>1 DEF ExtraRead
    <3>2. QED
      BY <1>6, <2>1, <3>1 DEF ExtraRead, Start
  <2>2. CASE ~(balance[u] >= GBCost)
    BY <1>6, <2>2 DEF ExtraRead
  <2>3. QED
    BY <2>1, <2>2
<1>7. ASSUME NEW u \in Users, ExtraAsk(u) PROVE Kept
  BY <1>7 DEF ExtraAsk
<1>8. ASSUME NEW u \in Users, ExtraCancel(u) PROVE Kept
  BY <1>8 DEF ExtraCancel
<1>9. ASSUME NEW k \in Tasks, ApproveMark(k) PROVE Kept
  <2>1. CASE Return(k)
    BY <1>9, <2>1 DEF ApproveMark, Return, NoLocals
  <2>2. CASE Continue(k, "approve_read", "approve_marked")
    BY <1>9, <2>2 DEF ApproveMark, Continue, CanLockTopUp, IsPending
  <2>3. QED
    BY <1>9, <2>1, <2>2 DEF ApproveMark
<1>10. ASSUME NEW k \in Tasks, ApproveCredit(k) PROVE Kept
  <2>1. CASE Return(k)
    BY <1>10, <2>1 DEF ApproveCredit, Return, NoLocals
  <2>2. CASE Continue(k, "approve_marked", "approve_credited")
    <3>1. Fits(CreditedBalance(k))
      BY <1>10, <2>2 DEF ApproveCredit, Continue, Return
    <3>2. QED
      BY <1>10, <2>2, <3>1 DEF ApproveCredit, Continue
  <2>3. QED
    BY <1>10, <2>1, <2>2 DEF ApproveCredit
<1>11. ASSUME NEW k \in Tasks, ApproveCommit(k) PROVE Kept
  <2>1. /\ loc[k].user \in Users /\ balance[loc[k].user] \in Int
        /\ loc[k].snap \in Int /\ loc[k].amt \in Int
    BY <1>11 DEF ApproveCommit
  <2>2. \A j \in Tasks \ {k} : ~HoldsUser(j, loc[k].user)
    BY <1>11, <2>1 DEF ApproveCommit, LocksExclude, HoldsUser
  <2>3. /\ \A j \in Tasks \ {k} : pc'[j] = pc[j] /\ loc'[j] = loc[j]
        /\ pc'[k] \in {"idle", "extra_charged"}
    BY <1>11 DEF ApproveCommit, Return
  <2>4. Fits(CreditedBalance(k)) /\ (CreditedBalance(k) < 0 => lowered[loc[k].user])
    BY <1>11, <2>1 DEF ApproveCommit
  <2>5. /\ CommitBalance(k, loc[k].user, CreditedBalance(k), loc[k].amt)
        /\ CreditedBalance(k) \in Int /\ loc[k].amt \in Int
    BY <1>11, <2>1 DEF ApproveCommit
  <2>6. QED
    BY <2>1, <2>2, <2>3, <2>4, <2>5, CommitKeepsRange
<1>12. ASSUME NEW k \in Tasks, RejectMark(k) PROVE Kept
  <2>1. CASE Return(k)
    BY <1>12, <2>1 DEF RejectMark, Return, NoLocals
  <2>2. CASE Continue(k, "reject_read", "reject_marked")
    BY <1>12, <2>2 DEF RejectMark, Continue, CanLockTopUp, IsPending
  <2>3. QED
    BY <1>12, <2>1, <2>2 DEF RejectMark
<1>13. ASSUME NEW k \in Tasks, RejectCommit(k) PROVE Kept
  BY <1>13 DEF RejectCommit, Decide, Return, NoLocals
<1>14. ASSUME NEW k \in Tasks, AddWrite(k) PROVE Kept
  <2>1. CASE Return(k)
    BY <1>14, <2>1 DEF AddWrite, Return, NoLocals
  <2>2. CASE Continue(k, "add_read", "add_written")
    <3>1. Fits(loc[k].snap + loc[k].amt)
      BY <1>14, <2>2 DEF AddWrite, Continue, Return
    <3>2. QED
      BY <1>14, <2>2, <3>1 DEF AddWrite, Continue
  <2>3. QED
    BY <1>14, <2>1, <2>2 DEF AddWrite
<1>15. ASSUME NEW k \in Tasks, AddCommit(k) PROVE Kept
  <2>1. /\ loc[k].user \in Users /\ balance[loc[k].user] \in Int
        /\ loc[k].snap \in Int /\ loc[k].amt \in Int
    BY <1>15 DEF AddCommit
  <2>2. \A j \in Tasks \ {k} : ~HoldsUser(j, loc[k].user)
    BY <1>15, <2>1 DEF AddCommit, LocksExclude, HoldsUser
  <2>3. /\ \A j \in Tasks \ {k} : pc'[j] = pc[j] /\ loc'[j] = loc[j]
        /\ pc'[k] \in {"idle", "extra_charged"}
    BY <1>15 DEF AddCommit, Return
  <2>4. /\ Fits(loc[k].snap + loc[k].amt)
        /\ loc[k].snap + loc[k].amt < 0
             => lowered[loc[k].user] \/ (pc[k] = "add_written" /\ loc[k].amt < 0)
    BY <1>15, <2>1 DEF AddCommit
  <2>5. /\ CommitBalance(k, loc[k].user, loc[k].snap + loc[k].amt, loc[k].amt)
        /\ loc[k].snap + loc[k].amt \in Int /\ loc[k].amt \in Int
    BY <1>15, <2>1 DEF AddCommit
  <2>6. QED
    BY <2>1, <2>2, <2>3, <2>4, <2>5, CommitKeepsRange
<1>16. ASSUME NEW k \in Tasks, BuyInsert(k) PROVE Kept
  BY <1>16 DEF BuyInsert, Continue, CanShare
<1>17. ASSUME NEW k \in Tasks, BuyDebit(k) PROVE Kept
  BY <1>17 DEF BuyDebit, Continue, CanLock
<1>18. ASSUME NEW k \in Tasks, BuyDeadlock(k) PROVE Kept
  BY <1>18 DEF BuyDeadlock, Return, NoLocals
<1>19. ASSUME NEW k \in Tasks, BuyProvision(k) PROVE Kept
  <2>1. CASE Return(k)
    BY <1>19, <2>1 DEF BuyProvision, Return, NoLocals
  <2>2. CASE Continue(k, "buy_written", "buy_provisioned")
    BY <1>19, <2>2 DEF BuyProvision, Continue
  <2>3. QED
    BY <1>19, <2>1, <2>2 DEF BuyProvision
<1>20. ASSUME NEW k \in Tasks, BuyCommit(k) PROVE Kept
  <2>1. /\ loc[k].user \in Users /\ balance[loc[k].user] \in Int
        /\ loc[k].snap \in Int /\ loc[k].amt \in Int
    BY <1>20 DEF BuyCommit
  <2>2. \A j \in Tasks \ {k} : ~HoldsUser(j, loc[k].user)
    BY <1>20, <2>1 DEF BuyCommit, LocksExclude, HoldsUser
  <2>3. /\ \A j \in Tasks \ {k} : pc'[j] = pc[j] /\ loc'[j] = loc[j]
        /\ pc'[k] \in {"idle", "extra_charged"}
    BY <1>20 DEF BuyCommit, Return
  <2>4. Fits(loc[k].snap - loc[k].amt) /\ (loc[k].snap - loc[k].amt < 0 => lowered[loc[k].user])
    BY <1>20, <2>1 DEF BuyCommit
  <2>5. /\ CommitBalance(k, loc[k].user, loc[k].snap - loc[k].amt, 0 - loc[k].amt)
        /\ loc[k].snap - loc[k].amt \in Int /\ 0 - loc[k].amt \in Int
    BY <1>20, <2>1 DEF BuyCommit
  <2>6. QED
    BY <2>1, <2>2, <2>3, <2>4, <2>5, CommitKeepsRange
<1>21. ASSUME NEW k \in Tasks, ExtraCharge(k) PROVE Kept
  <2>1. /\ loc[k].user \in Users /\ balance[loc[k].user] \in Int
        /\ loc[k].snap \in Int /\ loc[k].amt \in Int
    BY <1>21 DEF ExtraCharge, Continue
  <2>2. \A j \in Tasks \ {k} : ~HoldsUser(j, loc[k].user)
    BY <1>21, <2>1 DEF ExtraCharge, CanLock, Continue
  <2>3. /\ \A j \in Tasks \ {k} : pc'[j] = pc[j] /\ loc'[j] = loc[j]
        /\ pc'[k] \in {"idle", "extra_charged"}
    BY <1>21 DEF ExtraCharge, Continue
  <2>4. Fits(loc[k].snap - loc[k].amt) /\ (loc[k].snap - loc[k].amt < 0 => lowered[loc[k].user])
    BY <1>21, <2>1 DEF ExtraCharge, Continue
  <2>5. /\ CommitBalance(k, loc[k].user, loc[k].snap - loc[k].amt, 0 - loc[k].amt)
        /\ loc[k].snap - loc[k].amt \in Int /\ 0 - loc[k].amt \in Int
    BY <1>21, <2>1 DEF ExtraCharge
  <2>6. QED
    BY <2>1, <2>2, <2>3, <2>4, <2>5, CommitKeepsRange
<1>22. ASSUME NEW k \in Tasks, ExtraAdd(k) PROVE Kept
  BY <1>22 DEF ExtraAdd, Return, NoLocals
<1>23. ASSUME NEW k \in Tasks, Abort(k) PROVE Kept
  BY <1>23 DEF Abort, Return, NoLocals
<1>24. CASE UNCHANGED vars
  BY <1>24 DEF vars
<1>25. QED
  BY <1>1, <1>2, <1>3, <1>4, <1>5, <1>6, <1>7, <1>8, <1>9, <1>10, <1>11, <1>12, <1>13, <1>14,
     <1>15, <1>16, <1>17, <1>18, <1>19, <1>20, <1>21, <1>22, <1>23, <1>24
     DEF Next, Step

-----------------------------------------------------------------------------
(* Credits of a top-up *)

\* An approval credits a top-up that was pending and leaves it approved.
LEMMA CreditStep ==
  ASSUME TypeOK, LocalsOK, MarkedPending, CreditedOnce, [Next]_vars
  PROVE  CreditedOnce'
<1> DEFINE Kept == CreditedOnce'
<1> USE WalletAssumption DEF moneyVars, salesVars, panelVars, TypeOK, LocalsOK,
       MarkedPending, CreditedOnce, HoldsTopUp, InModeration, InApproval
<1>1. ASSUME NEW t \in TopUps, NEW u \in Users, NEW a \in Amounts, Submit(t, u, a) PROVE Kept
  BY <1>1 DEF Submit, NewStatus
<1>2. ASSUME NEW k \in Tasks, NEW t \in TopUps, ApproveRead(k, t) PROVE Kept
  BY <1>2 DEF ApproveRead, Start
<1>3. ASSUME NEW k \in Tasks, NEW t \in TopUps, RejectRead(k, t) PROVE Kept
  BY <1>3 DEF RejectRead, Start
<1>4. ASSUME NEW k \in Tasks, NEW u \in Users, NEW a \in Corrections, AddRead(k, u, a) PROVE Kept
  BY <1>4 DEF AddRead, Start
<1>5. ASSUME NEW k \in Tasks, NEW u \in Users, BuyRead(k, u) PROVE Kept
  BY <1>5 DEF BuyRead, Start
<1>6. ASSUME NEW k \in Tasks, NEW u \in Users, ExtraRead(k, u) PROVE Kept
  BY <1>6 DEF ExtraRead, Start
<1>7. ASSUME NEW u \in Users, ExtraAsk(u) PROVE Kept
  BY <1>7 DEF ExtraAsk
<1>8. ASSUME NEW u \in Users, ExtraCancel(u) PROVE Kept
  BY <1>8 DEF ExtraCancel
<1>9. ASSUME NEW k \in Tasks, ApproveMark(k) PROVE Kept
  BY <1>9 DEF ApproveMark, Continue, Return, NoLocals, CanLockTopUp, IsPending
<1>10. ASSUME NEW k \in Tasks, ApproveCredit(k) PROVE Kept
  BY <1>10 DEF ApproveCredit, Continue, Return, NoLocals, CanLock, CreditedBalance
<1>11. ASSUME NEW k \in Tasks, ApproveCommit(k) PROVE Kept
  BY <1>11 DEF ApproveCommit, Decide, Return, NoLocals, CommitBalance, CreditedBalance
<1>12. ASSUME NEW k \in Tasks, RejectMark(k) PROVE Kept
  BY <1>12 DEF RejectMark, Continue, Return, NoLocals, CanLockTopUp, IsPending
<1>13. ASSUME NEW k \in Tasks, RejectCommit(k) PROVE Kept
  BY <1>13 DEF RejectCommit, Decide, Return, NoLocals
<1>14. ASSUME NEW k \in Tasks, AddWrite(k) PROVE Kept
  BY <1>14 DEF AddWrite, Continue, Return, NoLocals, CanLock
<1>15. ASSUME NEW k \in Tasks, AddCommit(k) PROVE Kept
  BY <1>15 DEF AddCommit, Return, NoLocals, CommitBalance
<1>16. ASSUME NEW k \in Tasks, BuyInsert(k) PROVE Kept
  BY <1>16 DEF BuyInsert, Continue, CanShare
<1>17. ASSUME NEW k \in Tasks, BuyDebit(k) PROVE Kept
  BY <1>17 DEF BuyDebit, Continue, CanLock
<1>18. ASSUME NEW k \in Tasks, BuyDeadlock(k) PROVE Kept
  BY <1>18 DEF BuyDeadlock, Return, NoLocals
<1>19. ASSUME NEW k \in Tasks, BuyProvision(k) PROVE Kept
  BY <1>19 DEF BuyProvision, Continue, Return, NoLocals
<1>20. ASSUME NEW k \in Tasks, BuyCommit(k) PROVE Kept
  BY <1>20 DEF BuyCommit, Return, NoLocals, CommitBalance
<1>21. ASSUME NEW k \in Tasks, ExtraCharge(k) PROVE Kept
  BY <1>21 DEF ExtraCharge, Continue, CanLock, CommitBalance
<1>22. ASSUME NEW k \in Tasks, ExtraAdd(k) PROVE Kept
  BY <1>22 DEF ExtraAdd, Return, NoLocals
<1>23. ASSUME NEW k \in Tasks, Abort(k) PROVE Kept
  BY <1>23 DEF Abort, Return, NoLocals
<1>24. CASE UNCHANGED vars
  BY <1>24 DEF vars
<1>25. QED
  BY <1>1, <1>2, <1>3, <1>4, <1>5, <1>6, <1>7, <1>8, <1>9, <1>10, <1>11, <1>12, <1>13, <1>14,
     <1>15, <1>16, <1>17, <1>18, <1>19, <1>20, <1>21, <1>22, <1>23, <1>24
     DEF Next, Step

-----------------------------------------------------------------------------
(* Results *)

\* What holds to begin with.
LEMMA InitIInv == Init => IInv
<1> SUFFICES ASSUME Init PROVE IInv
  OBVIOUS
<1> USE WalletAssumption DEF Init, NoLocals, Unused
<1>1. TypeOK
  BY DEF TypeOK, Statuses, PCs
<1>2. LocalsOK /\ TopUpsOwned
  BY DEF LocalsOK, TopUpsOwned, InModeration, InApproval
<1>3. LocksExclude /\ MarkedPending
  BY DEF LocksExclude, MarkedPending, HoldsUser, SharesUser, HoldsTopUp
<1>4. SnapshotCurrent /\ LedgerExact
  BY DEF SnapshotCurrent, LedgerExact, HasSnapshot
<1>5. WritesInRange /\ BalanceInRange
  BY DEF WritesInRange, BalanceInRange, Fits, HasSnapshot, InDebit, InApproval
<1>6. CreditedOnce
  BY DEF CreditedOnce
<1>7. QED
  BY <1>1, <1>2, <1>3, <1>4, <1>5, <1>6 DEF IInv

\* And every step keeps it.
LEMMA NextIInv == IInv /\ [Next]_vars => IInv'
  BY TypeStep, LockStep, SnapshotStep, LedgerStep, RangeStep, CreditStep DEF IInv

\* The invariant holds in every reachable state: locks exclude each other,
\* snapshots are current or known to be overtaken, planned writes fit.
THEOREM Invariant == Spec => []IInv
<1>1. Init => IInv
  BY InitIInv
<1>2. IInv /\ [Next]_vars => IInv'
  BY NextIInv
<1>3. QED
  BY <1>1, <1>2, PTL DEF Spec

\* The tables, the task states and the counters keep their types.
THEOREM TypeCorrect == Spec => []TypeOK
<1>1. IInv => TypeOK
  BY DEF IInv
<1>2. QED
  BY <1>1, Invariant, PTL

\* A top-up is credited once if it is approved and never otherwise, however
\* many moderators handle it at the same time.
THEOREM TopUpCreditedOnce == Spec => []CreditedOnce
<1>1. IInv => CreditedOnce
  BY DEF IInv
<1>2. QED
  BY <1>1, Invariant, PTL

\* A balance differs from its ledger only for a user whose row was committed
\* between another handler's read and write.
THEOREM LedgerKept == Spec => []LedgerExact
<1>1. IInv => LedgerExact
  BY DEF IInv
<1>2. QED
  BY <1>1, Invariant, PTL

\* A balance fits its column, and is negative only after a correction by an admin.
THEOREM RangeKept == Spec => []BalanceInRange
<1>1. IInv => BalanceInRange
  BY DEF IInv
<1>2. QED
  BY <1>1, Invariant, PTL

\* A step never touches the row of a top-up that has been decided.
LEMMA DecidedStays ==
  ASSUME IInv, [Next]_vars, NEW t \in TopUps, topup[t].status \in {"approved", "rejected"}
  PROVE  topup'[t] = topup[t]
<1> USE DEF IInv, TypeOK
<1>1. ASSUME NEW k \in Tasks, NEW d \in {"approved", "rejected"},
             pc[k] \in {"approve_credited", "reject_marked"}, Decide(loc[k].topup, d)
      PROVE  topup'[t] = topup[t]
  <2>1. loc[k].topup \in TopUps
    BY <1>1 DEF LocalsOK, InModeration, InApproval
  <2>2. loc[k].topup # t
    BY <1>1, <2>1 DEF MarkedPending, HoldsTopUp
  <2>3. QED
    BY <1>1, <2>2 DEF Decide
<1>2. ASSUME NEW s \in TopUps, NEW u \in Users, NEW a \in Amounts, Submit(s, u, a)
      PROVE  topup'[t] = topup[t]
  BY <1>2 DEF Submit
<1>3. ASSUME NEW k \in Tasks, ApproveCommit(k) PROVE topup'[t] = topup[t]
  BY <1>1, <1>3 DEF ApproveCommit
<1>4. ASSUME NEW k \in Tasks, RejectCommit(k) PROVE topup'[t] = topup[t]
  BY <1>1, <1>4 DEF RejectCommit
<1>5. CASE topup' = topup
  BY <1>5
<1>6. QED
  BY <1>2, <1>3, <1>4, <1>5
     DEF Next, Step, vars, ApproveRead, RejectRead, AddRead, BuyRead, ExtraRead, ExtraAsk,
         ExtraCancel, ApproveMark, ApproveCredit, RejectMark, AddWrite, AddCommit,
         BuyInsert, BuyDebit, BuyDeadlock, BuyProvision, BuyCommit, ExtraCharge, ExtraAdd,
         Abort

\* No approve or reject, in any order, changes a decision.
THEOREM DecisionKept == Spec => DecisionFinal
<1>1. IInv /\ [Next]_vars =>
        [\A t \in TopUps : topup[t].status \in {"approved", "rejected"}
                             => topup'[t] = topup[t]]_vars
  BY DecidedStays
<1>2. QED
  BY <1>1, Invariant, PTL DEF Spec, DecisionFinal

-----------------------------------------------------------------------------
(* Sales *)

\* A plan is counted on the panel before its order is committed, and of one
\* user there is one purchase between the two.
PlanSales ==
  \A u \in Users :
    /\ orders[u] <= granted[u]
    /\ \A k \in Tasks : pc[k] = "buy_provisioned" /\ loc[k].user = u => orders[u] < granted[u]

\* Volumes that have been charged and not yet been added, each by its handler.
Charged(u) == {k \in Tasks : pc[k] = "extra_charged" /\ loc[k].user = u}

\* Any number of them: no lock is held while the volume is added.
VolumeSales ==
  \A u \in Users : IsFiniteSet(Charged(u)) /\ gbAdded[u] + Cardinality(Charged(u)) <= gbPaid[u]

\* Steps that neither sell a plan nor provision one.
LEMMA PlanSalesStay ==
  ASSUME PlanSales, UNCHANGED <<orders, granted>>,
         \A k \in Tasks : pc'[k] = "buy_provisioned" => pc[k] = pc'[k] /\ loc'[k] = loc[k]
  PROVE  PlanSales'
  BY DEF PlanSales

\* Steps that neither charge for a volume nor add one: at most they give up.
LEMMA VolumeSalesStay ==
  ASSUME TypeOK, VolumeSales, UNCHANGED <<gbPaid, gbAdded>>,
         \A k \in Tasks : pc'[k] = "extra_charged" => pc[k] = pc'[k] /\ loc'[k] = loc[k]
  PROVE  VolumeSales'
<1> SUFFICES ASSUME NEW u \in Users
             PROVE  IsFiniteSet(Charged(u)') /\ gbAdded'[u] + Cardinality(Charged(u)') <= gbPaid'[u]
  BY DEF VolumeSales
<1>1. Charged(u)' \subseteq Charged(u)
  BY DEF Charged
<1>2. IsFiniteSet(Charged(u)) /\ gbAdded[u] + Cardinality(Charged(u)) <= gbPaid[u]
  BY DEF VolumeSales
<1>3. IsFiniteSet(Charged(u)') /\ Cardinality(Charged(u)') <= Cardinality(Charged(u))
  BY <1>1, <1>2, FS_Subset
<1>4. Cardinality(Charged(u)') \in Nat /\ Cardinality(Charged(u)) \in Nat
  BY <1>2, <1>3, FS_CardinalityType
<1>5. gbAdded[u] \in Nat /\ gbPaid[u] \in Nat
  BY DEF TypeOK
<1>6. QED
  BY <1>2, <1>3, <1>4, <1>5

\* The panel has provisioned a plan, or the purchase has failed.
LEMMA BuyProvisionSales ==
  ASSUME TypeOK, LocalsOK, PlanSales, NEW k \in Tasks, BuyProvision(k)
  PROVE  PlanSales'
<1> DEFINE u == loc[k].user
           done == [granted EXCEPT ![u] = @ + 1]
<1>1. u \in Users /\ pc[k] = "buy_written" /\ orders' = orders
  BY DEF BuyProvision, LocalsOK, salesVars
<1>2. done[u] = granted[u] + 1 /\ \A v \in Users \ {u} : done[v] = granted[v]
  BY <1>1 DEF TypeOK
<1>3. \A v \in Users : orders[v] \in Nat /\ granted[v] \in Nat
  BY DEF TypeOK
<1> HIDE DEF done
<1>4. CASE Continue(k, "buy_written", "buy_provisioned") /\ granted' = done
  <2>1. loc' = loc /\ \A j \in Tasks \ {k} : pc'[j] = pc[j]
    BY <1>4 DEF Continue, TypeOK
  <2>2. orders[u] < granted'[u] /\ \A v \in Users : granted[v] <= granted'[v]
    BY <1>1, <1>2, <1>3, <1>4 DEF PlanSales
  <2> HIDE DEF u
  <2>3. ASSUME NEW v \in Users, NEW j \in Tasks, pc'[j] = "buy_provisioned", loc'[j].user = v
        PROVE  orders'[v] < granted'[v]
    <3>1. CASE j = k
      BY <1>1, <2>1, <2>2, <2>3, <3>1 DEF u
    <3>2. CASE j # k
      BY <1>1, <1>2, <1>3, <1>4, <2>1, <2>2, <2>3, <3>2 DEF PlanSales
    <3>3. QED
      BY <3>1, <3>2
  <2>4. \A v \in Users : orders'[v] <= granted'[v]
    BY <1>1, <1>2, <1>3, <1>4, <2>2 DEF PlanSales
  <2>5. QED
    BY <2>3, <2>4 DEF PlanSales
<1>5. CASE Return(k) /\ granted' \in {granted, done}
  <2>1. \A j \in Tasks : pc'[j] = "buy_provisioned" => pc[j] = pc'[j] /\ loc'[j] = loc[j]
    BY <1>5 DEF Return, TypeOK
  <2>2. \A v \in Users : granted[v] <= granted'[v]
    BY <1>1, <1>2, <1>3, <1>5
  <2>3. \A v \in Users : granted'[v] \in Nat
    BY <1>1, <1>2, <1>3, <1>5
  <2>4. QED
    BY <1>1, <1>3, <2>1, <2>2, <2>3 DEF PlanSales
<1>6. QED
  BY <1>4, <1>5 DEF BuyProvision, done

\* An order is committed: the one plan provisioned without an order has it now.
LEMMA BuyCommitSales ==
  ASSUME TypeOK, LocalsOK, LocksExclude, PlanSales, NEW k \in Tasks, BuyCommit(k)
  PROVE  PlanSales'
<1>1. PICK u \in Users : u = loc[k].user
  BY DEF BuyCommit, LocalsOK
<1>2. /\ pc[k] = "buy_provisioned" /\ orders' = [orders EXCEPT ![u] = @ + 1]
      /\ granted' = granted /\ Return(k)
  BY <1>1 DEF BuyCommit, panelVars
<1>3. pc'[k] = "idle" /\ \A j \in Tasks \ {k} : pc'[j] = pc[j] /\ loc'[j] = loc[j]
  BY <1>2 DEF Return, TypeOK
<1>4. orders'[u] = orders[u] + 1 /\ \A v \in Users \ {u} : orders'[v] = orders[v]
  BY <1>2 DEF TypeOK
<1>5. \A v \in Users : orders[v] \in Nat /\ granted[v] \in Nat
  BY DEF TypeOK
<1>6. \A j \in Tasks \ {k} : ~(pc[j] = "buy_provisioned" /\ loc[j].user = u)
  BY <1>1, <1>2 DEF LocksExclude, HoldsUser
<1>7. orders[u] < granted[u]
  BY <1>1, <1>2 DEF PlanSales
<1>8. \A v \in Users : orders'[v] <= granted'[v]
  BY <1>2, <1>4, <1>5, <1>7 DEF PlanSales
<1>9. ASSUME NEW v \in Users, NEW j \in Tasks, pc'[j] = "buy_provisioned", loc'[j].user = v
      PROVE  orders'[v] < granted'[v]
  <2>1. j # k /\ v # u
    BY <1>3, <1>6, <1>9
  <2>2. QED
    BY <1>2, <1>3, <1>4, <1>9, <2>1 DEF PlanSales
<1>10. QED
  BY <1>8, <1>9 DEF PlanSales

\* A volume is charged: one more handler has one to add.
LEMMA ExtraChargeSales ==
  ASSUME TypeOK, LocalsOK, VolumeSales, NEW k \in Tasks, ExtraCharge(k)
  PROVE  VolumeSales'
<1>1. PICK u \in Users : u = loc[k].user
  BY DEF ExtraCharge, Continue, LocalsOK
<1>2. /\ pc[k] = "extra_read" /\ pc' = [pc EXCEPT ![k] = "extra_charged"] /\ loc' = loc
      /\ gbPaid' = [gbPaid EXCEPT ![u] = @ + 1] /\ gbAdded' = gbAdded
  BY <1>1 DEF ExtraCharge, Continue, panelVars
<1>3. pc'[k] = "extra_charged" /\ \A j \in Tasks \ {k} : pc'[j] = pc[j]
  BY <1>2 DEF TypeOK
<1>4. Charged(u)' = Charged(u) \cup {k} /\ k \notin Charged(u)
  BY <1>1, <1>2, <1>3 DEF Charged
<1>5. \A v \in Users \ {u} : Charged(v)' = Charged(v)
  BY <1>1, <1>2, <1>3 DEF Charged
<1>6. gbPaid'[u] = gbPaid[u] + 1 /\ \A v \in Users \ {u} : gbPaid'[v] = gbPaid[v]
  BY <1>2 DEF TypeOK
<1>7. IsFiniteSet(Charged(u)) /\ gbAdded[u] + Cardinality(Charged(u)) <= gbPaid[u]
  BY DEF VolumeSales
<1>8. IsFiniteSet(Charged(u)') /\ Cardinality(Charged(u)') = Cardinality(Charged(u)) + 1
  BY <1>4, <1>7, FS_AddElement
<1>9. Cardinality(Charged(u)) \in Nat /\ gbAdded[u] \in Nat /\ gbPaid[u] \in Nat
  BY <1>7, FS_CardinalityType DEF TypeOK
<1>10. gbAdded'[u] + Cardinality(Charged(u)') <= gbPaid'[u]
  BY <1>2, <1>6, <1>7, <1>8, <1>9
<1>11. QED
  BY <1>2, <1>5, <1>6, <1>8, <1>10 DEF VolumeSales

\* A handler that has charged is done with it, whether or not the panel has
\* added the volume.
LEMMA ExtraAddSales ==
  ASSUME TypeOK, LocalsOK, VolumeSales, NEW k \in Tasks, ExtraAdd(k)
  PROVE  VolumeSales'
<1>1. PICK u \in Users : u = loc[k].user
  BY DEF ExtraAdd, LocalsOK
<1>2. /\ pc[k] = "extra_charged" /\ Return(k) /\ gbPaid' = gbPaid
      /\ gbAdded' \in {gbAdded, [gbAdded EXCEPT ![u] = @ + 1]}
  BY <1>1 DEF ExtraAdd, salesVars
<1>3. pc'[k] = "idle" /\ \A j \in Tasks \ {k} : pc'[j] = pc[j] /\ loc'[j] = loc[j]
  BY <1>2 DEF Return, TypeOK
<1>4. Charged(u)' = Charged(u) \ {k} /\ k \in Charged(u)
  BY <1>1, <1>2, <1>3 DEF Charged
<1>5. \A v \in Users \ {u} : Charged(v)' = Charged(v)
  BY <1>1, <1>2, <1>3 DEF Charged
<1>6. /\ gbAdded'[u] \in {gbAdded[u], gbAdded[u] + 1}
      /\ \A v \in Users \ {u} : gbAdded'[v] = gbAdded[v]
  BY <1>2 DEF TypeOK
<1>7. IsFiniteSet(Charged(u)) /\ gbAdded[u] + Cardinality(Charged(u)) <= gbPaid[u]
  BY DEF VolumeSales
<1>8. IsFiniteSet(Charged(u)') /\ Cardinality(Charged(u)') = Cardinality(Charged(u)) - 1
  BY <1>4, <1>7, FS_RemoveElement
<1>9. Cardinality(Charged(u)) \in Nat /\ gbAdded[u] \in Nat /\ gbPaid[u] \in Nat
  BY <1>7, FS_CardinalityType DEF TypeOK
<1>10. gbAdded'[u] + Cardinality(Charged(u)') <= gbPaid'[u]
  BY <1>2, <1>6, <1>7, <1>8, <1>9
<1>11. QED
  BY <1>2, <1>5, <1>6, <1>8, <1>10 DEF VolumeSales

\* Every other step leaves both counts alone, and no handler gets to where it
\* has provisioned or charged.
LEMMA SalesStep ==
  ASSUME TypeOK, LocalsOK, LocksExclude, PlanSales, VolumeSales, [Next]_vars
  PROVE  PlanSales' /\ VolumeSales'
<1> DEFINE Apart(at) == \A k \in Tasks : pc'[k] = at => pc[k] = pc'[k] /\ loc'[k] = loc[k]
           Quiet == /\ UNCHANGED <<orders, granted, gbPaid, gbAdded>>
                    /\ Apart("buy_provisioned") /\ Apart("extra_charged")
<1>1. Quiet => PlanSales' /\ VolumeSales'
  BY PlanSalesStay, VolumeSalesStay
<1> USE DEF TypeOK, salesVars, panelVars
<1>2. ASSUME NEW k \in Tasks, BuyProvision(k) PROVE PlanSales' /\ VolumeSales'
  <2>1. Apart("extra_charged") /\ UNCHANGED <<gbPaid, gbAdded>>
    BY <1>2 DEF BuyProvision, Continue, Return
  <2>2. QED
    BY <1>2, <2>1, BuyProvisionSales, VolumeSalesStay
<1>3. ASSUME NEW k \in Tasks, BuyCommit(k) PROVE PlanSales' /\ VolumeSales'
  <2>1. Apart("extra_charged") /\ UNCHANGED <<gbPaid, gbAdded>>
    BY <1>3 DEF BuyCommit, Return
  <2>2. QED
    BY <1>3, <2>1, BuyCommitSales, VolumeSalesStay
<1>4. ASSUME NEW k \in Tasks, ExtraCharge(k) PROVE PlanSales' /\ VolumeSales'
  <2>1. Apart("buy_provisioned") /\ UNCHANGED <<orders, granted>>
    BY <1>4 DEF ExtraCharge, Continue
  <2>2. QED
    BY <1>4, <2>1, ExtraChargeSales, PlanSalesStay
<1>5. ASSUME NEW k \in Tasks, ExtraAdd(k) PROVE PlanSales' /\ VolumeSales'
  <2>1. Apart("buy_provisioned") /\ UNCHANGED <<orders, granted>>
    BY <1>5 DEF ExtraAdd, Return
  <2>2. QED
    BY <1>5, <2>1, ExtraAddSales, PlanSalesStay
<1>6. ASSUME NEW t \in TopUps, NEW u \in Users, NEW a \in Amounts, Submit(t, u, a) PROVE Quiet
  BY <1>6 DEF Submit
<1>7. ASSUME NEW k \in Tasks, NEW t \in TopUps, ApproveRead(k, t) \/ RejectRead(k, t) PROVE Quiet
  BY <1>7 DEF ApproveRead, RejectRead, Start
<1>8. ASSUME NEW k \in Tasks, NEW u \in Users, NEW a \in Corrections, AddRead(k, u, a) PROVE Quiet
  BY <1>8 DEF AddRead, Start
<1>9. ASSUME NEW k \in Tasks, NEW u \in Users, BuyRead(k, u) \/ ExtraRead(k, u) PROVE Quiet
  BY <1>9 DEF BuyRead, ExtraRead, Start
<1>10. ASSUME NEW u \in Users, ExtraAsk(u) \/ ExtraCancel(u) PROVE Quiet
  BY <1>10 DEF ExtraAsk, ExtraCancel
<1>11. ASSUME NEW k \in Tasks, ApproveMark(k) \/ ApproveCredit(k) \/ RejectMark(k) PROVE Quiet
  BY <1>11 DEF ApproveMark, ApproveCredit, RejectMark, Continue, Return
<1>12. ASSUME NEW k \in Tasks, ApproveCommit(k) \/ RejectCommit(k) \/ AddCommit(k) PROVE Quiet
  BY <1>12 DEF ApproveCommit, RejectCommit, AddCommit, Return
<1>13. ASSUME NEW k \in Tasks, AddWrite(k) \/ BuyInsert(k) \/ BuyDebit(k) PROVE Quiet
  BY <1>13 DEF AddWrite, BuyInsert, BuyDebit, Continue, Return
<1>14. ASSUME NEW k \in Tasks, BuyDeadlock(k) \/ Abort(k) PROVE Quiet
  BY <1>14 DEF BuyDeadlock, Abort, Return
<1>15. CASE UNCHANGED vars
  <2>1. pc' = pc /\ loc' = loc /\ UNCHANGED <<orders, granted, gbPaid, gbAdded>>
    BY <1>15 DEF vars
  <2>2. Quiet
    BY <2>1
  <2>3. QED
    BY <1>1, <2>2
<1> HIDE DEF Quiet
<1>16. QED
  BY <1>1, <1>2, <1>3, <1>4, <1>5, <1>6, <1>7, <1>8, <1>9, <1>10, <1>11, <1>12, <1>13, <1>14,
     <1>15 DEF Next, Step

\* The counts of plans and volumes hold in every reachable state.
LEMMA SalesKept == Spec => [](PlanSales /\ VolumeSales)
<1> DEFINE Sales == PlanSales /\ VolumeSales
<1>1. Init => Sales
  <2> SUFFICES ASSUME Init PROVE Sales
    OBVIOUS
  <2>1. \A u \in Users : Charged(u) = {} /\ gbAdded[u] = 0 /\ gbPaid[u] = 0
    BY DEF Init, Charged
  <2>2. \A u \in Users : orders[u] = 0 /\ granted[u] = 0
    BY DEF Init
  <2>3. PlanSales
    <3>1. ASSUME NEW u \in Users PROVE orders[u] <= granted[u]
      <4>1. orders[u] = 0 /\ granted[u] = 0 /\ 0 <= 0
        BY <2>2
      <4>2. QED
        BY <4>1
    <3>2. \A k \in Tasks : pc[k] # "buy_provisioned"
      BY DEF Init
    <3>3. QED
      BY <3>1, <3>2 DEF PlanSales
  <2>4. ASSUME NEW u \in Users
        PROVE  IsFiniteSet(Charged(u)) /\ gbAdded[u] + Cardinality(Charged(u)) <= gbPaid[u]
    <3>1. IsFiniteSet(Charged(u)) /\ Cardinality(Charged(u)) = 0
      BY <2>1, FS_EmptySet
    <3>2. QED
      BY <2>1, <3>1
  <2>5. QED
    BY <2>3, <2>4 DEF VolumeSales
<1>2. IInv /\ Sales /\ [Next]_vars => Sales'
  BY SalesStep DEF IInv
<1>3. QED
  BY <1>1, <1>2, Invariant, PTL DEF Spec

\* Whatever interleaves, no order is committed without its plan on the panel,
\* and no volume is added that has not been charged
\* (plans.py: _do_purchase; account.py: cb_account_buy_gb_ok).
THEOREM SoldGranted == Spec => []SoldIsGranted
<1> DEFINE Sales == PlanSales /\ VolumeSales
<1>1. IInv /\ Sales => SoldIsGranted
  <2> SUFFICES ASSUME IInv, Sales, NEW u \in Users
               PROVE  orders[u] <= granted[u] /\ gbAdded[u] <= gbPaid[u]
    BY DEF SoldIsGranted
  <2>1. Cardinality(Charged(u)) \in Nat /\ gbAdded[u] + Cardinality(Charged(u)) <= gbPaid[u]
    BY FS_CardinalityType DEF VolumeSales
  <2>2. gbAdded[u] \in Nat /\ gbPaid[u] \in Nat
    BY DEF IInv, TypeOK
  <2>3. QED
    BY <2>1, <2>2 DEF PlanSales
<1>2. QED
  BY <1>1, Invariant, SalesKept, PTL

-----------------------------------------------------------------------------
(* Transactions *)

\* The local variables of a handler say what it is about, and the row of a
\* top-up that is being decided is the one that was read.
Purpose(k) ==
  /\ InModeration(k) => topup[loc[k].topup].status # "unused"
  /\ InApproval(k) => /\ loc[k].user = topup[loc[k].topup].user
                      /\ loc[k].amt = topup[loc[k].topup].amt
  /\ pc[k] \in {"add_read", "add_written"} => loc[k].amt \in Corrections
  /\ pc[k] \in {"buy_read", "buy_inserted", "buy_written", "buy_provisioned"}
       => loc[k].amt = Price
  /\ pc[k] = "extra_read" => loc[k].amt = GBCost

PurposeOK == \A k \in Tasks : Purpose(k)

\* Rows change while a handler is at work, but not in what it has read of them.
LEMMA RowsStay ==
  ASSUME TypeOK, LocalsOK, TopUpsOwned, [Next]_vars, NEW t \in TopUps,
         topup[t].status # "unused"
  PROVE  /\ topup'[t].status # "unused"
         /\ topup'[t].user = topup[t].user /\ topup'[t].amt = topup[t].amt
<1> DEFINE Stays == /\ topup'[t].status # "unused"
                    /\ topup'[t].user = topup[t].user /\ topup'[t].amt = topup[t].amt
<1>1. ASSUME NEW s \in TopUps, NEW d \in {"approved", "rejected"}, Decide(s, d) PROVE Stays
  BY <1>1 DEF Decide, TypeOK
<1>2. ASSUME NEW s \in TopUps, NEW u \in Users, NEW a \in Amounts, Submit(s, u, a) PROVE Stays
  BY <1>2 DEF Submit, TypeOK
<1>3. ASSUME NEW k \in Tasks, ApproveCommit(k) PROVE Stays
  BY <1>1, <1>3 DEF ApproveCommit, LocalsOK, InModeration, InApproval
<1>4. ASSUME NEW k \in Tasks, RejectCommit(k) PROVE Stays
  BY <1>1, <1>4 DEF RejectCommit, LocalsOK, InModeration, InApproval
<1>5. CASE topup' = topup
  BY <1>5
<1>6. QED
  BY <1>2, <1>3, <1>4, <1>5
     DEF Next, Step, vars, ApproveRead, RejectRead, AddRead, BuyRead, ExtraRead, ExtraAsk,
         ExtraCancel, ApproveMark, ApproveCredit, RejectMark, AddWrite, AddCommit,
         BuyInsert, BuyDebit, BuyDeadlock, BuyProvision, BuyCommit, ExtraCharge, ExtraAdd,
         Abort

\* A handler keeps its purpose to the end: what it is about is read when it
\* starts, and the steps of others do not touch it.
LEMMA PurposeStep ==
  ASSUME TypeOK, LocalsOK, TopUpsOwned, PurposeOK, [Next]_vars
  PROVE  PurposeOK'
<1> USE DEF InModeration, InApproval
<1>1. ASSUME NEW j \in Tasks, loc'[j] = loc[j],
             \/ pc'[j] = pc[j]
             \/ pc[j] = "approve_read" /\ pc'[j] = "approve_marked"
             \/ pc[j] = "approve_marked" /\ pc'[j] = "approve_credited"
             \/ pc[j] = "reject_read" /\ pc'[j] = "reject_marked"
             \/ pc[j] = "add_read" /\ pc'[j] = "add_written"
             \/ pc[j] = "buy_read" /\ pc'[j] = "buy_inserted"
             \/ pc[j] = "buy_inserted" /\ pc'[j] = "buy_written"
             \/ pc[j] = "buy_written" /\ pc'[j] = "buy_provisioned"
      PROVE  Purpose(j)'
  <2>1. Purpose(j) /\ (InModeration(j) => loc[j].topup \in TopUps)
    BY DEF PurposeOK, LocalsOK
  <2>2. InModeration(j) =>
          /\ topup'[loc[j].topup].status # "unused"
          /\ topup'[loc[j].topup].user = topup[loc[j].topup].user
          /\ topup'[loc[j].topup].amt = topup[loc[j].topup].amt
    BY <2>1, RowsStay DEF Purpose
  <2>3. QED
    BY <1>1, <2>1, <2>2 DEF Purpose
<1>2. ASSUME NEW j \in Tasks, pc'[j] \in {"idle", "extra_charged"} PROVE Purpose(j)'
  BY <1>2 DEF Purpose
<1> DEFINE Same(j) == pc'[j] = pc[j] /\ loc'[j] = loc[j]
<1>3. ASSUME NEW k \in Tasks, Purpose(k)', \A j \in Tasks \ {k} : Same(j) PROVE PurposeOK'
  BY <1>1, <1>3 DEF PurposeOK
<1>4. ASSUME NEW k \in Tasks, NEW at, NEW locals, Start(k, at, locals)
      PROVE  pc'[k] = at /\ loc'[k] = locals /\ \A j \in Tasks \ {k} : Same(j)
  BY <1>4 DEF Start, TypeOK
<1>5. ASSUME NEW k \in Tasks, NEW from, NEW to, Continue(k, from, to)
      PROVE  pc[k] = from /\ pc'[k] = to /\ loc' = loc /\ \A j \in Tasks \ {k} : Same(j)
  BY <1>5 DEF Continue, TypeOK
<1>6. ASSUME NEW k \in Tasks, Return(k) PROVE PurposeOK'
  <2>1. pc'[k] = "idle" /\ \A j \in Tasks \ {k} : Same(j)
    BY <1>6 DEF Return, TypeOK
  <2>2. QED
    BY <1>2, <1>3, <2>1
<1>7. ASSUME pc' = pc, loc' = loc PROVE PurposeOK'
  BY <1>1, <1>7 DEF PurposeOK
<1>8. ASSUME NEW k \in Tasks, NEW t \in TopUps, ApproveRead(k, t) PROVE PurposeOK'
  <2>1. topup' = topup /\ topup[t].status # "unused"
    BY <1>8 DEF ApproveRead
  <2>2. Purpose(k)'
    BY <1>4, <1>8, <2>1 DEF ApproveRead, Purpose
  <2>3. QED
    BY <1>3, <1>4, <1>8, <2>2 DEF ApproveRead
<1>9. ASSUME NEW k \in Tasks, NEW t \in TopUps, RejectRead(k, t) PROVE PurposeOK'
  <2>1. topup' = topup /\ topup[t].status # "unused"
    BY <1>9 DEF RejectRead
  <2>2. Purpose(k)'
    BY <1>4, <1>9, <2>1 DEF RejectRead, Purpose
  <2>3. QED
    BY <1>3, <1>4, <1>9, <2>2 DEF RejectRead
<1>10. ASSUME NEW k \in Tasks, NEW u \in Users, NEW a \in Corrections, AddRead(k, u, a)
       PROVE  PurposeOK'
  <2>1. Purpose(k)'
    BY <1>4, <1>10 DEF AddRead, Purpose
  <2>2. QED
    BY <1>3, <1>4, <1>10, <2>1 DEF AddRead
<1>11. ASSUME NEW k \in Tasks, NEW u \in Users, BuyRead(k, u) PROVE PurposeOK'
  <2>1. Purpose(k)'
    BY <1>4, <1>11 DEF BuyRead, Purpose
  <2>2. QED
    BY <1>3, <1>4, <1>11, <2>1 DEF BuyRead
<1>12. ASSUME NEW k \in Tasks, NEW u \in Users, ExtraRead(k, u) PROVE PurposeOK'
  <2>1. CASE balance[u] >= GBCost
    <3>1. Start(k, "extra_read", [user |-> u, topup |-> None, snap |-> balance[u], amt |-> GBCost])
      BY <1>12, <2>1 DEF ExtraRead
    <3>2. Purpose(k)'
      BY <1>4, <3>1 DEF Purpose
    <3>3. QED
      BY <1>3, <1>4, <3>1, <3>2
  <2>2. CASE ~(balance[u] >= GBCost)
    BY <1>7, <1>12, <2>2 DEF ExtraRead
  <2>3. QED
    BY <2>1, <2>2
<1> DEFINE On(from, to) == \E k \in Tasks : Continue(k, from, to)
<1>13. ASSUME \/ On("approve_read", "approve_marked") \/ On("approve_marked", "approve_credited")
              \/ On("reject_read", "reject_marked") \/ On("add_read", "add_written")
              \/ On("buy_read", "buy_inserted") \/ On("buy_inserted", "buy_written")
              \/ On("buy_written", "buy_provisioned") \/ On("extra_read", "extra_charged")
       PROVE  PurposeOK'
  <2>1. PICK k \in Tasks :
          \/ Continue(k, "approve_read", "approve_marked")
          \/ Continue(k, "approve_marked", "approve_credited")
          \/ Continue(k, "reject_read", "reject_marked") \/ Continue(k, "add_read", "add_written")
          \/ Continue(k, "buy_read", "buy_inserted") \/ Continue(k, "buy_inserted", "buy_written")
          \/ Continue(k, "buy_written", "buy_provisioned")
          \/ Continue(k, "extra_read", "extra_charged")
    BY <1>13
  <2>2. loc' = loc /\ \A j \in Tasks \ {k} : Same(j)
    BY <1>5, <2>1
  <2>3. Purpose(k)'
    BY <1>1, <1>2, <1>5, <2>1, <2>2
  <2>4. QED
    BY <1>3, <2>2, <2>3
<1>14. ASSUME NEW k \in Tasks, ApproveMark(k) \/ ApproveCredit(k) \/ ApproveCommit(k)
       PROVE  PurposeOK'
  BY <1>6, <1>13, <1>14 DEF ApproveMark, ApproveCredit, ApproveCommit
<1>15. ASSUME NEW k \in Tasks, RejectMark(k) \/ RejectCommit(k) PROVE PurposeOK'
  BY <1>6, <1>13, <1>15 DEF RejectMark, RejectCommit
<1>16. ASSUME NEW k \in Tasks, AddWrite(k) \/ AddCommit(k) PROVE PurposeOK'
  BY <1>6, <1>13, <1>16 DEF AddWrite, AddCommit
<1>17. ASSUME NEW k \in Tasks, BuyInsert(k) \/ BuyDebit(k) \/ BuyProvision(k) PROVE PurposeOK'
  BY <1>6, <1>13, <1>17 DEF BuyInsert, BuyDebit, BuyProvision
<1>18. ASSUME NEW k \in Tasks, BuyDeadlock(k) \/ BuyCommit(k) \/ ExtraAdd(k) \/ Abort(k)
       PROVE  PurposeOK'
  BY <1>6, <1>18 DEF BuyDeadlock, BuyCommit, ExtraAdd, Abort
<1>19. ASSUME NEW k \in Tasks, ExtraCharge(k) PROVE PurposeOK'
  BY <1>13, <1>19 DEF ExtraCharge
<1>20. CASE \E t \in TopUps, u \in Users, a \in Amounts : Submit(t, u, a)
  BY <1>7, <1>20 DEF Submit
<1>21. CASE \E u \in Users : ExtraAsk(u) \/ ExtraCancel(u)
  BY <1>7, <1>21 DEF ExtraAsk, ExtraCancel
<1>22. CASE UNCHANGED vars
  BY <1>7, <1>22 DEF vars
<1> HIDE DEF On
<1>23. QED
  BY <1>8, <1>9, <1>10, <1>11, <1>12, <1>14, <1>15, <1>16, <1>17, <1>18, <1>19, <1>20,
     <1>21, <1>22 DEF Next, Step

-----------------------------------------------------------------------------
(* Wallet implements WalletLedger *)

\* A transaction that stores a value computed from its snapshot: a reading.
LEMMA SnapshotIsReading ==
  ASSUME TypeOK, SnapshotCurrent, WritesInRange,
         NEW k \in Tasks, NEW u \in Users, HasSnapshot(k, u)
  PROVE  loc[k].snap \in Ledger!Readings(u)
<1>1. loc[k].snap \in Int /\ Fits(loc[k].snap) /\ overtaken[u] \in BOOLEAN
  BY DEF TypeOK, WritesInRange
<1>2. overtaken[u] \/ loc[k].snap = balance[u]
  BY DEF SnapshotCurrent
<1>3. QED
  BY <1>1, <1>2, WalletAssumption DEF Ledger!Readings, Fits

\* A COMMIT stores a balance, and may leave another handler behind.
LEMMA CommitStores ==
  ASSUME TypeOK, NEW k \in Tasks, NEW u \in Users, NEW new \in Int, NEW change \in Int,
         Fits(new), CommitBalance(k, u, new, change)
  PROVE  Ledger!Store(u, new)
<1>1. overtaken' \in {overtaken, [overtaken EXCEPT ![u] = TRUE]}
  <2>1. CASE \E j \in Tasks \ {k} : HasSnapshot(j, u)
    BY <2>1 DEF CommitBalance
  <2>2. CASE ~(\E j \in Tasks \ {k} : HasSnapshot(j, u))
    BY <2>2 DEF CommitBalance, TypeOK
  <2>3. QED
    BY <2>1, <2>2
<1>2. QED
  BY <1>1 DEF CommitBalance, Ledger!Store, Ledger!Fits, Fits

\* Approving: the COMMIT decides a request that is still pending, and adds its
\* amount to the balance of the moment.
LEMMA ApproveMaps ==
  ASSUME IInv, PurposeOK, NEW k \in Tasks, ApproveCommit(k)
  PROVE  \E t \in TopUps : Ledger!Approve(t)
<1>1. PICK t \in TopUps : t = loc[k].topup
  BY DEF IInv, LocalsOK, ApproveCommit, InModeration, InApproval
<1>2. PICK u \in Users : u = loc[k].user
  BY DEF IInv, LocalsOK, ApproveCommit
<1>3. topup[t].status = "pending"
  BY <1>1 DEF IInv, MarkedPending, HoldsTopUp, ApproveCommit
<1>4. topup[t].user = u /\ topup[t].amt = loc[k].amt
  BY <1>1, <1>2 DEF PurposeOK, Purpose, ApproveCommit, InApproval
<1>5. balance[u] \in Int /\ loc[k].amt \in Int /\ CreditedBalance(k) = balance[u] + loc[k].amt
  BY <1>2 DEF IInv, TypeOK, CreditedBalance
<1>6. Fits(CreditedBalance(k)) /\ CommitBalance(k, u, CreditedBalance(k), loc[k].amt)
  BY <1>2 DEF IInv, WritesInRange, ApproveCommit
<1>7. Ledger!Store(u, CreditedBalance(k))
  BY <1>5, <1>6, CommitStores DEF IInv
<1>8. Ledger!Decide(t, "approved")
  BY <1>1, <1>3 DEF ApproveCommit, Decide, Ledger!Decide, salesVars, panelVars
<1>9. QED
  BY <1>4, <1>5, <1>7, <1>8 DEF Ledger!Approve

\* Rejecting: nothing but the decision.
LEMMA RejectMaps ==
  ASSUME IInv, NEW k \in Tasks, RejectCommit(k)
  PROVE  \E t \in TopUps : Ledger!Reject(t)
<1>1. PICK t \in TopUps : t = loc[k].topup
  BY DEF IInv, LocalsOK, RejectCommit, InModeration
<1>2. topup[t].status = "pending"
  BY <1>1 DEF IInv, MarkedPending, HoldsTopUp, RejectCommit
<1>3. QED
  BY <1>1, <1>2
     DEF RejectCommit, Decide, Ledger!Decide, Ledger!Reject, moneyVars, salesVars, panelVars

\* A credit by hand adds what the admin has said to a reading.
LEMMA AddMaps ==
  ASSUME IInv, PurposeOK, NEW k \in Tasks, AddCommit(k)
  PROVE  \E u \in Users, a \in Corrections : Ledger!Credit(u, a)
<1>1. PICK u \in Users : u = loc[k].user
  BY DEF IInv, LocalsOK, AddCommit
<1>2. PICK a \in Corrections : a = loc[k].amt
  BY DEF PurposeOK, Purpose, AddCommit
<1>3. loc[k].snap \in Ledger!Readings(u)
  BY <1>1, SnapshotIsReading DEF IInv, HasSnapshot, AddCommit
<1>4. loc[k].snap + a \in Int /\ a \in Int /\ Fits(loc[k].snap + a)
  BY <1>2 DEF IInv, TypeOK, WritesInRange, AddCommit
<1>5. Ledger!Store(u, loc[k].snap + a)
  BY <1>1, <1>2, <1>4, CommitStores DEF IInv, AddCommit
<1>6. QED
  BY <1>3, <1>5 DEF AddCommit, Ledger!Credit, salesVars, panelVars

\* A purchase takes the price from a reading that has it, after the panel has
\* provisioned one plan more than there are orders.
LEMMA BuyMaps ==
  ASSUME IInv, PurposeOK, PlanSales, NEW k \in Tasks, BuyCommit(k)
  PROVE  \E u \in Users : Ledger!Sell(u)
<1>1. PICK u \in Users : u = loc[k].user
  BY DEF IInv, LocalsOK, BuyCommit
<1>2. loc[k].amt = Price
  BY DEF PurposeOK, Purpose, BuyCommit
<1>3. loc[k].snap \in Ledger!Readings(u)
  BY <1>1, SnapshotIsReading DEF IInv, HasSnapshot, BuyCommit
<1>4. loc[k].snap \in Int /\ Price \in Nat /\ loc[k].snap >= Price /\ Fits(loc[k].snap)
  BY <1>1, <1>2, WalletAssumption DEF IInv, TypeOK, WritesInRange, InDebit, HasSnapshot, BuyCommit
<1>5. Fits(loc[k].snap - Price)
  BY <1>4, WalletAssumption DEF Fits
<1>6. Ledger!Store(u, loc[k].snap - Price)
  BY <1>1, <1>2, <1>4, <1>5, CommitStores DEF IInv, BuyCommit
<1>7. orders[u] < granted[u] /\ orders' = [orders EXCEPT ![u] = @ + 1]
  BY <1>1 DEF PlanSales, BuyCommit
<1>8. QED
  BY <1>3, <1>4, <1>6, <1>7 DEF BuyCommit, Ledger!Sell, panelVars

\* So does the charge for an extra volume.
LEMMA ChargeMaps ==
  ASSUME IInv, PurposeOK, NEW k \in Tasks, ExtraCharge(k)
  PROVE  \E u \in Users : Ledger!Charge(u)
<1>1. PICK u \in Users : u = loc[k].user
  BY DEF IInv, LocalsOK, ExtraCharge, Continue
<1>2. loc[k].amt = GBCost
  BY DEF PurposeOK, Purpose, ExtraCharge, Continue
<1>3. loc[k].snap \in Ledger!Readings(u)
  BY <1>1, SnapshotIsReading DEF IInv, HasSnapshot, ExtraCharge, Continue
<1>4. loc[k].snap \in Int /\ GBCost \in Nat /\ loc[k].snap >= GBCost /\ Fits(loc[k].snap)
  BY <1>1, <1>2, WalletAssumption
     DEF IInv, TypeOK, WritesInRange, InDebit, HasSnapshot, ExtraCharge, Continue
<1>5. Fits(loc[k].snap - GBCost)
  BY <1>4, WalletAssumption DEF Fits
<1>6. Ledger!Store(u, loc[k].snap - GBCost)
  BY <1>1, <1>2, <1>4, <1>5, CommitStores DEF IInv, ExtraCharge
<1>7. gbPaid' = [gbPaid EXCEPT ![u] = @ + 1]
  BY <1>1 DEF ExtraCharge
<1>8. QED
  BY <1>3, <1>4, <1>6, <1>7 DEF ExtraCharge, Ledger!Charge, panelVars

\* What the panel has done counts from the moment it has, also when the answer
\* was an error.
LEMMA PanelMaps ==
  ASSUME IInv, VolumeSales, NEW k \in Tasks, BuyProvision(k) \/ ExtraAdd(k)
  PROVE  \/ \E u \in Users : Ledger!Grant(u) \/ Ledger!AddVolume(u)
         \/ UNCHANGED Ledger!ledgerVars
<1>1. CASE BuyProvision(k)
  <2>1. PICK u \in Users : u = loc[k].user
    BY <1>1 DEF IInv, LocalsOK, BuyProvision
  <2>2. granted' \in {granted, [granted EXCEPT ![u] = @ + 1]}
    BY <1>1, <2>1 DEF BuyProvision
  <2>3. QED
    BY <1>1, <2>2 DEF BuyProvision, Ledger!Grant, Ledger!ledgerVars, moneyVars, salesVars
<1>2. CASE ExtraAdd(k)
  <2>1. PICK u \in Users : u = loc[k].user
    BY <1>2 DEF IInv, LocalsOK, ExtraAdd
  <2>2. gbAdded' \in {gbAdded, [gbAdded EXCEPT ![u] = @ + 1]}
    BY <1>2, <2>1 DEF ExtraAdd
  <2>3. IsFiniteSet(Charged(u)) /\ gbAdded[u] + Cardinality(Charged(u)) <= gbPaid[u]
    BY DEF VolumeSales
  <2>4. k \in Charged(u)
    BY <1>2, <2>1 DEF Charged, ExtraAdd
  <2>5. Cardinality(Charged(u)) \in Nat /\ Cardinality(Charged(u)) # 0
    BY <2>3, <2>4, FS_CardinalityType, FS_EmptySet
  <2>6. gbAdded[u] \in Nat /\ gbPaid[u] \in Nat
    BY DEF IInv, TypeOK
  <2>7. gbAdded[u] < gbPaid[u]
    BY <2>3, <2>5, <2>6
  <2>8. QED
    BY <1>2, <2>2, <2>7 DEF ExtraAdd, Ledger!AddVolume, Ledger!ledgerVars, moneyVars, salesVars
<1>3. QED
  BY <1>1, <1>2

\* Every other statement changes no table, and a receipt is a request.
LEMMA StepMaps ==
  ASSUME IInv, PurposeOK, PlanSales, VolumeSales, [Next]_vars
  PROVE  [Ledger!Next]_Ledger!ledgerVars
<1> DEFINE Maps == [Ledger!Next]_Ledger!ledgerVars
<1> USE DEF moneyVars, salesVars, panelVars
<1>1. ASSUME UNCHANGED <<topup, moneyVars, salesVars, panelVars>> PROVE Maps
  BY <1>1 DEF Ledger!ledgerVars
<1>2. ASSUME NEW t \in TopUps, NEW u \in Users, NEW a \in Amounts, Submit(t, u, a) PROVE Maps
  BY <1>2 DEF Submit, NewStatus, Ledger!Request, Ledger!Next
<1>3. ASSUME NEW k \in Tasks, ApproveCommit(k) \/ RejectCommit(k) PROVE Maps
  BY <1>3, ApproveMaps, RejectMaps DEF Ledger!Next
<1>4. ASSUME NEW k \in Tasks, AddCommit(k) PROVE Maps
  BY <1>4, AddMaps DEF Ledger!Next
<1>5. ASSUME NEW k \in Tasks, BuyCommit(k) \/ ExtraCharge(k) PROVE Maps
  BY <1>5, BuyMaps, ChargeMaps DEF Ledger!Next
<1>6. ASSUME NEW k \in Tasks, BuyProvision(k) \/ ExtraAdd(k) PROVE Maps
  BY <1>6, PanelMaps DEF Ledger!Next
<1>7. ASSUME NEW k \in Tasks, NEW t \in TopUps, ApproveRead(k, t) \/ RejectRead(k, t) PROVE Maps
  BY <1>1, <1>7 DEF ApproveRead, RejectRead
<1>8. ASSUME NEW k \in Tasks, NEW u \in Users, NEW a \in Corrections, AddRead(k, u, a) PROVE Maps
  BY <1>1, <1>8 DEF AddRead
<1>9. ASSUME NEW k \in Tasks, NEW u \in Users, BuyRead(k, u) \/ ExtraRead(k, u) PROVE Maps
  BY <1>1, <1>9 DEF BuyRead, ExtraRead
<1>10. ASSUME NEW u \in Users, ExtraAsk(u) \/ ExtraCancel(u) PROVE Maps
  BY <1>1, <1>10 DEF ExtraAsk, ExtraCancel
<1>11. ASSUME NEW k \in Tasks, ApproveMark(k) \/ ApproveCredit(k) \/ RejectMark(k) PROVE Maps
  BY <1>1, <1>11 DEF ApproveMark, ApproveCredit, RejectMark
<1>12. ASSUME NEW k \in Tasks, AddWrite(k) \/ BuyInsert(k) \/ BuyDebit(k) PROVE Maps
  BY <1>1, <1>12 DEF AddWrite, BuyInsert, BuyDebit
<1>13. ASSUME NEW k \in Tasks, BuyDeadlock(k) \/ Abort(k) PROVE Maps
  BY <1>1, <1>13 DEF BuyDeadlock, Abort
<1>14. ASSUME UNCHANGED vars PROVE Maps
  BY <1>1, <1>14 DEF vars
<1> HIDE DEF Maps
<1>15. Maps
  BY <1>2, <1>3, <1>4, <1>5, <1>6, <1>7, <1>8, <1>9, <1>10, <1>11, <1>12, <1>13, <1>14
     DEF Next, Step
<1>16. QED
  BY <1>15 DEF Maps

\* To anybody who sees only what is committed, and what the panel has done, the
\* interleaved handlers are transactions that happen at once, one per COMMIT.
THEOREM TransactionsAtomic == Spec => Transactions
<1>1. Init => Ledger!Init
  BY DEF Init, Unused, Ledger!Init
<1>2. Init => PurposeOK
  BY DEF Init, PurposeOK, Purpose, InModeration, InApproval
<1>3. IInv /\ PurposeOK /\ [Next]_vars => PurposeOK'
  BY PurposeStep DEF IInv
<1>4. IInv /\ PurposeOK /\ (PlanSales /\ VolumeSales) /\ [Next]_vars
        => [Ledger!Next]_Ledger!ledgerVars
  BY StepMaps
<1>5. QED
  BY <1>1, <1>2, <1>3, <1>4, Invariant, SalesKept, PTL DEF Spec, Transactions, Ledger!Spec
=============================================================================
