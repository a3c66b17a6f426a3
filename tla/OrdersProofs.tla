---------------------------- MODULE OrdersProofs ----------------------------
(***************************************************************************)
(* Proofs about Orders, for any number of orders, users, plans and         *)
(* concurrent handlers: nobody works on an order that somebody else is     *)
(* deciding, the orders implement OrderLifecycle, and an account carries   *)
(* the plan of the last order committed unless provisionings have met.     *)
(***************************************************************************)
EXTENDS Orders, TLAPS

(***************************************************************************)
(* The inductive invariant.  That a row lock spans the panel calls is not  *)
(* inductive alone: it needs that a handler in flight names an order, that *)
(* what it read existed, that the rows the job has marked are pending and  *)
(* that an order being sold is known to nobody else.                       *)
(***************************************************************************)
OrderNamed ==
  \A k \in Tasks : pc[k] # "idle" =>
    /\ loc[k].order \in Orders
    /\ pc[k] # "attach_read" => loc[k].plan \in Plans
    /\ pc[k] \in {"approve_read", "attach_read"} => Exists(loc[k].order)

MarkedPending == \A o \in job.marked : IsPending(o)

\* An order that is being sold has no row yet, and one handler knows it.
SaleIsPrivate ==
  \A k \in Tasks : pc[k] \in Provisioning /\ ~Exists(loc[k].order) =>
    \A j \in Tasks \ {k} : loc[j].order # loc[k].order

\* What an account carries on the panel.
Account == [expire: Contents \cup {None}, limit: Contents \cup {None}]

Provisions(k, u) == pc[k] \in Provisioning /\ UserOf(k) = u

\* How far k has got with the account.
AsFarAs(k, u) ==
  account[u] = [expire |-> IF pc[k] \in {"limit", "commit"} THEN loc[k].content ELSE last[u],
                limit  |-> IF pc[k] = "commit" THEN loc[k].content ELSE last[u]]

\* While nothing is disturbed one handler at most works on an account, and it
\* carries what the handler has set by now and the last order before.
Follows(u) ==
  /\ \A j, k \in Tasks : Provisions(j, u) /\ Provisions(k, u) => j = k
  /\ \A k \in Tasks : Provisions(k, u) => AsFarAs(k, u)
  /\ (\A k \in Tasks : ~Provisions(k, u)) => account[u] = [expire |-> last[u], limit |-> last[u]]

AccountsFollow == \A u \in Users : ~disturbed[u] => Follows(u)

\* The inductive invariant.
IInv ==
  /\ TypeOK /\ OrderNamed
  /\ MarkedPending /\ SaleIsPrivate /\ WorkIsExclusive
  /\ PlansExist /\ AccountsFollow

-----------------------------------------------------------------------------
(* Types *)

\* What changing one field of a row of table orders does to the row.
LEMMA RowEdits ==
  ASSUME NEW r \in Row
  PROVE  /\ \A s \in {"none", "pending", "provisioned", "failed", "cancelled"} :
              [r EXCEPT !.status = s] \in Row /\ [r EXCEPT !.status = s].status = s
              /\ [r EXCEPT !.status = s].plan = r.plan
         /\ \A b \in BOOLEAN : [r EXCEPT !.receipt = b] \in Row
              /\ [r EXCEPT !.receipt = b].status = r.status
              /\ [r EXCEPT !.receipt = b].plan = r.plan
         /\ [r EXCEPT !.stale = TRUE] \in Row
              /\ [r EXCEPT !.stale = TRUE].status = r.status
              /\ [r EXCEPT !.stale = TRUE].plan = r.plan
         /\ [r EXCEPT !.plan = None] \in Row
              /\ [r EXCEPT !.plan = None].status = r.status /\ [r EXCEPT !.plan = None].plan = None
  BY DEF Row

\* The rows of new orders.
LEMMA NewRows ==
  ASSUME NEW s \in {"none", "pending", "provisioned", "failed", "cancelled"},
         NEW p \in Plans \cup {None}
  PROVE  NewRow(s, p) \in Row /\ NewRow(s, p).status = s /\ NewRow(s, p).plan = p
  BY DEF Row, NewRow

\* Storing a row.
LEMMA RowStored ==
  ASSUME order \in [Orders -> Row], NEW o \in Orders, NEW r \in Row,
         order' = [order EXCEPT ![o] = r]
  PROVE  order' \in [Orders -> Row] /\ \A x \in Orders : order'[x] = IF x = o THEN r ELSE order[x]
  OBVIOUS

\* Every handler leaves well-formed rows, and names the order it works on.
LEMMA TypeStep ==
  ASSUME TypeOK, OrderNamed, [Next]_vars
  PROVE  TypeOK' /\ OrderNamed'
<1> DEFINE Kept == TypeOK' /\ OrderNamed'
           RowsKept == /\ order' \in [Orders -> Row]
                       /\ \A x \in Orders : order[x].status # "none" => order'[x].status # "none"
<1> USE OrdersAssumption DEF TypeOK, OrderNamed, Exists, PCs, Provisioning
<1>1. ASSUME NEW p \in Plans, NEW c \in Contents, SetPlan(p, c) PROVE Kept
  BY <1>1 DEF SetPlan, Event
<1>2. ASSUME NEW p \in Plans, DeletePlan(p) PROVE Kept
  <2>1. \A x \in Orders : order'[x] \in Row /\ order'[x].status = order[x].status
    BY <1>2, RowEdits DEF DeletePlan
  <2>2. order' \in [Orders -> Row]
    BY <1>2, <2>1 DEF DeletePlan
  <2>3. QED
    BY <1>2, <2>1, <2>2 DEF DeletePlan, Event
<1>3. ASSUME NEW o \in Orders, NEW p \in Plans, Buy(o, p) PROVE Kept
  <2>1. order[o] \in Row /\ order \in [Orders -> Row] /\ o \in Orders
    BY <1>3 DEF Buy, Event
  <2>2. RowsKept
    <3>1. /\ NewRow("pending", p) \in Row
          /\ order[o].status # "none" => NewRow("pending", p).status # "none"
      BY <1>3, <2>1, NewRows DEF Buy, Event
    <3>2. order' = [order EXCEPT ![o] = NewRow("pending", p)]
      BY <1>3 DEF Buy, Event
    <3>3. QED
      BY <2>1, <3>1, <3>2, RowStored
  <2>3. QED
    BY <1>3, <2>1, <2>2 DEF Buy, Event
<1>4. ASSUME NEW o \in Orders, ClearReceipt(o) PROVE Kept
  <2>1. order[o] \in Row /\ order \in [Orders -> Row] /\ o \in Orders
    BY <1>4 DEF ClearReceipt, Event
  <2>2. RowsKept
    <3>1. /\ [order[o] EXCEPT !.receipt = FALSE] \in Row
          /\ order[o].status # "none" => [order[o] EXCEPT !.receipt = FALSE].status # "none"
      BY <1>4, <2>1, RowEdits DEF ClearReceipt, Event
    <3>2. order' = [order EXCEPT ![o] = [order[o] EXCEPT !.receipt = FALSE]]
      BY <1>4 DEF ClearReceipt, Event
    <3>3. QED
      BY <2>1, <3>1, <3>2, RowStored
  <2>3. QED
    BY <1>4, <2>1, <2>2 DEF ClearReceipt, Event
<1>5. ASSUME NEW o \in Orders, Reject(o) PROVE Kept
  <2>1. order[o] \in Row /\ order \in [Orders -> Row] /\ o \in Orders
    BY <1>5 DEF Reject, RejectedStatus
  <2>2. RowsKept
    <3>1. /\ [order[o] EXCEPT !.status = RejectedStatus] \in Row
          /\ order[o].status # "none" => [order[o] EXCEPT !.status = RejectedStatus].status # "none"
      BY <1>5, <2>1, RowEdits DEF Reject, RejectedStatus
    <3>2. order' = [order EXCEPT ![o] = [order[o] EXCEPT !.status = RejectedStatus]]
      BY <1>5 DEF Reject, RejectedStatus
    <3>3. QED
      BY <2>1, <3>1, <3>2, RowStored
  <2>3. QED
    BY <1>5, <2>1, <2>2 DEF Reject, RejectedStatus
<1>6. ASSUME NEW o \in Orders, Age(o) PROVE Kept
  <2>1. order[o] \in Row /\ order \in [Orders -> Row] /\ o \in Orders
    BY <1>6 DEF Age
  <2>2. RowsKept
    <3>1. /\ [order[o] EXCEPT !.stale = TRUE] \in Row
          /\ order[o].status # "none" => [order[o] EXCEPT !.stale = TRUE].status # "none"
      BY <1>6, <2>1, RowEdits DEF Age
    <3>2. order' = [order EXCEPT ![o] = [order[o] EXCEPT !.stale = TRUE]]
      BY <1>6 DEF Age
    <3>3. QED
      BY <2>1, <3>1, <3>2, RowStored
  <2>3. QED
    BY <1>6, <2>1, <2>2 DEF Age
<1>7. ASSUME NEW k \in Tasks, NEW o \in Orders, AttachRead(k, o) PROVE Kept
  <2> DEFINE Locals == [order: Orders \cup {None}, plan: Plans \cup {None},
                        content: Contents \cup {None}, held: BOOLEAN]
             mine == [NoLocals EXCEPT !.order = o]
  <2>1. NoLocals \in Locals
    BY DEF NoLocals
  <2>2. mine \in Locals /\ mine.order = o
    BY <2>1
  <2>3. loc' = [loc EXCEPT ![k] = mine] /\ loc \in [Tasks -> Locals]
    BY <1>7 DEF AttachRead, Start
  <2> HIDE DEF mine
  <2>4. loc' \in [Tasks -> Locals] /\ loc'[k].order = o
    BY <2>2, <2>3
  <2>5. /\ pc' = [pc EXCEPT ![k] = "attach_read"] /\ order[o].status # "none"
        /\ \A j \in Tasks \ {k} : loc'[j] = loc[j]
        /\ events' \in Nat
    BY <1>7, <2>3 DEF AttachRead, Start, Event
  <2>6. TypeOK'
    BY <1>7, <2>4, <2>5 DEF AttachRead
  <2>7. OrderNamed'
    BY <1>7, <2>4, <2>5 DEF AttachRead
  <2>8. QED
    BY <2>6, <2>7
<1>8. ASSUME NEW k \in Tasks, NEW o \in Orders, ApproveRead(k, o) PROVE Kept
  BY <1>8 DEF ApproveRead, Start, Event, Row
<1>9. ASSUME NEW k \in Tasks, NEW o \in Orders, NEW p \in Plans, NEW b \in BOOLEAN,
               SellStart(k, o, p, b) PROVE Kept
  BY <1>9 DEF SellStart, Start, Event, Disturb
<1>10. ASSUME NEW k \in Tasks, AttachCommit(k) PROVE Kept
  <2>1. order[loc[k].order] \in Row /\ order \in [Orders -> Row] /\ loc[k].order \in Orders
    BY <1>10 DEF AttachCommit
  <2>2. RowsKept
    <3>1. /\ [order[loc[k].order] EXCEPT !.receipt = TRUE] \in Row
          /\ order[loc[k].order].status # "none"
               => [order[loc[k].order] EXCEPT !.receipt = TRUE].status # "none"
      BY <1>10, <2>1, RowEdits DEF AttachCommit
    <3>2. order' = [order EXCEPT ![loc[k].order] = [order[loc[k].order] EXCEPT !.receipt = TRUE]]
      BY <1>10 DEF AttachCommit
    <3>3. QED
      BY <2>1, <3>1, <3>2, RowStored
  <2>3. QED
    BY <1>10, <2>1, <2>2 DEF AttachCommit, Return, NoLocals
<1>11. ASSUME NEW k \in Tasks, ApproveMark(k) PROVE Kept
  <2>1. CASE Return(k)
    BY <1>11, <2>1 DEF ApproveMark, Return, NoLocals, Disturb
  <2>2. CASE Continue(k, "approve_read", "create")
    BY <1>11, <2>2 DEF ApproveMark, Continue, Disturb
  <2>3. QED
    BY <1>11, <2>1, <2>2 DEF ApproveMark
<1>12. ASSUME NEW k \in Tasks, Create(k) PROVE Kept
  <2>1. /\ loc[k].order \in Orders /\ UserOf(k) \in Users /\ loc[k].content \in Contents \cup {None}
        /\ plan' = plan /\ order' = order /\ job' = job /\ last' = last
    BY <1>12 DEF Create, PanelCall, UserOf
  <2>2. account \in [Users -> Account]
    BY <2>1 DEF Account
  <2>3. account' \in [Users -> Account]
    BY <1>12, <2>2 DEF Create, PanelCall, Account
  <2>4. CASE Return(k)
    BY <1>12, <2>1, <2>3, <2>4 DEF Create, PanelCall, Return, NoLocals, Disturb, Account
  <2>5. CASE Continue(k, "create", "expire")
    BY <1>12, <2>1, <2>3, <2>5 DEF Create, PanelCall, Continue, Disturb, Account
  <2>6. QED
    BY <1>12, <2>4, <2>5 DEF Create, PanelCall
<1>13. ASSUME NEW k \in Tasks, SetExpire(k) PROVE Kept
  <2>1. /\ loc[k].order \in Orders /\ UserOf(k) \in Users /\ loc[k].content \in Contents \cup {None}
        /\ plan' = plan /\ order' = order /\ job' = job /\ last' = last
    BY <1>13 DEF SetExpire, PanelCall, UserOf
  <2>2. [account EXCEPT ![UserOf(k)].expire = loc[k].content] \in [Users -> Account]
    <3>1. account \in [Users -> Account] /\ account[UserOf(k)] \in Account
      BY <2>1 DEF Account
    <3>2. [account[UserOf(k)] EXCEPT !.expire = loc[k].content] \in Account
      BY <2>1, <3>1 DEF Account
    <3>3. QED
      BY <3>1, <3>2
  <2>3. account' \in [Users -> Account]
    BY <1>13, <2>2 DEF SetExpire, PanelCall, Account
  <2>4. CASE Return(k)
    BY <1>13, <2>1, <2>3, <2>4 DEF SetExpire, PanelCall, Return, NoLocals, Disturb, Account
  <2>5. CASE Continue(k, "expire", "limit")
    BY <1>13, <2>1, <2>3, <2>5 DEF SetExpire, PanelCall, Continue, Disturb, Account
  <2>6. QED
    BY <1>13, <2>4, <2>5 DEF SetExpire, PanelCall
<1>14. ASSUME NEW k \in Tasks, SetLimit(k) PROVE Kept
  <2>1. /\ loc[k].order \in Orders /\ UserOf(k) \in Users /\ loc[k].content \in Contents \cup {None}
        /\ plan' = plan /\ order' = order /\ job' = job /\ last' = last
    BY <1>14 DEF SetLimit, PanelCall, UserOf
  <2>2. [account EXCEPT ![UserOf(k)].limit = loc[k].content] \in [Users -> Account]
    <3>1. account \in [Users -> Account] /\ account[UserOf(k)] \in Account
      BY <2>1 DEF Account
    <3>2. [account[UserOf(k)] EXCEPT !.limit = loc[k].content] \in Account
      BY <2>1, <3>1 DEF Account
    <3>3. QED
      BY <3>1, <3>2
  <2>3. account' \in [Users -> Account]
    BY <1>14, <2>2 DEF SetLimit, PanelCall, Account
  <2>4. CASE Return(k)
    BY <1>14, <2>1, <2>3, <2>4 DEF SetLimit, PanelCall, Return, NoLocals, Disturb, Account
  <2>5. CASE Continue(k, "limit", "commit")
    BY <1>14, <2>1, <2>3, <2>5 DEF SetLimit, PanelCall, Continue, Disturb, Account
  <2>6. QED
    BY <1>14, <2>4, <2>5 DEF SetLimit, PanelCall
<1>15. ASSUME NEW k \in Tasks, ProvisionCommit(k) PROVE Kept
  <2>1. loc[k].order \in Orders /\ loc[k].plan \in Plans /\ loc[k].content \in Contents \cup {None}
    BY <1>15 DEF ProvisionCommit
  <2> DEFINE new == IF Exists(loc[k].order)
                    THEN [order[loc[k].order] EXCEPT !.status = "provisioned"]
                    ELSE NewRow("provisioned", loc[k].plan)
  <2>2. new \in Row /\ new.status = "provisioned"
    <3>1. CASE Exists(loc[k].order)
      BY <2>1, <3>1, RowEdits
    <3>2. CASE ~Exists(loc[k].order)
      BY <2>1, <3>2, NewRows
    <3>3. QED
      BY <3>1, <3>2
  <2>3. order' = order \/ order' = [order EXCEPT ![loc[k].order] = new]
    BY <1>15 DEF ProvisionCommit
  <2> HIDE DEF new
  <2>4. RowsKept
    BY <2>1, <2>2, <2>3, RowStored
  <2>5. last' \in [Users -> Contents \cup {None}] /\ disturbed' \in [Users -> BOOLEAN]
    BY <1>15, <2>1 DEF ProvisionCommit, UserOf, Disturb
  <2>6. QED
    BY <1>15, <2>4, <2>5 DEF ProvisionCommit, Return, NoLocals
<1>16. ASSUME NEW k \in Tasks, Abort(k) PROVE Kept
  BY <1>16 DEF Abort, Return, NoLocals, Disturb, UserOf
<1>17. CASE JobStart
  BY <1>17 DEF JobStart
<1>18. ASSUME NEW o \in Orders, JobMark(o) PROVE Kept
  BY <1>18 DEF JobMark, Cancellable, IsPending, Unlocked, HoldsOrder
<1>19. CASE JobCommit
  <2>1. \A x \in Orders : /\ order'[x] \in Row
                          /\ order[x].status # "none" => order'[x].status # "none"
    BY <1>19, RowEdits DEF JobCommit
  <2>2. order' \in [Orders -> Row]
    BY <1>19, <2>1 DEF JobCommit
  <2>3. QED
    BY <1>19, <2>1, <2>2 DEF JobCommit, JobIdle
<1>20. CASE JobAbort
  BY <1>20 DEF JobAbort, JobIdle, Event
<1>21. CASE UNCHANGED vars
  BY <1>21 DEF vars
<1>22. QED
  BY <1>1, <1>2, <1>3, <1>4, <1>5, <1>6, <1>7, <1>8, <1>9, <1>10, <1>11, <1>12, <1>13,
     <1>14, <1>15, <1>16, <1>17, <1>18, <1>19, <1>20, <1>21
     DEF Next, Step, JobStep

-----------------------------------------------------------------------------
(* Locks *)

\* A row is locked by one handler at a time and only while it is pending.
LEMMA LockStep ==
  ASSUME IInv, [Next]_vars
  PROVE  MarkedPending' /\ SaleIsPrivate' /\ WorkIsExclusive'
<1> DEFINE Kept == MarkedPending' /\ SaleIsPrivate' /\ WorkIsExclusive'
<1> USE OrdersAssumption DEF IInv, TypeOK, OrderNamed, MarkedPending, SaleIsPrivate,
       WorkIsExclusive, HoldsOrder, Exists, IsPending, Provisioning
<1>1. ASSUME NEW p \in Plans, NEW c \in Contents, SetPlan(p, c) PROVE Kept
  BY <1>1 DEF SetPlan, Event
<1>2. ASSUME NEW p \in Plans, DeletePlan(p) PROVE Kept
  BY <1>2 DEF DeletePlan, Event, Unlocked
<1>3. ASSUME NEW o \in Orders, NEW p \in Plans, Buy(o, p) PROVE Kept
  BY <1>3 DEF Buy, Event, NewRow
<1>4. ASSUME NEW o \in Orders, ClearReceipt(o) PROVE Kept
  BY <1>4 DEF ClearReceipt, Event, Unlocked
<1>5. ASSUME NEW o \in Orders, Reject(o) PROVE Kept
  BY <1>5 DEF Reject, RejectedStatus, Unlocked
<1>6. ASSUME NEW o \in Orders, Age(o) PROVE Kept
  BY <1>6 DEF Age
<1>7. ASSUME NEW k \in Tasks, NEW o \in Orders, AttachRead(k, o) PROVE Kept
  BY <1>7 DEF AttachRead, Start, Event, NoLocals
<1>8. ASSUME NEW k \in Tasks, NEW o \in Orders, ApproveRead(k, o) PROVE Kept
  BY <1>8 DEF ApproveRead, Start, Event, Row
<1>9. ASSUME NEW k \in Tasks, NEW o \in Orders, NEW p \in Plans, NEW b \in BOOLEAN,
               SellStart(k, o, p, b) PROVE Kept
  BY <1>9 DEF SellStart, Start, Event, Disturb
<1>10. ASSUME NEW k \in Tasks, AttachCommit(k) PROVE Kept
  BY <1>10 DEF AttachCommit, Return, NoLocals, CanLock
<1>11. ASSUME NEW k \in Tasks, ApproveMark(k) PROVE Kept
  <2>1. CASE Return(k)
    BY <1>11, <2>1 DEF ApproveMark, Return, NoLocals
  <2>2. CASE Continue(k, "approve_read", "create")
    <3>1. IsPending(loc[k].order)
      BY <1>11, <2>2 DEF ApproveMark, Continue, Return
    <3>2. QED
      BY <1>11, <2>2, <3>1 DEF ApproveMark, Continue, CanLock
  <2>3. QED
    BY <1>11, <2>1, <2>2 DEF ApproveMark
<1>12. ASSUME NEW k \in Tasks, Create(k) PROVE Kept
  <2>1. CASE Return(k)
    BY <1>12, <2>1 DEF Create, Return, NoLocals, Disturb, PanelCall
  <2>2. CASE Continue(k, "create", "expire")
    BY <1>12, <2>2 DEF Create, Continue, Disturb, PanelCall
  <2>3. QED
    BY <1>12, <2>1, <2>2 DEF Create, PanelCall
<1>13. ASSUME NEW k \in Tasks, SetExpire(k) PROVE Kept
  <2>1. CASE Return(k)
    BY <1>13, <2>1 DEF SetExpire, Return, NoLocals, Disturb, PanelCall
  <2>2. CASE Continue(k, "expire", "limit")
    BY <1>13, <2>2 DEF SetExpire, Continue, Disturb, PanelCall
  <2>3. QED
    BY <1>13, <2>1, <2>2 DEF SetExpire, PanelCall
<1>14. ASSUME NEW k \in Tasks, SetLimit(k) PROVE Kept
  <2>1. CASE Return(k)
    BY <1>14, <2>1 DEF SetLimit, Return, NoLocals, Disturb, PanelCall
  <2>2. CASE Continue(k, "limit", "commit")
    BY <1>14, <2>2 DEF SetLimit, Continue, Disturb, PanelCall
  <2>3. QED
    BY <1>14, <2>1, <2>2 DEF SetLimit, PanelCall
<1>15. ASSUME NEW k \in Tasks, ProvisionCommit(k) PROVE Kept
  <2>1. CASE order' = order
    BY <1>15, <2>1 DEF ProvisionCommit, Return, NoLocals
  <2>2. CASE Exists(loc[k].order) \/ plan[loc[k].plan] # None
    <3>1. /\ loc[k].order \in Orders /\ loc[k].order \notin job.marked
          /\ \A j \in Tasks \ {k} : pc[j] \in Provisioning => loc[j].order # loc[k].order
      BY <1>15 DEF ProvisionCommit
    <3>2. /\ pc' = [pc EXCEPT ![k] = "idle"] /\ loc' = [loc EXCEPT ![k] = NoLocals] /\ job' = job
          /\ order' \in [Orders -> Row] /\ \A x \in Orders \ {loc[k].order} : order'[x] = order[x]
      <4>1. job' = job /\ Return(k)
        BY <1>15 DEF ProvisionCommit
      <4>2. order' \in [Orders -> Row]
        BY TypeStep, <1>15 DEF Next, Step
      <4>3. \A x \in Orders \ {loc[k].order} : order'[x] = order[x]
        BY <1>15, <3>1 DEF ProvisionCommit
      <4>4. QED
        BY <4>1, <4>2, <4>3 DEF Return
    <3>3. order'[loc[k].order].status # "none"
      <4>1. CASE Exists(loc[k].order)
        <5>1. order' = [order EXCEPT ![loc[k].order] =
                          [order[loc[k].order] EXCEPT !.status = "provisioned"]]
          BY <1>15, <4>1 DEF ProvisionCommit
        <5>2. [order[loc[k].order] EXCEPT !.status = "provisioned"].status = "provisioned"
          BY <3>1, RowEdits
        <5>3. QED
          BY <3>1, <5>1, <5>2
      <4>2. CASE ~Exists(loc[k].order)
        <5>1. order' = [order EXCEPT ![loc[k].order] =
                          NewRow("provisioned", loc[k].plan)]
          BY <1>15, <2>2, <4>2 DEF ProvisionCommit
        <5>2. QED
          BY <3>1, <5>1 DEF NewRow
      <4>3. QED
        BY <4>1, <4>2
    <3>4. QED
      BY <3>1, <3>2, <3>3 DEF NoLocals
  <2>3. QED
    BY <1>15, <2>1, <2>2 DEF ProvisionCommit
<1>16. ASSUME NEW k \in Tasks, Abort(k) PROVE Kept
  BY <1>16 DEF Abort, Return, NoLocals, Disturb, UserOf
<1>17. CASE JobStart
  BY <1>17 DEF JobStart
<1>18. ASSUME NEW o \in Orders, JobMark(o) PROVE Kept
  BY <1>18 DEF JobMark, Cancellable, Unlocked
<1>19. CASE JobCommit
  BY <1>19 DEF JobCommit, JobIdle
<1>20. CASE JobAbort
  BY <1>20 DEF JobAbort, JobIdle, Event
<1>21. CASE UNCHANGED vars
  BY <1>21 DEF vars
<1>22. QED
  BY <1>1, <1>2, <1>3, <1>4, <1>5, <1>6, <1>7, <1>8, <1>9, <1>10, <1>11, <1>12, <1>13,
     <1>14, <1>15, <1>16, <1>17, <1>18, <1>19, <1>20, <1>21
     DEF Next, Step, JobStep

-----------------------------------------------------------------------------
(* Plans *)

\* A plan is deleted only when no order needs it, and no order of a deleted
\* plan is inserted.
LEMMA PlanStep ==
  ASSUME IInv, [Next]_vars
  PROVE  PlansExist'
<1> DEFINE Kept == PlansExist'
<1> USE OrdersAssumption DEF IInv, TypeOK, OrderNamed, PlansExist,
       SaleIsPrivate, WorkIsExclusive, Exists, Provisioning, HoldsOrder
<1>1. ASSUME NEW p \in Plans, NEW c \in Contents, SetPlan(p, c) PROVE Kept
  BY <1>1 DEF SetPlan, Event
<1>2. ASSUME NEW p \in Plans, DeletePlan(p) PROVE Kept
  BY <1>2 DEF DeletePlan, Event, Unlocked
<1>3. ASSUME NEW o \in Orders, NEW p \in Plans, Buy(o, p) PROVE Kept
  BY <1>3 DEF Buy, Event, NewRow
<1>4. ASSUME NEW o \in Orders, ClearReceipt(o) PROVE Kept
  BY <1>4 DEF ClearReceipt, Event, Unlocked
<1>5. ASSUME NEW o \in Orders, Reject(o) PROVE Kept
  BY <1>5 DEF Reject, IsPending, RejectedStatus, Unlocked
<1>6. ASSUME NEW o \in Orders, Age(o) PROVE Kept
  BY <1>6 DEF Age
<1>7. ASSUME NEW k \in Tasks, NEW o \in Orders, AttachRead(k, o) PROVE Kept
  BY <1>7 DEF AttachRead, Start, Event, NoLocals
<1>8. ASSUME NEW k \in Tasks, NEW o \in Orders, ApproveRead(k, o) PROVE Kept
  BY <1>8 DEF ApproveRead, Start, Event, Row
<1>9. ASSUME NEW k \in Tasks, NEW o \in Orders, NEW p \in Plans, NEW b \in BOOLEAN,
               SellStart(k, o, p, b) PROVE Kept
  BY <1>9 DEF SellStart, Start, Event, Disturb
<1>10. ASSUME NEW k \in Tasks, AttachCommit(k) PROVE Kept
  BY <1>10 DEF AttachCommit, Return, NoLocals, CanLock
<1>11. ASSUME NEW k \in Tasks, ApproveMark(k) PROVE Kept
  <2>1. CASE Return(k)
    BY <1>11, <2>1 DEF ApproveMark, Return, NoLocals, Disturb, IsPending
  <2>2. CASE Continue(k, "approve_read", "create")
    BY <1>11, <2>2 DEF ApproveMark, Continue, Disturb, IsPending
  <2>3. QED
    BY <1>11, <2>1, <2>2 DEF ApproveMark
<1>12. ASSUME NEW k \in Tasks, Create(k) PROVE Kept
  <2>1. CASE Return(k)
    BY <1>12, <2>1 DEF Create, Return, NoLocals, Disturb, PanelCall
  <2>2. CASE Continue(k, "create", "expire")
    BY <1>12, <2>2 DEF Create, Continue, Disturb, PanelCall
  <2>3. QED
    BY <1>12, <2>1, <2>2 DEF Create, PanelCall
<1>13. ASSUME NEW k \in Tasks, SetExpire(k) PROVE Kept
  <2>1. CASE Return(k)
    BY <1>13, <2>1 DEF SetExpire, Return, NoLocals, Disturb, PanelCall
  <2>2. CASE Continue(k, "expire", "limit")
    BY <1>13, <2>2 DEF SetExpire, Continue, Disturb, PanelCall
  <2>3. QED
    BY <1>13, <2>1, <2>2 DEF SetExpire, PanelCall
<1>14. ASSUME NEW k \in Tasks, SetLimit(k) PROVE Kept
  <2>1. CASE Return(k)
    BY <1>14, <2>1 DEF SetLimit, Return, NoLocals, Disturb, PanelCall
  <2>2. CASE Continue(k, "limit", "commit")
    BY <1>14, <2>2 DEF SetLimit, Continue, Disturb, PanelCall
  <2>3. QED
    BY <1>14, <2>1, <2>2 DEF SetLimit, PanelCall
<1>15. ASSUME NEW k \in Tasks, ProvisionCommit(k) PROVE Kept
  <2>1. CASE order' = order
    BY <1>15, <2>1 DEF ProvisionCommit, Return, NoLocals
  <2>2. CASE Exists(loc[k].order)
    <3>1. order' = [order EXCEPT ![loc[k].order] =
                      [order[loc[k].order] EXCEPT !.status = "provisioned"]]
      BY <1>15, <2>2 DEF ProvisionCommit
    <3>2. \A x \in Orders : order'[x].plan = order[x].plan
      <4>1. loc[k].order \in Orders /\ order[loc[k].order] \in Row
        BY <1>15 DEF ProvisionCommit
      <4>2. [order[loc[k].order] EXCEPT !.status = "provisioned"].plan = order[loc[k].order].plan
        BY <4>1, RowEdits
      <4>3. QED
        BY <3>1, <4>1, <4>2
    <3>3. QED
      BY <1>15, <3>2 DEF ProvisionCommit
  <2>3. CASE ~Exists(loc[k].order) /\ plan[loc[k].plan] # None
    <3>1. order' = [order EXCEPT ![loc[k].order] =
                      NewRow("provisioned", loc[k].plan)]
      BY <1>15, <2>3 DEF ProvisionCommit
    <3>2. \A x \in Orders :
            order'[x].plan = IF x = loc[k].order THEN loc[k].plan ELSE order[x].plan
      BY <3>1 DEF NewRow
    <3>3. QED
      BY <1>15, <2>3, <3>2 DEF ProvisionCommit
  <2>4. QED
    BY <1>15, <2>1, <2>2, <2>3 DEF ProvisionCommit
<1>16. ASSUME NEW k \in Tasks, Abort(k) PROVE Kept
  BY <1>16 DEF Abort, Return, NoLocals, Disturb, UserOf
<1>17. CASE JobStart
  BY <1>17 DEF JobStart
<1>18. ASSUME NEW o \in Orders, JobMark(o) PROVE Kept
  BY <1>18 DEF JobMark, Cancellable, IsPending, Unlocked
<1>19. CASE JobCommit
  BY <1>19 DEF JobCommit, JobIdle
<1>20. CASE JobAbort
  BY <1>20 DEF JobAbort, JobIdle, Event
<1>21. CASE UNCHANGED vars
  BY <1>21 DEF vars
<1>22. QED
  BY <1>1, <1>2, <1>3, <1>4, <1>5, <1>6, <1>7, <1>8, <1>9, <1>10, <1>11, <1>12, <1>13,
     <1>14, <1>15, <1>16, <1>17, <1>18, <1>19, <1>20, <1>21
     DEF Next, Step, JobStep

-----------------------------------------------------------------------------
(* The refinement *)

status == [o \in Orders |-> order[o].status]

\* Orders whose status changes from one value to another make a move of the
\* lifecycle; no change is a stutter.
LEMMA MoveRefines ==
  ASSUME NEW S \in SUBSET Orders, S # {}, NEW from, NEW to,
         \A o \in S : order[o].status = from,
         \A o \in Orders : order'[o].status = IF o \in S THEN to ELSE order[o].status
  PROVE  Order!Move(S, from, to)
  BY DEF Order!Move

\* Steps that decide nothing are none of the lifecycle.
LEMMA StutterRefines ==
  ASSUME \A o \in Orders : order'[o].status = order[o].status
  PROVE  status' = status
  BY DEF status

\* Every other step is one of its moves.
LEMMA StepRefines ==
  ASSUME IInv, [Next]_vars
  PROVE  [Order!Next]_status
<1> DEFINE Kept == [Order!Next]_status
<1> USE OrdersAssumption DEF IInv, TypeOK, OrderNamed, Exists
<1>1. ASSUME NEW p \in Plans, NEW c \in Contents, SetPlan(p, c) PROVE Kept
  BY <1>1, StutterRefines DEF SetPlan
<1>2. ASSUME NEW p \in Plans, DeletePlan(p) PROVE Kept
  <2>1. \A x \in Orders : order'[x].status = order[x].status
    BY <1>2, RowEdits DEF DeletePlan
  <2>2. QED
    BY <2>1, StutterRefines
<1>3. ASSUME NEW o \in Orders, NEW p \in Plans, Buy(o, p) PROVE Kept
  <2>1. \A x \in {o} : x \in Orders /\ order[x].status = "none"
    BY <1>3 DEF Buy, NewRow
  <2>2. \A x \in Orders : order'[x].status = IF x \in {o} THEN "pending" ELSE order[x].status
    BY <1>3, <2>1 DEF Buy, NewRow
  <2>3. Order!Place(o)
    BY <2>1, <2>2, MoveRefines DEF Order!Place
  <2>4. QED
    BY <1>3, <2>1, <2>3 DEF Order!Next
<1>4. ASSUME NEW o \in Orders, ClearReceipt(o) PROVE Kept
  <2>1. order[o] \in Row /\ o \in Orders
    BY <1>4 DEF ClearReceipt
  <2>2. /\ [order[o] EXCEPT !.receipt = FALSE] \in Row
        /\ [order[o] EXCEPT !.receipt = FALSE].status = order[o].status
    BY <2>1, RowEdits
  <2>3. \A x \in Orders : order'[x].status = order[x].status
    BY <1>4, <2>1, <2>2 DEF ClearReceipt
  <2>4. QED
    BY <2>3, StutterRefines
<1>5. ASSUME NEW o \in Orders, Reject(o) PROVE Kept
  <2>1. \A x \in {o} : x \in Orders /\ order[x].status = "pending"
    BY <1>5 DEF Reject, IsPending, RejectedStatus
  <2>2. \A x \in Orders : order'[x].status = IF x \in {o} THEN "failed" ELSE order[x].status
    BY <1>5, <2>1, RowEdits DEF Reject, IsPending, RejectedStatus
  <2>3. Order!Fail(o)
    BY <2>1, <2>2, MoveRefines DEF Order!Fail
  <2>4. QED
    BY <1>5, <2>1, <2>3 DEF Order!Next
<1>6. ASSUME NEW o \in Orders, Age(o) PROVE Kept
  <2>1. order[o] \in Row /\ o \in Orders
    BY <1>6 DEF Age
  <2>2. /\ [order[o] EXCEPT !.stale = TRUE] \in Row
        /\ [order[o] EXCEPT !.stale = TRUE].status = order[o].status
    BY <2>1, RowEdits
  <2>3. \A x \in Orders : order'[x].status = order[x].status
    BY <1>6, <2>1, <2>2 DEF Age
  <2>4. QED
    BY <2>3, StutterRefines
<1>7. ASSUME NEW k \in Tasks, NEW o \in Orders, AttachRead(k, o) PROVE Kept
  BY <1>7, StutterRefines DEF AttachRead
<1>8. ASSUME NEW k \in Tasks, NEW o \in Orders, ApproveRead(k, o) PROVE Kept
  BY <1>8, StutterRefines DEF ApproveRead
<1>9. ASSUME NEW k \in Tasks, NEW o \in Orders, NEW p \in Plans, NEW b \in BOOLEAN,
               SellStart(k, o, p, b) PROVE Kept
  BY <1>9, StutterRefines DEF SellStart
<1>10. ASSUME NEW k \in Tasks, AttachCommit(k) PROVE Kept
  <2>1. order[loc[k].order] \in Row /\ loc[k].order \in Orders
    BY <1>10 DEF AttachCommit
  <2>2. /\ [order[loc[k].order] EXCEPT !.receipt = TRUE] \in Row
        /\ [order[loc[k].order] EXCEPT !.receipt = TRUE].status = order[loc[k].order].status
    BY <2>1, RowEdits
  <2>3. \A x \in Orders : order'[x].status = order[x].status
    BY <1>10, <2>1, <2>2 DEF AttachCommit
  <2>4. QED
    BY <2>3, StutterRefines
<1>11. ASSUME NEW k \in Tasks, ApproveMark(k) PROVE Kept
  BY <1>11, StutterRefines DEF ApproveMark
<1>12. ASSUME NEW k \in Tasks, Create(k) PROVE Kept
  BY <1>12, StutterRefines DEF Create, PanelCall
<1>13. ASSUME NEW k \in Tasks, SetExpire(k) PROVE Kept
  BY <1>13, StutterRefines DEF SetExpire, PanelCall
<1>14. ASSUME NEW k \in Tasks, SetLimit(k) PROVE Kept
  BY <1>14, StutterRefines DEF SetLimit, PanelCall
<1>15. ASSUME NEW k \in Tasks, ProvisionCommit(k) PROVE Kept
  <2>1. PICK o \in Orders : o = loc[k].order
    BY <1>15 DEF ProvisionCommit
  <2>2. order[o].status \in {"none", "pending"}
    BY <1>15, <2>1 DEF ProvisionCommit, WorkIsExclusive, Provisioning
  <2>3. CASE order[o].status = "pending"
    <3>1. order' = [order EXCEPT ![o] = [order[o] EXCEPT !.status = "provisioned"]]
      BY <1>15, <2>1, <2>3 DEF ProvisionCommit
    <3>2. \A x \in Orders :
            order'[x].status = IF x \in {o} THEN "provisioned" ELSE order[x].status
      BY <2>1, <3>1, RowEdits
    <3>3. Order!Provision(o)
      BY <2>1, <2>3, <3>2, MoveRefines DEF Order!Provision
    <3>4. QED
      BY <3>3 DEF Order!Next
  <2>4. CASE order[o].status = "none" /\ plan[loc[k].plan] # None
    <3>1. order' = [order EXCEPT ![o] = NewRow("provisioned", loc[k].plan)]
      BY <1>15, <2>1, <2>4 DEF ProvisionCommit
    <3>2. \A x \in Orders :
            order'[x].status = IF x \in {o} THEN "provisioned" ELSE order[x].status
      BY <2>1, <3>1 DEF NewRow
    <3>3. Order!Sell(o)
      BY <2>1, <2>4, <3>2, MoveRefines DEF Order!Sell
    <3>4. QED
      BY <3>3 DEF Order!Next
  <2>5. CASE order[o].status = "none" /\ plan[loc[k].plan] = None
    BY <1>15, <2>1, <2>5, StutterRefines DEF ProvisionCommit
  <2>6. QED
    BY <2>2, <2>3, <2>4, <2>5
<1>16. ASSUME NEW k \in Tasks, Abort(k) PROVE Kept
  BY <1>16, StutterRefines DEF Abort
<1>17. CASE JobStart
  BY <1>17, StutterRefines DEF JobStart
<1>18. ASSUME NEW o \in Orders, JobMark(o) PROVE Kept
  BY <1>18, StutterRefines DEF JobMark
<1>19. CASE JobCommit
  <2>1. CASE job.marked = {}
    BY <1>19, <2>1, StutterRefines DEF JobCommit
  <2>2. CASE job.marked # {}
    <3>1. PICK S \in SUBSET Orders : S = job.marked
      OBVIOUS
    <3>2. \A x \in S : order[x].status = "pending"
      BY <3>1 DEF MarkedPending, IsPending
    <3>3. \A x \in Orders : order'[x].status = IF x \in S THEN "cancelled" ELSE order[x].status
      BY <1>19, <3>1, RowEdits DEF JobCommit
    <3>4. Order!Cancel(S)
      BY <2>2, <3>1, <3>2, <3>3, MoveRefines DEF Order!Cancel
    <3>5. QED
      BY <3>4 DEF Order!Next
  <2>3. QED
    BY <2>1, <2>2
<1>20. CASE JobAbort
  BY <1>20, StutterRefines DEF JobAbort
<1>21. CASE UNCHANGED vars
  BY <1>21, StutterRefines DEF vars
<1>22. QED
  BY <1>1, <1>2, <1>3, <1>4, <1>5, <1>6, <1>7, <1>8, <1>9, <1>10, <1>11, <1>12, <1>13,
     <1>14, <1>15, <1>16, <1>17, <1>18, <1>19, <1>20, <1>21
     DEF Next, Step, JobStep

-----------------------------------------------------------------------------
(* What the accounts carry *)

\* Steps of handlers that are not provisioning, before or after.
LEMMA FollowStays ==
  ASSUME AccountsFollow, UNCHANGED <<account, last, disturbed>>,
         \A k \in Tasks : /\ pc'[k] \in Provisioning <=> pc[k] \in Provisioning
                          /\ pc[k] \in Provisioning => pc'[k] = pc[k] /\ loc'[k] = loc[k]
  PROVE  AccountsFollow'
<1>1. \A k \in Tasks, u \in Users : Provisions(k, u)' <=> Provisions(k, u)
  BY DEF Provisions, UserOf
<1>2. \A k \in Tasks, u \in Users : Provisions(k, u) => (AsFarAs(k, u)' <=> AsFarAs(k, u))
  BY DEF Provisions, AsFarAs
<1>3. QED
  BY <1>1, <1>2 DEF AccountsFollow, Follows

\* A provisioning begins: it is alone at the account, or that is disturbed.
LEMMA FollowBegins ==
  ASSUME TypeOK, AccountsFollow, NEW k \in Tasks, NEW u \in Users, pc[k] \notin Provisioning,
         pc' = [pc EXCEPT ![k] = "create"], Owner[loc'[k].order] = u,
         \A j \in Tasks \ {k} : loc'[j] = loc[j],
         Disturb(u, Shared(k, u)), UNCHANGED <<account, last>>
  PROVE  AccountsFollow'
<1>1. pc'[k] = "create" /\ \A j \in Tasks \ {k} : pc'[j] = pc[j]
  BY DEF TypeOK
<1>2. \A j \in Tasks \ {k}, v \in Users :
        /\ Provisions(j, v)' <=> Provisions(j, v)
        /\ AsFarAs(j, v)' <=> AsFarAs(j, v)
  BY <1>1 DEF Provisions, UserOf, AsFarAs
<1>3. \A v \in Users : Provisions(k, v)' <=> v = u
  BY <1>1 DEF Provisions, UserOf, Provisioning
<1>4. \A v \in Users : ~Provisions(k, v)
  BY DEF Provisions
<1>5. \A v \in Users : ~disturbed'[v] => ~disturbed[v] /\ (v = u => ~Shared(k, u))
  BY DEF Disturb, TypeOK
<1>6. ASSUME NEW v \in Users, ~disturbed'[v], v # u
      PROVE  Follows(v)'
  BY <1>2, <1>3, <1>4, <1>5, <1>6 DEF AccountsFollow, Follows
<1>7. ASSUME ~disturbed'[u]
      PROVE  Follows(u)'
  <2>1. \A j \in Tasks \ {k} : ~Provisions(j, u)
    BY <1>5, <1>7 DEF Shared, Provisions
  <2>2. account[u] = [expire |-> last[u], limit |-> last[u]]
    BY <1>4, <1>5, <1>7, <2>1 DEF AccountsFollow, Follows
  <2>3. AsFarAs(k, u)'
    BY <1>1, <2>2 DEF AsFarAs
  <2>4. QED
    BY <1>2, <1>3, <2>1, <2>3 DEF Follows
<1>8. QED
  BY <1>6, <1>7 DEF AccountsFollow

\* A provisioning ends before its COMMIT, whatever it did on the panel.
LEMMA FollowFails ==
  ASSUME TypeOK, AccountsFollow, NEW k \in Tasks, UserOf(k) \in Users,
         pc[k] \in Provisioning, Return(k), Disturb(UserOf(k), TRUE), last' = last,
         \A u \in Users \ {UserOf(k)} : account'[u] = account[u]
  PROVE  AccountsFollow'
<1>1. pc'[k] = "idle" /\ \A j \in Tasks \ {k} : pc'[j] = pc[j] /\ loc'[j] = loc[j]
  BY DEF Return, TypeOK
<1>2. \A u \in Users : ~disturbed'[u] => ~disturbed[u] /\ u # UserOf(k)
  BY DEF Disturb, TypeOK
<1>3. \A j \in Tasks, u \in Users \ {UserOf(k)} : Provisions(j, u)' <=> Provisions(j, u)
  BY <1>1 DEF Provisions, UserOf, Provisioning
<1>4. \A j \in Tasks, u \in Users \ {UserOf(k)} :
        Provisions(j, u) => (AsFarAs(j, u)' <=> AsFarAs(j, u))
  BY <1>1 DEF Provisions, AsFarAs
<1>5. QED
  BY <1>2, <1>3, <1>4 DEF AccountsFollow, Follows

\* A call to the panel has had its effect and been answered.
LEMMA FollowGoesOn ==
  ASSUME TypeOK, AccountsFollow, NEW k \in Tasks, NEW from \in Provisioning,
         NEW to \in Provisioning, UserOf(k) \in Users, Continue(k, from, to),
         UNCHANGED <<last, disturbed>>,
         \A u \in Users \ {UserOf(k)} : account'[u] = account[u],
         \A u \in Users : u = UserOf(k) /\ AsFarAs(k, u) => AsFarAs(k, u)'
  PROVE  AccountsFollow'
<1>1. /\ pc[k] = from /\ pc'[k] = to /\ loc' = loc
      /\ \A j \in Tasks \ {k} : pc'[j] = pc[j]
  BY DEF Continue, TypeOK
<1>2. \A j \in Tasks, u \in Users : Provisions(j, u)' <=> Provisions(j, u)
  BY <1>1 DEF Provisions, UserOf
<1>3. \A j \in Tasks \ {k}, u \in Users \ {UserOf(k)} : AsFarAs(j, u)' <=> AsFarAs(j, u)
  BY <1>1 DEF AsFarAs
<1>4. Provisions(k, UserOf(k)) /\ \A u \in Users \ {UserOf(k)} : ~Provisions(k, u)
  BY <1>1 DEF Provisions
<1>5. ASSUME NEW u \in Users, ~disturbed'[u], u # UserOf(k) PROVE Follows(u)'
  BY <1>2, <1>3, <1>4, <1>5 DEF AccountsFollow, Follows
<1>6. ASSUME NEW u \in Users, ~disturbed'[u], u = UserOf(k) PROVE Follows(u)'
  <2>1. Follows(u)
    BY <1>6 DEF AccountsFollow
  <2>2. \A j \in Tasks : Provisions(j, u) <=> j = k
    BY <1>4, <1>6, <2>1 DEF Follows
  <2>3. AsFarAs(k, u)'
    BY <1>6, <2>1, <2>2 DEF Follows
  <2>4. QED
    BY <1>2, <2>2, <2>3 DEF Follows
<1>7. QED
  BY <1>5, <1>6 DEF AccountsFollow

\* Or it has failed.
LEMMA FollowCalls ==
  ASSUME TypeOK, AccountsFollow, NEW k \in Tasks, NEW from \in Provisioning,
         NEW to \in Provisioning, NEW effect, UserOf(k) \in Users,
         PanelCall(k, from, to, effect),
         \A u \in Users \ {UserOf(k)} : effect[u] = account[u],
         Continue(k, from, to) /\ account' = effect /\ last' = last
           => \A u \in Users : u = UserOf(k) /\ AsFarAs(k, u) => AsFarAs(k, u)'
  PROVE  AccountsFollow'
<1>1. pc[k] = from /\ last' = last
  BY DEF PanelCall
<1>2. CASE Continue(k, from, to) /\ account' = effect /\ UNCHANGED disturbed
  BY <1>1, <1>2, FollowGoesOn
<1>3. CASE Return(k) /\ account' \in {account, effect} /\ Disturb(UserOf(k), TRUE)
  <2>1. \A u \in Users \ {UserOf(k)} : account'[u] = account[u]
    BY <1>3
  <2>2. QED
    BY <1>1, <1>3, <2>1, FollowFails
<1>4. QED
  BY <1>2, <1>3 DEF PanelCall

\* An order is committed as provisioned: the account carries its plan.
LEMMA FollowCommits ==
  ASSUME TypeOK, AccountsFollow, NEW k \in Tasks, UserOf(k) \in Users, pc[k] = "commit",
         Return(k), last' = [last EXCEPT ![UserOf(k)] = loc[k].content],
         UNCHANGED <<account, disturbed>>
  PROVE  AccountsFollow'
<1>1. pc'[k] = "idle" /\ \A j \in Tasks \ {k} : pc'[j] = pc[j] /\ loc'[j] = loc[j]
  BY DEF Return, TypeOK
<1>2. /\ last'[UserOf(k)] = loc[k].content
      /\ \A u \in Users \ {UserOf(k)} : last'[u] = last[u]
  BY DEF TypeOK
<1>3. \A j \in Tasks \ {k}, u \in Users : Provisions(j, u)' <=> Provisions(j, u)
  BY <1>1 DEF Provisions, UserOf
<1>4. \A j \in Tasks \ {k}, u \in Users \ {UserOf(k)} : AsFarAs(j, u)' <=> AsFarAs(j, u)
  BY <1>1, <1>2 DEF AsFarAs
<1>5. /\ Provisions(k, UserOf(k))
      /\ \A u \in Users : ~Provisions(k, u)' /\ (u # UserOf(k) => ~Provisions(k, u))
  BY <1>1 DEF Provisions, Provisioning
<1>6. ASSUME NEW u \in Users, ~disturbed'[u], u # UserOf(k)
      PROVE  Follows(u)'
  BY <1>2, <1>3, <1>4, <1>5, <1>6 DEF AccountsFollow, Follows
<1>7. ASSUME NEW u \in Users, ~disturbed'[u], u = UserOf(k) PROVE Follows(u)'
  <2>1. \A j \in Tasks \ {k} : ~Provisions(j, u)
    BY <1>5, <1>7 DEF AccountsFollow, Follows
  <2>2. AsFarAs(k, u)
    BY <1>5, <1>7 DEF AccountsFollow, Follows
  <2>3. account'[u] = [expire |-> last'[u], limit |-> last'[u]]
    BY <1>2, <1>7, <2>2 DEF AsFarAs
  <2>4. QED
    BY <1>3, <1>5, <2>1, <2>3 DEF Follows
<1>8. QED
  BY <1>6, <1>7 DEF AccountsFollow

\* Every step.
LEMMA FollowStep ==
  ASSUME TypeOK, OrderNamed, AccountsFollow, [Next]_vars
  PROVE  AccountsFollow'
<1> DEFINE Kept == AccountsFollow'
<1>u. \A k \in Tasks : pc[k] \in Provisioning => UserOf(k) \in Users
  BY OrdersAssumption DEF OrderNamed, Provisioning, UserOf
<1>1. ASSUME NEW p \in Plans, NEW c \in Contents, SetPlan(p, c) PROVE Kept
  BY <1>1, FollowStays DEF SetPlan
<1>2. ASSUME NEW p \in Plans, DeletePlan(p) PROVE Kept
  BY <1>2, FollowStays DEF DeletePlan
<1>3. ASSUME NEW o \in Orders, NEW p \in Plans, Buy(o, p) PROVE Kept
  BY <1>3, FollowStays DEF Buy
<1>4. ASSUME NEW o \in Orders, ClearReceipt(o) PROVE Kept
  BY <1>4, FollowStays DEF ClearReceipt
<1>5. ASSUME NEW o \in Orders, Reject(o) PROVE Kept
  BY <1>5, FollowStays DEF Reject
<1>6. ASSUME NEW o \in Orders, Age(o) PROVE Kept
  BY <1>6, FollowStays DEF Age
<1>7. ASSUME NEW k \in Tasks, NEW o \in Orders, AttachRead(k, o) \/ ApproveRead(k, o) PROVE Kept
  BY <1>7, FollowStays DEF AttachRead, ApproveRead, Start, Provisioning, TypeOK
<1>8. ASSUME NEW k \in Tasks, NEW o \in Orders, NEW p \in Plans, NEW b \in BOOLEAN,
               SellStart(k, o, p, b) PROVE Kept
  <2>1. /\ pc[k] = "idle" /\ pc' = [pc EXCEPT ![k] = "create"] /\ loc'[k].order = o
        /\ \A j \in Tasks \ {k} : loc'[j] = loc[j]
        /\ Disturb(Owner[o], Shared(k, Owner[o])) /\ UNCHANGED <<account, last>>
    BY <1>8 DEF SellStart, Start, TypeOK
  <2>2. Owner[o] \in Users /\ "idle" \notin Provisioning
    BY OrdersAssumption DEF Provisioning
  <2>3. QED
    BY <2>1, <2>2, FollowBegins
<1>9. ASSUME NEW k \in Tasks, AttachCommit(k) PROVE Kept
  BY <1>9, FollowStays DEF AttachCommit, Return, Provisioning, TypeOK
<1>10. ASSUME NEW k \in Tasks, ApproveMark(k) PROVE Kept
  <2>1. pc[k] = "approve_read" /\ UNCHANGED <<account, last>>
    BY <1>10 DEF ApproveMark
  <2>2. CASE IsPending(loc[k].order)
    <3>1. /\ pc' = [pc EXCEPT ![k] = "create"] /\ loc' = loc
          /\ Disturb(UserOf(k), Shared(k, UserOf(k)))
      BY <1>10, <2>2 DEF ApproveMark, Continue
    <3>2. UserOf(k) \in Users /\ "approve_read" \notin Provisioning
      BY <2>1, OrdersAssumption DEF OrderNamed, UserOf, Provisioning
    <3>3. Owner[loc'[k].order] = UserOf(k)
      BY <3>1 DEF UserOf
    <3>4. QED
      BY <2>1, <3>1, <3>2, <3>3, FollowBegins
  <2>3. CASE ~IsPending(loc[k].order)
    <3>1. Return(k) /\ UNCHANGED disturbed
      BY <1>10, <2>3 DEF ApproveMark
    <3>2. QED
      BY <2>1, <3>1, FollowStays DEF Return, Provisioning, TypeOK
  <2>4. QED
    BY <2>2, <2>3
<1>11. ASSUME NEW k \in Tasks, Create(k) PROVE Kept
  <2>1. PanelCall(k, "create", "expire", account) /\ pc[k] = "create"
    BY <1>11 DEF Create, PanelCall
  <2>2. {"create", "expire"} \subseteq Provisioning /\ UserOf(k) \in Users
    BY <1>u, <2>1 DEF Provisioning
  <2>3. Continue(k, "create", "expire") /\ account' = account /\ last' = last
          => \A u \in Users : u = UserOf(k) /\ AsFarAs(k, u) => AsFarAs(k, u)'
    BY <2>1 DEF Continue, AsFarAs, UserOf, TypeOK
  <2>4. QED
    BY <2>1, <2>2, <2>3, FollowCalls
<1>12. ASSUME NEW k \in Tasks, SetExpire(k) PROVE Kept
  <2> DEFINE effect == [account EXCEPT ![UserOf(k)].expire = loc[k].content]
  <2>1. PanelCall(k, "expire", "limit", effect) /\ pc[k] = "expire"
    BY <1>12 DEF SetExpire, PanelCall
  <2>2. {"expire", "limit"} \subseteq Provisioning /\ UserOf(k) \in Users
    BY <1>u, <2>1 DEF Provisioning
  <2>3. /\ effect[UserOf(k)] = [account[UserOf(k)] EXCEPT !.expire = loc[k].content]
        /\ \A u \in Users \ {UserOf(k)} : effect[u] = account[u]
    BY <2>2 DEF TypeOK
  <2> HIDE DEF effect
  <2>4. Continue(k, "expire", "limit") /\ account' = effect /\ last' = last
          => \A u \in Users : u = UserOf(k) /\ AsFarAs(k, u) => AsFarAs(k, u)'
    BY <2>1, <2>3 DEF Continue, AsFarAs, UserOf, TypeOK
  <2>5. QED
    BY <2>1, <2>2, <2>3, <2>4, FollowCalls
<1>13. ASSUME NEW k \in Tasks, SetLimit(k) PROVE Kept
  <2> DEFINE effect == [account EXCEPT ![UserOf(k)].limit = loc[k].content]
  <2>1. PanelCall(k, "limit", "commit", effect) /\ pc[k] = "limit"
    BY <1>13 DEF SetLimit, PanelCall
  <2>2. {"limit", "commit"} \subseteq Provisioning /\ UserOf(k) \in Users
    BY <1>u, <2>1 DEF Provisioning
  <2>3. /\ effect[UserOf(k)] = [account[UserOf(k)] EXCEPT !.limit = loc[k].content]
        /\ \A u \in Users \ {UserOf(k)} : effect[u] = account[u]
    BY <2>2 DEF TypeOK
  <2> HIDE DEF effect
  <2>4. Continue(k, "limit", "commit") /\ account' = effect /\ last' = last
          => \A u \in Users : u = UserOf(k) /\ AsFarAs(k, u) => AsFarAs(k, u)'
    BY <2>1, <2>3 DEF Continue, AsFarAs, UserOf, TypeOK
  <2>5. QED
    BY <2>1, <2>2, <2>3, <2>4, FollowCalls
<1>14. ASSUME NEW k \in Tasks, ProvisionCommit(k) PROVE Kept
  <2>1. pc[k] = "commit" /\ Return(k) /\ account' = account
    BY <1>14 DEF ProvisionCommit
  <2>2. UserOf(k) \in Users /\ pc[k] \in Provisioning
    BY <1>u, <2>1 DEF Provisioning
  <2>3. \/ last' = [last EXCEPT ![UserOf(k)] = loc[k].content] /\ UNCHANGED disturbed
        \/ last' = last /\ Disturb(UserOf(k), TRUE)
    BY <1>14 DEF ProvisionCommit
  <2>4. QED
    BY <2>1, <2>2, <2>3, FollowCommits, FollowFails
<1>15. ASSUME NEW k \in Tasks, Abort(k) PROVE Kept
  <2>1. Return(k) /\ UNCHANGED <<account, last>>
    BY <1>15 DEF Abort
  <2>2. CASE pc[k] \in Provisioning
    <3>1. Disturb(UserOf(k), TRUE)
      BY <1>15, <2>2 DEF Abort
    <3>2. QED
      BY <1>u, <2>1, <2>2, <3>1, FollowFails
  <2>3. CASE pc[k] \notin Provisioning
    <3>1. UNCHANGED disturbed
      BY <1>15, <2>3 DEF Abort
    <3>2. QED
      BY <2>1, <2>3, <3>1, FollowStays DEF Return, Provisioning, TypeOK
  <2>4. QED
    BY <2>2, <2>3
<1>16. CASE JobStep \/ JobAbort
  BY <1>16, FollowStays DEF JobStep, JobStart, JobMark, JobCommit, JobAbort
<1>17. CASE UNCHANGED vars
  BY <1>17, FollowStays DEF vars
<1>18. QED
  BY <1>1, <1>2, <1>3, <1>4, <1>5, <1>6, <1>7, <1>8, <1>9, <1>10, <1>11, <1>12, <1>13,
     <1>14, <1>15, <1>16, <1>17 DEF Next, Step

-----------------------------------------------------------------------------
(* Results *)

\* What holds to begin with.
LEMMA InitIInv == Init => IInv
<1> SUFFICES ASSUME Init PROVE IInv
  OBVIOUS
<1> USE OrdersAssumption DEF Init, NoLocals, JobIdle, Blank
<1>1. NewRow("none", None) \in Row /\ NewRow("none", None).plan = None
  BY NewRows
<1>2. TypeOK
  BY <1>1 DEF TypeOK, PCs
<1>3. OrderNamed /\ MarkedPending /\ SaleIsPrivate /\ WorkIsExclusive
  BY DEF OrderNamed, MarkedPending, SaleIsPrivate, WorkIsExclusive, Provisioning
<1>4. PlansExist
  BY <1>1 DEF PlansExist
<1>5. AccountsFollow
  BY DEF AccountsFollow, Follows, Provisions, Provisioning
<1>6. QED
  BY <1>2, <1>3, <1>4, <1>5 DEF IInv

\* And every step keeps it.
LEMMA NextIInv == IInv /\ [Next]_vars => IInv'
<1>1. IInv /\ [Next]_vars => TypeOK' /\ OrderNamed'
  BY TypeStep DEF IInv
<1>2. QED
  BY <1>1, LockStep, PlanStep, FollowStep DEF IInv

\* The invariant holds in every reachable state.
LEMMA Invariant == Spec => []IInv
  BY InitIInv, NextIInv, PTL DEF Spec

\* The tables, the handlers and the job keep their types.
THEOREM TypeCorrect == Spec => []TypeOK
<1>1. IInv => TypeOK
  BY DEF IInv
<1>2. QED
  BY <1>1, Invariant, PTL

\* An order that is being provisioned for is nobody else's: no second approval,
\* no rejection, no cancellation by the job reaches its row before the COMMIT.
THEOREM WorkExclusive == Spec => []WorkIsExclusive
<1>1. IInv => WorkIsExclusive
  BY DEF IInv
<1>2. QED
  BY <1>1, Invariant, PTL

\* Deleting a plan never leaves an order pointing to it, whatever is being sold
\* or approved meanwhile.
THEOREM PlansKept == Spec => []PlansExist
<1>1. IInv => PlansExist
  BY DEF IInv
<1>2. QED
  BY <1>1, Invariant, PTL

\* An account carries the plan of the last order committed, unless one of its
\* provisionings failed midway or met another one (marzban_ops.py).
THEOREM AccountMatches == Spec => []AccountMatchesLast
<1>1. IInv => AccountMatchesLast
  BY DEF IInv, AccountsFollow, Follows, AccountMatchesLast, Provisions
<1>2. QED
  BY <1>1, Invariant, PTL

\* The orders implement the lifecycle: every step of a moderator, a user or
\* the job is a move of OrderLifecycle or changes no status.
THEOREM LifecycleRefined == Spec => Order!Spec
<1>1. Init => Order!Init
  BY DEF Init, NewRow, Order!Init
<1>2. IInv /\ [Next]_vars => [Order!Next]_status
  BY StepRefines
<1>3. QED
  BY <1>1, <1>2, Invariant, PTL DEF Spec, Order!Spec, status
=============================================================================
