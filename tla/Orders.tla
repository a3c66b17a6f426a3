------------------------------- MODULE Orders -------------------------------
(***************************************************************************)
(* Orders, from /buy or a purchase to a provisioned account on the panel.  *)
(*                                                                         *)
(* Moderators, users and the worker's auto-cancel job act on the same rows *)
(* of table orders.  Approving is one transaction that is open across the  *)
(* three calls to the panel: the row is marked paid, the account is        *)
(* created, its expiry and its volume are set, and only then the order is  *)
(* committed as provisioned.  A step is one database statement, one panel  *)
(* call or one COMMIT; a row is locked from the UPDATE to the COMMIT.      *)
(***************************************************************************)
EXTENDS Integers, FiniteSets

CONSTANTS
  Orders,     \* primary keys of table orders
  Users,
  Owner,      \* the user of each order
  Plans,      \* primary keys of table plans
  Contents,   \* what a plan may grant: a volume and a duration
  Tasks,      \* updates being handled at the same time
  MaxEvents,  \* bound: updates, edits of plans and failures of the worker
  None

ASSUME OrdersAssumption ==
  /\ Owner \in [Orders -> Users]
  /\ MaxEvents \in Nat
  /\ None \notin Orders /\ None \notin Plans /\ None \notin Contents

VARIABLES
  plan,       \* table plans: the content of each plan, None if there is no row
  order,      \* table orders, committed
  account,    \* accounts on the panel: whose plan the expiry and the volume are
  pc,         \* the next statement or panel call of each task
  loc,        \* its local variables
  job,        \* the transaction of job_autocancel_orders
  events,     \* how many of those have happened
  last,       \* history: content of the last order committed as provisioned
  disturbed   \* history: a provisioning of the user failed or met another one

vars == <<plan, order, account, pc, loc, job, events, last, disturbed>>

Row     == [status: {"none", "pending", "provisioned", "failed", "cancelled"},
            plan: Plans \cup {None}, receipt: BOOLEAN, stale: BOOLEAN]
NewRow(status, p) == [status |-> status, plan |-> p, receipt |-> FALSE, stale |-> FALSE]
Blank   == [expire |-> None, limit |-> None]
NoLocals == [order |-> None, plan |-> None, content |-> None, held |-> FALSE]
JobIdle == [on |-> FALSE, due |-> {}, marked |-> {}]

PCs == {"idle", "approve_read", "attach_read", "create", "expire", "limit", "commit"}
Provisioning == {"create", "expire", "limit", "commit"}

TypeOK ==
  /\ plan \in [Plans -> Contents \cup {None}]
  /\ order \in [Orders -> Row]
  /\ account \in [Users -> [expire: Contents \cup {None}, limit: Contents \cup {None}]]
  /\ pc \in [Tasks -> PCs]
  /\ loc \in [Tasks -> [order: Orders \cup {None}, plan: Plans \cup {None},
                        content: Contents \cup {None}, held: BOOLEAN]]
  /\ job \in [on: BOOLEAN, due: SUBSET Orders, marked: SUBSET Orders]
  /\ events \in Nat
  /\ last \in [Users -> Contents \cup {None}]
  /\ disturbed \in [Users -> BOOLEAN]

Init ==
  /\ plan \in [Plans -> Contents \cup {None}]
  /\ order = [o \in Orders |-> NewRow("none", None)]
  /\ account = [u \in Users |-> Blank]
  /\ pc = [k \in Tasks |-> "idle"]
  /\ loc = [k \in Tasks |-> NoLocals]
  /\ job = JobIdle
  /\ events = 0
  /\ last = [u \in Users |-> None]
  /\ disturbed = [u \in Users |-> FALSE]

-----------------------------------------------------------------------------
\* The status cb_reject_order writes.
Unknown == "rejected"
RejectedStatus == "failed"

(* Row locks *)

HoldsOrder(k, o) == loc[k].order = o /\ pc[k] \in Provisioning

CanLock(k, o) ==
  /\ o \notin job.marked
  /\ \A j \in Tasks \ {k} : ~HoldsOrder(j, o)

\* A handler that locks and commits in one step, or the job.
Unlocked(o) == \A k \in Tasks : ~HoldsOrder(k, o)

-----------------------------------------------------------------------------
(* Conditions of the UPDATE statements *)

Exists(o) == order[o].status # "none"

\* WHERE status = 'pending' of the two moderation handlers.
AnyStatus(o) == Exists(o)
IsPending(o) == order[o].status = "pending"

\* WHERE status = 'pending' AND created_at < cutoff of the job.
Old(o) == Exists(o) /\ o \in job.due
Cancellable(o) == IsPending(o) /\ o \in job.due

-----------------------------------------------------------------------------
(* Steps the handlers share *)

Event == events < MaxEvents /\ events' = events + 1

Start(k, at, locals) ==
  /\ pc[k] = "idle" /\ Event
  /\ pc' = [pc EXCEPT ![k] = at]
  /\ loc' = [loc EXCEPT ![k] = locals]

Continue(k, from, to) ==
  /\ pc[k] = from
  /\ pc' = [pc EXCEPT ![k] = to]
  /\ UNCHANGED <<loc, events>>

\* The handler returns; what it did not commit is rolled back.
Return(k) ==
  /\ pc' = [pc EXCEPT ![k] = "idle"]
  /\ loc' = [loc EXCEPT ![k] = NoLocals]
  /\ UNCHANGED events

UserOf(k) == Owner[loc[k].order]

\* Somebody else is provisioning the same account.
Shared(k, u) == \E j \in Tasks \ {k} : pc[j] \in Provisioning /\ UserOf(j) = u

Disturb(u, if) == disturbed' = [disturbed EXCEPT ![u] = @ \/ if]

-----------------------------------------------------------------------------
(* Plans: the plan editor, the template sync, and deleting a plan, which   *)
(* detaches its orders first and so waits for their locks.                 *)

SetPlan(p, c) ==
  /\ plan[p] # c /\ Event
  /\ plan' = [plan EXCEPT ![p] = c]
  /\ UNCHANGED <<order, account, pc, loc, job, last, disturbed>>

DeletePlanOnly(p) ==
  /\ plan[p] # None /\ Event
  /\ plan' = [plan EXCEPT ![p] = None]
  /\ UNCHANGED <<order, account, pc, loc, job, last, disturbed>>
DeletePlan(p) ==
  /\ plan[p] # None /\ Event
  /\ \A o \in Orders : order[o].plan = p => Unlocked(o) /\ o \notin job.marked
  /\ \A k \in Tasks : ~(pc[k] \in Provisioning /\ loc[k].plan = p /\ loc[k].held)
  /\ plan' = [plan EXCEPT ![p] = None]
  /\ order' = [o \in Orders |->
                 IF order[o].plan = p THEN [order[o] EXCEPT !.plan = None] ELSE order[o]]
  /\ UNCHANGED <<account, pc, loc, job, last, disturbed>>

-----------------------------------------------------------------------------
(* The user's side *)

\* handle_buy
Buy(o, p) ==
  /\ ~Exists(o) /\ \A k \in Tasks : loc[k].order # o
  /\ plan[p] # None /\ Event
  /\ order' = [order EXCEPT ![o] = NewRow("pending", p)]
  /\ UNCHANGED <<plan, account, pc, loc, job, last, disturbed>>

\* handle_attach_media: the check for an earlier receipt, then the write.
AttachRead(k, o) ==
  /\ Exists(o) /\ ~order[o].receipt
  /\ Start(k, "attach_read", [NoLocals EXCEPT !.order = o])
  /\ UNCHANGED <<plan, order, account, job, last, disturbed>>

AttachCommit(k) ==
  /\ pc[k] = "attach_read" /\ CanLock(k, loc[k].order)
  /\ order' = [order EXCEPT ![loc[k].order].receipt = TRUE]
  /\ Return(k)
  /\ UNCHANGED <<plan, account, job, last, disturbed>>

\* cb_order_attach_confirm_replace
ClearReceipt(o) ==
  /\ Exists(o) /\ order[o].receipt /\ Unlocked(o) /\ o \notin job.marked /\ Event
  /\ order' = [order EXCEPT ![o].receipt = FALSE]
  /\ UNCHANGED <<plan, account, pc, loc, job, last, disturbed>>

-----------------------------------------------------------------------------
(* cb_approve_order, and the sales that are provisioned before their order *)
(* is committed: _do_purchase and the grants of the admin panel.           *)

\* The SELECT joins plans: an order without its plan is "not found".
ApproveRead(k, o) ==
  /\ Exists(o) /\ order[o].plan # None
  /\ Start(k, "approve_read", [order |-> o, plan |-> order[o].plan,
                               content |-> plan[order[o].plan], held |-> FALSE])
  /\ UNCHANGED <<plan, order, account, job, last, disturbed>>

ApproveMark(k) ==
  /\ pc[k] = "approve_read" /\ CanLock(k, loc[k].order)
  /\ IF IsPending(loc[k].order)
     THEN Continue(k, "approve_read", "create") /\ Disturb(UserOf(k), Shared(k, UserOf(k)))
     ELSE Return(k) /\ UNCHANGED disturbed
  /\ UNCHANGED <<plan, order, account, job, last>>

\* A purchase has inserted its order by now, which holds the plan's row; a
\* grant has only read the plan.
SellStart(k, o, p, purchase) ==
  /\ ~Exists(o) /\ \A j \in Tasks : loc[j].order # o
  /\ plan[p] # None
  /\ Start(k, "create", [order |-> o, plan |-> p, content |-> plan[p], held |-> purchase])
  /\ Disturb(Owner[o], Shared(k, Owner[o]))
  /\ UNCHANGED <<plan, order, account, job, last>>

\* A call to the panel, which may fail before or after its effect.
PanelCall(k, from, to, effect) ==
  /\ pc[k] = from
  /\ \/ /\ Continue(k, from, to) /\ account' = effect
        /\ UNCHANGED disturbed
     \/ /\ Return(k) /\ account' \in {account, effect}
        /\ Disturb(UserOf(k), TRUE)
  /\ UNCHANGED <<plan, order, job, last>>

\* create_user_minimal: an account that exists is left as it is.
Create(k) == PanelCall(k, "create", "expire", account)

\* update_user_limits: first the expiry, then the volume.
SetExpire(k) ==
  PanelCall(k, "expire", "limit", [account EXCEPT ![UserOf(k)].expire = loc[k].content])
SetLimitSkipped(k) == PanelCall(k, "limit", "commit", account)
SetLimit(k) ==
  PanelCall(k, "limit", "commit", [account EXCEPT ![UserOf(k)].limit = loc[k].content])

\* A grant whose plan is gone meanwhile cannot insert its order.
ProvisionCommit(k) ==
  LET o == loc[k].order
  IN  /\ pc[k] = "commit" /\ Return(k)
      /\ \/ /\ Exists(o) \/ plan[loc[k].plan] # None
            /\ order' = [order EXCEPT
                           ![o] = IF Exists(o)
                                  THEN [@ EXCEPT !.status = "provisioned"]
                                  ELSE NewRow("provisioned", loc[k].plan)]
            /\ last' = [last EXCEPT ![UserOf(k)] = loc[k].content]
            /\ UNCHANGED disturbed
         \/ /\ ~Exists(o) /\ plan[loc[k].plan] = None
            /\ Disturb(UserOf(k), TRUE)
            /\ UNCHANGED <<order, last>>
      /\ UNCHANGED <<plan, account, job>>

\* cb_reject_order
Reject(o) ==
  /\ IsPending(o) /\ Unlocked(o) /\ o \notin job.marked
  /\ order' = [order EXCEPT ![o].status = RejectedStatus]
  /\ UNCHANGED <<plan, account, pc, loc, job, events, last, disturbed>>

-----------------------------------------------------------------------------
(* job_autocancel_orders, once an hour in the worker *)

\* PENDING_ORDER_AUTOCANCEL_HOURS have passed since the order was made.
Age(o) ==
  /\ Exists(o) /\ ~order[o].stale
  /\ order' = [order EXCEPT ![o].stale = TRUE]
  /\ UNCHANGED <<plan, account, pc, loc, job, events, last, disturbed>>

JobStart ==
  /\ ~job.on
  /\ job' = [on |-> TRUE, due |-> {o \in Orders : order[o].stale}, marked |-> {}]
  /\ UNCHANGED <<plan, order, account, pc, loc, events, last, disturbed>>

\* The UPDATE comes to a row, when its lock is free.
JobMark(o) ==
  /\ job.on /\ Cancellable(o) /\ o \notin job.marked /\ Unlocked(o)
  /\ job' = [job EXCEPT !.marked = @ \cup {o}]
  /\ UNCHANGED <<plan, order, account, pc, loc, events, last, disturbed>>

\* notify_log, then COMMIT.
JobCommit ==
  /\ job.on /\ \A o \in Orders : Cancellable(o) => o \in job.marked
  /\ order' = [o \in Orders |->
                 IF o \in job.marked THEN [order[o] EXCEPT !.status = "cancelled"]
                                     ELSE order[o]]
  /\ job' = JobIdle
  /\ UNCHANGED <<plan, account, pc, loc, events, last, disturbed>>

-----------------------------------------------------------------------------
\* A handler loses its connection, waits too long for a lock, or the bot
\* stops: rollback.  What it did on the panel stays.
Abort(k) ==
  /\ pc[k] # "idle" /\ Return(k)
  /\ IF pc[k] \in Provisioning THEN Disturb(UserOf(k), TRUE) ELSE UNCHANGED disturbed
  /\ UNCHANGED <<plan, order, account, job, last>>

\* The worker's transaction fails, or the worker stops.
JobAbort ==
  /\ job.on /\ job' = JobIdle /\ Event
  /\ UNCHANGED <<plan, order, account, pc, loc, last, disturbed>>

Step(k) ==
  \/ AttachCommit(k) \/ ApproveMark(k) \/ Create(k) \/ SetExpire(k) \/ SetLimit(k)
  \/ ProvisionCommit(k)

JobStep == JobStart \/ JobCommit \/ \E o \in Orders : JobMark(o)

Next ==
  \/ \E p \in Plans : DeletePlan(p) \/ \E c \in Contents : SetPlan(p, c)
  \/ \E o \in Orders, p \in Plans : Buy(o, p)
  \/ \E o \in Orders : ClearReceipt(o) \/ Reject(o) \/ Age(o)
  \/ \E k \in Tasks, o \in Orders : AttachRead(k, o) \/ ApproveRead(k, o)
  \/ \E k \in Tasks, o \in Orders, p \in Plans, b \in BOOLEAN : SellStart(k, o, p, b)
  \/ \E k \in Tasks : Step(k) \/ Abort(k)
  \/ JobStep \/ JobAbort

Spec == Init /\ [][Next]_vars

\* The event loop runs the handlers it has started; hours pass; the worker
\* runs its job again and again.
FairSpec ==
  /\ Spec
  /\ \A k \in Tasks : WF_vars(Step(k))
  /\ WF_vars(JobStart) /\ WF_vars(JobCommit)
  /\ \A o \in Orders : WF_vars(Age(o)) /\ WF_vars(JobMark(o))

-----------------------------------------------------------------------------
(* Properties *)

\* The orders do what OrderLifecycle promises: one decision each, final, and
\* in the end always one - moderators, users and the job together.
Order == INSTANCE OrderLifecycle WITH status <- [o \in Orders |-> order[o].status]
Lifecycle == Order!FairSpec

\* While an account is being provisioned for an order nobody else decides
\* about that order or provisions for it: the row lock spans the panel calls.
WorkIsExclusive ==
  \A k \in Tasks : pc[k] \in Provisioning =>
    LET o == loc[k].order
    IN  /\ order[o].status \in {"none", "pending"} /\ o \notin job.marked
        /\ \A j \in Tasks \ {k} : ~HoldsOrder(j, o)

\* An account carries expiry and volume of one plan, that of the last order
\* committed, unless a provisioning failed midway or met another one.
AccountMatchesLast ==
  \A u \in Users :
    ~disturbed[u] /\ (\A k \in Tasks : ~(pc[k] \in Provisioning /\ UserOf(k) = u))
      => account[u] = [expire |-> last[u], limit |-> last[u]]

\* No order points to a plan that has been deleted, although sales and
\* approvals are in flight while an admin deletes it.
PlansExist ==
  \A o \in Orders : order[o].plan # None => plan[order[o].plan] # None
=============================================================================
