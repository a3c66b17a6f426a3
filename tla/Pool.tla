-------------------------------- MODULE Pool --------------------------------
(***************************************************************************)
(* The bot's connections to the database.  A session takes a connection    *)
(* with its first statement and keeps it to its commit, rollback or close; *)
(* the pool makes a session wait while all are taken, and gives up after a *)
(* while.  The ban gate asks with a session of its own before a handler.   *)
(*                                                                         *)
(* Handlers differ in what they do while they have a connection: "write"   *)
(* changes a user's row and commits, "ask" opens a second session inside   *)
(* its own to store an intent, "buy" does so twice, the second time with   *)
(* the user's row locked, and clears its intents in sessions of their own  *)
(* afterwards.  The worker's notification job has connections of its own,  *)
(* but locks the same rows, one after the other until it commits.          *)
(***************************************************************************)
EXTENDS Integers, FiniteSets

CONSTANTS
  Conns,    \* the connections: pool_size + max_overflow of the engine
  Tasks,    \* updates being served at the same time
  Users,    \* rows of table users
  Intents,  \* intents a purchase clears when it is done
  Job,      \* the notification job of the worker
  None

ASSUME PoolAssumption ==
  /\ Conns # {} /\ Users # {} /\ Job \notin Tasks
  /\ None \notin Tasks \cup Conns \cup Users \cup {Job}
  /\ Intents \in Nat

VARIABLES
  free,    \* connections in the pool
  task,    \* where each update is: pc, the handler, whose row, intents left
  main,    \* the connection of its session
  second,  \* that of the session inside it, or of a gate
  lock,    \* who has a user's row locked
  wanted   \* the row the job is about to change

vars == <<free, task, main, second, lock, wanted>>

Kinds == {"write", "ask", "buy"}
PCs == {"idle", "gate", "gated", "begin", "reading", "nested", "priced", "locked",
        "named", "selling", "working", "clear", "clearing", "closing"}

NewTask == [pc |-> "idle", kind |-> "ask", user |-> CHOOSE u \in Users : TRUE, left |-> 0]

TypeOK ==
  /\ free \in SUBSET Conns
  /\ task \in [Tasks -> [pc: PCs, kind: Kinds, user: Users, left: 0..Intents]]
  /\ main \in [Tasks -> Conns \cup {None}]
  /\ second \in [Tasks -> Conns \cup {None}]
  /\ lock \in [Users -> Tasks \cup {Job, None}]
  /\ wanted \in Users \cup {None}

Init ==
  /\ free = Conns
  /\ task = [k \in Tasks |-> NewTask]
  /\ main = [k \in Tasks |-> None]
  /\ second = [k \in Tasks |-> None]
  /\ lock = [u \in Users |-> None]
  /\ wanted = None

-----------------------------------------------------------------------------
(* Sessions *)

At(k, pc) == task[k].pc = pc
Goes(k, pc) == task' = [task EXCEPT ![k].pc = pc]

\* One connection is as good as another.
Any == CHOOSE c \in free : TRUE
TakeMain(k) ==
  /\ free # {}
  /\ free' = free \ {Any}
  /\ main' = [main EXCEPT ![k] = Any]
  /\ UNCHANGED second
TakeSecond(k) ==
  /\ free # {}
  /\ free' = free \ {Any}
  /\ second' = [second EXCEPT ![k] = Any]
  /\ UNCHANGED main
GiveSecond(k) ==
  /\ free' = free \cup {second[k]}
  /\ second' = [second EXCEPT ![k] = None]
  /\ UNCHANGED main
GiveMain(k) ==
  /\ free' = free \cup {main[k]}
  /\ main' = [main EXCEPT ![k] = None]
  /\ UNCHANGED second

RowsOf(k) == {u \in Users : lock[u] = k}
Unlock(k) == lock' = [u \in Users |-> IF u \in RowsOf(k) THEN None ELSE lock[u]]

\* The handler returns, or an error leaves it: its session is closed, what it
\* has not committed is rolled back.
Return(k) ==
  /\ task' = [task EXCEPT ![k] = NewTask]
  /\ free' = free \cup ({main[k]} \ {None})
  /\ main' = [main EXCEPT ![k] = None]
  /\ Unlock(k)
  /\ UNCHANGED second

\* Waiting for a connection, at the first statement of a session.
InnerWait(k) == \/ At(k, "reading") /\ task[k].kind # "write"
                \/ At(k, "locked")
OuterWait(k) == \/ task[k].pc \in {"gate", "begin"}
                \/ At(k, "clear") /\ task[k].left > 0
\* Waiting for a row.
RowWait(k) == \/ At(k, "reading") /\ task[k].kind = "write"
              \/ At(k, "priced")

-----------------------------------------------------------------------------
(* An update arrives and passes the ban gate, whose cache may know the answer. *)

Start(k) ==
  /\ At(k, "idle")
  /\ \E kind \in Kinds, u \in Users, pc \in {"gate", "begin"} :
       /\ kind = "ask" => u = NewTask.user
       /\ task' = [task EXCEPT ![k] = [pc |-> pc, kind |-> kind, user |-> u, left |-> 0]]
  /\ UNCHANGED <<free, main, second, lock, wanted>>

GateTake(k) ==
  /\ At(k, "gate")
  /\ TakeSecond(k) /\ Goes(k, "gated")
  /\ UNCHANGED <<lock, wanted>>
\* Wrong: the gate's session is still open when the handler runs.
GateKept(k) ==
  /\ At(k, "gated")
  /\ Goes(k, "begin")
  /\ UNCHANGED <<free, main, second, lock, wanted>>
GateGive(k) ==
  /\ At(k, "gated")
  /\ GiveSecond(k) /\ Goes(k, "begin")
  /\ UNCHANGED <<lock, wanted>>

\* The first statement of the handler.
Open(k) ==
  /\ At(k, "begin")
  /\ TakeMain(k) /\ Goes(k, "reading")
  /\ UNCHANGED <<lock, wanted>>

-----------------------------------------------------------------------------
(* "ask": set_intent_json inside the handler's session *)

\* A purchase reads its mode first, and its service or name once the row is
\* locked.
InnerTake(k) ==
  /\ InnerWait(k)
  /\ TakeSecond(k)
  /\ Goes(k, IF At(k, "reading") THEN "nested" ELSE "named")
  /\ UNCHANGED <<lock, wanted>>
InnerGive(k) ==
  /\ task[k].pc \in {"nested", "named"}
  /\ GiveSecond(k)
  /\ Goes(k, CASE At(k, "named") -> "selling"
               [] At(k, "nested") /\ task[k].kind = "buy" -> "priced"
               [] OTHER -> "closing")
  /\ UNCHANGED <<lock, wanted>>

Close(k) ==
  /\ At(k, "closing")
  /\ Return(k)
  /\ UNCHANGED wanted

-----------------------------------------------------------------------------
(* "write" and "buy": the row is locked by the UPDATE, until the commit *)

LockRow(k) ==
  /\ RowWait(k) /\ lock[task[k].user] = None
  /\ lock' = [lock EXCEPT ![task[k].user] = k]
  /\ Goes(k, IF At(k, "priced") THEN "locked" ELSE "working")
  /\ UNCHANGED <<free, main, second, wanted>>

Commit(k) ==
  /\ At(k, "working")
  /\ Return(k)
  /\ UNCHANGED wanted

\* Wrong: the connection is kept until the handler leaves its session.
SellKeepingMain(k) ==
  /\ At(k, "selling")
  /\ task' = [task EXCEPT ![k] = [NewTask EXCEPT !.pc = "clear", !.left = Intents]]
  /\ Unlock(k)
  /\ UNCHANGED <<free, main, second, wanted>>
\* The panel has provisioned; the commit gives the connection back while the
\* handler is still in its session.
Sell(k) ==
  /\ At(k, "selling")
  /\ task' = [task EXCEPT ![k] = [NewTask EXCEPT !.pc = "clear", !.left = Intents]]
  /\ GiveMain(k) /\ Unlock(k)
  /\ UNCHANGED wanted
\* The panel has not.
SellFails(k) ==
  /\ At(k, "selling")
  /\ Return(k)
  /\ UNCHANGED wanted

\* Wrong: one intent too many.
ClearOnceMore(k) ==
  /\ At(k, "clear")
  /\ TakeSecond(k) /\ Goes(k, "clearing")
  /\ UNCHANGED <<lock, wanted>>
ClearTake(k) ==
  /\ At(k, "clear") /\ task[k].left > 0
  /\ TakeSecond(k) /\ Goes(k, "clearing")
  /\ UNCHANGED <<lock, wanted>>
ClearGive(k) ==
  /\ At(k, "clearing")
  /\ GiveSecond(k)
  /\ task' = [task EXCEPT ![k].pc = "clear", ![k].left = @ - 1]
  /\ UNCHANGED <<lock, wanted>>
Cleared(k) ==
  /\ At(k, "clear") /\ task[k].left = 0
  /\ Return(k)
  /\ UNCHANGED wanted

-----------------------------------------------------------------------------
(* Nobody waits for ever *)

\* Wrong: no timeout.
WaitForEver(k) == FALSE /\ UNCHANGED vars
\* The pool's timeout: the gate lets nobody through without an answer, every
\* handler ends; errors of clearing intents are swallowed, with those left.
PoolTimeout(k) ==
  /\ InnerWait(k) \/ OuterWait(k)
  /\ free = {}
  /\ Return(k)
  /\ UNCHANGED wanted

\* Lock wait timeout, or the victim of a deadlock.
LockError(k) ==
  /\ RowWait(k) /\ lock[task[k].user] # None
  /\ Return(k)
  /\ UNCHANGED wanted

-----------------------------------------------------------------------------
(* The notification job: flushes user after user, asks the panel in between *)

JobWant ==
  /\ wanted = None
  /\ \E u \in Users : lock[u] # Job /\ wanted' = u
  /\ UNCHANGED <<free, task, main, second, lock>>
JobLock ==
  /\ wanted # None /\ lock[wanted] = None
  /\ lock' = [lock EXCEPT ![wanted] = Job]
  /\ wanted' = None
  /\ UNCHANGED <<free, task, main, second>>
\* Its commit, or an error that ends the run.
JobEnd ==
  /\ \/ wanted = None
     \/ wanted # None /\ lock[wanted] # None
  /\ RowsOf(Job) # {} \/ wanted # None
  /\ Unlock(Job)
  /\ wanted' = None
  /\ UNCHANGED <<free, task, main, second>>

-----------------------------------------------------------------------------
Step(k) ==
  \/ GateTake(k) \/ GateGive(k) \/ Open(k) \/ InnerTake(k) \/ InnerGive(k) \/ Close(k)
  \/ LockRow(k) \/ Commit(k) \/ Sell(k) \/ SellFails(k)
  \/ ClearTake(k) \/ ClearGive(k) \/ Cleared(k) \/ PoolTimeout(k) \/ LockError(k)

Next ==
  \/ \E k \in Tasks : Start(k) \/ Step(k)
  \/ JobWant \/ JobLock \/ JobEnd

Spec == Init /\ [][Next]_vars

\* Statements, HTTP calls and waits end, by their result or their timeout.
FairSpec == Spec /\ \A k \in Tasks : WF_vars(Step(k))

-----------------------------------------------------------------------------
(* Properties *)

Held(k) == {main[k], second[k]} \ {None}

\* Every connection is in the pool or with exactly one session, and an update
\* that has been served keeps none: no error path of session_scope loses one.
NoConnectionLost ==
  /\ Conns = free \cup UNION {Held(k) : k \in Tasks}
  /\ \A k \in Tasks : /\ Held(k) \cap free = {}
                      /\ main[k] = second[k] => main[k] = None
                      /\ At(k, "idle") => Held(k) = {}
  /\ \A j, k \in Tasks : j # k => Held(j) \cap Held(k) = {}

\* Nothing but a timeout can help the updates under way.
JobStuck == wanted # None /\ lock[wanted] # None
Blocked(k) == \/ (InnerWait(k) \/ OuterWait(k)) /\ free = {}
              \/ RowWait(k) /\ lock[task[k].user] # None
Stalled ==
  /\ \E k \in Tasks : ~At(k, "idle")
  /\ \A k \in Tasks : At(k, "idle") \/ Blocked(k)
  /\ RowsOf(Job) # {} => JobStuck

\* The bot stalls only if some update wants a second connection while it has
\* one (set_intent_json and get_intent_json inside session_scope): gates, row
\* locks, the job's included, and committed purchases alone never do it.  All
\* connections are then with updates that wait like this or for a row.
StallNeedsNesting ==
  Stalled =>
    /\ free = {}
    /\ \E k \in Tasks : InnerWait(k)
    /\ \A k \in Tasks : main[k] # None => InnerWait(k) \/ RowWait(k)
    /\ \A k \in Tasks : second[k] = None

\* An update is served or given up in the end; any one, because the model does
\* not tell them apart.
UpdatesEnd == LET k == CHOOSE t \in Tasks : TRUE IN ~At(k, "idle") ~> At(k, "idle")
=============================================================================
