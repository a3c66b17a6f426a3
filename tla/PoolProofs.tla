----------------------------- MODULE PoolProofs -----------------------------
(***************************************************************************)
(* Proofs about Pool: connections are neither lost nor shared, and what    *)
(* the bot looks like when it stalls, for any number of connections,       *)
(* updates and users.                                                      *)
(***************************************************************************)
EXTENDS Pool, TLAPS

(***************************************************************************)
(* The inductive invariant says which sessions an update has open at each  *)
(* point, that the connections of all of them and the free ones are a      *)
(* partition of the pool, and who can have a row locked.                   *)
(***************************************************************************)

\* Where an update has the connection of its own session, of one more session,
\* and a row.
WithMain   == {"reading", "nested", "priced", "locked", "named", "selling", "working", "closing"}
WithSecond == {"gated", "nested", "named", "clearing"}
WithRow    == {"locked", "named", "selling", "working"}

SessionsOK ==
  \A k \in Tasks : /\ main[k] # None <=> task[k].pc \in WithMain
                   /\ second[k] # None <=> task[k].pc \in WithSecond

\* An intent is being cleared only while one is left.
ClearingOK == \A k \in Tasks : task[k].pc = "clearing" => task[k].left > 0

\* NoConnectionLost, connection by connection.
Partition ==
  /\ \A c \in Conns : c \in free \/ \E k \in Tasks : main[k] = c \/ second[k] = c
  /\ \A k \in Tasks : /\ main[k] \notin free /\ second[k] \notin free
                      /\ main[k] # None => main[k] # second[k]
  /\ \A j, k \in Tasks : j # k =>
       /\ main[j] # None => main[j] # main[k] /\ main[j] # second[k]
       /\ second[j] # None => second[j] # second[k]

\* A row is locked by an update that is going to commit, or by the job, which
\* never waits for a row it has.
RowsOK ==
  /\ \A u \in Users : lock[u] \in Tasks => task[lock[u]].pc \in WithRow
  /\ wanted # None => lock[wanted] # Job

IInv == TypeOK /\ SessionsOK /\ ClearingOK /\ Partition /\ RowsOK

-----------------------------------------------------------------------------
(* Sessions: what taking and giving back a connection keeps *)

ConnsOK ==
  /\ free \in SUBSET Conns
  /\ main \in [Tasks -> Conns \cup {None}]
  /\ second \in [Tasks -> Conns \cup {None}]
  /\ Partition

\* The session of an update gets a free connection.
LEMMA TakeMainKeeps ==
  ASSUME TypeOK, Partition, NEW k \in Tasks, main[k] = None, TakeMain(k)
  PROVE  /\ ConnsOK' /\ main'[k] # None /\ second' = second
         /\ \A j \in Tasks \ {k} : main'[j] = main[j]
<1>1. Any \in free
  BY DEF TakeMain, Any
<1>2. /\ free' = free \ {Any} /\ main' = [main EXCEPT ![k] = Any] /\ second' = second
  BY DEF TakeMain
<1> HIDE DEF Any
<1>3. QED
  BY <1>1, <1>2, PoolAssumption DEF TypeOK, Partition, ConnsOK

\* The session inside it does.
LEMMA TakeSecondKeeps ==
  ASSUME TypeOK, Partition, NEW k \in Tasks, second[k] = None, TakeSecond(k)
  PROVE  /\ ConnsOK' /\ second'[k] # None /\ main' = main
         /\ \A j \in Tasks \ {k} : second'[j] = second[j]
<1>1. Any \in free
  BY DEF TakeSecond, Any
<1>2. /\ free' = free \ {Any} /\ second' = [second EXCEPT ![k] = Any] /\ main' = main
  BY DEF TakeSecond
<1> HIDE DEF Any
<1>3. QED
  BY <1>1, <1>2, PoolAssumption DEF TypeOK, Partition, ConnsOK

\* A connection that is given back was nobody else's.
LEMMA GiveSecondKeeps ==
  ASSUME TypeOK, Partition, NEW k \in Tasks, second[k] # None, GiveSecond(k)
  PROVE  /\ ConnsOK' /\ second'[k] = None /\ main' = main
         /\ \A j \in Tasks \ {k} : second'[j] = second[j]
  BY PoolAssumption DEF TypeOK, Partition, ConnsOK, GiveSecond

\* A commit gives back the one of the session.
LEMMA GiveMainKeeps ==
  ASSUME TypeOK, Partition, NEW k \in Tasks, main[k] # None, GiveMain(k)
  PROVE  /\ ConnsOK' /\ main'[k] = None /\ second' = second
         /\ \A j \in Tasks \ {k} : main'[j] = main[j]
  BY PoolAssumption DEF TypeOK, Partition, ConnsOK, GiveMain

\* An update goes on to a point that fits the sessions it has by then.
LEMMA GoesKeeps ==
  ASSUME TypeOK, SessionsOK, ClearingOK, ConnsOK', NEW k \in Tasks, NEW to \in PCs, Goes(k, to),
         UNCHANGED <<lock, wanted>>,
         \A j \in Tasks \ {k} : main'[j] = main[j] /\ second'[j] = second[j],
         main'[k] # None <=> to \in WithMain, second'[k] # None <=> to \in WithSecond,
         to = "clearing" => task[k].left > 0
  PROVE  TypeOK' /\ SessionsOK' /\ ClearingOK' /\ Partition'
<1>1. /\ \A j \in Tasks \ {k} : task'[j] = task[j]
      /\ task'[k].pc = to /\ task'[k].left = task[k].left
      /\ task' \in [Tasks -> [pc: PCs, kind: Kinds, user: Users, left: 0..Intents]]
  BY DEF TypeOK, Goes
<1>2. SessionsOK' /\ ClearingOK'
  BY <1>1 DEF SessionsOK, ClearingOK
<1>3. QED
  BY <1>1, <1>2 DEF TypeOK, ConnsOK

\* The placeholder of an update that is over.
LEMMA NewTaskType ==
  NewTask \in [pc: PCs, kind: Kinds, user: Users, left: 0..Intents] /\ NewTask.pc = "idle"
  BY PoolAssumption DEF NewTask, PCs, Kinds

\* A handler that returns gives back what its session has, and its rows.
LEMMA ReturnKeeps ==
  ASSUME TypeOK, SessionsOK, ClearingOK, Partition, NEW k \in Tasks,
         task[k].pc \notin WithSecond, Return(k), wanted' = wanted
  PROVE  TypeOK' /\ SessionsOK' /\ ClearingOK' /\ Partition'
<1>1. second[k] = None
  BY DEF SessionsOK
<1>2. free' \in SUBSET Conns /\ main' \in [Tasks -> Conns \cup {None}] /\ second' = second
  BY PoolAssumption DEF TypeOK, Return
<1>3. task' = [task EXCEPT ![k] = NewTask] /\ task' \in [Tasks -> [pc: PCs, kind: Kinds,
                                                        user: Users, left: 0..Intents]]
  BY NewTaskType DEF TypeOK, Return
<1>4. lock' \in [Users -> Tasks \cup {Job, None}]
  BY DEF TypeOK, Return, Unlock
<1>5. Partition'
  <2>1. CASE main[k] = None
    BY <2>1, PoolAssumption DEF TypeOK, Partition, Return
  <2>2. CASE main[k] # None
    <3>1. GiveMain(k)
      BY <2>2 DEF Return, GiveMain
    <3>2. QED
      BY <2>2, <3>1, GiveMainKeeps DEF ConnsOK
  <2>3. QED
    BY <2>1, <2>2
<1>6. SessionsOK' /\ ClearingOK'
  <2>1. main' = [main EXCEPT ![k] = None]
    BY DEF Return
  <2>2. QED
    BY <1>1, <1>2, <1>3, <2>1, NewTaskType
       DEF TypeOK, SessionsOK, ClearingOK, WithMain, WithSecond
<1>7. QED
  BY <1>2, <1>3, <1>4, <1>5, <1>6 DEF TypeOK

\* Sessions and connections, step by step.
LEMMA SessionStep ==
  ASSUME TypeOK, SessionsOK, ClearingOK, Partition, [Next]_vars
  PROVE  TypeOK' /\ SessionsOK' /\ ClearingOK' /\ Partition'
<1> DEFINE Kept == TypeOK' /\ SessionsOK' /\ ClearingOK' /\ Partition'
<1> USE PoolAssumption DEF At, Goes, PCs, Kinds, WithMain, WithSecond
<1>1. ASSUME NEW k \in Tasks, Start(k) PROVE Kept
  <2>1. PICK kind \in Kinds, u \in Users, pc \in {"gate", "begin"} :
          task' = [task EXCEPT ![k] = [pc |-> pc, kind |-> kind, user |-> u, left |-> 0]]
    BY <1>1 DEF Start
  <2>2. UNCHANGED <<free, main, second, lock, wanted>> /\ task[k].pc = "idle"
    BY <1>1 DEF Start
  <2>3. QED
    BY <2>1, <2>2 DEF TypeOK, SessionsOK, ClearingOK, Partition
<1>2. ASSUME NEW k \in Tasks, GateTake(k) PROVE Kept
  BY <1>2, TakeSecondKeeps, GoesKeeps DEF GateTake, SessionsOK
<1>3. ASSUME NEW k \in Tasks, GateGive(k) PROVE Kept
  BY <1>3, GiveSecondKeeps, GoesKeeps DEF GateGive, SessionsOK
<1>4. ASSUME NEW k \in Tasks, Open(k) PROVE Kept
  BY <1>4, TakeMainKeeps, GoesKeeps DEF Open, SessionsOK
<1>5. ASSUME NEW k \in Tasks, InnerTake(k) PROVE Kept
  <2>1. /\ ConnsOK' /\ second'[k] # None /\ main' = main
        /\ \A j \in Tasks \ {k} : second'[j] = second[j]
    BY <1>5, TakeSecondKeeps DEF InnerTake, InnerWait, SessionsOK
  <2>2. \/ task[k].pc = "reading" /\ Goes(k, "nested")
        \/ task[k].pc = "locked" /\ Goes(k, "named")
    BY <1>5 DEF InnerTake, InnerWait
  <2>3. QED
    BY <1>5, <2>1, <2>2, GoesKeeps DEF InnerTake, SessionsOK
<1>6. ASSUME NEW k \in Tasks, InnerGive(k) PROVE Kept
  <2>1. /\ ConnsOK' /\ second'[k] = None /\ main' = main
        /\ \A j \in Tasks \ {k} : second'[j] = second[j]
    BY <1>6, GiveSecondKeeps DEF InnerGive, SessionsOK
  <2>2. PICK to \in {"selling", "priced", "closing"} : Goes(k, to)
    BY <1>6 DEF InnerGive
  <2>3. QED
    BY <1>6, <2>1, <2>2, GoesKeeps DEF InnerGive, SessionsOK
<1>7. ASSUME NEW k \in Tasks, Close(k) PROVE Kept
  BY <1>7, ReturnKeeps DEF Close
<1>8. ASSUME NEW k \in Tasks, LockRow(k) PROVE Kept
  BY <1>8 DEF LockRow, RowWait, TypeOK, SessionsOK, ClearingOK, Partition
<1>9. ASSUME NEW k \in Tasks, Commit(k) PROVE Kept
  BY <1>9, ReturnKeeps DEF Commit
<1>10. ASSUME NEW k \in Tasks, Sell(k) PROVE Kept
  <2>1. task[k].pc = "selling" /\ main[k] # None
    BY <1>10 DEF Sell, SessionsOK
  <2>2. ConnsOK' /\ main'[k] = None /\ second' = second
    BY <1>10, <2>1, GiveMainKeeps DEF Sell
  <2>3. main' = [main EXCEPT ![k] = None]
    BY <1>10 DEF Sell, GiveMain
  <2>4. lock' \in [Users -> Tasks \cup {Job, None}] /\ wanted' = wanted
    BY <1>10 DEF Sell, Unlock, TypeOK
  <2>5. /\ [NewTask EXCEPT !.pc = "clear", !.left = Intents]
             \in [pc: PCs, kind: Kinds, user: Users, left: 0..Intents]
        /\ [NewTask EXCEPT !.pc = "clear", !.left = Intents].pc = "clear"
    <3>1. NewTask \in [pc: PCs, kind: Kinds, user: Users, left: 0..Intents]
      BY NewTaskType
    <3>2. Intents \in 0..Intents /\ "clear" \in PCs
      OBVIOUS
    <3>3. [NewTask EXCEPT !.pc = "clear", !.left = Intents]
            \in [pc: PCs, kind: Kinds, user: Users, left: 0..Intents]
      BY <3>1, <3>2, Zenon
    <3>4. [NewTask EXCEPT !.pc = "clear", !.left = Intents].pc = "clear"
      BY <3>1
    <3>5. QED
      BY <3>3, <3>4
  <2>6. task' = [task EXCEPT ![k] = [NewTask EXCEPT !.pc = "clear", !.left = Intents]]
    BY <1>10 DEF Sell
  <2>7. QED
    BY <2>1, <2>2, <2>3, <2>4, <2>5, <2>6 DEF TypeOK, SessionsOK, ClearingOK, ConnsOK
<1>11. ASSUME NEW k \in Tasks, SellFails(k) PROVE Kept
  BY <1>11, ReturnKeeps DEF SellFails
<1>12. ASSUME NEW k \in Tasks, ClearTake(k) PROVE Kept
  BY <1>12, TakeSecondKeeps, GoesKeeps DEF ClearTake, SessionsOK
<1>13. ASSUME NEW k \in Tasks, ClearGive(k) PROVE Kept
  <2>1. ConnsOK' /\ second'[k] = None /\ main' = main
    BY <1>13, GiveSecondKeeps DEF ClearGive, SessionsOK
  <2>2. task[k].left \in 1..Intents
    BY <1>13 DEF ClearGive, ClearingOK, TypeOK
  <2>3. task' = [task EXCEPT ![k] = [task[k] EXCEPT !.pc = "clear", !.left = @ - 1]]
    BY <1>13 DEF ClearGive, TypeOK
  <2>4. second' = [second EXCEPT ![k] = None] /\ lock' = lock /\ wanted' = wanted
    BY <1>13 DEF ClearGive, GiveSecond
  <2>5. [task[k] EXCEPT !.pc = "clear", !.left = @ - 1]
          \in [pc: PCs, kind: Kinds, user: Users, left: 0..Intents]
    <3>1. task[k] \in [pc: PCs, kind: Kinds, user: Users, left: 0..Intents]
      BY DEF TypeOK
    <3>2. task[k].left - 1 \in 0..Intents /\ "clear" \in PCs
      BY <2>2
    <3>3. QED
      BY <3>1, <3>2, Zenon
  <2>6. QED
    BY <1>13, <2>1, <2>3, <2>4, <2>5 DEF ClearGive, TypeOK, SessionsOK, ClearingOK, ConnsOK
<1>14. ASSUME NEW k \in Tasks, Cleared(k) PROVE Kept
  BY <1>14, ReturnKeeps DEF Cleared
<1>15. ASSUME NEW k \in Tasks, PoolTimeout(k) PROVE Kept
  BY <1>15, ReturnKeeps DEF PoolTimeout, InnerWait, OuterWait
<1>16. ASSUME NEW k \in Tasks, LockError(k) PROVE Kept
  BY <1>16, ReturnKeeps DEF LockError, RowWait
<1>17. CASE JobWant
  BY <1>17 DEF JobWant, TypeOK, SessionsOK, ClearingOK, Partition
<1>18. CASE JobLock
  BY <1>18 DEF JobLock, TypeOK, SessionsOK, ClearingOK, Partition
<1>19. CASE JobEnd
  BY <1>19 DEF JobEnd, Unlock, TypeOK, SessionsOK, ClearingOK, Partition
<1>20. CASE UNCHANGED vars
  BY <1>20 DEF vars, TypeOK, SessionsOK, ClearingOK, Partition
<1>21. QED
  BY <1>1, <1>2, <1>3, <1>4, <1>5, <1>6, <1>7, <1>8, <1>9, <1>10, <1>11, <1>12, <1>13, <1>14,
     <1>15, <1>16, <1>17, <1>18, <1>19, <1>20 DEF Next, Step

-----------------------------------------------------------------------------
(* Rows *)

\* An update loses its rows when it leaves the points where it may have one,
\* and rows of others stay as they are.
LEMMA RowStep ==
  ASSUME TypeOK, RowsOK, [Next]_vars
  PROVE  RowsOK'
<1> USE PoolAssumption DEF At, Goes, WithRow, TypeOK, RowsOK
<1>1. ASSUME NEW k \in Tasks, Return(k), wanted' = wanted PROVE RowsOK'
  BY <1>1 DEF Return, Unlock, RowsOf
<1>2. ASSUME NEW k \in Tasks, task[k].pc \notin WithRow, lock' = lock, wanted' = wanted,
             \A j \in Tasks \ {k} : task'[j] = task[j]
      PROVE  RowsOK'
  BY <1>2
<1>3. ASSUME NEW k \in Tasks, Start(k) PROVE RowsOK'
  BY <1>2, <1>3 DEF Start
<1>4. ASSUME NEW k \in Tasks, GateTake(k) \/ GateGive(k) \/ Open(k) \/ ClearTake(k) \/ ClearGive(k)
      PROVE  RowsOK'
  BY <1>2, <1>4 DEF GateTake, GateGive, Open, ClearTake, ClearGive
<1>5. ASSUME NEW k \in Tasks, InnerTake(k) PROVE RowsOK'
  BY <1>5 DEF InnerTake, InnerWait
<1>6. ASSUME NEW k \in Tasks, InnerGive(k) PROVE RowsOK'
  BY <1>6 DEF InnerGive
<1>7. ASSUME NEW k \in Tasks, LockRow(k) PROVE RowsOK'
  BY <1>7 DEF LockRow, RowWait
<1>8. ASSUME NEW k \in Tasks, Sell(k) PROVE RowsOK'
  BY <1>8 DEF Sell, Unlock, RowsOf
<1>9. ASSUME NEW k \in Tasks, Close(k) \/ Commit(k) \/ SellFails(k) \/ Cleared(k)
                              \/ PoolTimeout(k) \/ LockError(k)
      PROVE  RowsOK'
  BY <1>1, <1>9 DEF Close, Commit, SellFails, Cleared, PoolTimeout, LockError
<1>10. CASE JobWant
  BY <1>10 DEF JobWant
<1>11. CASE JobLock
  BY <1>11 DEF JobLock
<1>12. CASE JobEnd
  BY <1>12 DEF JobEnd, Unlock, RowsOf
<1>13. CASE UNCHANGED vars
  BY <1>13 DEF vars
<1>14. QED
  BY <1>3, <1>4, <1>5, <1>6, <1>7, <1>8, <1>9, <1>10, <1>11, <1>12, <1>13 DEF Next, Step

-----------------------------------------------------------------------------
(* Results *)

\* All connections are free and nobody is served at first.
LEMMA InitIInv == Init => IInv
  BY PoolAssumption, NewTaskType
     DEF Init, IInv, TypeOK, SessionsOK, ClearingOK, Partition, RowsOK, WithMain, WithSecond

\* The invariant holds in every reachable state: connections and rows are
\* where the point an update has reached says they are.
THEOREM Invariant == Spec => []IInv
<1>1. Init => IInv
  BY InitIInv
<1>2. IInv /\ [Next]_vars => IInv'
  BY SessionStep, RowStep DEF IInv
<1>3. QED
  BY <1>1, <1>2, PTL DEF Spec

\* The pool, the updates and the locks keep their types.
THEOREM TypeCorrect == Spec => []TypeOK
<1>1. IInv => TypeOK
  BY DEF IInv
<1>2. QED
  BY <1>1, Invariant, PTL

\* No path through any handler loses a connection or gives it to two sessions.
THEOREM ConnectionsKept == Spec => []NoConnectionLost
<1>1. IInv => NoConnectionLost
  <2> SUFFICES ASSUME IInv PROVE NoConnectionLost
    OBVIOUS
  <2> USE PoolAssumption DEF IInv, TypeOK, Partition, Held
  <2>1. Conns = free \cup UNION {Held(k) : k \in Tasks}
    OBVIOUS
  <2>2. ASSUME NEW k \in Tasks
        PROVE  /\ Held(k) \cap free = {}
               /\ main[k] = second[k] => main[k] = None
               /\ At(k, "idle") => Held(k) = {}
    BY DEF SessionsOK, WithMain, WithSecond, At
  <2>3. ASSUME NEW j \in Tasks, NEW k \in Tasks, j # k PROVE Held(j) \cap Held(k) = {}
    BY <2>3
  <2>4. QED
    BY <2>1, <2>2, <2>3 DEF NoConnectionLost
<1>2. QED
  BY <1>1, Invariant, PTL

\* If everybody waits, every row somebody waits for is with an update that
\* waits for a second connection: the job and the holders of rows that do not
\* nest sessions go on.
LEMMA RowHolderNests ==
  ASSUME IInv, Stalled, NEW u \in Users, lock[u] # None,
         lock[u] = Job => JobStuck
  PROVE  \E k \in Tasks : InnerWait(k) /\ free = {}
<1> USE PoolAssumption DEF IInv, TypeOK
<1>1. ASSUME NEW v \in Users, lock[v] \in Tasks
      PROVE  InnerWait(lock[v]) /\ free = {}
  BY <1>1 DEF Stalled, RowsOK, WithRow, Blocked, At, InnerWait, OuterWait, RowWait
<1>2. CASE lock[u] \in Tasks
  BY <1>1, <1>2
<1>3. CASE lock[u] = Job
  <2>1. wanted \in Users /\ lock[wanted] \in Tasks
    BY <1>3 DEF JobStuck, RowsOK
  <2>2. QED
    BY <1>1, <2>1
<1>4. QED
  BY <1>2, <1>3

\* The bot stalls only through sessions opened inside sessions, and then all
\* connections are with updates that wait like this or for a row.
THEOREM StallExplained == Spec => []StallNeedsNesting
<1>1. IInv => StallNeedsNesting
  <2> SUFFICES ASSUME IInv, Stalled
               PROVE  /\ free = {}
                      /\ \E k \in Tasks : InnerWait(k)
                      /\ \A k \in Tasks : main[k] # None => InnerWait(k) \/ RowWait(k)
                      /\ \A k \in Tasks : second[k] = None
    BY DEF StallNeedsNesting
  <2> USE PoolAssumption DEF IInv, TypeOK
  <2>1. ASSUME NEW u \in Users, lock[u] # None
        PROVE  \E k \in Tasks : InnerWait(k) /\ free = {}
    BY <2>1, RowHolderNests DEF Stalled, RowsOf
  <2>2. ASSUME NEW k \in Tasks, RowWait(k), ~At(k, "idle")
        PROVE  \E j \in Tasks : InnerWait(j) /\ free = {}
    <3>1. lock[task[k].user] # None
      BY <2>2 DEF Stalled, Blocked, RowWait, InnerWait, OuterWait, At
    <3>2. QED
      BY <2>1, <3>1
  <2>3. free = {}
    BY <2>2 DEF Stalled, Blocked
  <2>4. ASSUME NEW k \in Tasks
        PROVE  /\ second[k] = None
               /\ main[k] # None => InnerWait(k) \/ RowWait(k)
    BY DEF Stalled, Blocked, SessionsOK, WithMain, WithSecond, InnerWait, OuterWait, RowWait, At
  <2>5. \E k \in Tasks : main[k] # None
    BY <2>3, <2>4 DEF Partition
  <2>6. \E k \in Tasks : InnerWait(k)
    BY <2>2, <2>4, <2>5 DEF SessionsOK, WithMain, At
  <2>7. QED
    BY <2>3, <2>4, <2>6
<1>2. QED
  BY <1>1, Invariant, PTL
=============================================================================
