--------------------------- MODULE BanGateProofs ---------------------------
(***************************************************************************)
(* Proofs about BanGate: the caches of the gate, the keyboard of a banned  *)
(* user and the accounts on the panel follow the switch, for any number of *)
(* accounts, updates and callbacks.                                        *)
(***************************************************************************)
EXTENDS BanGate, TLAPS

(***************************************************************************)
(* The inductive invariant.  While nothing has crossed a ban or unban, one *)
(* callback at most is under way, and what it read is what it has changed  *)
(* or is going to change; what gates and caches hold is either what is     *)
(* stored or what this callback still has to drop; and an account differs  *)
(* from the ban only if this callback still has to set it.                 *)
(***************************************************************************)
Dropping == \E a \in Admins : admin[a].pc = "drop"
Changed  == {"drop", "list", "apply"}

\* One callback at a time: it read the setting before it changed it.
AdminsOK ==
  "admin" \notin crossed =>
    /\ \A a, b \in Admins : a = b \/ admin[a].pc = "idle" \/ admin[b].pc = "idle"
    /\ \A a \in Admins : /\ admin[a].pc = "commit" => admin[a].saw = banned
                         /\ admin[a].pc \in Changed => admin[a].saw = ~banned

\* A gate stores what is true, and the cache says what is true or is dropped.
CacheOK ==
  "fill" \notin crossed =>
    /\ \A g \in Gates : gate[g].pc = "fill" => gate[g].saw = banned
    /\ cache \in {NoEntry, Entry(banned)} \/ Dropping

\* Only a banned user's update gets to the marker, and neither it nor the
\* marker says that the keyboard is gone before it is; and a callback that is
\* about to lift the ban has seen the marker, if there is one.
Marking == {"ask", "asked", "send", "mark"}
MarkerOK ==
  crossed = {} =>
    /\ \A g \in Gates : /\ gate[g].pc \in Marking => banned
                        /\ gate[g].pc = "mark" => removed
                        /\ gate[g].pc = "asked" /\ gate[g].saw => removed
    /\ rbk => banned /\ removed
    /\ rbkCache => (banned /\ removed) \/ (~banned /\ Dropping)
    /\ blocked => removed
    /\ \A a \in Admins :
         rbk /\ admin[a].pc = "commit" /\ admin[a].saw => admin[a].marker

\* The accounts a callback still has to set.
Ahead(a, s) ==
  \/ admin[a].pc \in {"drop", "list"}
  \/ admin[a].pc = "apply" /\ s \in admin[a].todo
AccountsOK ==
  "admin" \notin crossed =>
    \A s \in rows \ strayed : panel[s] = StatusFor(banned) \/ \E a \in Admins : Ahead(a, s)

IInv == TypeOK /\ AdminsOK /\ CacheOK /\ MarkerOK /\ AccountsOK

-----------------------------------------------------------------------------
(* Types *)

GatePCs == {"idle", "fill", "ask", "asked", "send", "mark"}
GateRec == [pc: GatePCs, saw: BOOLEAN]

\* A gate that goes on is still one.
LEMMA GateToType ==
  ASSUME TypeOK, NEW g \in Gates, NEW pc \in GatePCs, NEW saw \in BOOLEAN, GateTo(g, pc, saw)
  PROVE  gate' \in [Gates -> GateRec]
  BY DEF TypeOK, GateTo, GateRec, GatePCs

\* An update that has not begun.
LEMMA GateIdleType == GateIdle \in GateRec
  BY DEF GateIdle, GateRec, GatePCs

AdminPCs == {"idle", "commit", "drop", "list", "apply", "legacy_panel", "legacy_commit"}
AdminRec == [pc: AdminPCs, saw: BOOLEAN, marker: BOOLEAN, todo: SUBSET Services]

\* A callback that has not begun.
LEMMA AdminIdleType == AdminIdle \in AdminRec
  BY DEF AdminIdle, AdminRec, AdminPCs

\* A callback that goes on is still one.
LEMMA AdminToType ==
  ASSUME TypeOK, NEW a \in Admins, NEW pc \in AdminPCs, AdminTo(a, pc)
  PROVE  admin' \in [Admins -> AdminRec]
<1> DEFINE c == [admin[a] EXCEPT !.pc = pc]
<1>1. admin \in [Admins -> AdminRec]
  BY DEF TypeOK, AdminRec, AdminPCs
<1>2. c \in AdminRec
  BY <1>1 DEF AdminRec
<1>3. admin' = [admin EXCEPT ![a] = c]
  BY DEF AdminTo
<1> HIDE DEF c
<1>4. QED
  BY <1>1, <1>2, <1>3

\* Every step keeps the type invariant.
LEMMA TypeStep ==
  ASSUME TypeOK, [Next]_vars PROVE TypeOK'
<1> USE BanGateAssumption DEF TypeOK, States, Crossings, StatusFor, NoEntry, Entry
<1>1. ASSUME NEW g \in Gates, GateHit(g) PROVE TypeOK'
  <2>1. gate' \in [Gates -> GateRec]
    BY <1>1, GateToType, GateIdleType DEF GateHit, GateEnd, GatePCs, GateRec
  <2>2. QED
    BY <1>1, <2>1 DEF GateHit, Cross, Event, settings, caches, accounts, history, GateRec, GatePCs
<1>2. ASSUME NEW g \in Gates, GateRead(g) PROVE TypeOK'
  BY <1>2 DEF GateRead, GateTo, Event, Hit, settings, caches, accounts, history
<1>3. ASSUME NEW g \in Gates, GateFill(g) PROVE TypeOK'
  <2>1. gate' \in [Gates -> GateRec]
    BY <1>3, GateToType, GateIdleType DEF GateFill, GateEnd, GatePCs, GateRec
  <2>2. QED
    BY <1>3, <2>1 DEF GateFill, settings, accounts, history, GateRec, GatePCs
<1>4. ASSUME NEW g \in Gates, GateAsk(g) PROVE TypeOK'
  <2>1. gate' \in [Gates -> GateRec]
    BY <1>4, GateToType, GateIdleType DEF GateAsk, GateEnd, GatePCs, GateRec
  <2>2. QED
    BY <1>4, <2>1 DEF GateAsk, GateEnd, settings, caches, accounts, GateRec, GatePCs
<1>5. ASSUME NEW g \in Gates, GateAsked(g) PROVE TypeOK'
  <2>1. gate' \in [Gates -> GateRec]
    BY <1>5, GateToType, GateIdleType DEF GateAsked, GateEnd, GatePCs, GateRec
  <2>2. QED
    BY <1>5, <2>1 DEF GateAsked, GateEnd, settings, accounts, GateRec, GatePCs
<1>6. ASSUME NEW g \in Gates, GateSend(g) PROVE TypeOK'
  BY <1>6 DEF GateSend, GateTo, Cross, settings, caches, accounts
<1>7. ASSUME NEW g \in Gates, GateMark(g) PROVE TypeOK'
  BY <1>7 DEF GateMark, GateEnd, GateIdle, Cross, accounts
<1>8. ASSUME NEW g \in Gates, GateAbort(g) PROVE TypeOK'
  BY <1>8 DEF GateAbort, GateIdle, settings, caches, accounts, history
<1>9. ASSUME NEW a \in Admins, BanRead(a) PROVE TypeOK'
  <2>1. PICK marker \in {banned /\ rbk, FALSE} :
          admin' = [admin EXCEPT ![a] = [pc |-> "commit", saw |-> banned, marker |-> marker,
                                         todo |-> {}]]
    BY <1>9 DEF BanRead
  <2>2. [pc |-> "commit", saw |-> banned, marker |-> marker, todo |-> {}] \in AdminRec
    BY DEF AdminRec, AdminPCs
  <2>3. admin' \in [Admins -> AdminRec]
    BY <2>1, <2>2 DEF AdminRec, AdminPCs
  <2>4. crossed' \in SUBSET Crossings
    BY <1>9 DEF BanRead
  <2>5. QED
    BY <1>9, <2>3, <2>4 DEF BanRead, Event, AdminRec, AdminPCs, settings, caches, accounts, history
<1>10. ASSUME NEW a \in Admins, LegacyRead(a) PROVE TypeOK'
  BY <1>10 DEF LegacyRead, Cross, Event, AdminBusy, settings, caches, accounts, history
<1>11. ASSUME NEW a \in Admins, BanCommit(a) PROVE TypeOK'
  <2>1. admin' \in [Admins -> AdminRec]
    BY <1>11, AdminToType DEF BanCommit, AdminPCs
  <2>2. /\ banned' \in BOOLEAN /\ rbk' \in BOOLEAN /\ status' \in States
        /\ crossed' \in SUBSET Crossings
    BY <1>11 DEF BanCommit, ForgetMarker
  <2>3. QED
    BY <1>11, <2>1, <2>2 DEF BanCommit, AdminRec, AdminPCs, caches, accounts
<1>12. ASSUME NEW a \in Admins, BanDrop(a) PROVE TypeOK'
  <2>1. admin' \in [Admins -> AdminRec]
    BY <1>12, AdminToType DEF BanDrop, AdminPCs
  <2>2. QED
    BY <1>12, <2>1 DEF BanDrop, AdminRec, AdminPCs, settings, accounts, history
<1>13. ASSUME NEW a \in Admins, BanList(a) PROVE TypeOK'
  <2>1. PICK todo \in {rows, {}} : admin' = [admin EXCEPT ![a].pc = "apply", ![a].todo = todo]
    BY <1>13 DEF BanList
  <2>2. todo \in SUBSET Services /\ strayed' \in SUBSET Services
    BY <1>13 DEF BanList
  <2>3. admin' \in [Admins -> AdminRec]
    <3> DEFINE c == [admin[a] EXCEPT !.pc = "apply", !.todo = todo]
    <3>1. c \in AdminRec
      BY <2>2 DEF AdminRec, AdminPCs
    <3>2. admin' = [admin EXCEPT ![a] = c]
      BY <2>1
    <3> HIDE DEF c
    <3>3. QED
      BY <3>1, <3>2 DEF AdminRec, AdminPCs
  <2>4. QED
    BY <1>13, <2>2, <2>3 DEF BanList, AdminRec, AdminPCs, settings, caches, history
<1>14. ASSUME NEW a \in Admins, BanFinish(a) PROVE TypeOK'
  BY <1>14 DEF BanFinish, AdminDone, AdminIdle, settings, caches, accounts, history
<1>15. ASSUME NEW a \in Admins, LegacyPanel(a) PROVE TypeOK'
  <2>1. panel' \in [Services -> States \cup {"none"}] /\ strayed' \in SUBSET Services
    BY <1>15 DEF LegacyPanel, Target
  <2>2. AdminTo(a, "legacy_commit") \/ AdminDone(a)
    BY <1>15 DEF LegacyPanel
  <2>3. admin' \in [Admins -> AdminRec]
    <3>1. CASE AdminTo(a, "legacy_commit")
      BY <3>1, AdminToType DEF AdminPCs
    <3>2. CASE AdminDone(a)
      BY <3>2, AdminIdleType DEF AdminDone, AdminRec, AdminPCs
    <3>3. QED
      BY <2>2, <3>1, <3>2
  <2>4. QED
    BY <1>15, <2>1, <2>3 DEF LegacyPanel, AdminRec, AdminPCs, settings, caches, history
<1>16. ASSUME NEW a \in Admins, LegacyCommit(a) PROVE TypeOK'
  BY <1>16 DEF LegacyCommit, AdminDone, Target, AdminIdle, settings, caches, accounts, history
<1>17. ASSUME NEW a \in Admins, AdminAbort(a) PROVE TypeOK'
  BY <1>17 DEF AdminAbort, AdminDone, AdminIdle, settings, caches, accounts, history
<1>18. ASSUME NEW a \in Admins, NEW s \in Services, BanApply(a, s) PROVE TypeOK'
  <2>1. panel' \in [Services -> States \cup {"none"}] /\ strayed' \in SUBSET Services
    BY <1>18 DEF BanApply, Target
  <2>2. QED
    BY <1>18, <2>1 DEF BanApply, settings, caches, history
<1>19. ASSUME NEW s \in Services, AddService(s) PROVE TypeOK'
  BY <1>19 DEF AddService, Event, AdminBusy, settings, caches, history
<1>20. CASE GrowOld
  BY <1>20 DEF GrowOld, Hit, settings, accounts, history
<1>21. CASE RbkGrowOld
  BY <1>21 DEF RbkGrowOld, settings, accounts, history
<1>22. CASE Restart
  <2>1. UNION {Untouched(a) : a \in Admins} \in SUBSET Services
    BY DEF Untouched
  <2>2. admin' \in [Admins -> AdminRec] /\ gate' \in [Gates -> GateRec]
    BY <1>22, AdminIdleType, GateIdleType DEF Restart
  <2>3. QED
    BY <1>22, <2>1, <2>2 DEF Restart, AdminRec, AdminPCs, GateRec, GatePCs, settings, history
<1>23. CASE UNCHANGED vars
  BY <1>23 DEF vars
<1>24. QED
  BY <1>1, <1>2, <1>3, <1>4, <1>5, <1>6, <1>7, <1>8, <1>9, <1>10, <1>11, <1>12, <1>13, <1>14, <1>15,
     <1>16, <1>17, <1>18, <1>19, <1>20, <1>21, <1>22, <1>23
     DEF Next, GateStep, AdminStep

\* Every step keeps AdminsOK.
LEMMA AdminsStep ==
  ASSUME TypeOK, AdminsOK, [Next]_vars PROVE AdminsOK'
<1> USE BanGateAssumption DEF AdminsOK, TypeOK, Changed
<1>1. ASSUME NEW g \in Gates, GateHit(g) PROVE AdminsOK'
  BY <1>1 DEF GateHit, GateTo, Cross, Event, Hit, settings, caches, accounts, history
<1>2. ASSUME NEW g \in Gates, GateRead(g) PROVE AdminsOK'
  BY <1>2 DEF GateRead, GateTo, Event, Hit, settings, caches, accounts, history
<1>3. ASSUME NEW g \in Gates, GateFill(g) PROVE AdminsOK'
  BY <1>3 DEF GateFill, GateTo, GateIdle, settings, accounts, history
<1>4. ASSUME NEW g \in Gates, GateAsk(g) PROVE AdminsOK'
  BY <1>4 DEF GateAsk, GateTo, GateEnd, GateIdle, settings, caches, accounts
<1>5. ASSUME NEW g \in Gates, GateAsked(g) PROVE AdminsOK'
  BY <1>5 DEF GateAsked, GateTo, GateEnd, GateIdle, settings, accounts
<1>6. ASSUME NEW g \in Gates, GateSend(g) PROVE AdminsOK'
  BY <1>6 DEF GateSend, GateTo, Cross, settings, caches, accounts
<1>7. ASSUME NEW g \in Gates, GateMark(g) PROVE AdminsOK'
  BY <1>7 DEF GateMark, GateEnd, GateIdle, Cross, accounts
<1>8. ASSUME NEW g \in Gates, GateAbort(g) PROVE AdminsOK'
  BY <1>8 DEF GateAbort, GateIdle, settings, caches, accounts, history
<1>9. ASSUME NEW a \in Admins, BanRead(a) PROVE AdminsOK'
  BY <1>9 DEF BanRead, Cross, Event, AdminBusy, settings, caches, accounts, history
<1>10. ASSUME NEW a \in Admins, LegacyRead(a) PROVE AdminsOK'
  BY <1>10 DEF LegacyRead, Cross, Event, AdminBusy, settings, caches, accounts, history
<1>11. ASSUME NEW a \in Admins, BanCommit(a) PROVE AdminsOK'
  <2>1. crossed \subseteq crossed' /\ banned' = ~admin[a].saw
    BY <1>11 DEF BanCommit
  <2>2. /\ \A b \in Admins \ {a} : admin'[b] = admin[b]
        /\ admin'[a].pc = "drop" /\ admin'[a].saw = admin[a].saw
    BY <1>11 DEF BanCommit, AdminTo
  <2>3. "admin" \notin crossed => \A b \in Admins \ {a} : admin[b].pc = "idle"
    BY <1>11 DEF BanCommit
  <2>4. admin[a].saw \in BOOLEAN
    BY DEF TypeOK
  <2>5. SUFFICES ASSUME "admin" \notin crossed'
                 PROVE  /\ \A b, c \in Admins : \/ b = c \/ admin'[b].pc = "idle"
                                                \/ admin'[c].pc = "idle"
                        /\ \A b \in Admins : /\ admin'[b].pc = "commit" => admin'[b].saw = banned'
                                             /\ admin'[b].pc \in Changed => admin'[b].saw = ~banned'
    BY DEF AdminsOK
  <2>6. \A b \in Admins \ {a} : admin'[b].pc = "idle"
    BY <2>1, <2>2, <2>3, <2>5
  <2>7. QED
    BY <2>1, <2>2, <2>4, <2>6
<1>12. ASSUME NEW a \in Admins, BanDrop(a) PROVE AdminsOK'
  BY <1>12 DEF BanDrop, AdminTo, settings, accounts, history
<1>13. ASSUME NEW a \in Admins, BanList(a) PROVE AdminsOK'
  BY <1>13 DEF BanList, settings, caches, history
<1>14. ASSUME NEW a \in Admins, BanFinish(a) PROVE AdminsOK'
  BY <1>14 DEF BanFinish, AdminDone, AdminIdle, settings, caches, accounts, history
<1>15. ASSUME NEW a \in Admins, LegacyPanel(a) PROVE AdminsOK'
  BY <1>15 DEF LegacyPanel, AdminTo, AdminDone, Target, AdminIdle, settings, caches, history
<1>16. ASSUME NEW a \in Admins, LegacyCommit(a) PROVE AdminsOK'
  BY <1>16 DEF LegacyCommit, AdminDone, Target, AdminIdle, settings, caches, accounts, history
<1>17. ASSUME NEW a \in Admins, AdminAbort(a) PROVE AdminsOK'
  BY <1>17 DEF AdminAbort, AdminDone, AdminIdle, settings, caches, accounts, history
<1>18. ASSUME NEW a \in Admins, NEW s \in Services, BanApply(a, s) PROVE AdminsOK'
  BY <1>18 DEF BanApply, Target, settings, caches, history
<1>19. ASSUME NEW s \in Services, AddService(s) PROVE AdminsOK'
  BY <1>19 DEF AddService, Event, AdminBusy, settings, caches, history
<1>20. CASE GrowOld
  BY <1>20 DEF GrowOld, Hit, settings, accounts, history
<1>21. CASE RbkGrowOld
  BY <1>21 DEF RbkGrowOld, settings, accounts, history
<1>22. CASE Restart
  BY <1>22 DEF Restart, GateIdle, AdminIdle, Untouched, settings, history
<1>23. CASE UNCHANGED vars
  BY <1>23 DEF vars
<1>24. QED
  BY <1>1, <1>2, <1>3, <1>4, <1>5, <1>6, <1>7, <1>8, <1>9, <1>10, <1>11, <1>12, <1>13, <1>14, <1>15,
     <1>16, <1>17, <1>18, <1>19, <1>20, <1>21, <1>22, <1>23
     DEF Next, GateStep, AdminStep

\* Every step keeps CacheOK.
LEMMA CacheStep ==
  ASSUME TypeOK, CacheOK, [Next]_vars PROVE CacheOK'
<1> USE BanGateAssumption DEF CacheOK, TypeOK, Dropping
<1>1. ASSUME NEW g \in Gates, GateHit(g) PROVE CacheOK'
  BY <1>1 DEF GateHit, GateTo, Cross, Event, Hit, settings, caches, accounts, history
<1>2. ASSUME NEW g \in Gates, GateRead(g) PROVE CacheOK'
  BY <1>2 DEF GateRead, GateTo, Event, Hit, settings, caches, accounts, history
<1>3. ASSUME NEW g \in Gates, GateFill(g) PROVE CacheOK'
  BY <1>3 DEF GateFill, GateTo, GateIdle, settings, accounts, history
<1>4. ASSUME NEW g \in Gates, GateAsk(g) PROVE CacheOK'
  BY <1>4 DEF GateAsk, GateTo, GateEnd, GateIdle, settings, caches, accounts
<1>5. ASSUME NEW g \in Gates, GateAsked(g) PROVE CacheOK'
  BY <1>5 DEF GateAsked, GateTo, GateEnd, GateIdle, settings, accounts
<1>6. ASSUME NEW g \in Gates, GateSend(g) PROVE CacheOK'
  BY <1>6 DEF GateSend, GateTo, Cross, settings, caches, accounts
<1>7. ASSUME NEW g \in Gates, GateMark(g) PROVE CacheOK'
  BY <1>7 DEF GateMark, GateEnd, GateIdle, Cross, accounts
<1>8. ASSUME NEW g \in Gates, GateAbort(g) PROVE CacheOK'
  BY <1>8 DEF GateAbort, GateIdle, settings, caches, accounts, history
<1>9. ASSUME NEW a \in Admins, BanRead(a) PROVE CacheOK'
  BY <1>9 DEF BanRead, Cross, Event, AdminBusy, settings, caches, accounts, history
<1>10. ASSUME NEW a \in Admins, LegacyRead(a) PROVE CacheOK'
  BY <1>10 DEF LegacyRead, Cross, Event, AdminBusy, settings, caches, accounts, history
<1>11. ASSUME NEW a \in Admins, BanCommit(a) PROVE CacheOK'
  BY <1>11 DEF BanCommit, AdminTo, ForgetMarker, caches, accounts
<1>12. ASSUME NEW a \in Admins, BanDrop(a) PROVE CacheOK'
  BY <1>12 DEF BanDrop, AdminTo, settings, accounts, history
<1>13. ASSUME NEW a \in Admins, BanList(a) PROVE CacheOK'
  BY <1>13 DEF BanList, settings, caches, history
<1>14. ASSUME NEW a \in Admins, BanFinish(a) PROVE CacheOK'
  BY <1>14 DEF BanFinish, AdminDone, AdminIdle, settings, caches, accounts, history
<1>15. ASSUME NEW a \in Admins, LegacyPanel(a) PROVE CacheOK'
  BY <1>15 DEF LegacyPanel, AdminTo, AdminDone, Target, AdminIdle, settings, caches, history
<1>16. ASSUME NEW a \in Admins, LegacyCommit(a) PROVE CacheOK'
  BY <1>16 DEF LegacyCommit, AdminDone, Target, AdminIdle, settings, caches, accounts, history
<1>17. ASSUME NEW a \in Admins, AdminAbort(a) PROVE CacheOK'
  BY <1>17 DEF AdminAbort, AdminDone, AdminIdle, settings, caches, accounts, history
<1>18. ASSUME NEW a \in Admins, NEW s \in Services, BanApply(a, s) PROVE CacheOK'
  BY <1>18 DEF BanApply, Target, settings, caches, history
<1>19. ASSUME NEW s \in Services, AddService(s) PROVE CacheOK'
  BY <1>19 DEF AddService, Event, AdminBusy, settings, caches, history
<1>20. CASE GrowOld
  BY <1>20 DEF GrowOld, Hit, settings, accounts, history
<1>21. CASE RbkGrowOld
  BY <1>21 DEF RbkGrowOld, settings, accounts, history
<1>22. CASE Restart
  BY <1>22 DEF Restart, GateIdle, AdminIdle, Untouched, settings, history
<1>23. CASE UNCHANGED vars
  BY <1>23 DEF vars
<1>24. QED
  BY <1>1, <1>2, <1>3, <1>4, <1>5, <1>6, <1>7, <1>8, <1>9, <1>10, <1>11, <1>12, <1>13, <1>14, <1>15,
     <1>16, <1>17, <1>18, <1>19, <1>20, <1>21, <1>22, <1>23
     DEF Next, GateStep, AdminStep

\* Every step keeps MarkerOK.
LEMMA MarkerStep ==
  ASSUME TypeOK, AdminsOK, CacheOK, MarkerOK, [Next]_vars PROVE MarkerOK'
<1> USE BanGateAssumption DEF TypeOK, MarkerOK, Dropping, Marking
<1>1. ASSUME NEW g \in Gates, GateHit(g) PROVE MarkerOK'
  <2> SUFFICES ASSUME crossed' = {} PROVE MarkerOK'
    BY DEF MarkerOK
  <2>1. crossed = {} /\ ~Dropping
    BY <1>1 DEF GateHit, Cross
  <2>2. cache = "banned" => banned
    BY <2>1 DEF CacheOK, Entry, NoEntry
  <2>3. QED
    BY <1>1, <2>1, <2>2 DEF GateHit, GateTo, settings, caches, history
<1>2. ASSUME NEW g \in Gates, GateRead(g) PROVE MarkerOK'
  BY <1>2 DEF GateRead, GateTo, Event, Hit, settings, caches, accounts, history
<1>3. ASSUME NEW g \in Gates, GateFill(g) PROVE MarkerOK'
  BY <1>3 DEF GateFill, GateTo, GateIdle, settings, accounts, history, CacheOK, Entry
<1>4. ASSUME NEW g \in Gates, GateAsk(g) PROVE MarkerOK'
  BY <1>4 DEF GateAsk, GateTo, GateEnd, GateIdle, settings, caches, accounts
<1>5. ASSUME NEW g \in Gates, GateAsked(g) PROVE MarkerOK'
  BY <1>5 DEF GateAsked, GateTo, GateEnd, GateIdle, settings, accounts
<1>6. ASSUME NEW g \in Gates, GateSend(g) PROVE MarkerOK'
  BY <1>6 DEF GateSend, GateTo, Cross, settings, caches, accounts
<1>7. ASSUME NEW g \in Gates, GateMark(g) PROVE MarkerOK'
  BY <1>7 DEF GateMark, GateEnd, GateIdle, Cross, Unbanning, accounts
<1>8. ASSUME NEW g \in Gates, GateAbort(g) PROVE MarkerOK'
  BY <1>8 DEF GateAbort, GateIdle, settings, caches, accounts, history
<1>9. ASSUME NEW a \in Admins, BanRead(a) PROVE MarkerOK'
  <2> SUFFICES ASSUME crossed' = {} PROVE MarkerOK'
    BY DEF MarkerOK
  <2>0. PICK marker \in {banned /\ rbk, FALSE} :
          /\ admin' = [admin EXCEPT ![a] = [pc |-> "commit", saw |-> banned, marker |-> marker,
                                            todo |-> {}]]
          /\ crossed' = crossed \cup (IF AdminBusy(Admins \ {a}) THEN {"admin"} ELSE {})
                               \cup (IF marker # (banned /\ rbk) THEN {"unread"} ELSE {})
    BY <1>9 DEF BanRead
  <2>1. crossed = {} /\ ~AdminBusy(Admins \ {a}) /\ marker = (banned /\ rbk)
    BY ONLY crossed' = {}, <2>0
  <2>2. /\ admin'[a].pc = "commit" /\ admin'[a].saw = banned
        /\ admin'[a].marker = (banned /\ rbk)
        /\ \A b \in Admins \ {a} : admin'[b] = admin[b]
    BY <2>0, <2>1
  <2>3. /\ gate' = gate /\ banned' = banned /\ rbk' = rbk /\ removed' = removed
        /\ blocked' = blocked /\ rbkCache' = rbkCache
    BY <1>9 DEF BanRead, settings, caches, history
  <2>4. \A b \in Admins \ {a} : admin[b].pc = "idle"
    BY <2>1 DEF AdminBusy
  <2>5. admin[a].pc = "idle"
    BY <1>9 DEF BanRead
  <2>6. QED
    BY <2>1, <2>2, <2>3, <2>4, <2>5
<1>10. ASSUME NEW a \in Admins, LegacyRead(a) PROVE MarkerOK'
  BY <1>10 DEF LegacyRead, Cross, Event, AdminBusy, settings, caches, accounts, history
<1>11. ASSUME NEW a \in Admins, BanCommit(a) PROVE MarkerOK'
  <2> SUFFICES ASSUME crossed' = {} PROVE MarkerOK'
    BY DEF MarkerOK
  <2>0. crossed' = crossed \cup {IF gate[g].pc = "fill" THEN "fill" ELSE "marker" :
                                  g \in {h \in Gates : gate[h].pc # "idle"}}
    BY <1>11 DEF BanCommit
  <2>1. crossed = {} /\ \A g \in Gates : gate[g].pc = "idle"
    BY ONLY crossed' = {}, <2>0
  <2>2. admin[a].saw = banned /\ ~Dropping
    BY <1>11, <2>1 DEF BanCommit, AdminsOK
  <2>3. /\ banned' = ~banned /\ removed' = FALSE /\ blocked' = FALSE
        /\ rbk' = (rbk /\ ~(banned /\ admin[a].marker)) /\ rbkCache' = rbkCache /\ gate' = gate
    BY <1>11, <2>2 DEF BanCommit, ForgetMarker, caches
  <2>6. ~rbk'
    BY <1>11, <2>1, <2>2, <2>3 DEF BanCommit
  <2>4. Dropping'
    BY <1>11 DEF BanCommit, AdminTo
  <2>5. QED
    BY <2>1, <2>2, <2>3, <2>4, <2>6
<1>12. ASSUME NEW a \in Admins, BanDrop(a) PROVE MarkerOK'
  BY <1>12 DEF BanDrop, AdminTo, settings, accounts, history
<1>13. ASSUME NEW a \in Admins, BanList(a) PROVE MarkerOK'
  BY <1>13 DEF BanList, settings, caches, history
<1>14. ASSUME NEW a \in Admins, BanFinish(a) PROVE MarkerOK'
  BY <1>14 DEF BanFinish, AdminDone, AdminIdle, settings, caches, accounts, history
<1>15. ASSUME NEW a \in Admins, LegacyPanel(a) PROVE MarkerOK'
  BY <1>15 DEF LegacyPanel, AdminTo, AdminDone, Target, AdminIdle, settings, caches, history
<1>16. ASSUME NEW a \in Admins, LegacyCommit(a) PROVE MarkerOK'
  BY <1>16 DEF LegacyCommit, AdminDone, Target, AdminIdle, settings, caches, accounts, history
<1>17. ASSUME NEW a \in Admins, AdminAbort(a) PROVE MarkerOK'
  BY <1>17 DEF AdminAbort, AdminDone, AdminIdle, settings, caches, accounts, history
<1>18. ASSUME NEW a \in Admins, NEW s \in Services, BanApply(a, s) PROVE MarkerOK'
  BY <1>18 DEF BanApply, Target, settings, caches, history
<1>19. ASSUME NEW s \in Services, AddService(s) PROVE MarkerOK'
  BY <1>19 DEF AddService, Event, AdminBusy, settings, caches, history
<1>20. CASE GrowOld
  BY <1>20 DEF GrowOld, Hit, settings, accounts, history
<1>21. CASE RbkGrowOld
  BY <1>21 DEF RbkGrowOld, settings, accounts, history
<1>22. CASE Restart
  BY <1>22 DEF Restart, GateIdle, AdminIdle, Untouched, settings, history
<1>23. CASE UNCHANGED vars
  BY <1>23 DEF vars
<1>24. QED
  BY <1>1, <1>2, <1>3, <1>4, <1>5, <1>6, <1>7, <1>8, <1>9, <1>10, <1>11, <1>12, <1>13, <1>14, <1>15,
     <1>16, <1>17, <1>18, <1>19, <1>20, <1>21, <1>22, <1>23
     DEF Next, GateStep, AdminStep

\* Every step keeps AccountsOK.
LEMMA AccountsStep ==
  ASSUME TypeOK, AdminsOK, AccountsOK, [Next]_vars PROVE AccountsOK'
<1> USE BanGateAssumption DEF AccountsOK, AdminsOK, TypeOK, Ahead, Changed
<1>1. ASSUME NEW g \in Gates, GateHit(g) PROVE AccountsOK'
  BY <1>1 DEF GateHit, GateTo, Cross, Event, Hit, settings, caches, accounts, history
<1>2. ASSUME NEW g \in Gates, GateRead(g) PROVE AccountsOK'
  BY <1>2 DEF GateRead, GateTo, Event, Hit, settings, caches, accounts, history
<1>3. ASSUME NEW g \in Gates, GateFill(g) PROVE AccountsOK'
  BY <1>3 DEF GateFill, GateTo, GateIdle, settings, accounts, history
<1>4. ASSUME NEW g \in Gates, GateAsk(g) PROVE AccountsOK'
  BY <1>4 DEF GateAsk, GateTo, GateEnd, GateIdle, settings, caches, accounts
<1>5. ASSUME NEW g \in Gates, GateAsked(g) PROVE AccountsOK'
  BY <1>5 DEF GateAsked, GateTo, GateEnd, GateIdle, settings, accounts
<1>6. ASSUME NEW g \in Gates, GateSend(g) PROVE AccountsOK'
  BY <1>6 DEF GateSend, GateTo, Cross, settings, caches, accounts
<1>7. ASSUME NEW g \in Gates, GateMark(g) PROVE AccountsOK'
  BY <1>7 DEF GateMark, GateEnd, GateIdle, Cross, accounts
<1>8. ASSUME NEW g \in Gates, GateAbort(g) PROVE AccountsOK'
  BY <1>8 DEF GateAbort, GateIdle, settings, caches, accounts, history
<1>9. ASSUME NEW a \in Admins, BanRead(a) PROVE AccountsOK'
  BY <1>9 DEF BanRead, Cross, Event, AdminBusy, settings, caches, accounts, history
<1>10. ASSUME NEW a \in Admins, LegacyRead(a) PROVE AccountsOK'
  BY <1>10 DEF LegacyRead, Cross, Event, AdminBusy, settings, caches, accounts, history
<1>11. ASSUME NEW a \in Admins, BanCommit(a) PROVE AccountsOK'
  BY <1>11 DEF BanCommit, AdminTo, ForgetMarker, caches, accounts
<1>12. ASSUME NEW a \in Admins, BanDrop(a) PROVE AccountsOK'
  BY <1>12 DEF BanDrop, AdminTo, settings, accounts, history
<1>13. ASSUME NEW a \in Admins, BanList(a) PROVE AccountsOK'
  BY <1>13 DEF BanList, settings, caches, history
<1>14. ASSUME NEW a \in Admins, BanFinish(a) PROVE AccountsOK'
  BY <1>14 DEF BanFinish, AdminDone, AdminIdle, settings, caches, accounts, history
<1>15. ASSUME NEW a \in Admins, LegacyPanel(a) PROVE AccountsOK'
  BY <1>15 DEF LegacyPanel, AdminTo, AdminDone, Target, AdminIdle, settings, caches, history
<1>16. ASSUME NEW a \in Admins, LegacyCommit(a) PROVE AccountsOK'
  BY <1>16 DEF LegacyCommit, AdminDone, Target, AdminIdle, settings, caches, accounts, history
<1>17. ASSUME NEW a \in Admins, AdminAbort(a) PROVE AccountsOK'
  BY <1>17 DEF AdminAbort, AdminDone, AdminIdle, settings, caches, accounts, history
<1>18. ASSUME NEW a \in Admins, NEW s \in Services, BanApply(a, s) PROVE AccountsOK'
  BY <1>18 DEF BanApply, Target, settings, caches, history
<1>19. ASSUME NEW s \in Services, AddService(s) PROVE AccountsOK'
  <2>1. /\ UNCHANGED <<banned, admin, crossed>> /\ rows' = rows \cup {s} /\ s \notin rows
        /\ \A r \in Services \ {s} : panel'[r] = panel[r]
        /\ panel'[s] = "active" /\ strayed \subseteq strayed'
    BY <1>19 DEF AddService, settings
  <2>2. s \in strayed' \/ ~banned
    BY <1>19 DEF AddService
  <2>3. QED
    BY <2>1, <2>2 DEF StatusFor
<1>20. CASE GrowOld
  BY <1>20 DEF GrowOld, Hit, settings, accounts, history
<1>21. CASE RbkGrowOld
  BY <1>21 DEF RbkGrowOld, settings, accounts, history
<1>22. CASE Restart
  BY <1>22 DEF Restart, GateIdle, AdminIdle, Untouched, settings, history
<1>23. CASE UNCHANGED vars
  BY <1>23 DEF vars
<1>24. QED
  BY <1>1, <1>2, <1>3, <1>4, <1>5, <1>6, <1>7, <1>8, <1>9, <1>10, <1>11, <1>12, <1>13, <1>14, <1>15,
     <1>16, <1>17, <1>18, <1>19, <1>20, <1>21, <1>22, <1>23
     DEF Next, GateStep, AdminStep

-----------------------------------------------------------------------------
(* The invariant, and what follows from it *)

\* The bot starts in it.
LEMMA InitIInv == Init => IInv
<1> SUFFICES ASSUME Init PROVE IInv
  OBVIOUS
<1>1. gate \in [Gates -> GateRec] /\ admin \in [Admins -> AdminRec]
  BY GateIdleType, AdminIdleType DEF Init
<1>2. panel \in [Services -> States \cup {"none"}]
  BY DEF Init, States
<1>3. TypeOK
  <2>1. rows \subseteq Services /\ events \in 0..MaxEvents /\ cache \in {"none", "banned", "clear"}
    BY BanGateAssumption DEF Init, NoEntry
  <2>2. /\ banned \in BOOLEAN /\ rbk \in BOOLEAN /\ status \in States /\ rbkCache \in BOOLEAN
        /\ removed \in BOOLEAN /\ blocked \in BOOLEAN
        /\ crossed \subseteq Crossings /\ strayed \subseteq Services
    BY DEF Init, States
  <2>3. QED
    BY <1>1, <1>2, <2>1, <2>2 DEF TypeOK, GateRec, GatePCs, AdminRec, AdminPCs
<1>4. /\ \A g \in Gates : gate[g].pc = "idle"
      /\ \A a \in Admins : admin[a].pc = "idle"
  BY DEF Init, GateIdle, AdminIdle
<1>5. AdminsOK
  BY <1>4 DEF AdminsOK, Changed
<1>6. CacheOK /\ MarkerOK
  BY <1>4 DEF Init, CacheOK, MarkerOK, Marking
<1>7. AccountsOK
  BY BanGateAssumption DEF Init, AccountsOK, StatusFor
<1>8. QED
  BY <1>3, <1>5, <1>6, <1>7 DEF IInv

\* Every step keeps it.
LEMMA NextIInv == IInv /\ [Next]_vars => IInv'
  BY TypeStep, AdminsStep, CacheStep, MarkerStep, AccountsStep DEF IInv

\* IInv is an invariant of the switch and the gate.
THEOREM Invariant == Spec => []IInv
  BY InitIInv, NextIInv, PTL DEF Spec

\* The variables keep their types.
THEOREM TypeCorrect == Spec => []TypeOK
<1>1. IInv => TypeOK
  BY DEF IInv
<1>2. QED
  BY <1>1, Invariant, PTL

\* After a ban or unban the gate's cache does not say the opposite: the entry
\* stored before is dropped, and only a gate that had read the row before the
\* commit can store another one.
THEOREM GateFollowsBan == Spec => []CacheFollows
<1>1. IInv => CacheFollows
  BY DEF IInv, CacheOK, Dropping, CacheFollows, Quiet, AdminBusy
<1>2. QED
  BY <1>1, Invariant, PTL

\* In every ban, a blocked user's keyboard has been taken away, unless Telegram
\* refused the message or the ban crossed something.
THEOREM KeyboardGone == Spec => []KeyboardRemoved
<1>1. IInv => KeyboardRemoved
  BY DEF IInv, MarkerOK, KeyboardRemoved
<1>2. QED
  BY <1>1, Invariant, PTL

\* A ban that has been worked through holds on every account of the user.
THEOREM AccountsFollowBan == Spec => []ServicesFollow
<1>1. IInv => ServicesFollow
  BY DEF IInv, AccountsOK, Ahead, ServicesFollow, Quiet, AdminBusy
<1>2. QED
  BY <1>1, Invariant, PTL
=============================================================================
