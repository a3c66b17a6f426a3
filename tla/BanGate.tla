------------------------------ MODULE BanGate ------------------------------
(***************************************************************************)
(* Banning a user of the bot: the switch in the admin panel, the gate that *)
(* every message and button of the user passes first, the gate's caches,   *)
(* and the accounts on the panel.  Handlers share nothing between users,   *)
(* so the module follows one user.                                         *)
(*                                                                         *)
(* A gate runs from one await to the next: it looks into its cache and, on *)
(* a miss, reads the row and stores what it read - a ban may be committed  *)
(* and the cache invalidated in between.  A callback reads in one snapshot, *)
(* which its first statement opens, and writes at its commit: it deletes   *)
(* the marker RBK_SENT only if it was there in the snapshot.               *)
(***************************************************************************)
EXTENDS Integers, FiniteSets

CONSTANTS
  Services,   \* names of accounts the user may get on the panel
  Main,       \* the one named in users.marzban_username
  Gates,      \* updates of the user being handled at the same time
  Admins,     \* callbacks of admins being handled at the same time
  MaxEvents   \* bound: updates and callbacks in a behaviour

ASSUME BanGateAssumption == Main \in Services /\ MaxEvents \in Nat

VARIABLES
  banned,    \* setting USER:{id}:BANNED is set
  rbk,       \* setting USER:{id}:RBK_SENT is there
  status,    \* users.status
  rows,      \* table user_services: accounts of the user
  panel,     \* status of each account on the panel
  cache,     \* _BAN_CACHE: what an entry younger than the TTL says of the user
  rbkCache,  \* _RBK_CACHE has an entry younger than the TTL
  gate,      \* per update: the next step, and what it has read
  admin,     \* per callback: the next step, what it has read, accounts to do
  events,
  removed,   \* history: the keyboard has been taken away since the last ban
  blocked,   \* history: an update has been blocked since the last ban
  crossed,   \* history: what a ban or unban has crossed (Crossings)
  strayed    \* history: accounts whose status something else has set

vars == <<banned, rbk, status, rows, panel, cache, rbkCache, gate, admin,
          events, removed, blocked, crossed, strayed>>

settings == <<banned, rbk>>
caches   == <<cache, rbkCache>>
accounts == <<rows, panel, strayed>>
history  == <<removed, blocked>>

States == {"active", "disabled"}
BanWord(ban)   == IF ban THEN "banned" ELSE "active"
StatusFor(ban) == IF ban THEN "disabled" ELSE "active"

\* A gate between its read and its store; a gate on the way to the marker
\* RBK_SENT, one that has set it while an unban was under way, or one whose
\* message has failed; an unban that could not read the marker; another
\* callback.
Crossings == {"fill", "marker", "unread", "admin"}

NoEntry  == "none"
Entry(b) == IF b THEN "banned" ELSE "clear"
Hit      == cache # NoEntry

GateIdle  == [pc |-> "idle", saw |-> FALSE]
AdminIdle == [pc |-> "idle", saw |-> FALSE, marker |-> FALSE, todo |-> {}]

TypeOK ==
  /\ banned \in BOOLEAN /\ rbk \in BOOLEAN /\ status \in States
  /\ rows \subseteq Services
  /\ panel \in [Services -> States \cup {"none"}]
  /\ cache \in {"none", "banned", "clear"}
  /\ rbkCache \in BOOLEAN
  /\ gate \in [Gates -> [pc: {"idle", "fill", "ask", "asked", "send", "mark"}, saw: BOOLEAN]]
  /\ admin \in [Admins -> [pc: {"idle", "commit", "drop", "list", "apply",
                                "legacy_panel", "legacy_commit"},
                           saw: BOOLEAN, marker: BOOLEAN, todo: SUBSET Services]]
  /\ events \in 0..MaxEvents
  /\ removed \in BOOLEAN /\ blocked \in BOOLEAN /\ crossed \subseteq Crossings
  /\ strayed \subseteq Services

Init ==
  /\ banned = FALSE /\ rbk = FALSE /\ status = "active"
  /\ rows = {Main}
  /\ panel = [s \in Services |-> IF s = Main THEN "active" ELSE "none"]
  /\ cache = NoEntry /\ rbkCache = FALSE
  /\ gate = [g \in Gates |-> GateIdle]
  /\ admin = [a \in Admins |-> AdminIdle]
  /\ events = 0
  /\ removed = FALSE /\ blocked = FALSE /\ crossed = {} /\ strayed = {}

Event == events < MaxEvents /\ events' = events + 1

AdminBusy(A) == \E a \in A : admin[a].pc # "idle"

\* Kinds of crossings are remembered if they happen.
Cross(kinds, if) == crossed' = IF if THEN crossed \cup kinds ELSE crossed

-----------------------------------------------------------------------------
(* BanGateMiddleware *)

GateTo(g, pc, saw) == gate' = [gate EXCEPT ![g] = [pc |-> pc, saw |-> saw]]

\* _is_banned finds a fresh entry: the update goes on to its handler, or on
\* to the notice of the ban.
GateHit(g) ==
  /\ gate[g].pc = "idle" /\ Event /\ Hit
  /\ IF cache = "banned" THEN GateTo(g, "ask", FALSE) ELSE UNCHANGED gate
  /\ Cross({"marker"}, \E a \in Admins : admin[a].pc = "drop")
  /\ UNCHANGED <<settings, status, accounts, caches, admin, history>>

\* ... or reads the row.
GateRead(g) ==
  /\ gate[g].pc = "idle" /\ Event /\ ~Hit
  /\ GateTo(g, "fill", banned)
  /\ UNCHANGED <<settings, status, accounts, caches, admin, history, crossed>>

GateFill(g) ==
  /\ gate[g].pc = "fill"
  /\ cache' = Entry(gate[g].saw)
  /\ IF gate[g].saw THEN GateTo(g, "ask", FALSE) ELSE gate' = [gate EXCEPT ![g] = GateIdle]
  /\ UNCHANGED <<settings, status, accounts, rbkCache, admin, events, history, crossed>>

\* _rbk_sent: the keyboard is taken away once per ban.  An error of the
\* statement counts as "not yet".
GateEnd(g) == gate' = [gate EXCEPT ![g] = GateIdle] /\ blocked' = TRUE

GateAsk(g) ==
  /\ gate[g].pc = "ask"
  /\ \/ rbkCache /\ GateEnd(g)
     \/ /\ ~rbkCache /\ UNCHANGED blocked
        /\ GateTo(g, "asked", rbk) \/ GateTo(g, "send", FALSE)
  /\ UNCHANGED <<settings, status, accounts, caches, admin, events, removed, crossed>>

GateAsked(g) ==
  /\ gate[g].pc = "asked"
  /\ IF gate[g].saw
     THEN rbkCache' = TRUE /\ GateEnd(g)
     ELSE GateTo(g, "send", FALSE) /\ UNCHANGED <<rbkCache, blocked>>
  /\ UNCHANGED <<settings, status, accounts, cache, admin, events, removed, crossed>>

\* send_message with ReplyKeyboardRemove; an error is swallowed, and the
\* marker is set all the same.
GateSend(g) ==
  /\ gate[g].pc = "send"
  /\ \/ removed' = TRUE /\ UNCHANGED crossed
     \/ UNCHANGED removed /\ Cross({"marker"}, ~removed)
  /\ GateTo(g, "mark", FALSE)
  /\ UNCHANGED <<settings, status, accounts, caches, admin, events, blocked>>

\* A callback has seen the ban and is about to lift it.
Unbanning == \E a \in Admins : admin[a].pc = "commit" /\ admin[a].saw

\* _mark_rbk_sent; an error is swallowed here too.
GateMark(g) ==
  /\ gate[g].pc = "mark"
  /\ \/ rbk' = TRUE /\ rbkCache' = TRUE /\ Cross({"marker"}, Unbanning)
     \/ UNCHANGED <<rbk, rbkCache, crossed>>
  /\ GateEnd(g)
  /\ UNCHANGED <<banned, status, accounts, cache, admin, events, removed>>

\* TTL_SECONDS go by: the entry will not be used again.
GrowOld ==
  /\ Hit
  /\ cache' = NoEntry
  /\ UNCHANGED <<settings, status, accounts, rbkCache, gate, admin, events>>
  /\ UNCHANGED <<history, crossed>>
RbkGrowOld ==
  /\ rbkCache /\ rbkCache' = FALSE
  /\ UNCHANGED <<settings, status, accounts, cache, gate, admin, events, history, crossed>>

-----------------------------------------------------------------------------
(* cb_user_banbot *)

AdminTo(a, pc) == admin' = [admin EXCEPT ![a].pc = pc]
AdminDone(a)   == admin' = [admin EXCEPT ![a] = AdminIdle]

\* The rows are read as they are when the snapshot is opened: the marker only
\* for an unban, and an error of that statement counts as "not there".
BanRead(a) ==
  /\ admin[a].pc = "idle" /\ Event
  /\ \E marker \in {banned /\ rbk, FALSE} :
       /\ admin' = [admin EXCEPT ![a] = [pc |-> "commit", saw |-> banned, marker |-> marker,
                                         todo |-> {}]]
       /\ crossed' = crossed \cup (IF AdminBusy(Admins \ {a}) THEN {"admin"} ELSE {})
                            \cup (IF marker # (banned /\ rbk) THEN {"unread"} ELSE {})
  /\ UNCHANGED <<settings, status, accounts, caches, gate, history>>

\* The toggle; an unban also forgets that the keyboard has been taken away, if
\* it has seen that it was.
KeepMarker(a)   == UNCHANGED rbk
ForgetMarker(a) == rbk' = (rbk /\ ~(admin[a].saw /\ admin[a].marker))

BanCommit(a) ==
  LET ban == ~admin[a].saw
  IN  /\ admin[a].pc = "commit"
      /\ banned' = ban /\ status' = StatusFor(ban)
      /\ ForgetMarker(a)
      /\ AdminTo(a, "drop")
      /\ removed' = FALSE /\ blocked' = FALSE
      /\ crossed' = crossed \cup {IF gate[g].pc = "fill" THEN "fill" ELSE "marker" :
                                   g \in {h \in Gates : gate[h].pc # "idle"}}
      /\ UNCHANGED <<accounts, caches, gate, events>>

\* invalidate_ban_cache and invalidate_rbk_cache
DropNothing(a) ==
  /\ admin[a].pc = "drop"
  /\ AdminTo(a, "list")
  /\ UNCHANGED <<settings, status, accounts, caches, gate, events, history, crossed>>
BanDrop(a) ==
  /\ admin[a].pc = "drop"
  /\ cache' = NoEntry /\ rbkCache' = FALSE
  /\ AdminTo(a, "list")
  /\ UNCHANGED <<settings, status, accounts, gate, events, history, crossed>>

\* The user's services; an error is swallowed and no account is touched.
BanList(a) ==
  /\ admin[a].pc = "list"
  /\ \E todo \in {rows, {}} :
       /\ admin' = [admin EXCEPT ![a].pc = "apply", ![a].todo = todo]
       /\ strayed' = IF todo = {} THEN strayed \cup rows ELSE strayed \ rows
  /\ UNCHANGED <<settings, status, rows, panel, caches, gate, events, history, crossed>>

\* What the accounts are set to: by what was read, not by what is stored now.
TargetNow(a) == StatusFor(admin[a].saw)
Target(a)    == StatusFor(~admin[a].saw)

\* set_status for one account; the error of one does not stop the others.
BanApply(a, s) ==
  LET done == [panel EXCEPT ![s] = Target(a)]
  IN  /\ admin[a].pc = "apply" /\ s \in admin[a].todo
      /\ admin' = [admin EXCEPT ![a].todo = @ \ {s}]
      /\ \/ panel' = done /\ UNCHANGED strayed
         \/ panel' \in {panel, done} /\ strayed' = strayed \cup {s}
      /\ UNCHANGED <<settings, status, rows, caches, gate, events, history, crossed>>

BanFinish(a) ==
  /\ admin[a].pc = "apply" /\ admin[a].todo = {}
  /\ AdminDone(a)
  /\ UNCHANGED <<settings, status, accounts, caches, gate, events, history, crossed>>

-----------------------------------------------------------------------------
(* cb_user_ban: the switch on the user page works on users.status and on   *)
(* the account in users.marzban_username alone.                            *)

LegacyRead(a) ==
  /\ admin[a].pc = "idle" /\ Event
  /\ admin' = [admin EXCEPT ![a] = [pc |-> "legacy_panel", saw |-> status = "disabled",
                                    marker |-> FALSE, todo |-> {}]]
  /\ Cross({"admin"}, AdminBusy(Admins \ {a}))
  /\ UNCHANGED <<settings, status, accounts, caches, gate, history>>

LegacyPanel(a) ==
  LET done == [panel EXCEPT ![Main] = Target(a)]
  IN  /\ admin[a].pc = "legacy_panel"
      /\ \/ panel' = done /\ AdminTo(a, "legacy_commit")
         \/ panel' \in {panel, done} /\ AdminDone(a)
      /\ strayed' = strayed \cup {Main}
      /\ UNCHANGED <<settings, status, rows, caches, gate, events, history, crossed>>

LegacyCommit(a) ==
  /\ admin[a].pc = "legacy_commit"
  /\ status' = Target(a)
  /\ AdminDone(a)
  /\ UNCHANGED <<settings, accounts, caches, gate, events, history, crossed>>

-----------------------------------------------------------------------------
\* A purchase, an approval or a grant gives the user another account.
AddService(s) ==
  /\ s \notin rows /\ Event
  /\ rows' = rows \cup {s}
  /\ panel' = [panel EXCEPT ![s] = "active"]
  /\ strayed' = strayed \cup IF banned \/ AdminBusy(Admins) THEN {s} ELSE {}
  /\ UNCHANGED <<settings, status, caches, gate, admin, history, crossed>>

\* A statement of a callback or of a gate fails before it has an effect.
AdminAbort(a) ==
  /\ admin[a].pc \in {"commit", "legacy_commit"}
  /\ AdminDone(a)
  /\ UNCHANGED <<settings, status, accounts, caches, gate, events, history, crossed>>
GateAbort(g) ==
  /\ gate[g].pc = "fill" /\ gate' = [gate EXCEPT ![g] = GateIdle]
  /\ UNCHANGED <<settings, status, accounts, caches, admin, events, history, crossed>>

\* The accounts a callback that ends here leaves as they are.
Untouched(a) == IF admin[a].pc \in {"drop", "list"} THEN rows ELSE admin[a].todo

\* The bot is restarted: its caches and what it was doing are gone.
Restart ==
  /\ gate' = [g \in Gates |-> GateIdle] /\ admin' = [a \in Admins |-> AdminIdle]
  /\ cache' = NoEntry /\ rbkCache' = FALSE
  /\ strayed' = strayed \cup UNION {Untouched(a) : a \in Admins}
  /\ UNCHANGED <<settings, status, rows, panel, events, history, crossed>>

GateStep(g) == GateFill(g) \/ GateAsk(g) \/ GateAsked(g) \/ GateSend(g) \/ GateMark(g)
AdminStep(a) ==
  \/ BanCommit(a) \/ BanDrop(a) \/ BanList(a) \/ BanFinish(a)
  \/ LegacyPanel(a) \/ LegacyCommit(a)
  \/ \E s \in Services : BanApply(a, s)

Next ==
  \/ \E g \in Gates : GateHit(g) \/ GateRead(g) \/ GateStep(g) \/ GateAbort(g)
  \/ \E a \in Admins : BanRead(a) \/ LegacyRead(a) \/ AdminStep(a) \/ AdminAbort(a)
  \/ \E s \in Services : AddService(s)
  \/ GrowOld \/ RbkGrowOld \/ Restart

Spec == Init /\ [][Next]_vars

-----------------------------------------------------------------------------
(* Properties *)

Quiet == ~AdminBusy(Admins)

\* Once a ban or unban is through, the cache of the gate does not contradict
\* it - unless a gate had read the row before and stored it after.
CacheFollows ==
  Quiet /\ "fill" \notin crossed => cache \in {NoEntry, Entry(banned)}

\* In every ban, the second one too, the keyboard has been taken away from a
\* user who has been blocked - unless Telegram refused the message, a ban or
\* unban fell among the steps of a gate or of another callback, or an unban
\* could not read the marker.
KeyboardRemoved == banned /\ blocked /\ crossed = {} => removed

\* When the switch has been worked through, every account has the status the
\* ban asks for, except those a panel error, a
\* lost callback or another flow has kept from it.
ServicesFollow ==
  Quiet /\ "admin" \notin crossed =>
    \A s \in rows \ strayed : panel[s] = StatusFor(banned)
=============================================================================
