------------------------------ MODULE Accounts ------------------------------
(***************************************************************************)
(* Volume and expiry of the accounts on the panel, as the flows of the bot *)
(* change them (services/marzban_ops.py).  Selling a plan sets both, one   *)
(* after the other; adding to either reads the account, computes, and      *)
(* writes the result with a second call; what has expired is deleted from  *)
(* a list.  A call may fail before or after its effect, which ends a flow. *)
(*                                                                         *)
(* Status, usage and the link of an account are left out: set_status,      *)
(* reset and revoke change neither of the two.                             *)
(***************************************************************************)
EXTENDS Integers

CONSTANTS
  Accounts,    \* names of accounts
  Flows,       \* updates that act on accounts at the same time
  PlanVolume,  \* the plan that is sold, in GB; 0 is without limit
  PlanDays,    \* and in days; 0 is for ever
  MaxVolume,   \* bound: the largest volume
  MaxDay,      \* bound: the last day anything expires on
  MaxEvents,   \* bound: updates in a behaviour
  Nobody       \* the account of a flow that has none

ASSUME AccountsAssumption ==
  /\ MaxVolume \in Nat /\ PlanVolume \in 0..MaxVolume
  /\ MaxDay \in Nat /\ PlanDays \in 0..(MaxDay - 1)
  /\ MaxEvents \in Nat /\ Nobody \notin Accounts

VARIABLES
  acct,      \* the account of each name
  today,
  flow,      \* where each update is, and its locals
  events,
  owed,      \* history: what each account would have, had every flow its turn
  overtaken  \* history: accounts that were written from an outdated reading

accountVars == <<acct, today, flow, events, owed, overtaken>>

Absent == [limit |-> -1, expire |-> -1]
Fresh  == [limit |-> 0, expire |-> 0]           \* no limit, no expiry
Old    == [limit |-> PlanVolume, expire |-> 1]  \* sold earlier

Contents == [limit: 0..MaxVolume, expire: 0..MaxDay] \cup {Absent}
Steps == {"idle", "create", "expire", "limit", "done", "add", "extend", "list", "delete"}

\* "crossed": another flow has written to the account since this one began.
NoFlow == [at |-> "idle", name |-> Nobody, saw |-> Absent, list |-> {}, crossed |-> FALSE]

AccountsTypeOK ==
  /\ acct \in [Accounts -> Contents]
  /\ today \in 1..MaxDay
  /\ flow \in [Flows -> [at: Steps, name: Accounts \cup {Nobody}, saw: Contents,
                         list: SUBSET Accounts, crossed: BOOLEAN]]
  /\ events \in 0..MaxEvents
  /\ owed \in [Accounts -> [limit: Int, expire: Int]]
  /\ overtaken \subseteq Accounts

AccountsInit ==
  /\ owed = acct
  /\ today = 1
  /\ flow = [k \in Flows |-> NoFlow]
  /\ events = 0 /\ overtaken = {}

-----------------------------------------------------------------------------
(* Steps the flows share *)

Exists(n)  == acct[n] # Absent
Expired(n) == acct[n].expire > 0 /\ acct[n].expire <= today

Event == events < MaxEvents /\ events' = events + 1

Starts(k, locals) ==
  /\ flow[k].at = "idle"
  /\ flow' = [flow EXCEPT ![k] = locals]

Returns(k) == flow' = [flow EXCEPT ![k] = NoFlow]

\* An account gets new contents, and the flow that wrote them goes on as f.
Becomes(n, contents, promised) ==
  /\ acct' = [acct EXCEPT ![n] = contents]
  /\ owed' = [owed EXCEPT ![n] = promised]
Written(k, n, f) ==
  flow' = [j \in Flows |-> IF j = k THEN f
                           ELSE [flow[j] EXCEPT !.crossed = @ \/ flow[j].name = n]]

\* A call that writes: done, done but answered with an error, or not done.
PanelCall(k, n, contents, promised, next) ==
  \/ /\ Becomes(n, contents, promised)
     /\ Written(k, n, next) \/ Written(k, n, NoFlow)
  \/ Returns(k) /\ UNCHANGED <<acct, owed>>

-----------------------------------------------------------------------------
(* provision_for_plan: the account is created unless it is there, gets the *)
(* expiry of the plan, then its volume; admin_set does without the first.  *)

Provision(k, n) == Starts(k, [NoFlow EXCEPT !.at = "create", !.name = n])

Create(k) ==
  LET n == flow[k].name
      next == [flow[k] EXCEPT !.at = "expire"]
  IN  /\ flow[k].at = "create"
      /\ IF Exists(n)
         THEN flow' = [flow EXCEPT ![k] = next] /\ UNCHANGED <<acct, owed>>
         ELSE PanelCall(k, n, Fresh, Fresh, next)
      /\ UNCHANGED <<today, events, overtaken>>

\* An account that has been deleted meanwhile is an error.
SetExpire(k) ==
  LET n == flow[k].name
      day == IF PlanDays = 0 THEN 0 ELSE today + PlanDays
      next == [flow[k] EXCEPT !.at = "limit", !.saw = [limit |-> PlanVolume, expire |-> day]]
  IN  /\ flow[k].at = "expire"
      /\ IF Exists(n)
         THEN PanelCall(k, n, [acct[n] EXCEPT !.expire = day],
                              [owed[n] EXCEPT !.expire = day], next)
         ELSE Returns(k) /\ UNCHANGED <<acct, owed>>
      /\ UNCHANGED <<today, events, overtaken>>

SetLimit(k) ==
  LET n == flow[k].name
  IN  /\ flow[k].at = "limit"
      /\ IF Exists(n)
         THEN PanelCall(k, n, [acct[n] EXCEPT !.limit = PlanVolume],
                              [owed[n] EXCEPT !.limit = PlanVolume],
                        [flow[k] EXCEPT !.at = "done"])
         ELSE Returns(k) /\ UNCHANGED <<acct, owed>>
      /\ UNCHANGED <<today, events, overtaken>>

-----------------------------------------------------------------------------
(* Admins: a grant, admin_create, admin_set, deletion *)

Grant(k, n) ==
  /\ Provision(k, n) /\ Event
  /\ UNCHANGED <<acct, today, owed, overtaken>>

AdminSet(k, n) ==
  /\ Exists(n) /\ Event
  /\ Starts(k, [NoFlow EXCEPT !.at = "expire", !.name = n])
  /\ UNCHANGED <<acct, today, owed, overtaken>>

GrantDone(k) ==
  /\ flow[k].at = "done" /\ Returns(k)
  /\ UNCHANGED <<acct, today, events, owed, overtaken>>

AdminCreate(k, n) ==
  /\ ~Exists(n) /\ flow[k] = NoFlow /\ Event
  /\ Becomes(n, Fresh, Fresh) /\ Written(k, n, NoFlow)
  /\ UNCHANGED <<today, overtaken>>

Deleted(k, n, next) ==
  /\ Becomes(n, Absent, Absent) /\ Written(k, n, next)
  /\ overtaken' = overtaken \ {n}

AdminDelete(k, n) ==
  /\ Exists(n) /\ flow[k] = NoFlow /\ Event
  /\ Deleted(k, n, NoFlow)
  /\ UNCHANGED today

-----------------------------------------------------------------------------
(* add_data_gb and extend_expire: GET, then PUT of the sum. *)

\* What is added to: no limit counts as nothing, no expiry as today, and an
\* expiry that is past as it is.
Base(contents) ==
  [contents EXCEPT !.expire = IF contents.expire > 0 THEN contents.expire ELSE today]

SumRead(k, n, at, room) ==
  /\ Exists(n) /\ room /\ Event
  /\ Starts(k, [NoFlow EXCEPT !.at = at, !.name = n, !.saw = Base(acct[n])])
  /\ UNCHANGED <<acct, today, owed, overtaken>>

AddRead(k, n)    == SumRead(k, n, "add", acct[n].limit < MaxVolume)
ExtendRead(k, n) == SumRead(k, n, "extend", Base(acct[n]).expire < MaxDay)

\* Wrong: writes what is added, not the sum.
SumOverwrites(k, at, field) ==
  LET n == flow[k].name
  IN  /\ flow[k].at = at
      /\ IF Exists(n)
         THEN PanelCall(k, n, [acct[n] EXCEPT ![field] = 1],
                              [owed[n] EXCEPT ![field] = Base(owed[n])[field] + 1], NoFlow)
         ELSE Returns(k) /\ UNCHANGED <<acct, owed>>
      /\ UNCHANGED <<today, events, overtaken>>
SumWrite(k, at, field) ==
  LET n == flow[k].name
      late == Base(acct[n])[field] # flow[k].saw[field]
  IN  /\ flow[k].at = at
      /\ IF Exists(n)
         THEN PanelCall(k, n, [acct[n] EXCEPT ![field] = flow[k].saw[field] + 1],
                              [owed[n] EXCEPT ![field] = Base(owed[n])[field] + 1], NoFlow)
         ELSE Returns(k) /\ UNCHANGED <<acct, owed>>
      /\ overtaken' = IF late /\ owed' # owed THEN overtaken \cup {n} ELSE overtaken
      /\ UNCHANGED <<today, events>>

AddWrite(k)    == SumWrite(k, "add", "limit")
ExtendWrite(k) == SumWrite(k, "extend", "expire")

-----------------------------------------------------------------------------
(* delete_expired: all at once, or if the panel does not know that call,   *)
(* from a list and one by one, whatever happens to each.                   *)

DeleteAllExpired(k) ==
  LET gone == {n \in Accounts : Exists(n) /\ Expired(n)}
  IN  /\ flow[k] = NoFlow /\ gone # {} /\ Event
      /\ acct' = [n \in Accounts |-> IF n \in gone THEN Absent ELSE acct[n]]
      /\ owed' = [n \in Accounts |-> IF n \in gone THEN Absent ELSE owed[n]]
      /\ flow' = [j \in Flows |-> [flow[j] EXCEPT !.crossed = @ \/ flow[j].name \in gone]]
      /\ overtaken' = overtaken \ gone
      /\ UNCHANGED today

ListExpired(k) ==
  LET found == {n \in Accounts : Exists(n) /\ Expired(n)}
  IN  /\ found # {} /\ Event
      /\ Starts(k, [NoFlow EXCEPT !.at = "delete", !.list = found])
      /\ UNCHANGED <<acct, today, owed, overtaken>>

DeleteNext(k, n) ==
  LET left == flow[k].list \ {n}
      next == IF left = {} THEN NoFlow ELSE [flow[k] EXCEPT !.list = left]
  IN  /\ flow[k].at = "delete" /\ n \in flow[k].list
      /\ \/ Deleted(k, n, next)
         \/ flow' = [flow EXCEPT ![k] = next] /\ UNCHANGED <<acct, owed, overtaken>>
      /\ UNCHANGED <<today, events>>

-----------------------------------------------------------------------------
Day ==
  /\ today < MaxDay - PlanDays /\ today' = today + 1
  /\ UNCHANGED <<acct, flow, events, owed, overtaken>>

\* What admins begin, and what any flow goes on with.
AdminStep(k) ==
  \/ \E n \in Accounts :
       \/ Grant(k, n) \/ AdminSet(k, n) \/ AdminCreate(k, n) \/ AdminDelete(k, n)
       \/ AddRead(k, n) \/ ExtendRead(k, n) \/ DeleteNext(k, n)
  \/ DeleteAllExpired(k) \/ ListExpired(k)
  \/ GrantDone(k) \/ AddWrite(k) \/ ExtendWrite(k)

FlowStep(k) == Create(k) \/ SetExpire(k) \/ SetLimit(k)

-----------------------------------------------------------------------------
(* Properties *)

\* However flows that add to an account meet flows that set it or delete it,
\* it has the sum of all of them, unless the call to write a sum came after
\* somebody else's that changed what had been read, or after midnight, when
\* what had been read was an account without expiry: that counts as today.
AdditionsKept == \A n \in Accounts \ overtaken : acct[n] = owed[n]
=============================================================================
