------------------------------ MODULE Services ------------------------------
(***************************************************************************)
(* Services: the rows of table user_services, the name every user has in   *)
(* users.marzban_username, and the accounts on the panel that both point   *)
(* to.  The database and the panel are changed one after the other, in an  *)
(* order each flow chooses for itself, and nothing ties them together: any *)
(* call can fail, before or after its effect, and any flow can stop.       *)
(*                                                                         *)
(* Of an account only its existence is kept; module Accounts has what is   *)
(* in it.  The calls that provision a plan are one step here; modules      *)
(* Orders and Accounts take them apart.                                    *)
(***************************************************************************)
EXTENDS Integers

CONSTANTS
  Users,
  Names,       \* names of accounts
  Default,     \* tg_username: the name each user starts with
  Tasks,       \* updates being handled at the same time
  MaxEvents,   \* bound: updates in a behaviour
  None

ASSUME ServicesAssumption ==
  /\ Default \in [Users -> Names]
  /\ \A u, v \in Users : Default[u] = Default[v] => u = v
  /\ MaxEvents \in Nat
  /\ None \notin Users /\ None \notin Names

VARIABLES
  main,       \* users.marzban_username
  owner,      \* user_services: the user of the row with each name
  accounts,   \* panel: the names of the accounts there are
  trialUsed,  \* setting USER:{id}:TRIAL_USED_AT is there
  renamed,    \* setting USER:{id}:LAST_RENAME_AT is less than a week old
  pc, loc,    \* the next step of each task and its local variables
  events,
  trials,     \* history: how often each user has been given a trial since the last reset
  slipped,    \* history: users whose trial was not checked or marked, or overlapped another
  renames,    \* history: how often each user has renamed this week
  hasty,      \* history: users with two renames that were checked before either was made
  doomed      \* history: accounts that a rename or an admin has set out to delete

vars == <<main, owner, accounts, trialUsed, renamed, pc, loc, events,
          trials, slipped, renames, hasty, doomed>>
database == <<main, owner, trialUsed, renamed>>
history == <<trials, slipped, renames, hasty, doomed>>

NoLocals == [user |-> None, name |-> None, old |-> None]

PCs == {"idle", "chosen", "provisioned", "trial_read", "trial_made", "trial_marked",
        "rename", "rename_allowed", "rename_delete", "rename_create",
        "delete_panel", "delete_row"}

TypeOK ==
  /\ main \in [Users -> Names]
  /\ owner \in [Names -> Users \cup {None}]
  /\ accounts \subseteq Names
  /\ trialUsed \subseteq Users /\ renamed \subseteq Users
  /\ pc \in [Tasks -> PCs]
  /\ loc \in [Tasks -> [user: Users \cup {None}, name: Names \cup {None},
                        old: Names \cup {None}]]
  /\ events \in 0..MaxEvents
  /\ trials \in [Users -> Nat] /\ slipped \subseteq Users
  /\ renames \in [Users -> Nat] /\ hasty \subseteq Users
  /\ doomed \subseteq Names

Init ==
  /\ main = Default
  /\ owner = [n \in Names |-> None] /\ accounts = {}
  /\ trialUsed = {} /\ renamed = {}
  /\ pc = [k \in Tasks |-> "idle"] /\ loc = [k \in Tasks |-> NoLocals]
  /\ events = 0
  /\ trials = [u \in Users |-> 0] /\ slipped = {}
  /\ renames = [u \in Users |-> 0] /\ hasty = {}
  /\ doomed = {}

-----------------------------------------------------------------------------
(* Steps the flows share *)

Start(k, at, locals) ==
  /\ pc[k] = "idle" /\ events < MaxEvents /\ events' = events + 1
  /\ pc' = [pc EXCEPT ![k] = at]
  /\ loc' = [loc EXCEPT ![k] = locals]

Goes(k, to) == pc' = [pc EXCEPT ![k] = to] /\ UNCHANGED <<loc, events>>
Return(k) ==
  /\ pc' = [pc EXCEPT ![k] = "idle"] /\ loc' = [loc EXCEPT ![k] = NoLocals]
  /\ UNCHANGED events

\* A call to the panel: done and the flow goes on, or an error, with or
\* without its effect, that ends the flow.
PanelCall(k, from, to, effect) ==
  /\ pc[k] = from
  /\ \/ Goes(k, to) /\ accounts' = effect
     \/ Return(k) /\ accounts' \in {accounts, effect}

\* INSERT INTO user_services, unless the user has the row already; the index
\* on username is unique.
Upsert(u, n) == owner' = [owner EXCEPT ![n] = IF @ = None THEN u ELSE @]

\* How the dialogs check a new name: against the names of users.
FreeName(n) == \A u \in Users : main[u] # n

-----------------------------------------------------------------------------
(* A plan for a name: the dialogs of a purchase and of a grant choose the  *)
(* user's own name, a new one, or one of the user's services.              *)

Choose(k, u, n) ==
  /\ n = main[u] \/ FreeName(n) \/ owner[n] = u
  /\ Start(k, "chosen", [NoLocals EXCEPT !.user = u, !.name = n])
  /\ UNCHANGED <<database, accounts, history>>

\* provision_for_plan
ProvisionSwallowed(k) ==
  /\ pc[k] = "chosen" /\ Goes(k, "provisioned")
  /\ accounts' \in {accounts, accounts \cup {loc[k].name}}
  /\ UNCHANGED <<database, history>>
Provision(k) ==
  /\ PanelCall(k, "chosen", "provisioned", accounts \cup {loc[k].name})
  /\ UNCHANGED <<database, history>>

ProvisionCommit(k) ==
  /\ pc[k] = "provisioned"
  /\ Upsert(loc[k].user, loc[k].name)
  /\ Return(k)
  /\ UNCHANGED <<main, accounts, trialUsed, renamed, history>>

-----------------------------------------------------------------------------
(* handle_trial and provision_trial *)

AnyTrial(u)     == TRUE
TrialAllowed(u) == u \notin trialUsed

Overlaps(u) ==
  \E j \in Tasks : pc[j] \in {"trial_read", "trial_made"} /\ loc[j].user = u

\* If the settings cannot be read, or allow more than one trial per user, the
\* trial goes on without any check.
TrialRead(k, u) ==
  /\ Start(k, "trial_read", [NoLocals EXCEPT !.user = u, !.name = Default[u]])
  /\ \/ TrialAllowed(u) /\ slipped' = IF Overlaps(u) THEN slipped \cup {u} ELSE slipped
     \/ slipped' = slipped \cup {u}
  /\ UNCHANGED <<database, accounts, trials, renames, hasty, doomed>>

\* Created if need be, then limited; a refused limit is logged and no more.
TrialMake(k) ==
  LET u == loc[k].user
      made == accounts \cup {loc[k].name}
  IN  /\ pc[k] = "trial_read"
      /\ \/ /\ Goes(k, "trial_made") /\ accounts' = made
            /\ trials' = [trials EXCEPT ![u] = @ + 1]
            /\ UNCHANGED slipped
         \/ /\ Return(k) /\ accounts' \in {accounts, made}
            /\ slipped' = slipped \cup {u}
            /\ UNCHANGED trials
      /\ UNCHANGED <<database, renames, hasty, doomed>>

\* Wrong: the setting is named after the account.
TrialKeyByName(k) == loc[k].name
TrialKey(k) == loc[k].user

\* _mark_trial_used, whose errors are swallowed.
TrialMark(k) ==
  LET u == loc[k].user
  IN  /\ pc[k] = "trial_made" /\ Goes(k, "trial_marked")
      /\ \/ trialUsed' = trialUsed \cup {TrialKey(k)} /\ UNCHANGED slipped
         \/ UNCHANGED trialUsed /\ slipped' = slipped \cup {u}
      /\ UNCHANGED <<main, owner, accounts, renamed, trials, renames, hasty, doomed>>

TrialCommit(k) ==
  /\ pc[k] = "trial_marked"
  /\ Upsert(loc[k].user, loc[k].name)
  /\ Return(k)
  /\ UNCHANGED <<main, accounts, trialUsed, renamed, history>>

\* admin_trial_set_value: an admin forgets that the user has had one.
TrialReset(u) ==
  /\ u \in trialUsed /\ trialUsed' = trialUsed \ {u}
  /\ trials' = [trials EXCEPT ![u] = 0]
  /\ UNCHANGED <<main, owner, accounts, renamed, pc, loc, events,
                 slipped, renames, hasty, doomed>>

-----------------------------------------------------------------------------
(* Renaming: a button with a name that was free when it was shown, a look  *)
(* at the time of the last rename, the row of the user, then the panel -   *)
(* where it is a deletion, errors ignored, and a new account.              *)

RenameAsk(k, u, n) ==
  /\ FreeName(n)
  /\ Start(k, "rename", [NoLocals EXCEPT !.user = u, !.name = n])
  /\ UNCHANGED <<database, accounts, history>>

\* _can_rename_now, in a session of its own.
RenameCheck(k) ==
  LET u == loc[k].user
      beside == \E j \in Tasks : pc[j] = "rename_allowed" /\ loc[j].user = u
  IN  /\ pc[k] = "rename"
      /\ IF u \in renamed THEN Return(k) /\ UNCHANGED hasty
         ELSE /\ Goes(k, "rename_allowed")
              /\ hasty' = IF beside THEN hasty \cup {u} ELSE hasty
      /\ UNCHANGED <<database, accounts, trials, slipped, renames, doomed>>

\* Wrong: forgets to save the time.
RenameForgotten(u) == UNCHANGED renamed
RenameSaved(u) == renamed' = renamed \cup {u}

\* The index on marzban_username is unique.
RenameCommit(k) ==
  LET u == loc[k].user
      n == loc[k].name
  IN  /\ pc[k] = "rename_allowed"
      /\ IF FreeName(n)
         THEN /\ main' = [main EXCEPT ![u] = n] /\ RenameSaved(u)
              /\ renames' = [renames EXCEPT ![u] = @ + 1]
              /\ doomed' = doomed \cup {main[u]}
              /\ pc' = [pc EXCEPT ![k] = "rename_delete"]
              /\ loc' = [loc EXCEPT ![k].old = main[u]]
              /\ UNCHANGED events
         ELSE Return(k) /\ UNCHANGED <<main, renamed, renames, doomed>>
      /\ UNCHANGED <<owner, accounts, trialUsed, trials, slipped, hasty>>

RenameDelete(k) ==
  /\ pc[k] = "rename_delete"
  /\ accounts' \in {accounts, accounts \ {loc[k].old}}
  /\ Goes(k, "rename_create")
  /\ UNCHANGED <<database, history>>

RenameCreate(k) ==
  /\ pc[k] = "rename_create"
  /\ accounts' \in {accounts, accounts \cup {loc[k].name}}
  /\ Return(k)
  /\ UNCHANGED <<database, history>>

\* A week has passed since the last rename of the user.
Week(u) ==
  /\ u \in renamed /\ renamed' = renamed \ {u}
  /\ renames' = [renames EXCEPT ![u] = 0]
  /\ UNCHANGED <<main, owner, accounts, trialUsed, pc, loc, events,
                 trials, slipped, hasty, doomed>>

-----------------------------------------------------------------------------
(* Admins: delete a service with its account; create and delete accounts   *)
(* of any name.                                                            *)

DeleteRead(k, n) ==
  /\ owner[n] # None
  /\ Start(k, "delete_panel", [NoLocals EXCEPT !.name = n, !.user = owner[n]])
  /\ doomed' = doomed \cup {n}
  /\ UNCHANGED <<database, accounts, trials, slipped, renames, hasty>>

DeletePanel(k) ==
  /\ PanelCall(k, "delete_panel", "delete_row", accounts \ {loc[k].name})
  /\ UNCHANGED <<database, history>>

\* The row is looked up again, by its user too.
DeleteRow(k) ==
  /\ pc[k] = "delete_row"
  /\ owner' = [owner EXCEPT ![loc[k].name] = IF @ = loc[k].user THEN None ELSE @]
  /\ Return(k)
  /\ UNCHANGED <<main, accounts, trialUsed, renamed, history>>

\* cb_user_delete, /admin_delete, and each account of /admin_delete_expired:
\* the rows stay.
DeleteAccount(n) ==
  /\ n \in accounts
  /\ events < MaxEvents /\ events' = events + 1
  /\ accounts' = accounts \ {n}
  /\ doomed' = doomed \cup {n}
  /\ UNCHANGED <<database, pc, loc, trials, slipped, renames, hasty>>

\* /admin_create
CreateAccount(n) ==
  /\ n \notin accounts
  /\ events < MaxEvents /\ events' = events + 1
  /\ accounts' = accounts \cup {n}
  /\ UNCHANGED <<database, pc, loc, history>>

-----------------------------------------------------------------------------
\* The bot stops, or a statement fails.
Abort(k) ==
  /\ pc[k] # "idle" /\ Return(k)
  /\ slipped' = slipped \cup (IF pc[k] = "trial_made" THEN {loc[k].user} ELSE {})
  /\ UNCHANGED <<database, accounts, trials, renames, hasty, doomed>>

Step(k) ==
  \/ Provision(k) \/ ProvisionCommit(k) \/ TrialMake(k) \/ TrialMark(k) \/ TrialCommit(k)
  \/ RenameCheck(k) \/ RenameCommit(k) \/ RenameDelete(k) \/ RenameCreate(k)
  \/ DeletePanel(k) \/ DeleteRow(k)

Next ==
  \/ \E k \in Tasks, u \in Users, n \in Names : Choose(k, u, n) \/ RenameAsk(k, u, n)
  \/ \E k \in Tasks, u \in Users : TrialRead(k, u)
  \/ \E k \in Tasks, n \in Names : DeleteRead(k, n)
  \/ \E u \in Users : Week(u) \/ TrialReset(u)
  \/ \E n \in Names : DeleteAccount(n) \/ CreateAccount(n)
  \/ \E k \in Tasks : Step(k) \/ Abort(k)

Spec == Init /\ [][Next]_vars

-----------------------------------------------------------------------------
(* Properties *)

\* Every service that is listed has its account on the panel, unless a rename
\* or an admin has set out to delete that account.
RowHasAccount == \A n \in Names \ doomed : owner[n] # None => n \in accounts

\* A user gets one trial, and another one each time an admin has reset it,
\* unless two requests overlapped, one got stuck before it was marked, or it
\* was not checked.
TrialOnce == \A u \in Users \ slipped : trials[u] <= 1

\* A user renames once a week, whatever buttons of earlier dialogs are pressed
\* again, unless two presses were checked before either was carried out.
RenameWeekly == \A u \in Users \ hasty : renames[u] <= 1
=============================================================================
