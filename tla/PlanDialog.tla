----------------------------- MODULE PlanDialog -----------------------------
(***************************************************************************)
(* Buying a plan with buttons, one person.  What has been chosen so far is *)
(* kept under three keys of the intent store, while the buttons carry the  *)
(* plan they are for, and at times a service.  Every message keeps its     *)
(* keyboard, so there are older ones to press than the latest; and writing *)
(* or deleting a key may fail, which the handlers swallow.                 *)
(*                                                                         *)
(* A press is one step, except the confirmation.  It reads the kind of     *)
(* purchase first, waits until it has the user's row to itself, and reads  *)
(* then which account is meant; the purchase goes on for as long as the    *)
(* panel takes (module Purchase), is committed, and deletes the choices in *)
(* the end.  Other buttons can be pressed all the while, a confirmation    *)
(* once more among them.  Typing in a name of one's own is left to module  *)
(* TextRouting.                                                            *)
(***************************************************************************)
EXTENDS Integers

CONSTANTS
  Plans,
  Services,  \* names of the services the person may have to begin with
  Random,    \* names the bot makes up
  Default,   \* users.marzban_username
  Buyers,    \* confirmations that are worked on at the same time
  None

ASSUME PlanDialogAssumption ==
  /\ Services \cap Random = {} /\ Default \notin Services \cup Random
  /\ None \notin Plans \cup Services \cup Random \cup {Default}

VARIABLES
  mode,     \* INTENT:BUY:MODE: the plan, and whether a service is extended
  sel,      \* INTENT:BUY:SEL: the plan, and the name of a new service
  ext,      \* INTENT:BUY:EXT: the service; its plan is stored but never read
  mine,     \* rows of user_services: the names of the person's services
  selling,  \* the purchases that are under way
  screen    \* history: the latest keyboard, until an older one is pressed
            \* that changes something or shows another, a press fails, or a
            \* purchase deletes choices at its end

dialogVars == <<mode, sel, ext, mine, selling, screen>>
intents == <<mode, sel, ext>>

Names == Services \cup Random \cup {Default}

Keyboard(at, p, n) == [at |-> at, plan |-> p, name |-> n]
Keyboards ==
  [at: {"mode", "names", "services"}, plan: Plans, name: {None}]
  \cup [at: {"confirm"}, plan: Plans, name: Names]

Modes == [plan: Plans, extends: BOOLEAN]
Picks == [plan: Plans, name: Random]

\* A purchase: how far it is, what it has read of the choices ("extends",
\* "name") and of the table ("known").  "shown" is history: the name on the
\* confirmation, if it was that of the dialog on the screen, until a choice is
\* changed that the purchase has still to read.
SalesAt(stages, names) ==
  [at: stages, plan: Plans, extends: BOOLEAN, name: names, known: SUBSET Names,
   shown: Names \cup {None}]
Unread == {"pressed", "mode"}

\* After its commit it has only to delete the choices.
Clearing == [at |-> "clear"]

Sales == SalesAt(Unread, {None}) \cup SalesAt({"panel"}, Names) \cup {Clearing}

ASSUME NoneAssumption == None \notin Modes \cup Picks \cup Keyboards \cup Sales

DialogTypeOK ==
  /\ mode \in Modes \cup {None}
  /\ sel \in Picks \cup {None}
  /\ ext \in Names \cup {None}
  /\ mine \subseteq Names
  /\ selling \in [Buyers -> Sales \cup {None}]
  /\ screen \in Keyboards \cup {None}

\* Keyboards of earlier dialogs are still there, and the name of users is that
\* of a service once they have bought one without another name.
DialogInit ==
  /\ mine \in SUBSET (Services \cup {Default})
  /\ mode = None /\ sel = None /\ ext = None
  /\ selling = [b \in Buyers |-> None] /\ screen = None

-----------------------------------------------------------------------------
(* Steps the handlers share *)

Shows(calm, kb) == screen' = IF calm THEN kb ELSE None

\* What becomes of the purchases that did not take this step.
Aside(b) ==
  IF selling[b] # None /\ selling[b].at \in Unread /\ intents' # intents
  THEN [selling[b] EXCEPT !.shown = None]
  ELSE selling[b]
Watched == selling' = [b \in Buyers |-> Aside(b)]

\* A press on a keyboard, the latest or an older one, stores a choice and
\* shows the next keyboard; it does that too if the choice is not stored.
Press(kb, key, value, next) ==
  /\ \/ key' = value /\ Shows(kb = screen, next)
     \/ key' = key /\ Shows(FALSE, next)
  /\ UNCHANGED mine /\ Watched

\* The keys are deleted one by one, and the first failure ends it.
Cleared(count) ==
  /\ sel'  = IF count >= 1 THEN None ELSE sel
  /\ mode' = IF count >= 2 THEN None ELSE mode
  /\ ext'  = IF count >= 3 THEN None ELSE ext

-----------------------------------------------------------------------------
(* The handlers *)

\* cb_plan_buy: a dialog begins, with the question for the kind of purchase
\* if there is a service to extend, else with a new one.
PlanBuy(p) ==
  /\ mine # {}
  /\ \E count \in 0..3 : Cleared(count) /\ Shows(count = 3, Keyboard("mode", p, None))
  /\ UNCHANGED mine /\ Watched

PlanBuyFirst(p) ==
  /\ mine = {}
  /\ \/ /\ sel' = None /\ ext' = None /\ mode' = [plan |-> p, extends |-> FALSE]
        /\ Shows(TRUE, Keyboard("names", p, None))
     \/ /\ \E count \in 0..3 : Cleared(count)
        /\ Shows(FALSE, None)
  /\ UNCHANGED mine /\ Watched

\* cb_plan_mode_sel, from the keyboard on the screen or an older one: back to
\* that question; nothing is forgotten.
PlanModeSel(p) ==
  /\ \E kb \in {screen, None} :
       /\ kb # None => kb.at # "mode" /\ kb.plan = p
       /\ Shows(kb # None, Keyboard("mode", p, None))
  /\ UNCHANGED <<intents, mine, selling>>

\* cb_plan_mode_new
\* Wrong: leaves the kind of purchase as it was.
NewKeepingMode(p) ==
  /\ UNCHANGED <<sel, mode>>
  /\ Press(Keyboard("mode", p, None), ext, ext, Keyboard("names", p, None))
PlanModeNew(p) ==
  /\ UNCHANGED <<sel, ext>>
  /\ Press(Keyboard("mode", p, None), mode, [plan |-> p, extends |-> FALSE],
           Keyboard("names", p, None))

\* cb_plan_mode_ext; without services there is nothing to choose from.
PlanModeExt(p) ==
  /\ UNCHANGED <<sel, ext>>
  /\ Press(Keyboard("mode", p, None), mode, [plan |-> p, extends |-> TRUE],
           IF mine = {} THEN screen ELSE Keyboard("services", p, None))

\* cb_plan_uname_rnd
PlanUnameRnd(p, n) ==
  /\ n \in Random
  /\ UNCHANGED <<mode, ext>>
  /\ Press(Keyboard("names", p, None), sel, [plan |-> p, name |-> n],
           Keyboard("confirm", p, n))

\* cb_plan_extend_select
PlanExtendSelect(p, n) ==
  /\ n \in mine
  /\ UNCHANGED <<mode, sel>>
  /\ Press(Keyboard("services", p, None), ext, n, Keyboard("confirm", p, n))

\* cb_plan_cancel, a button of every confirmation.
PlanCancel ==
  /\ \E count \in 0..3 : Cleared(count)
  /\ Shows(FALSE, None)
  /\ UNCHANGED mine /\ Watched

-----------------------------------------------------------------------------
(* cb_plan_final and _do_purchase *)

Extends(p) == mode # None /\ mode.plan = p /\ mode.extends

\* A choice made for another plan, or none, is the name the user has anyway.
NewName(p) == IF sel # None /\ sel.plan = p THEN sel.name ELSE Default

Goes(b, sale) == selling' = [selling EXCEPT ![b] = sale]

\* The confirmation, of the latest message or an older one.  The keyboard
\* stays, and pressing it once more is another purchase.
PlanFinal(b, p) ==
  /\ selling[b] = None
  /\ \E kb \in {screen, None} :
       /\ kb # None => kb.at = "confirm" /\ kb.plan = p
       /\ Goes(b, [at |-> "pressed", plan |-> p, extends |-> FALSE, name |-> None, known |-> {},
                   shown |-> IF kb = None THEN None ELSE kb.name])
  /\ UNCHANGED <<intents, mine, screen>>

\* The session takes its snapshot, and the kind of purchase is read.
PlanMode(b) ==
  LET s == selling[b]
  IN  /\ s # None /\ s.at = "pressed"
      /\ Goes(b, [s EXCEPT !.at = "mode", !.extends = Extends(s.plan), !.known = mine])
      /\ UNCHANGED <<intents, mine, screen>>

\* The balance has been written, for which the purchase must have the user's
\* row to itself; then the account is looked up that is meant now.
Target(b) == IF selling[b].extends THEN ext ELSE NewName(selling[b].plan)

HasRow(b) == \A c \in Buyers \ {b} : selling[c] # None => selling[c].at # "panel"

\* Wrong: does not look the service up before it provisions.
TargetUnchecked(b) ==
  /\ selling[b] # None /\ selling[b].at = "mode" /\ HasRow(b)
  /\ Goes(b, [selling[b] EXCEPT !.at = "panel", !.name = Target(b)])
  /\ UNCHANGED <<intents, mine, screen>>
PlanTarget(b) ==
  /\ selling[b] # None /\ selling[b].at = "mode" /\ HasRow(b)
  /\ selling[b].extends => ext \in selling[b].known
  /\ Goes(b, [selling[b] EXCEPT !.at = "panel", !.name = Target(b)])
  /\ UNCHANGED <<intents, mine, screen>>

\* COMMIT.  A row of that name which is there but not in the snapshot is
\* inserted once more, and that is an error.
PurchaseCommit(b) ==
  LET s == selling[b]
  IN  /\ s # None /\ s.at = "panel"
      /\ s.name \in mine => s.name \in s.known
      /\ mine' = mine \cup {s.name}
      /\ Goes(b, Clearing)
      /\ UNCHANGED <<intents, screen>>

\* After it the choices are deleted, whichever dialog they are of by now.
PurchaseClears(b) ==
  /\ selling[b] # None /\ selling[b].at = "clear"
  /\ \E count \in 0..3 : Cleared(count)
  /\ selling' = [c \in Buyers |-> IF c = b THEN None ELSE Aside(c)]
  /\ Shows(intents' = intents, screen)
  /\ UNCHANGED mine

\* An early return, an error of the panel or the database, or the bot stops.
PurchaseFails(b) ==
  /\ selling[b] # None /\ selling[b].at # "clear"
  /\ Goes(b, None)
  /\ UNCHANGED <<intents, mine, screen>>

\* What concerns the dialog only.
PressButton ==
  \/ \E p \in Plans :
       \/ PlanBuy(p) \/ PlanBuyFirst(p)
       \/ PlanModeSel(p) \/ PlanModeNew(p) \/ PlanModeExt(p)
       \/ \E n \in Names : PlanUnameRnd(p, n) \/ PlanExtendSelect(p, n)
  \/ PlanCancel
  \/ \E b \in Buyers : PlanMode(b) \/ PurchaseClears(b)
=============================================================================
