----------------------------- MODULE TextRouting -----------------------------
(***************************************************************************)
(* Questions the bot asks one person, and which of its handlers gets the   *)
(* text that comes back.  A question is a key of the intent store, which   *)
(* outlives the bot, or an entry of a dictionary in a handler's module,    *)
(* which does not; the manual credit has both.  Asking one question closes *)
(* some of the others.                                                     *)
(*                                                                         *)
(* Handlers are tried in the order their routers were included in; the     *)
(* first whose filter matches has the text, whether it does anything with  *)
(* it or not.  The person is an administrator; whoever is not is asked     *)
(* less.  Buttons of the reply keyboard that are matched before all else,  *)
(* and inline buttons, are actions of their own.                           *)
(***************************************************************************)
EXTENDS Integers, FiniteSets, SequencesExt

CONSTANTS
  Late,     \* questions whose handlers come after the one of the trial settings
  MaxOpen,  \* bound: questions open at the same time
  Nothing

ASSUME TextRoutingAssumption ==
  /\ Late \subseteq {"name", "coupon", "extra", "rename", "unitprice", "reason"}
  /\ MaxOpen \in Nat \ {0}

VARIABLES
  dialogs,  \* the questions that are open, in the store and in memory
  asked     \* history: the last question, till it is answered

routingVars == <<dialogs, asked>>

\* Kinds of text: a word, a name with digits, a number of three digits or
\* more (Persian ones: five) and a shorter one, a number with commas, one of
\* three Arabic digits, a sentence without a digit and with one, and the menu
\* button of the user management.
Texts == {"word", "name", "number", "short", "grouped", "arabic", "note", "noted", "button"}

\* The first three are the filters of start.py.
IsRef(t)    == t \in {"word", "name", "number"}
IsNumber(t) == t \in {"number", "short", "grouped"}
HasDigit(t) == t \in {"name", "number", "short", "grouped", "noted"}
IsInt(t)    == t \in {"number", "short", "arabic"}
IsAmount(t) == IsInt(t) \/ t = "grouped"
IsName(t)   == t \in {"word", "name"}

Stages == {"none", "ref", "unit", "amount"}
CreateSteps == <<"title", "gb", "days", "price">>
Trial  == <<"gb", "days", "reset">>

Stored == Range(Trial) \cup {"name", "coupon"}
Flags  == {"min", "max", "user", "service", "search", "grant", "price"} \cup Range(Trial) \cup Late
Questions == Flags \cup {"manual", "custom", "create", "field"}

RoutingTypeOK ==
  /\ dialogs \in [manual: Stages, memory: Stages,      \* manual credit: in the store, in memory
                  custom: {"none", "asked", "chosen"}, \* amount of a top-up
                  open: SUBSET Flags,
                  step: Range(CreateSteps) \cup {Nothing},  \* creation of a plan
                  field: {"title", "number", Nothing}]     \* change of a plan
  /\ asked \in Questions \cup {Nothing}

RoutingInit ==
  /\ dialogs = [manual |-> "none", memory |-> "none", custom |-> "none", open |-> {},
                step |-> Nothing, field |-> Nothing]
  /\ asked = Nothing

-----------------------------------------------------------------------------
(* What a handler makes of a text: the dialogs after it, and who heard it *)

Unheard(d)  == [dialogs |-> d, heard |-> {}]
Hears(d, q) == [dialogs |-> d, heard |-> {q}]

ClosePlans(d) == [d EXCEPT !.step = Nothing, !.field = Nothing, !.open = @ \ {"price"}]

\* admin_wallet_settings_menu
CloseForSettings(d) ==
  [ClosePlans(d) EXCEPT !.manual = "none", !.memory = "none", !.open = @ \ {"coupon", "reason"}]

\* Any number is a telegram id, and registers its user; a name must be known.
ManualRef(d, t, ok) ==
  IF d.manual # "ref" THEN Unheard(d)
  ELSE Hears(IF ok \/ IsInt(t) THEN [d EXCEPT !.manual = "unit", !.memory = "unit"] ELSE d,
             "manual")

\* The payload is that of the store; without one the memory stays as it is.
ManualAmount(d, t) ==
  CASE d.manual = "none" -> Unheard(d)
    [] d.manual # "none" /\ ~IsAmount(t) -> Unheard(d)
    [] d.manual \in {"ref", "unit"} /\ IsAmount(t) -> Unheard([d EXCEPT !.manual = "none"])
    [] OTHER -> Hears([d EXCEPT !.manual = "none", !.memory = "none"], "manual")

\* The minimum first; the settings are shown again, unless the reply is lost.
Limits(d, t, arrives) ==
  LET asks == d.open \cap {"min", "max"}
      q    == IF "min" \in asks THEN "min" ELSE "max"
      set  == [d EXCEPT !.open = @ \ {q}]
  IN  IF asks = {} \/ ~IsInt(t) THEN Unheard(d)
      ELSE Hears(IF arrives THEN CloseForSettings(set) ELSE set, q)

\* Out of range, it is asked again.
Custom(d, t, ok, arrives) ==
  CASE d.open \cap {"min", "max"} # {} -> Limits(d, t, arrives)
    [] d.open \cap {"min", "max"} = {} /\ (d.custom # "asked" \/ ~IsAmount(t)) -> Unheard(d)
    [] OTHER -> Hears(IF ok THEN [d EXCEPT !.custom = "chosen"] ELSE d, "custom")

\* One handler after the other.
Then(r, s) == [dialogs |-> s.dialogs, heard |-> r.heard \cup s.heard]

\* Wrong: the limits and the custom amount have their turn in any case.
BridgeFallingThrough(d, t, ok, arrives) ==
  LET r1 == IF "amount" \in {d.manual, d.memory} THEN ManualAmount(d, t) ELSE Unheard(d)
      r2 == Then(r1, Limits(r1.dialogs, t, arrives))
  IN  Then(r2, Custom(r2.dialogs, t, ok, arrives))
\* _bridge_wallet_numeric: the manual credit alone, unless its reply raises an
\* error, which the bridge swallows; the limits twice; a custom amount.
Bridge(d, t, ok, arrives) ==
  LET manual == "amount" \in {d.manual, d.memory}
      r1 == IF manual THEN ManualAmount(d, t) ELSE Unheard(d)
      r2 == Then(r1, Limits(r1.dialogs, t, arrives))
      r3 == Then(r2, Limits(r2.dialogs, t, arrives))
  IN  IF manual /\ arrives THEN r1
      ELSE IF r3.dialogs.custom # "asked" THEN r3
      ELSE Then(r3, Custom(r3.dialogs, t, ok, arrives))

PlanPrice(d, t) == Hears([d EXCEPT !.open = @ \ {"price"}], "price")
\* Wrong: the dialog of a plan that has been created is left open.
PlanCreateKept(d, t) ==
  LET i == CHOOSE n \in DOMAIN CreateSteps : CreateSteps[n] = d.step
  IN  IF d.step # "title" /\ ~IsInt(t) THEN Unheard(d)
      ELSE Hears([d EXCEPT !.step = IF i = Len(CreateSteps) THEN "done" ELSE CreateSteps[i + 1]],
                 "create")
PlanCreate(d, t) ==
  LET i == CHOOSE n \in DOMAIN CreateSteps : CreateSteps[n] = d.step
  IN  IF d.step # "title" /\ ~IsInt(t) THEN Unheard(d)
      ELSE Hears([d EXCEPT !.step = IF i = Len(CreateSteps) THEN Nothing ELSE CreateSteps[i + 1]],
                 "create")
PlanField(d, t) ==
  LET closed == [d EXCEPT !.field = Nothing]
  IN  IF d.field = "title" \/ IsInt(t) THEN Hears(closed, "field") ELSE Unheard(closed)

\* The service before the user; a failure of the panel leaves the question.
UserAmount(d, t, ok) ==
  LET q == IF "service" \in d.open THEN "service" ELSE "user"
  IN  IF ~IsInt(t) THEN Unheard(d)
      ELSE Hears(IF ok THEN [d EXCEPT !.open = @ \ {q}] ELSE d, q)
UsersMenu(d) == [d EXCEPT !.open = @ \ {"user", "search"}]
Search(d) == Hears([d EXCEPT !.open = @ \ {"search"}], "search")
GrantName(d, t) ==
  IF IsName(t) THEN Hears([d EXCEPT !.open = @ \ {"grant"}], "grant") ELSE Unheard(d)

\* Volume, days, reset, in this order; otherwise the handler just returns.
TrialSetting(d, t) ==
  LET q == SelectInSeq(Trial, LAMBDA x : x \in d.open)
  IN  IF q = 0 \/ ~IsInt(t) THEN Unheard(d)
      ELSE Hears([d EXCEPT !.open = @ \ {Trial[q]}], Trial[q])

-----------------------------------------------------------------------------
(* Dispatch *)

Order == <<"ref", "numeric", "digits", "price", "create", "field", "users", "amounts",
           "search", "grant", "trial">>

Matches(h, d, t) ==
  \/ h = "ref"     /\ IsRef(t)
  \/ h = "numeric" /\ IsNumber(t)
  \/ h = "digits"  /\ HasDigit(t)
  \/ h = "price"   /\ "price" \in d.open /\ t \in {"number", "arabic"}
  \/ h = "create"  /\ d.step # Nothing
  \/ h = "field"   /\ d.field # Nothing
  \/ h = "users"   /\ t = "button"
  \/ h = "amounts" /\ d.open \cap {"user", "service"} # {} /\ "search" \notin d.open
  \/ h = "search"  /\ "search" \in d.open
  \/ h = "grant"   /\ "grant" \in d.open
  \/ h = "trial"

HandlerOf(d, t) == Order[SelectInSeq(Order, LAMBDA h : Matches(h, d, t))]

Handled(d, t, ok, arrives) ==
  LET h == HandlerOf(d, t)
  IN  CASE h = "ref"     -> ManualRef(d, t, ok)
        [] h \in {"numeric", "digits"} -> Bridge(d, t, ok, arrives)
        [] h = "price"   -> PlanPrice(d, t)
        [] h = "create"  -> PlanCreate(d, t)
        [] h = "field"   -> PlanField(d, t)
        [] h = "users"   -> Unheard(UsersMenu(d))
        [] h = "amounts" -> UserAmount(d, t, ok)
        [] h = "search"  -> Search(d)
        [] h = "grant"   -> GrantName(d, t)
        [] h = "trial"   -> TrialSetting(d, t)

Text(t) ==
  \E ok, arrives \in BOOLEAN :
    LET r == Handled(dialogs, t, ok, arrives)
    IN  /\ dialogs' = r.dialogs
        /\ asked' = IF asked \in r.heard THEN Nothing ELSE asked

-----------------------------------------------------------------------------
(* Questions, and the buttons that close them *)

Open == dialogs.open
  \cup {q \in {"manual"} : dialogs.manual # "none" \/ dialogs.memory # "none"}
  \cup {q \in {"custom"} : dialogs.custom = "asked"}
  \cup {q \in {"create"} : dialogs.step # Nothing} \cup {q \in {"field"} : dialogs.field # Nothing}

Ask(q, d) ==
  /\ Cardinality(Open \cup {q}) <= MaxOpen
  /\ dialogs' = d
  /\ asked' = q

Button(d) ==
  /\ dialogs' = d /\ d # dialogs
  /\ UNCHANGED asked

\* Wrong: the memory keeps what an earlier credit has left there.
AskManualStored ==
  Ask("manual", [ClosePlans(dialogs) EXCEPT !.open = @ \ {"user", "service", "search"},
                                            !.manual = "ref"])
AskManual ==
  Ask("manual", [ClosePlans(dialogs) EXCEPT !.open = @ \ {"user", "service", "search"},
                                            !.manual = "ref", !.memory = "ref"])
AskUnit ==
  /\ dialogs.manual = "unit"
  /\ Ask("manual", [dialogs EXCEPT !.manual = "amount", !.memory = "amount"])

\* The administrator as a customer: only the store forgets the manual credit.
AskCustom == Ask("custom", [dialogs EXCEPT !.manual = "none", !.custom = "asked"])

AskLimit(q) ==
  /\ q \in {"min", "max"}
  /\ Ask(q, [ClosePlans(dialogs) EXCEPT !.open = @ \cup {q}])

\* Neither of the first two closes the other; a search closes one of them.
AskUsers(q) ==
  \/ q \in {"user", "service"} /\ Ask(q, [dialogs EXCEPT !.open = (@ \ {"search"}) \cup {q}])
  \/ q = "search" /\ Ask(q, [dialogs EXCEPT !.open = (@ \ {"user"}) \cup {q}])

AskFlag(q) ==
  /\ q \in {"grant", "price"} \cup Range(Trial) \cup Late
  /\ Ask(q, [dialogs EXCEPT !.open = @ \cup {q}])

AskPlan ==
  \/ Ask("create", [dialogs EXCEPT !.step = "title"])
  \/ \E f \in {"title", "number"} : Ask("field", [dialogs EXCEPT !.field = f])

Cancel == Button([dialogs EXCEPT !.manual = "none", !.memory = "none"])
WalletMenu == Button([dialogs EXCEPT !.manual = "none"])
SettingsMenu == Button(CloseForSettings(dialogs))
UsersMenuButton == Button(UsersMenu(dialogs))
ViewUser == Button([dialogs EXCEPT !.open = @ \ {"user", "service"}])
ChooseAmount == Button([dialogs EXCEPT !.custom = "chosen"])
Receipt == Button([dialogs EXCEPT !.custom = "none"])
Drop(q) ==
  /\ q \in {"name", "coupon", "extra", "rename"}
  /\ Button([dialogs EXCEPT !.open = @ \ {q}])

\* The bot is started again: the dictionaries are empty.
Restart ==
  /\ Button([dialogs EXCEPT !.memory = "none", !.open = @ \cap Stored,
                           !.step = Nothing, !.field = Nothing])

RoutingNext ==
  \/ \E t \in Texts : Text(t)
  \/ AskManual \/ AskUnit \/ AskCustom \/ AskPlan
  \/ \E q \in Flags : AskLimit(q) \/ AskUsers(q) \/ AskFlag(q) \/ Drop(q)
  \/ Cancel \/ WalletMenu \/ SettingsMenu \/ UsersMenuButton \/ ViewUser
  \/ ChooseAmount \/ Receipt \/ Restart

RoutingSpec == RoutingInit /\ [][RoutingNext]_routingVars

-----------------------------------------------------------------------------
(* Properties *)

\* Who hears a text now, and when its reply fails.
Hearers(t, arrives) == UNION {Handled(dialogs, t, ok, arrives).heard : ok \in BOOLEAN}

\* A text is the answer to one question, except for what the numeric bridge
\* is known to do: a short number may set both limits of a top-up, and its
\* amount as well; after a reply that failed, any number may.
TextCountsOnce ==
  \A t \in Texts :
    /\ Cardinality(Hearers(t, TRUE)) > 1
         => t = "short" /\ Hearers(t, TRUE) \subseteq {"min", "max", "custom"}
    /\ Cardinality(Hearers(t, FALSE)) > 1 => IsNumber(t)

\* The amount of a manual credit that waits for it is credited, whatever else
\* is open and whatever the memory has lost - if it gets to the bridge, as
\* amounts of less than three digits and amounts with commas do.  Three digits
\* and more are taken for a telegram id before that (AnswerReachesDialog).
AmountHeard ==
  dialogs.manual = "amount" =>
    \A t \in {"short", "grouped"}, arrives \in BOOLEAN : "manual" \in Hearers(t, arrives)

\* No text closes a manual credit that waits for its user or its unit, whatever
\* an earlier credit has left in memory - except the number that sets a limit
\* of top-ups, whose menu closes it.
KeepsWaiting ==
  dialogs.manual \in {"ref", "unit"} /\ dialogs.open \cap {"min", "max"} = {} =>
    \A t \in Texts, ok, arrives \in BOOLEAN :
      Handled(dialogs, t, ok, arrives).dialogs.manual # "none"

\* So neither a restart nor a text loses the place of a manual credit
\* (the copies of it in the intent store and in the dictionary of wallet.py).
CreditSurvives == AmountHeard /\ KeepsWaiting

\* start.py: numeric messages are routed deterministically to the right flow;
\* wallet.py: arbitrary text is parsed for the amount of a top-up.  The text a
\* question asks for would then be its answer.
Expected(q) ==
  CASE q = "custom" -> {"number", "noted"}
    [] q \in {"min", "max", "price", "unitprice", "reset"} -> {"number"}
    [] q \in {"user", "service", "extra", "gb", "days"} -> {"short"}
    [] q \in {"name", "rename", "grant"} -> {"name"}
    [] q = "reason" -> {"note"}
    [] OTHER -> {}
AnswerReachesDialog ==
  asked # Nothing => \A t \in Expected(asked) : asked \in Hearers(t, TRUE)
=============================================================================
