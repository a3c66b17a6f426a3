--------------------------- MODULE PurchaseProofs ---------------------------
(***************************************************************************)
(* Proofs about the two modules of a person's dialogs with the bot.  Of    *)
(* Purchase, and the modules it is composed of: what flows do to the       *)
(* accounts on the panel adds up, and a purchase delivers what its         *)
(* confirmation has promised, for any plans, accounts, flows and bounds.   *)
(* Of TextRouting, in the second part: which dialog a text is taken for,   *)
(* for any questions after the handler of the trial settings.              *)
(***************************************************************************)
EXTENDS Purchase, TextRouting, FiniteSetTheorems, TLAPS

(***************************************************************************)
(* The inductive invariant.  Of the dialog: the latest keyboard fits the   *)
(* choices that are stored, and a purchase that has still to read some of  *)
(* them will find what its confirmation has shown, unless they are changed *)
(* under it.  Of the flows: each is about the account its purchase has     *)
(* read, and one that no other has crossed finds it as it has left it.     *)
(***************************************************************************)

\* What is stored stands for buying p for the account n.
Chosen(p, n) ==
  \/ mode = [plan |-> p, extends |-> TRUE] /\ ext = n
  \/ /\ mode = [plan |-> p, extends |-> FALSE]
     /\ sel = [plan |-> p, name |-> n] /\ sel \in Picks

\* What is stored by the time a keyboard is shown.
ScreenOK ==
  screen # None =>
    /\ screen.at = "names" => mode = [plan |-> screen.plan, extends |-> FALSE]
    /\ screen.at = "services" => mode = [plan |-> screen.plan, extends |-> TRUE]
    /\ screen.at = "confirm" => Chosen(screen.plan, screen.name)

\* What a purchase has read, and what it has still to read, is what its
\* confirmation has shown.
Means(s) ==
  /\ s.at = "pressed" /\ s.shown # None => Chosen(s.plan, s.shown)
  /\ s.at = "mode" /\ s.shown # None => s.shown = IF s.extends THEN ext ELSE NewName(s.plan)
  /\ s.at = "panel" /\ s.shown # None => s.shown = s.name

SalesOK == \A b \in Buyers : selling[b] # None => Means(selling[b])

\* The flow of a purchase is about the account it has read.
InPanel(b) == selling[b] # None /\ selling[b].at = "panel"
BuyersOK ==
  \A b \in Buyers :
    /\ InPanel(b) <=> flow[b].at # "idle"
    /\ InPanel(b) => /\ flow[b].name = selling[b].name
                     /\ flow[b].at \in {"create", "expire", "limit", "done"}

\* The contents of an account that exists.
Real == [limit: 0..MaxVolume, expire: 0..MaxDay]

FlowType == [at: Steps, name: Accounts \cup {Nobody}, saw: Contents,
             list: SUBSET Accounts, crossed: BOOLEAN]

\* A flow's locals are of use where it is: what it writes stays in bounds.
LocalsOK(f) ==
  /\ f \in FlowType
  /\ f.at \notin {"idle", "list", "delete"} => f.name \in Accounts
  /\ f.at = "add" => f.saw \in Real /\ f.saw.limit < MaxVolume
  /\ f.at = "extend" => f.saw \in Real /\ f.saw.expire < MaxDay
  /\ f.at \in {"limit", "done"} => f.saw \in Real /\ f.saw.limit = PlanVolume

\* What a flow that has set the expiry, or both, may still find.
Finds(f, contents) ==
  ~f.crossed => /\ f.at = "limit" => contents \in Real /\ contents.expire = f.saw.expire
                /\ f.at = "done" => contents = f.saw

FlowsOK == \A k \in Flows : LocalsOK(flow[k]) /\ Finds(flow[k], acct[flow[k].name])

\* A plan sold today expires on a day there is.
TodayOK == today \in 1..(MaxDay - PlanDays)

AccountsOK == AccountsTypeOK /\ TodayOK /\ FlowsOK /\ AdditionsKept

DialogOK == DialogTypeOK /\ ScreenOK /\ SalesOK

IInv == DialogOK /\ BuyersOK /\ AccountsOK

-----------------------------------------------------------------------------
(* Contents and flows *)

\* An account exists if and only if it has contents.
LEMMA ContentsReal ==
  ASSUME NEW c \in Contents
  PROVE  (c # Absent <=> c \in Real) /\ Real \subseteq Contents /\ Absent \in Contents
<1>1. Absent.limit = -1 /\ \A r \in Real : r.limit \in 0..MaxVolume
  BY DEF Absent, Real
<1>2. Absent \notin Real
  BY <1>1, AccountsAssumption
<1>3. QED
  BY <1>2 DEF Contents, Real

\* What is written to an account is of the right kind.
LEMMA Promises ==
  /\ Fresh \in Real /\ Old \in Real /\ Real \subseteq Contents
  /\ Real \subseteq [limit: Int, expire: Int] /\ Contents \subseteq [limit: Int, expire: Int]
  /\ Absent \in [limit: Int, expire: Int]
<1>1. Real \subseteq [limit: Int, expire: Int] /\ Absent \in [limit: Int, expire: Int]
  BY AccountsAssumption DEF Real, Absent
<1>2. 0 \in 0..MaxVolume /\ 0 \in 0..MaxDay /\ 1 \in 0..MaxDay /\ PlanVolume \in 0..MaxVolume
  BY AccountsAssumption
<1>3. QED
  BY <1>1, <1>2 DEF Contents, Real, Fresh, Old

\* No flow.
LEMMA NoFlowOK ==
  LocalsOK(NoFlow) /\ (\A c : Finds(NoFlow, c)) /\ NoFlow.at = "idle"
<1>1. NoFlow \in FlowType
  BY DEF NoFlow, FlowType, Steps, Contents
<1>2. QED
  BY <1>1 DEF NoFlow, LocalsOK, Finds

\* Others keep their place, whatever they are told of.
Kept(k) ==
  \A j \in Flows \ {k} : flow'[j].at = flow[j].at /\ flow'[j].name = flow[j].name

\* A flow goes on and writes nothing.
LEMMA Moves ==
  ASSUME AccountsOK, NEW k \in Flows, NEW f, LocalsOK(f), Finds(f, acct[f.name]),
         flow' = [flow EXCEPT ![k] = f], UNCHANGED <<acct, today, owed>>,
         events' \in 0..MaxEvents, overtaken' = overtaken
  PROVE  AccountsOK' /\ flow'[k] = f /\ Kept(k)
<1>1. flow \in [Flows -> FlowType] /\ f \in FlowType
  BY DEF AccountsOK, AccountsTypeOK, FlowType, LocalsOK
<1>2. /\ flow' \in [Flows -> FlowType] /\ flow'[k] = f
      /\ \A j \in Flows \ {k} : flow'[j] = flow[j]
  BY <1>1
<1>3. FlowsOK'
  BY <1>2 DEF AccountsOK, FlowsOK
<1>4. AccountsTypeOK'
  BY <1>2 DEF AccountsOK, AccountsTypeOK, FlowType
<1>5. QED
  BY <1>2, <1>3, <1>4 DEF AccountsOK, TodayOK, AdditionsKept, Kept

\* A flow writes to an account: the others at that account are crossed.
LEMMA Writes ==
  ASSUME AccountsOK, NEW k \in Flows, NEW n \in Accounts, NEW c \in Contents,
         NEW o \in [limit: Int, expire: Int], NEW f,
         LocalsOK(f), Finds(f, c), f.at \in {"limit", "done"} => f.name = n,
         Becomes(n, c, o), Written(k, n, f), today' = today, events' \in 0..MaxEvents,
         overtaken' \subseteq Accounts, overtaken \ {n} \subseteq overtaken',
         n \in overtaken' \/ c = o
  PROVE  AccountsOK' /\ flow'[k] = f /\ Kept(k)
<1>1. /\ acct' \in [Accounts -> Contents] /\ acct'[n] = c
      /\ \A m \in Accounts \ {n} : acct'[m] = acct[m]
  BY DEF AccountsOK, AccountsTypeOK, Becomes
<1>2. /\ owed' \in [Accounts -> [limit: Int, expire: Int]] /\ owed'[n] = o
      /\ \A m \in Accounts \ {n} : owed'[m] = owed[m]
  BY DEF AccountsOK, AccountsTypeOK, Becomes
<1>3. AdditionsKept'
  BY <1>1, <1>2 DEF AccountsOK, AdditionsKept
<1>4. flow \in [Flows -> FlowType]
  BY DEF AccountsOK, AccountsTypeOK, FlowType
<1>5. flow'[k] = f
  BY DEF Written
<1>6. ASSUME NEW j \in Flows \ {k}
      PROVE  /\ LocalsOK(flow'[j]) /\ Finds(flow'[j], acct'[flow'[j].name])
             /\ flow'[j].at = flow[j].at /\ flow'[j].name = flow[j].name
  <2> DEFINE g == [flow[j] EXCEPT !.crossed = @ \/ flow[j].name = n]
  <2>1. flow'[j] = g
    BY <1>6 DEF Written
  <2>2. LocalsOK(flow[j]) /\ Finds(flow[j], acct[flow[j].name])
    BY DEF AccountsOK, FlowsOK
  <2>3. /\ g \in FlowType /\ g.at = flow[j].at /\ g.name = flow[j].name
        /\ g.saw = flow[j].saw /\ g.crossed = (flow[j].crossed \/ flow[j].name = n)
    BY <1>4 DEF FlowType
  <2> HIDE DEF g
  <2>4. LocalsOK(g)
    BY <2>2, <2>3 DEF LocalsOK
  <2>5. Finds(g, acct'[g.name])
    <3>1. CASE g.name \in Accounts \ {n}
      BY <1>1, <2>2, <2>3, <3>1 DEF Finds
    <3>2. CASE g.name = n
      BY <2>3, <3>2 DEF Finds
    <3>3. CASE g.name \notin Accounts
      BY <2>3, <2>4, <3>3 DEF Finds, LocalsOK
    <3>4. QED
      BY <3>1, <3>2, <3>3
  <2>6. QED
    BY <2>1, <2>3, <2>4, <2>5
<1>7. FlowsOK' /\ Kept(k)
  BY <1>1, <1>5, <1>6 DEF FlowsOK, Kept, Finds
<1>8. flow' \in [Flows -> FlowType]
  BY <1>5, <1>6 DEF LocalsOK, Written
<1>9. AccountsTypeOK'
  BY <1>1, <1>2, <1>8 DEF AccountsOK, AccountsTypeOK, FlowType
<1>10. QED
  BY <1>3, <1>5, <1>7, <1>9 DEF AccountsOK, TodayOK

\* A call to the panel, whether it has its effect and is answered or not.
LEMMA Calls ==
  ASSUME AccountsOK, NEW k \in Flows, NEW n \in Accounts, NEW c \in Contents,
         NEW o \in [limit: Int, expire: Int], NEW f,
         LocalsOK(f), Finds(f, c), f.at \in {"limit", "done"} => f.name = n,
         PanelCall(k, n, c, o, f), today' = today, events' \in 0..MaxEvents,
         overtaken' \subseteq Accounts, overtaken \subseteq overtaken',
         owed' = owed => overtaken' = overtaken,
         Becomes(n, c, o) => n \in overtaken' \/ c = o
  PROVE  AccountsOK' /\ Kept(k) /\ (flow'[k] = f \/ flow'[k] = NoFlow)
<1>1. CASE Becomes(n, c, o) /\ Written(k, n, f)
  <2>1. overtaken \ {n} \subseteq overtaken'
    OBVIOUS
  <2>2. QED
    BY <1>1, <2>1, Writes
<1>2. CASE Becomes(n, c, o) /\ Written(k, n, NoFlow)
  <2>1. overtaken \ {n} \subseteq overtaken' /\ NoFlow.at \notin {"limit", "done"}
    BY NoFlowOK
  <2>2. LocalsOK(NoFlow) /\ Finds(NoFlow, c)
    BY NoFlowOK
  <2>3. QED
    BY <1>2, <2>1, <2>2, Writes
<1>3. CASE Returns(k) /\ UNCHANGED <<acct, owed>>
  <2>1. LocalsOK(NoFlow) /\ Finds(NoFlow, acct[NoFlow.name])
    BY NoFlowOK
  <2>2. QED
    BY <1>3, <2>1, Moves DEF Returns
<1>4. QED
  BY <1>1, <1>2, <1>3 DEF PanelCall

\* A flow that ends without a call.
LEMMA Ends ==
  ASSUME AccountsOK, NEW k \in Flows, Returns(k), UNCHANGED <<acct, today, events, owed, overtaken>>
  PROVE  AccountsOK' /\ Kept(k) /\ flow'[k] = NoFlow
<1>1. LocalsOK(NoFlow) /\ Finds(NoFlow, acct[NoFlow.name])
  BY NoFlowOK
<1>2. events' \in 0..MaxEvents
  BY DEF AccountsOK, AccountsTypeOK
<1>3. QED
  BY <1>1, <1>2, Moves DEF Returns

\* What is true of an account a flow acts on.
LEMMA At ==
  ASSUME AccountsOK, NEW k \in Flows, flow[k].at \notin {"idle", "list", "delete"}
  PROVE  LET n == flow[k].name
         IN  /\ n \in Accounts /\ acct[n] \in Contents
             /\ owed[n] \in [limit: Int, expire: Int]
             /\ Exists(n) <=> acct[n] \in Real
             /\ n \in overtaken \/ acct[n] = owed[n]
             /\ flow[k] \in FlowType /\ LocalsOK(flow[k]) /\ Finds(flow[k], acct[n])
             /\ events \in 0..MaxEvents /\ overtaken \subseteq Accounts /\ today \in 1..MaxDay
  BY ContentsReal DEF AccountsOK, FlowsOK, LocalsOK, AccountsTypeOK, AdditionsKept, Exists, FlowType

-----------------------------------------------------------------------------
(* Provisioning *)

\* Where provisioning gets in one step.
Advances(k) ==
  flow'[k].at = "idle" \/ (/\ flow'[k].name = flow[k].name
                           /\ flow'[k].at \in {"expire", "limit", "done"})

\* The account is created unless it exists.
LEMMA CreateKeeps ==
  ASSUME AccountsOK, NEW k \in Flows, Create(k)
  PROVE  AccountsOK' /\ Kept(k) /\ Advances(k)
<1> DEFINE n == flow[k].name
           f == [flow[k] EXCEPT !.at = "expire"]
<1>1. flow[k].at = "create" /\ UNCHANGED <<today, events, overtaken>>
  BY DEF Create
<1>2. /\ n \in Accounts /\ flow[k] \in FlowType /\ LocalsOK(flow[k])
      /\ events' \in 0..MaxEvents /\ overtaken \subseteq Accounts
  BY <1>1, At
<1>3. f \in FlowType /\ f.at = "expire" /\ f.name = n
  BY <1>2 DEF FlowType, Steps
<1>4. \/ flow' = [flow EXCEPT ![k] = f] /\ UNCHANGED <<acct, owed>>
      \/ PanelCall(k, n, Fresh, Fresh, f)
  BY DEF Create
<1> HIDE DEF f
<1>5. LocalsOK(f) /\ \A c \in Contents \cup {acct[f.name]} : Finds(f, c)
  BY <1>2, <1>3 DEF LocalsOK, Finds
<1> HIDE DEF n
<1>6. Fresh \in Contents /\ Fresh \in [limit: Int, expire: Int]
  BY Promises
<1>7. CASE flow' = [flow EXCEPT ![k] = f] /\ UNCHANGED <<acct, owed>>
  <2>1. AccountsOK' /\ flow'[k] = f /\ Kept(k)
    BY <1>1, <1>2, <1>5, <1>7, Moves
  <2>2. QED
    BY <1>3, <2>1 DEF Advances, n
<1>8. CASE PanelCall(k, n, Fresh, Fresh, f)
  <2>1. AccountsOK' /\ Kept(k) /\ (flow'[k] = f \/ flow'[k] = NoFlow)
    BY <1>1, <1>2, <1>3, <1>5, <1>6, <1>8, Calls
  <2>2. QED
    BY <1>3, <2>1, NoFlowOK DEF Advances, n
<1>9. QED
  BY <1>4, <1>7, <1>8

\* Then its expiry is set.
LEMMA SetExpireKeeps ==
  ASSUME AccountsOK, NEW k \in Flows, SetExpire(k)
  PROVE  AccountsOK' /\ Kept(k) /\ Advances(k)
<1> DEFINE n == flow[k].name
           day == IF PlanDays = 0 THEN 0 ELSE today + PlanDays
           saw == [limit |-> PlanVolume, expire |-> day]
           f == [flow[k] EXCEPT !.at = "limit", !.saw = saw]
           c == [acct[n] EXCEPT !.expire = day]
           o == [owed[n] EXCEPT !.expire = day]
<1>1. flow[k].at = "expire" /\ UNCHANGED <<today, events, overtaken>>
  BY DEF SetExpire
<1>2. /\ n \in Accounts /\ flow[k] \in FlowType /\ LocalsOK(flow[k])
      /\ owed[n] \in [limit: Int, expire: Int] /\ (n \in overtaken \/ acct[n] = owed[n])
      /\ events' \in 0..MaxEvents /\ overtaken \subseteq Accounts
      /\ Exists(n) <=> acct[n] \in Real
  BY <1>1, At
<1>3. day \in 0..MaxDay /\ PlanVolume \in 0..MaxVolume
  BY AccountsAssumption DEF AccountsOK, TodayOK
<1>4. saw \in Real /\ saw.limit = PlanVolume /\ saw.expire = day
  BY <1>3 DEF Real
<1>5. \/ Exists(n) /\ PanelCall(k, n, c, o, f)
      \/ Returns(k) /\ UNCHANGED <<acct, owed>>
  BY DEF SetExpire
<1> HIDE DEF saw
<1>a. saw \in Contents
  BY <1>4, Promises
<1>6. f \in FlowType /\ f.at = "limit" /\ f.name = n /\ f.saw = saw
  BY <1>2, <1>a DEF FlowType, Steps
<1> HIDE DEF f
<1>7. LocalsOK(f)
  BY <1>2, <1>4, <1>6 DEF LocalsOK
<1> HIDE DEF n, day
<1>8. CASE Exists(n) /\ PanelCall(k, n, c, o, f)
  <2>1. c \in Real /\ c.expire = day /\ o \in [limit: Int, expire: Int]
    <3>1. acct[n] \in Real
      BY <1>2, <1>8
    <3>2. c \in Real /\ c.expire = day
      BY <1>3, <3>1 DEF Real
    <3>3. o \in [limit: Int, expire: Int]
      BY <1>2, <1>3, AccountsAssumption
    <3>4. QED
      BY <3>2, <3>3
  <2>2. c \in Contents
    BY <2>1, Promises
  <2>3. n \in overtaken \/ c = o
    BY <1>2
  <2> HIDE DEF c, o
  <2>4. Finds(f, c)
    BY <1>4, <1>6, <2>1 DEF Finds
  <2>5. AccountsOK' /\ Kept(k) /\ (flow'[k] = f \/ flow'[k] = NoFlow)
    BY <1>1, <1>2, <1>6, <1>7, <1>8, <2>1, <2>2, <2>3, <2>4, Calls
  <2>6. QED
    BY <1>6, <2>5, NoFlowOK DEF Advances, n
<1>9. CASE Returns(k) /\ UNCHANGED <<acct, owed>>
  BY <1>1, <1>9, Ends, NoFlowOK DEF Advances
<1>10. QED
  BY <1>5, <1>8, <1>9

\* Then its volume.
LEMMA SetLimitKeeps ==
  ASSUME AccountsOK, NEW k \in Flows, SetLimit(k)
  PROVE  AccountsOK' /\ Kept(k) /\ Advances(k)
<1> DEFINE n == flow[k].name
           f == [flow[k] EXCEPT !.at = "done"]
           c == [acct[n] EXCEPT !.limit = PlanVolume]
           o == [owed[n] EXCEPT !.limit = PlanVolume]
<1>1. flow[k].at = "limit" /\ UNCHANGED <<today, events, overtaken>>
  BY DEF SetLimit
<1>2. /\ n \in Accounts /\ flow[k] \in FlowType /\ LocalsOK(flow[k])
      /\ owed[n] \in [limit: Int, expire: Int] /\ (n \in overtaken \/ acct[n] = owed[n])
      /\ events' \in 0..MaxEvents /\ overtaken \subseteq Accounts
      /\ Exists(n) <=> acct[n] \in Real
      /\ Finds(flow[k], acct[n])
  BY <1>1, At
<1>3. \/ Exists(n) /\ PanelCall(k, n, c, o, f)
      \/ Returns(k) /\ UNCHANGED <<acct, owed>>
  BY DEF SetLimit
<1>4. /\ f \in FlowType /\ f.at = "done" /\ f.name = n
      /\ f.saw = flow[k].saw /\ f.crossed = flow[k].crossed
  BY <1>2 DEF FlowType, Steps
<1>5. flow[k].saw \in Real /\ flow[k].saw.limit = PlanVolume
  BY <1>1, <1>2 DEF LocalsOK
<1> HIDE DEF f
<1>6. LocalsOK(f)
  BY <1>2, <1>4, <1>5 DEF LocalsOK
<1>7. CASE Exists(n) /\ PanelCall(k, n, c, o, f)
  <2>1. acct[n] \in Real /\ c \in Real /\ c.expire = acct[n].expire /\ c.limit = PlanVolume
    BY <1>2, <1>7, AccountsAssumption DEF Real
  <2>2. o \in [limit: Int, expire: Int] /\ c \in Contents
    <3>1. o \in [limit: Int, expire: Int]
      BY <1>2, AccountsAssumption
    <3>2. c \in Contents
      BY <2>1, Promises
    <3>3. QED
      BY <3>1, <3>2
  <2>3. n \in overtaken \/ c = o
    BY <1>2
  <2>4. ~flow[k].crossed => acct[n].expire = flow[k].saw.expire
    BY <1>1, <1>2 DEF Finds
  <2> HIDE DEF c, o
  <2>5. ~flow[k].crossed => c = flow[k].saw
    BY <1>5, <2>1, <2>4 DEF Real
  <2>6. Finds(f, c)
    BY <1>4, <2>5 DEF Finds
  <2> HIDE DEF n
  <2>7. AccountsOK' /\ Kept(k) /\ (flow'[k] = f \/ flow'[k] = NoFlow)
    BY <1>1, <1>2, <1>4, <1>6, <1>7, <2>2, <2>3, <2>6, Calls
  <2>8. QED
    BY <1>4, <2>7, NoFlowOK DEF Advances, n
<1>8. CASE Returns(k) /\ UNCHANGED <<acct, owed>>
  BY <1>1, <1>8, Ends, NoFlowOK DEF Advances
<1>9. QED
  BY <1>3, <1>7, <1>8

-----------------------------------------------------------------------------
(* Admins *)

\* A flow begins.
LEMMA StartKeeps ==
  ASSUME AccountsOK, NEW k \in Flows, NEW f, Starts(k, f), LocalsOK(f),
         f.at \notin {"limit", "done"}, Event \/ UNCHANGED events,
         UNCHANGED <<acct, today, owed, overtaken>>
  PROVE  AccountsOK' /\ Kept(k) /\ flow'[k] = f
<1>1. Finds(f, acct[f.name])
  BY DEF Finds
<1>2. events' \in 0..MaxEvents
  BY AccountsAssumption DEF AccountsOK, AccountsTypeOK, Event
<1>3. QED
  BY <1>1, <1>2, Moves DEF Starts

\* Locals a flow begins with: the account it is about, and nothing else yet.
LEMMA ProvisionLocals ==
  ASSUME NEW n \in Accounts, NEW at \in {"create", "expire"}
  PROVE  LET f == [NoFlow EXCEPT !.at = at, !.name = n]
         IN  LocalsOK(f) /\ f.at = at /\ f.name = n
<1> DEFINE f == [NoFlow EXCEPT !.at = at, !.name = n]
<1>1. NoFlow \in FlowType /\ at \in Steps
  BY NoFlowOK DEF LocalsOK, Steps
<1>2. f \in FlowType /\ f.at = at /\ f.name = n
  BY <1>1 DEF FlowType
<1> HIDE DEF f
<1>3. LocalsOK(f)
  BY <1>2 DEF LocalsOK
<1>4. QED
  BY <1>2, <1>3 DEF f

\* A grant, the provisioning of a purchase and /admin_set begin.
LEMMA ProvisionKeeps ==
  ASSUME AccountsOK, NEW k \in Flows, NEW n \in Accounts, NEW at \in {"create", "expire"},
         Starts(k, [NoFlow EXCEPT !.at = at, !.name = n]),
         Event \/ UNCHANGED events, UNCHANGED <<acct, today, owed, overtaken>>
  PROVE  AccountsOK' /\ Kept(k) /\ flow'[k].at = at /\ flow'[k].name = n
<1> DEFINE f == [NoFlow EXCEPT !.at = at, !.name = n]
<1>1. LocalsOK(f) /\ f.at = at /\ f.name = n
  BY ProvisionLocals
<1> HIDE DEF f
<1>2. Starts(k, f)
  BY DEF f
<1>3. QED
  BY <1>1, <1>2, StartKeeps

\* What is added to is in bounds.
LEMMA BaseReal ==
  ASSUME AccountsOK, NEW c \in Real
  PROVE  Base(c) \in Real /\ Base(c).limit = c.limit
<1>1. today \in 0..MaxDay
  BY AccountsAssumption DEF AccountsOK, TodayOK
<1>2. QED
  BY <1>1 DEF Base, Real

\* A sum is begun: the account is read.
LEMMA SumReadKeeps ==
  ASSUME AccountsOK, NEW k \in Flows, NEW n \in Accounts, AddRead(k, n) \/ ExtendRead(k, n)
  PROVE  AccountsOK' /\ Kept(k)
<1>1. acct[n] \in Real
  BY ContentsReal DEF AddRead, ExtendRead, SumRead, Exists, AccountsOK, AccountsTypeOK
<1>2. Base(acct[n]) \in Real /\ Base(acct[n]).limit = acct[n].limit
  BY <1>1, BaseReal
<1>3. ASSUME NEW at \in {"add", "extend"},
             Starts(k, [NoFlow EXCEPT !.at = at, !.name = n, !.saw = Base(acct[n])]),
             at = "add" => Base(acct[n]).limit < MaxVolume,
             at = "extend" => Base(acct[n]).expire < MaxDay,
             Event, UNCHANGED <<acct, today, owed, overtaken>>
      PROVE  AccountsOK' /\ Kept(k)
  <2> DEFINE b == Base(acct[n])
             f == [NoFlow EXCEPT !.at = at, !.name = n, !.saw = b]
  <2>1. Starts(k, f)
    BY <1>3
  <2>2. b \in Real /\ b \in Contents /\ (at = "add" => b.limit < MaxVolume)
        /\ (at = "extend" => b.expire < MaxDay)
    BY <1>2, <1>3, Promises
  <2> HIDE DEF b
  <2>3. NoFlow \in FlowType /\ at \in Steps
    BY NoFlowOK DEF LocalsOK, Steps
  <2>4. f \in FlowType /\ f.at = at /\ f.name = n /\ f.saw = b
    BY <2>2, <2>3 DEF FlowType
  <2> HIDE DEF f
  <2>5. LocalsOK(f)
    BY <2>2, <2>4 DEF LocalsOK
  <2>6. QED
    BY <1>3, <2>1, <2>4, <2>5, StartKeeps
<1>4. CASE AddRead(k, n)
  BY <1>2, <1>3, <1>4 DEF AddRead, SumRead
<1>5. CASE ExtendRead(k, n)
  BY <1>3, <1>5 DEF ExtendRead, SumRead
<1>6. QED
  BY <1>4, <1>5

\* The sum is written: either nobody has written since, or the account counts
\* as overtaken.
LEMMA AddWriteKeeps ==
  ASSUME AccountsOK, NEW k \in Flows, AddWrite(k)
  PROVE  AccountsOK' /\ Kept(k)
<1> DEFINE n == flow[k].name
           c == [acct[n] EXCEPT !.limit = flow[k].saw.limit + 1]
           o == [owed[n] EXCEPT !.limit = owed[n].limit + 1]
<1>1. flow[k].at = "add" /\ UNCHANGED <<today, events>>
  BY DEF AddWrite, SumWrite
<1>2. /\ n \in Accounts /\ LocalsOK(flow[k])
      /\ owed[n] \in [limit: Int, expire: Int] /\ (n \in overtaken \/ acct[n] = owed[n])
      /\ events' \in 0..MaxEvents /\ overtaken \subseteq Accounts
      /\ Exists(n) <=> acct[n] \in Real
  BY <1>1, At
<1>3. flow[k].saw \in Real /\ flow[k].saw.limit + 1 \in 0..MaxVolume
  BY <1>1, <1>2, AccountsAssumption DEF LocalsOK, Real
<1>4. \/ Exists(n) /\ PanelCall(k, n, c, o, NoFlow)
      \/ Returns(k) /\ UNCHANGED <<acct, owed>>
  BY DEF AddWrite, SumWrite, Base
<1>5. overtaken' = IF acct[n].limit # flow[k].saw.limit /\ owed' # owed
                   THEN overtaken \cup {n} ELSE overtaken
  BY DEF AddWrite, SumWrite, Base
<1>6. CASE Exists(n) /\ PanelCall(k, n, c, o, NoFlow)
  <2>1. acct[n] \in Real /\ c \in Contents
    <3>1. acct[n] \in Real
      BY <1>2, <1>6
    <3>2. c \in Real
      BY <1>3, <3>1 DEF Real
    <3>3. QED
      BY <3>1, <3>2, Promises
  <2>2. o \in [limit: Int, expire: Int] /\ o # owed[n]
    BY <1>2
  <2>3. acct[n] = owed[n] /\ acct[n].limit = flow[k].saw.limit => c = o
    OBVIOUS
  <2> HIDE DEF c, o
  <2>4. Becomes(n, c, o) => owed' # owed
    BY <1>2, <2>2 DEF Becomes, AccountsOK, AccountsTypeOK
  <2>5. Becomes(n, c, o) => n \in overtaken' \/ c = o
    BY <1>2, <1>5, <2>3, <2>4
  <2>6. /\ overtaken' \subseteq Accounts /\ overtaken \subseteq overtaken'
        /\ owed' = owed => overtaken' = overtaken
    BY <1>2, <1>5
  <2>7. LocalsOK(NoFlow) /\ Finds(NoFlow, c) /\ NoFlow.at \notin {"limit", "done"}
    BY NoFlowOK
  <2> HIDE DEF n
  <2>8. QED
    BY <1>1, <1>2, <1>6, <2>1, <2>2, <2>5, <2>6, <2>7, Calls
<1>7. CASE Returns(k) /\ UNCHANGED <<acct, owed>>
  BY <1>1, <1>5, <1>7, Ends
<1>8. QED
  BY <1>4, <1>6, <1>7

\* The same for days, where no expiry counts as today.
LEMMA ExtendWriteKeeps ==
  ASSUME AccountsOK, NEW k \in Flows, ExtendWrite(k)
  PROVE  AccountsOK' /\ Kept(k)
<1> DEFINE n == flow[k].name
           from(r) == IF r.expire > 0 THEN r.expire ELSE today
           c == [acct[n] EXCEPT !.expire = flow[k].saw.expire + 1]
           o == [owed[n] EXCEPT !.expire = from(owed[n]) + 1]
<1>1. flow[k].at = "extend" /\ UNCHANGED <<today, events>>
  BY DEF ExtendWrite, SumWrite
<1>2. /\ n \in Accounts /\ LocalsOK(flow[k]) /\ today \in 1..MaxDay
      /\ owed[n] \in [limit: Int, expire: Int] /\ (n \in overtaken \/ acct[n] = owed[n])
      /\ events' \in 0..MaxEvents /\ overtaken \subseteq Accounts
      /\ Exists(n) <=> acct[n] \in Real
  BY <1>1, At
<1>3. flow[k].saw \in Real /\ flow[k].saw.expire + 1 \in 0..MaxDay
  BY <1>1, <1>2, AccountsAssumption DEF LocalsOK, Real
<1>4. Base(owed[n]).expire = from(owed[n])
  BY <1>2 DEF Base
<1>5. \/ Exists(n) /\ PanelCall(k, n, c, o, NoFlow)
      \/ Returns(k) /\ UNCHANGED <<acct, owed>>
  BY <1>4 DEF ExtendWrite, SumWrite
<1>6. overtaken' = IF Base(acct[n]).expire # flow[k].saw.expire /\ owed' # owed
                   THEN overtaken \cup {n} ELSE overtaken
  BY DEF ExtendWrite, SumWrite
<1>7. CASE Exists(n) /\ PanelCall(k, n, c, o, NoFlow)
  <2>1. acct[n] \in Real
    BY <1>2, <1>7
  <2>2. c \in Contents /\ Base(acct[n]).expire = from(acct[n])
    <3>1. c \in Real /\ Base(acct[n]).expire = from(acct[n])
      BY <1>3, <2>1 DEF Real, Base
    <3>2. QED
      BY <3>1, Promises
  <2>3. o \in [limit: Int, expire: Int] /\ o # owed[n]
    <3>1. from(owed[n]) + 1 \in Int /\ from(owed[n]) + 1 # owed[n].expire
      BY <1>2, AccountsAssumption
    <3> HIDE DEF from
    <3>2. QED
      BY <1>2, <3>1
  <2>4. acct[n] = owed[n] /\ from(acct[n]) = flow[k].saw.expire => c = o
    OBVIOUS
  <2> HIDE DEF c, o, from
  <2>5. Becomes(n, c, o) => owed' # owed
    BY <1>2, <2>3 DEF Becomes, AccountsOK, AccountsTypeOK
  <2>6. Becomes(n, c, o) => n \in overtaken' \/ c = o
    BY <1>2, <1>6, <2>2, <2>4, <2>5
  <2>7. /\ overtaken' \subseteq Accounts /\ overtaken \subseteq overtaken'
        /\ owed' = owed => overtaken' = overtaken
    BY <1>2, <1>6
  <2>8. LocalsOK(NoFlow) /\ Finds(NoFlow, c) /\ NoFlow.at \notin {"limit", "done"}
    BY NoFlowOK
  <2> HIDE DEF n
  <2>9. QED
    BY <1>1, <1>2, <1>7, <2>2, <2>3, <2>6, <2>7, <2>8, Calls
<1>8. CASE Returns(k) /\ UNCHANGED <<acct, owed>>
  BY <1>1, <1>6, <1>8, Ends
<1>9. QED
  BY <1>5, <1>7, <1>8

\* An account is created or deleted in one call.
LEMMA AtOnceKeeps ==
  ASSUME AccountsOK, NEW k \in Flows, NEW n \in Accounts,
         AdminCreate(k, n) \/ AdminDelete(k, n)
  PROVE  AccountsOK' /\ Kept(k)
<1>1. LocalsOK(NoFlow) /\ (\A c : Finds(NoFlow, c)) /\ NoFlow.at \notin {"limit", "done"}
  BY NoFlowOK
<1>2. Event /\ today' = today /\ events' \in 0..MaxEvents /\ overtaken \subseteq Accounts
  BY AccountsAssumption
     DEF AdminCreate, AdminDelete, Event, AccountsOK, AccountsTypeOK
<1>3. PICK c \in {Fresh, Absent} : Becomes(n, c, c) /\ Written(k, n, NoFlow)
  BY DEF AdminCreate, AdminDelete, Deleted
<1>4. c \in Contents /\ c \in [limit: Int, expire: Int]
  BY Promises DEF Contents
<1>5. overtaken' \subseteq Accounts /\ overtaken \ {n} \subseteq overtaken'
  BY <1>2 DEF AdminCreate, AdminDelete, Deleted
<1>6. QED
  BY <1>1, <1>2, <1>3, <1>4, <1>5, Writes

\* All that has expired is deleted in one call.
LEMMA DeleteAllKeeps ==
  ASSUME AccountsOK, NEW k \in Flows, DeleteAllExpired(k)
  PROVE  AccountsOK' /\ Kept(k)
<1> DEFINE gone == {n \in Accounts : Exists(n) /\ Expired(n)}
<1>1. /\ acct' = [n \in Accounts |-> IF n \in gone THEN Absent ELSE acct[n]]
      /\ owed' = [n \in Accounts |-> IF n \in gone THEN Absent ELSE owed[n]]
      /\ flow' = [j \in Flows |-> [flow[j] EXCEPT !.crossed = @ \/ flow[j].name \in gone]]
      /\ overtaken' = overtaken \ gone /\ today' = today /\ Event
  BY DEF DeleteAllExpired
<1>2. gone \subseteq Accounts
  OBVIOUS
<1> HIDE DEF gone
<1>3. Absent \in Contents /\ Absent \in [limit: Int, expire: Int]
  BY Promises DEF Contents
<1>4. /\ acct' \in [Accounts -> Contents] /\ owed' \in [Accounts -> [limit: Int, expire: Int]]
      /\ overtaken' \subseteq Accounts
  BY <1>1, <1>3 DEF AccountsOK, AccountsTypeOK
<1>5. events' \in 0..MaxEvents
  BY <1>1, AccountsAssumption DEF AccountsOK, AccountsTypeOK, Event
<1>6. AdditionsKept'
  BY <1>1 DEF AccountsOK, AdditionsKept
<1>7. flow \in [Flows -> FlowType]
  BY DEF AccountsOK, AccountsTypeOK, FlowType
<1>8. ASSUME NEW j \in Flows
      PROVE  /\ LocalsOK(flow'[j]) /\ Finds(flow'[j], acct'[flow'[j].name])
             /\ flow'[j].at = flow[j].at /\ flow'[j].name = flow[j].name
  <2> DEFINE g == [flow[j] EXCEPT !.crossed = @ \/ flow[j].name \in gone]
  <2>1. flow'[j] = g
    BY <1>1
  <2>2. LocalsOK(flow[j]) /\ Finds(flow[j], acct[flow[j].name])
    BY DEF AccountsOK, FlowsOK
  <2>3. /\ g \in FlowType /\ g.at = flow[j].at /\ g.name = flow[j].name
        /\ g.saw = flow[j].saw /\ g.crossed = (flow[j].crossed \/ flow[j].name \in gone)
    BY <1>7 DEF FlowType
  <2> HIDE DEF g
  <2>4. LocalsOK(g)
    BY <2>2, <2>3 DEF LocalsOK
  <2>5. Finds(g, acct'[g.name])
    <3>1. CASE g.name \in Accounts \ gone
      BY <1>1, <2>2, <2>3, <3>1 DEF Finds
    <3>2. CASE g.name \in gone
      BY <2>3, <3>2 DEF Finds
    <3>3. CASE g.name \notin Accounts
      BY <2>3, <2>4, <3>3 DEF Finds, LocalsOK
    <3>4. QED
      BY <3>1, <3>2, <3>3
  <2>6. QED
    BY <2>1, <2>3, <2>4, <2>5
<1>9. FlowsOK' /\ Kept(k)
  BY <1>8 DEF FlowsOK, Kept
<1>10. flow' \in [Flows -> FlowType]
  BY <1>1, <1>8 DEF LocalsOK
<1>11. AccountsTypeOK'
  BY <1>1, <1>4, <1>5, <1>10 DEF AccountsOK, AccountsTypeOK, FlowType
<1>12. QED
  BY <1>1, <1>6, <1>9, <1>11 DEF AccountsOK, TodayOK

\* Or from a list, one by one.
LEMMA ListKeeps ==
  ASSUME AccountsOK, NEW k \in Flows, ListExpired(k)
  PROVE  AccountsOK' /\ Kept(k)
<1> DEFINE found == {n \in Accounts : Exists(n) /\ Expired(n)}
           f == [NoFlow EXCEPT !.at = "delete", !.list = found]
<1>1. Starts(k, f) /\ Event /\ UNCHANGED <<acct, today, owed, overtaken>>
  BY DEF ListExpired
<1>2. found \subseteq Accounts /\ NoFlow \in FlowType
  BY NoFlowOK DEF LocalsOK
<1> HIDE DEF found
<1>3. f \in FlowType /\ f.at = "delete"
  BY <1>2 DEF FlowType, Steps
<1> HIDE DEF f
<1>4. LocalsOK(f)
  BY <1>3 DEF LocalsOK
<1>5. QED
  BY <1>1, <1>3, <1>4, StartKeeps

\* The next one of the list, whether the call succeeds or not.
LEMMA DeleteNextKeeps ==
  ASSUME AccountsOK, NEW k \in Flows, NEW n \in Accounts, DeleteNext(k, n)
  PROVE  AccountsOK' /\ Kept(k)
<1> DEFINE left == flow[k].list \ {n}
           g == [flow[k] EXCEPT !.list = left]
           f == IF left = {} THEN NoFlow ELSE g
<1>1. /\ flow[k].at = "delete" /\ UNCHANGED <<today, events>>
      /\ \/ Deleted(k, n, f)
         \/ flow' = [flow EXCEPT ![k] = f] /\ UNCHANGED <<acct, owed, overtaken>>
  BY DEF DeleteNext
<1>2. /\ flow[k] \in FlowType /\ LocalsOK(flow[k]) /\ left \subseteq Accounts
      /\ events \in 0..MaxEvents /\ overtaken \subseteq Accounts
  BY DEF AccountsOK, FlowsOK, AccountsTypeOK, FlowType
<1> HIDE DEF left
<1>3. g \in FlowType /\ g.at = "delete"
  BY <1>1, <1>2 DEF FlowType
<1> HIDE DEF g
<1>4. LocalsOK(g)
  BY <1>3 DEF LocalsOK
<1>5. LocalsOK(f) /\ f.at \in {"idle", "delete"}
  BY <1>3, <1>4, NoFlowOK
<1> HIDE DEF f
<1>6. \A c : Finds(f, c)
  BY <1>5 DEF Finds
<1>7. CASE Deleted(k, n, f)
  <2>1. Becomes(n, Absent, Absent) /\ Written(k, n, f) /\ overtaken' = overtaken \ {n}
    BY <1>7 DEF Deleted
  <2>2. Absent \in Contents /\ Absent \in [limit: Int, expire: Int]
    BY Promises DEF Contents
  <2>3. overtaken' \subseteq Accounts /\ overtaken \ {n} \subseteq overtaken'
    BY <1>2, <2>1
  <2>4. QED
    BY <1>1, <1>2, <1>5, <1>6, <2>1, <2>2, <2>3, Writes
<1>8. CASE flow' = [flow EXCEPT ![k] = f] /\ UNCHANGED <<acct, owed, overtaken>>
  BY <1>1, <1>2, <1>5, <1>6, <1>8, Moves
<1>9. QED
  BY <1>1, <1>7, <1>8

\* Whatever a flow of an admin does next.
LEMMA AdminKeeps ==
  ASSUME AccountsOK, NEW k \in Flows, AdminStep(k)
  PROVE  AccountsOK' /\ Kept(k)
<1>1. ASSUME NEW n \in Accounts, Grant(k, n) PROVE AccountsOK' /\ Kept(k)
  BY <1>1, ProvisionKeeps DEF Grant, Provision
<1>2. ASSUME NEW n \in Accounts, AdminSet(k, n) PROVE AccountsOK' /\ Kept(k)
  BY <1>2, ProvisionKeeps DEF AdminSet
<1>3. CASE GrantDone(k)
  BY <1>3, Ends DEF GrantDone
<1>4. QED
  BY <1>1, <1>2, <1>3, AtOnceKeeps, SumReadKeeps, DeleteNextKeeps, DeleteAllKeeps, ListKeeps,
     AddWriteKeeps, ExtendWriteKeeps DEF AdminStep

\* A day goes by, but for the plans sold on it.
LEMMA DayKeeps ==
  ASSUME AccountsOK, Day
  PROVE  AccountsOK' /\ flow' = flow
<1>1. today' \in 1..(MaxDay - PlanDays) /\ today' \in 1..MaxDay
  BY AccountsAssumption DEF AccountsOK, TodayOK, Day
<1>2. QED
  BY <1>1 DEF Day, AccountsOK, AccountsTypeOK, TodayOK, FlowsOK, AdditionsKept

\* One more call of provisioning.
LEMMA FlowKeeps ==
  ASSUME AccountsOK, NEW k \in Flows, FlowStep(k)
  PROVE  AccountsOK' /\ Kept(k) /\ Advances(k)
BY CreateKeeps, SetExpireKeeps, SetLimitKeeps DEF FlowStep

-----------------------------------------------------------------------------
(* The dialog *)

\* What is deleted from the store leaves nothing else behind.
LEMMA ClearedOK ==
  ASSUME DialogTypeOK, NEW count \in 0..3, Cleared(count)
  PROVE  mode' \in Modes \cup {None} /\ sel' \in Picks \cup {None} /\ ext' \in Names \cup {None}
BY DEF Cleared, DialogTypeOK

\* A keyboard without a name is a keyboard.
LEMMA QuestionsAre ==
  ASSUME NEW p \in Plans, NEW at \in {"mode", "names", "services"}
  PROVE  /\ Keyboard(at, p, None) \in Keyboards
         /\ Keyboard(at, p, None).at = at /\ Keyboard(at, p, None).plan = p
BY DEF Keyboard, Keyboards

\* Nor is one that asks for a confirmation anything else.
LEMMA ConfirmationsAre ==
  ASSUME NEW p \in Plans, NEW n \in Names
  PROVE  LET kb == Keyboard("confirm", p, n)
         IN  kb \in Keyboards /\ kb.at = "confirm" /\ kb.plan = p /\ kb.name = n
BY DEF Keyboard, Keyboards

\* The place of a purchase that does not move.
Stays(b) ==
  /\ InPanel(b)' <=> InPanel(b)
  /\ InPanel(b) => selling'[b].name = selling[b].name

\* A purchase under which choices are changed knows of it, or has read them.
LEMMA AsideKeeps ==
  ASSUME DialogTypeOK, SalesOK, NEW b \in Buyers, selling'[b] = Aside(b)
  PROVE  /\ selling'[b] \in Sales \cup {None} /\ Stays(b)
         /\ (selling[b] # None => Means(selling[b]))'
<1>1. selling[b] \in Sales \cup {None} /\ (selling[b] # None => Means(selling[b]))
  BY DEF DialogTypeOK, SalesOK
<1>2. CASE selling[b] # None /\ selling[b].at \in Unread /\ intents' # intents
  <2> DEFINE t == [selling[b] EXCEPT !.shown = None]
  <2>1. selling'[b] = t
    BY <1>2 DEF Aside
  <2>2. selling[b] \in SalesAt(Unread, {None})
    BY <1>1, <1>2 DEF Sales, SalesAt, Unread, Clearing
  <2>3. t \in SalesAt(Unread, {None}) /\ t.at = selling[b].at /\ t.shown = None
    BY <2>2 DEF SalesAt
  <2> HIDE DEF t
  <2>4. t \in Sales /\ ~InPanel(b) /\ ~InPanel(b)'
    BY <1>2, <2>1, <2>3 DEF Sales, InPanel, Unread
  <2>5. Means(selling[b])'
    BY <1>2, <2>1, <2>3 DEF Means, Unread
  <2>6. QED
    BY <2>1, <2>4, <2>5 DEF Stays
<1>3. CASE selling'[b] = selling[b] /\ (selling[b] = None \/ intents' = intents)
  BY <1>1, <1>3 DEF Stays, InPanel, Means, Chosen, NewName, intents
<1>4. CASE selling'[b] = selling[b] /\ selling[b] # None /\ selling[b].at \notin Unread
  BY <1>1, <1>4 DEF Stays, InPanel, Means, Unread
<1>5. QED
  BY <1>2, <1>3, <1>4 DEF Aside

\* So it is with all of them.
LEMMA WatchedKeeps ==
  ASSUME DialogTypeOK, SalesOK, Watched
  PROVE  /\ selling' \in [Buyers -> Sales \cup {None}] /\ SalesOK'
         /\ \A b \in Buyers : Stays(b)
<1>1. ASSUME NEW b \in Buyers
      PROVE  /\ selling'[b] \in Sales \cup {None} /\ Stays(b)
             /\ (selling[b] # None => Means(selling[b]))'
  <2>1. selling'[b] = Aside(b)
    BY DEF Watched
  <2>2. QED
    BY <2>1, AsideKeeps
<1>2. selling' = [b \in Buyers |-> selling'[b]]
  BY DEF Watched
<1>3. QED
  BY <1>1, <1>2 DEF SalesOK

\* One purchase goes on, and no choice is touched.
LEMMA GoesKeeps ==
  ASSUME DialogTypeOK, SalesOK, NEW b \in Buyers,
         UNCHANGED intents, \A c \in Buyers \ {b} : selling'[c] = selling[c],
         selling' = [c \in Buyers |-> selling'[c]], selling'[b] \in Sales \cup {None},
         (selling[b] # None => Means(selling[b]))'
  PROVE  /\ selling' \in [Buyers -> Sales \cup {None}] /\ SalesOK'
         /\ \A c \in Buyers \ {b} : Stays(c)
<1>1. ASSUME NEW c \in Buyers \ {b}
      PROVE  /\ selling'[c] \in Sales \cup {None} /\ Stays(c)
             /\ (selling[c] # None => Means(selling[c]))'
  <2>1. selling'[c] = Aside(c)
    BY DEF Aside
  <2>2. QED
    BY <2>1, AsideKeeps
<1>2. QED
  BY <1>1 DEF SalesOK

\* What is stored and shown, apart from the purchases.
ChoicesOK ==
  /\ mode \in Modes \cup {None} /\ sel \in Picks \cup {None} /\ ext \in Names \cup {None}
  /\ screen \in Keyboards \cup {None} /\ ScreenOK

\* A button that changes choices, or only shows another keyboard.
ChoiceButton ==
  \/ \E p \in Plans :
       \/ PlanBuy(p) \/ PlanBuyFirst(p) \/ PlanModeNew(p) \/ PlanModeExt(p)
       \/ \E n \in Names : PlanUnameRnd(p, n) \/ PlanExtendSelect(p, n)
  \/ PlanCancel

\* Whatever is pressed, but for the confirmation itself: what is stored fits
\* the keyboard that is shown next.
LEMMA ButtonChoices ==
  ASSUME DialogTypeOK, ScreenOK, ChoiceButton
  PROVE  ChoicesOK' /\ mine' = mine /\ Watched
<1> DEFINE Goal == ChoicesOK' /\ mine' = mine /\ Watched
<1>0. ChoicesOK
  BY DEF ChoicesOK, DialogTypeOK
<1>1. ASSUME NEW p \in Plans, PlanBuy(p) PROVE Goal
  <2> DEFINE kb == Keyboard("mode", p, None)
  <2>1. PICK count \in 0..3 : Cleared(count) /\ Shows(count = 3, kb)
    BY <1>1 DEF PlanBuy
  <2>2. kb \in Keyboards /\ kb.at = "mode"
    BY QuestionsAre
  <2>3. mine' = mine /\ Watched
    BY <1>1 DEF PlanBuy
  <2> HIDE DEF kb
  <2>4. screen' = None \/ screen' = kb
    BY <2>1 DEF Shows
  <2>5. QED
    BY <2>1, <2>2, <2>3, <2>4, ClearedOK DEF ChoicesOK, ScreenOK
<1>2. ASSUME NEW p \in Plans, PlanBuyFirst(p) PROVE Goal
  <2> DEFINE kb == Keyboard("names", p, None)
             m == [plan |-> p, extends |-> FALSE]
  <2>1. kb \in Keyboards /\ kb.at = "names" /\ kb.plan = p /\ m \in Modes
    BY QuestionsAre DEF Modes
  <2>2. mine' = mine /\ Watched
    BY <1>2 DEF PlanBuyFirst
  <2>3. CASE sel' = None /\ ext' = None /\ mode' = m /\ Shows(TRUE, kb)
    BY <2>1, <2>2, <2>3 DEF Shows, ChoicesOK, ScreenOK
  <2>4. ASSUME NEW count \in 0..3, Cleared(count), Shows(FALSE, None) PROVE Goal
    <3>1. screen' = None
      BY <2>4 DEF Shows
    <3>2. QED
      BY <2>2, <2>4, <3>1, ClearedOK DEF ChoicesOK, ScreenOK
  <2>5. QED
    BY <1>2, <2>3, <2>4 DEF PlanBuyFirst
<1>3. ASSUME NEW p \in Plans, PlanModeNew(p) PROVE Goal
  <2> DEFINE kb == Keyboard("mode", p, None)
             nx == Keyboard("names", p, None)
             m == [plan |-> p, extends |-> FALSE]
  <2>1. nx \in Keyboards /\ nx.at = "names" /\ nx.plan = p /\ m \in Modes
    BY QuestionsAre DEF Modes
  <2>2. mine' = mine /\ Watched /\ UNCHANGED <<sel, ext>>
    BY <1>3 DEF PlanModeNew, Press
  <2>3. (mode' = m /\ Shows(kb = screen, nx)) \/ (mode' = mode /\ Shows(FALSE, nx))
    BY <1>3 DEF PlanModeNew, Press
  <2> HIDE DEF kb, nx
  <2>4. screen' = None \/ (screen' = nx /\ mode' = m)
    BY <2>3 DEF Shows
  <2>5. mode' = m \/ mode' = mode
    BY <2>3
  <2>6. QED
    BY <1>0, <2>1, <2>2, <2>4, <2>5 DEF ChoicesOK, ScreenOK
<1>4. ASSUME NEW p \in Plans, PlanModeExt(p) PROVE Goal
  <2> DEFINE kb == Keyboard("mode", p, None)
             nx == Keyboard("services", p, None)
             shown == IF mine = {} THEN screen ELSE nx
             m == [plan |-> p, extends |-> TRUE]
  <2>1. /\ nx \in Keyboards /\ nx.at = "services" /\ nx.plan = p /\ m \in Modes
        /\ kb \in Keyboards /\ kb.at = "mode"
    BY QuestionsAre DEF Modes
  <2>2. mine' = mine /\ Watched /\ UNCHANGED <<sel, ext>>
    BY <1>4 DEF PlanModeExt, Press
  <2>3. (mode' = m /\ Shows(kb = screen, shown)) \/ (mode' = mode /\ Shows(FALSE, shown))
    BY <1>4 DEF PlanModeExt, Press
  <2> HIDE DEF kb, nx
  <2>4. screen' = None \/ (screen' \in {kb, nx} /\ mode' = m)
    BY <2>3 DEF Shows
  <2>5. mode' = m \/ mode' = mode
    BY <2>3
  <2>6. QED
    BY <1>0, <2>1, <2>2, <2>4, <2>5 DEF ChoicesOK, ScreenOK
<1>5. ASSUME NEW p \in Plans, NEW n \in Names, PlanUnameRnd(p, n) PROVE Goal
  <2> DEFINE kb == Keyboard("names", p, None)
             nx == Keyboard("confirm", p, n)
             pick == [plan |-> p, name |-> n]
  <2>1. /\ nx \in Keyboards /\ nx.at = "confirm" /\ nx.plan = p /\ nx.name = n
        /\ kb \in Keyboards /\ kb.at = "names" /\ kb.plan = p
    BY QuestionsAre, ConfirmationsAre
  <2>2. mine' = mine /\ Watched /\ UNCHANGED <<mode, ext>> /\ pick \in Picks
    BY <1>5 DEF PlanUnameRnd, Press, Picks
  <2>3. (sel' = pick /\ Shows(kb = screen, nx)) \/ (sel' = sel /\ Shows(FALSE, nx))
    BY <1>5 DEF PlanUnameRnd, Press
  <2> HIDE DEF kb, nx
  <2>4. screen' = None \/ (screen' = nx /\ screen = kb /\ sel' = pick)
    BY <2>3 DEF Shows
  <2>5. sel' = pick \/ sel' = sel
    BY <2>3
  <2>6. screen = kb => mode = [plan |-> p, extends |-> FALSE]
    BY <2>1, NoneAssumption DEF ScreenOK
  <2>7. ScreenOK'
    BY <2>1, <2>2, <2>4, <2>6 DEF ScreenOK, Chosen
  <2>8. QED
    BY <1>0, <2>1, <2>2, <2>4, <2>5, <2>7 DEF ChoicesOK
<1>6. ASSUME NEW p \in Plans, NEW n \in Names, PlanExtendSelect(p, n) PROVE Goal
  <2> DEFINE kb == Keyboard("services", p, None)
             nx == Keyboard("confirm", p, n)
  <2>1. /\ nx \in Keyboards /\ nx.at = "confirm" /\ nx.plan = p /\ nx.name = n
        /\ kb \in Keyboards /\ kb.at = "services" /\ kb.plan = p
    BY QuestionsAre, ConfirmationsAre
  <2>2. mine' = mine /\ Watched /\ UNCHANGED <<mode, sel>>
    BY <1>6 DEF PlanExtendSelect, Press
  <2>3. (ext' = n /\ Shows(kb = screen, nx)) \/ (ext' = ext /\ Shows(FALSE, nx))
    BY <1>6 DEF PlanExtendSelect, Press
  <2> HIDE DEF kb, nx
  <2>4. screen' = None \/ (screen' = nx /\ screen = kb /\ ext' = n)
    BY <2>3 DEF Shows
  <2>5. ext' = n \/ ext' = ext
    BY <2>3
  <2>6. screen = kb => mode = [plan |-> p, extends |-> TRUE]
    BY <2>1, NoneAssumption DEF ScreenOK
  <2>7. ScreenOK'
    BY <2>1, <2>2, <2>4, <2>6 DEF ScreenOK, Chosen
  <2>8. QED
    BY <1>0, <2>1, <2>2, <2>4, <2>5, <2>7 DEF ChoicesOK
<1>7. CASE PlanCancel
  <2>1. screen' = None /\ mine' = mine /\ Watched
    BY <1>7 DEF PlanCancel, Shows
  <2>2. PICK count \in 0..3 : Cleared(count)
    BY <1>7 DEF PlanCancel
  <2>3. QED
    BY <2>1, <2>2, ClearedOK DEF ChoicesOK, ScreenOK
<1>8. QED
  BY <1>1, <1>2, <1>3, <1>4, <1>5, <1>6, <1>7 DEF ChoiceButton

\* The keyboard with the question for the kind of purchase, once more.
LEMMA ModeSelChoices ==
  ASSUME DialogTypeOK, ScreenOK, NEW p \in Plans, PlanModeSel(p)
  PROVE  ChoicesOK' /\ UNCHANGED <<mine, selling, intents>>
<1> DEFINE nx == Keyboard("mode", p, None)
<1>1. nx \in Keyboards /\ nx.at = "mode"
  BY QuestionsAre
<1>2. (screen' = nx \/ screen' = None) /\ UNCHANGED <<intents, mine, selling>>
  BY DEF PlanModeSel, Shows
<1>3. QED
  BY <1>1, <1>2 DEF ChoicesOK, DialogTypeOK, ScreenOK, intents

-----------------------------------------------------------------------------
(* Purchases *)

\* As long as no choice and no keyboard is touched.
LEMMA ChoicesStay ==
  ASSUME DialogTypeOK, ScreenOK, UNCHANGED <<intents, screen>>
  PROVE  ChoicesOK'
BY DEF ChoicesOK, DialogTypeOK, ScreenOK, Chosen, intents

\* And what becomes of the whole dialog.
LEMMA DialogIs ==
  ASSUME ChoicesOK', selling' \in [Buyers -> Sales \cup {None}], SalesOK', mine' \in SUBSET Names
  PROVE  DialogOK'
BY DEF ChoicesOK, DialogOK, DialogTypeOK

\* A purchase goes on, or ends, and touches no choice.
LEMMA SaleMoves ==
  ASSUME DialogOK, NEW b \in Buyers, NEW s \in Sales \cup {None}, Goes(b, s),
         UNCHANGED <<intents, screen>>, mine' \in SUBSET Names,
         s # None => Means(s)'
  PROVE  DialogOK' /\ selling'[b] = s /\ \A c \in Buyers \ {b} : Stays(c)
<1>1. selling \in [Buyers -> Sales \cup {None}]
  BY DEF DialogOK, DialogTypeOK
<1>2. /\ selling'[b] = s /\ selling' = [c \in Buyers |-> selling'[c]]
      /\ \A c \in Buyers \ {b} : selling'[c] = selling[c]
  BY <1>1 DEF Goes
<1>3. (selling[b] # None => Means(selling[b]))'
  BY <1>2
<1>4. /\ selling' \in [Buyers -> Sales \cup {None}] /\ SalesOK'
      /\ \A c \in Buyers \ {b} : Stays(c)
  BY <1>2, <1>3, GoesKeeps DEF DialogOK
<1>5. QED
  BY <1>2, <1>4, ChoicesStay, DialogIs DEF DialogOK

\* The confirmation of the latest keyboard shows what is stored.
LEMMA FinalKeeps ==
  ASSUME DialogOK, NEW b \in Buyers, NEW p \in Plans, PlanFinal(b, p)
  PROVE  DialogOK' /\ \A c \in Buyers : Stays(c)
<1>1. PICK kb \in {screen, None} :
        /\ kb # None => kb.at = "confirm" /\ kb.plan = p
        /\ Goes(b, [at |-> "pressed", plan |-> p, extends |-> FALSE, name |-> None, known |-> {},
                    shown |-> IF kb = None THEN None ELSE kb.name])
  BY DEF PlanFinal
<1> DEFINE s == [at |-> "pressed", plan |-> p, extends |-> FALSE, name |-> None, known |-> {},
                 shown |-> IF kb = None THEN None ELSE kb.name]
<1>2. kb # None => kb.name \in Names /\ Chosen(p, kb.name)
  BY <1>1 DEF DialogOK, DialogTypeOK, ScreenOK, Keyboards
<1>3. UNCHANGED <<intents, mine, screen>> /\ selling[b] = None
  BY DEF PlanFinal
<1>4. s \in Sales /\ s.at = "pressed" /\ s.plan = p
  BY <1>2 DEF Sales, SalesAt, Unread
<1>5. s.shown # None => Chosen(p, s.shown)
  BY <1>2
<1>6. Goes(b, s)
  BY <1>1
<1> HIDE DEF s
<1>7. Means(s)'
  BY <1>3, <1>4, <1>5 DEF Means, Chosen, intents
<1>8. mine' \in SUBSET Names
  BY <1>3 DEF DialogOK, DialogTypeOK
<1>9. DialogOK' /\ selling'[b] = s /\ \A c \in Buyers \ {b} : Stays(c)
  BY <1>3, <1>4, <1>6, <1>7, <1>8, SaleMoves
<1>10. s # None
  BY <1>4, NoneAssumption
<1>11. Stays(b)
  BY <1>3, <1>4, <1>9, <1>10 DEF Stays, InPanel
<1>12. QED
  BY <1>9, <1>11

\* What a purchase that has not read it yet will find.
LEMMA ChosenReads ==
  ASSUME NEW p \in Plans, NEW n, Chosen(p, n)
  PROVE  n = IF Extends(p) THEN ext ELSE NewName(p)
<1>1. CASE mode = [plan |-> p, extends |-> TRUE] /\ ext = n
  <2>1. mode # None
    <3>1. [plan |-> p, extends |-> TRUE] \in Modes
      BY DEF Modes
    <3>2. QED
      BY <1>1, <3>1, NoneAssumption
  <2>2. QED
    BY <1>1, <2>1 DEF Extends
<1>2. CASE /\ mode = [plan |-> p, extends |-> FALSE]
           /\ sel = [plan |-> p, name |-> n] /\ sel \in Picks
  <2>1. sel # None
    BY <1>2, NoneAssumption
  <2>2. QED
    BY <1>2, <2>1 DEF Extends, NewName
<1>3. QED
  BY <1>1, <1>2 DEF Chosen

\* The kind of purchase is read.
LEMMA ModeKeeps ==
  ASSUME DialogOK, NEW b \in Buyers, PlanMode(b)
  PROVE  DialogOK' /\ \A c \in Buyers : Stays(c)
<1>a. PICK r : r = selling[b]
  OBVIOUS
<1>b. PICK s : s = [r EXCEPT !.at = "mode", !.extends = Extends(r.plan), !.known = mine]
  OBVIOUS
<1>1. r # None /\ r.at = "pressed" /\ Goes(b, s) /\ UNCHANGED <<intents, mine, screen>>
  BY <1>a, <1>b DEF PlanMode
<1>2. r \in Sales \cup {None} /\ mine \in SUBSET Names /\ Means(r)
  BY <1>1, <1>a DEF DialogOK, DialogTypeOK, SalesOK
<1>3. r \in SalesAt(Unread, {None})
  BY <1>1, <1>2 DEF Sales, SalesAt, Clearing
<1>4. Extends(r.plan) \in BOOLEAN
  BY DEF Extends
<1>5. /\ s \in SalesAt(Unread, {None}) /\ s.at = "mode" /\ s.extends = Extends(r.plan)
      /\ s.plan = r.plan /\ s.shown = r.shown
  BY <1>2, <1>3, <1>4, <1>b DEF SalesAt, Unread
<1>6. r.shown # None => r.shown = IF Extends(r.plan) THEN ext ELSE NewName(r.plan)
  <2>1. r.plan \in Plans
    BY <1>3 DEF SalesAt
  <2>2. QED
    BY <1>1, <1>2, <2>1, ChosenReads DEF Means
<1>7. Means(s)'
  BY <1>1, <1>5, <1>6 DEF Means, NewName, intents
<1>8. s \in Sales /\ s # None
  BY <1>5, NoneAssumption DEF Sales
<1>9. DialogOK' /\ selling'[b] = s /\ \A c \in Buyers \ {b} : Stays(c)
  BY <1>1, <1>2, <1>7, <1>8, SaleMoves
<1>10. Stays(b)
  BY <1>1, <1>5, <1>8, <1>9, <1>a DEF Stays, InPanel
<1>11. QED
  BY <1>9, <1>10

\* The account is read.
LEMMA TargetKeeps ==
  ASSUME DialogOK, NEW b \in Buyers, PlanTarget(b)
  PROVE  /\ DialogOK' /\ Target(b) \in Names /\ ~InPanel(b)
         /\ InPanel(b)' /\ selling'[b].name = Target(b)
         /\ \A c \in Buyers \ {b} : Stays(c)
<1>a. PICK r, n : r = selling[b] /\ n = Target(b)
  OBVIOUS
<1>b. PICK s : s = [r EXCEPT !.at = "panel", !.name = n]
  OBVIOUS
<1>1. /\ r # None /\ r.at = "mode" /\ (r.extends => ext \in r.known)
      /\ Goes(b, s) /\ UNCHANGED <<intents, mine, screen>>
  BY <1>a, <1>b DEF PlanTarget
<1>2. r \in Sales \cup {None} /\ mine \in SUBSET Names /\ Means(r)
  BY <1>1, <1>a DEF DialogOK, DialogTypeOK, SalesOK
<1>3. r \in SalesAt(Unread, {None})
  BY <1>1, <1>2 DEF Sales, SalesAt, Clearing
<1>4. n = IF r.extends THEN ext ELSE NewName(r.plan)
  BY <1>a DEF Target
<1>5. n \in Names
  BY <1>1, <1>3, <1>4 DEF SalesAt, NewName, DialogOK, DialogTypeOK, Picks, Names
<1>6. /\ s \in SalesAt({"panel"}, Names) /\ s.at = "panel" /\ s.name = n
      /\ s.shown = r.shown
  BY <1>3, <1>5, <1>b DEF SalesAt
<1>7. Means(s)'
  BY <1>1, <1>2, <1>4, <1>6 DEF Means
<1>8. s \in Sales /\ s # None
  BY <1>6, NoneAssumption DEF Sales
<1>9. DialogOK' /\ selling'[b] = s /\ \A c \in Buyers \ {b} : Stays(c)
  BY <1>1, <1>2, <1>7, <1>8, SaleMoves
<1>10. ~InPanel(b) /\ InPanel(b)' /\ selling'[b].name = n
  BY <1>1, <1>6, <1>8, <1>9, <1>a DEF InPanel
<1>11. QED
  BY <1>5, <1>9, <1>10, <1>a

\* A purchase is committed.
LEMMA CommitKeeps ==
  ASSUME DialogOK, NEW b \in Buyers, PurchaseCommit(b)
  PROVE  /\ DialogOK' /\ InPanel(b) /\ ~InPanel(b)'
         /\ \A c \in Buyers \ {b} : Stays(c)
<1>a. PICK r : r = selling[b]
  OBVIOUS
<1>1. /\ r # None /\ r.at = "panel" /\ Goes(b, Clearing)
      /\ mine' = mine \cup {r.name} /\ UNCHANGED <<intents, screen>>
  BY <1>a DEF PurchaseCommit
<1>2. r \in Sales \cup {None} /\ mine \in SUBSET Names
  BY <1>a DEF DialogOK, DialogTypeOK
<1>3. r \in SalesAt({"panel"}, Names)
  BY <1>1, <1>2 DEF Sales, SalesAt, Unread, Clearing
<1>4. r.name \in Names /\ mine' \in SUBSET Names
  BY <1>1, <1>2, <1>3 DEF SalesAt
<1>5. Clearing.at = "clear" /\ Means(Clearing)'
  BY DEF Clearing, Means
<1>6. Clearing \in Sales /\ Clearing # None
  BY NoneAssumption DEF Sales
<1>7. DialogOK' /\ selling'[b] = Clearing /\ \A c \in Buyers \ {b} : Stays(c)
  BY <1>1, <1>4, <1>5, <1>6, SaleMoves
<1>8. InPanel(b) /\ ~InPanel(b)'
  BY <1>1, <1>5, <1>7, <1>a DEF InPanel
<1>9. QED
  BY <1>7, <1>8

\* A purchase comes to nothing.
LEMMA FailKeeps ==
  ASSUME DialogOK, NEW b \in Buyers, PurchaseFails(b)
  PROVE  DialogOK' /\ ~InPanel(b)' /\ \A c \in Buyers \ {b} : Stays(c)
<1>1. Goes(b, None) /\ UNCHANGED <<intents, mine, screen>>
  BY DEF PurchaseFails
<1>2. mine' \in SUBSET Names
  BY <1>1 DEF DialogOK, DialogTypeOK
<1>3. DialogOK' /\ selling'[b] = None /\ \A c \in Buyers \ {b} : Stays(c)
  BY <1>1, <1>2, SaleMoves
<1>4. QED
  BY <1>3 DEF InPanel

\* A purchase that has been committed deletes the choices, whosever they are.
LEMMA ClearsKeep ==
  ASSUME DialogOK, NEW b \in Buyers, PurchaseClears(b)
  PROVE  DialogOK' /\ \A c \in Buyers : Stays(c)
<1> USE DEF DialogOK
<1>1. PICK count \in 0..3 : Cleared(count)
  BY DEF PurchaseClears
<1>2. /\ selling[b] # None /\ selling[b].at = "clear" /\ mine' = mine
      /\ Shows(intents' = intents, screen)
      /\ selling' = [c \in Buyers |-> IF c = b THEN None ELSE Aside(c)]
  BY DEF PurchaseClears
<1>3. ChoicesOK'
  <2>1. CASE intents' = intents
    <3>1. screen' = screen
      BY <1>2, <2>1 DEF Shows
    <3>2. QED
      BY <2>1, <3>1, ChoicesStay
  <2>2. CASE intents' # intents
    <3>1. screen' = None
      BY <1>2, <2>2 DEF Shows
    <3>2. QED
      BY <1>1, <3>1, ClearedOK DEF ChoicesOK, ScreenOK
  <2>3. QED
    BY <2>1, <2>2
<1>4. ASSUME NEW c \in Buyers \ {b}
      PROVE  /\ selling'[c] \in Sales \cup {None} /\ Stays(c)
             /\ (selling[c] # None => Means(selling[c]))'
  <2>1. selling'[c] = Aside(c)
    BY <1>2
  <2>2. QED
    BY <2>1, AsideKeeps
<1>5. selling'[b] = None
  BY <1>2
<1>6. selling' \in [Buyers -> Sales \cup {None}] /\ SalesOK'
  BY <1>2, <1>4, <1>5 DEF SalesOK
<1>7. Stays(b)
  BY <1>2, <1>5 DEF Stays, InPanel
<1>8. mine' \in SUBSET Names
  BY <1>2 DEF DialogTypeOK
<1>9. QED
  BY <1>3, <1>4, <1>6, <1>7, <1>8, DialogIs

\* Whatever is pressed, and what goes on without the panel.
LEMMA PressKeeps ==
  ASSUME DialogOK, PressButton
  PROVE  DialogOK' /\ \A b \in Buyers : Stays(b)
<1> USE DEF DialogOK
<1>1. CASE ChoiceButton
  <2>1. ChoicesOK' /\ mine' = mine /\ Watched
    BY <1>1, ButtonChoices
  <2>2. mine' \in SUBSET Names
    BY <2>1 DEF DialogTypeOK
  <2>3. QED
    BY <2>1, <2>2, WatchedKeeps, DialogIs
<1>2. ASSUME NEW p \in Plans, PlanModeSel(p) PROVE DialogOK' /\ \A b \in Buyers : Stays(b)
  <2>1. ChoicesOK' /\ UNCHANGED <<mine, selling, intents>>
    BY <1>2, ModeSelChoices
  <2>2. mine' \in SUBSET Names /\ selling' \in [Buyers -> Sales \cup {None}]
    BY <2>1 DEF DialogTypeOK
  <2>3. SalesOK'
    BY <2>1 DEF SalesOK, Means, Chosen, NewName, intents
  <2>4. QED
    BY <2>1, <2>2, <2>3, DialogIs DEF Stays, InPanel
<1>3. QED
  BY <1>1, <1>2, ModeKeeps, ClearsKeep DEF PressButton, ChoiceButton

\* A flow whose purchase stays where it is.
LEMMA BuyerStays ==
  ASSUME BuyersOK, NEW b \in Buyers, Stays(b), flow'[b].at = flow[b].at,
         flow'[b].name = flow[b].name
  PROVE  /\ InPanel(b)' <=> flow'[b].at # "idle"
         /\ InPanel(b)' => /\ flow'[b].name = selling'[b].name
                           /\ flow'[b].at \in {"create", "expire", "limit", "done"}
BY DEF BuyersOK, Stays

\* And of all the others.
LEMMA OthersStay ==
  ASSUME BuyersOK, NEW b \in Buyers, Kept(b), \A c \in Buyers \ {b} : Stays(c),
         InPanel(b)' <=> flow'[b].at # "idle",
         InPanel(b)' => /\ flow'[b].name = selling'[b].name
                        /\ flow'[b].at \in {"create", "expire", "limit", "done"}
  PROVE  BuyersOK'
<1>1. ASSUME NEW c \in Buyers \ {b}
      PROVE  /\ InPanel(c)' <=> flow'[c].at # "idle"
             /\ InPanel(c)' => /\ flow'[c].name = selling'[c].name
                               /\ flow'[c].at \in {"create", "expire", "limit", "done"}
  <2>1. flow'[c].at = flow[c].at /\ flow'[c].name = flow[c].name
    BY PurchaseAssumption DEF Kept
  <2>2. QED
    BY <2>1, BuyerStays
<1>2. QED
  BY <1>1 DEF BuyersOK

\* As long as the dialog is left alone.
LEMMA DialogStays ==
  ASSUME DialogOK, UNCHANGED dialogVars
  PROVE  DialogOK' /\ \A b \in Buyers : Stays(b)
BY DEF DialogOK, dialogVars, DialogTypeOK, ScreenOK, SalesOK, Means, Chosen, NewName, Stays, InPanel

\* What holds to begin with.
LEMMA InitIInv ==
  Init => IInv
<1> SUFFICES ASSUME Init PROVE IInv
  OBVIOUS
<1>1. DialogTypeOK /\ ScreenOK /\ selling = [b \in Buyers |-> None]
  BY DEF Init, DialogInit, DialogTypeOK, ScreenOK, Names
<1>2. flow = [k \in Flows |-> NoFlow]
  BY DEF Init, AccountsInit
<1>3. BuyersOK /\ SalesOK
  BY <1>1, <1>2, PurchaseAssumption, NoFlowOK DEF BuyersOK, SalesOK, InPanel
<1>4. AccountsOK
  <2>1. FlowsOK /\ \A k \in Flows : flow[k] \in FlowType
    BY <1>2, NoFlowOK DEF FlowsOK, LocalsOK
  <2>2. acct \in [Accounts -> Contents] /\ acct \in [Accounts -> [limit: Int, expire: Int]]
    <3>1. {Absent, Fresh, Old} \subseteq Contents \cap [limit: Int, expire: Int]
      BY Promises DEF Contents
    <3>2. acct \in [Accounts -> {Absent, Fresh, Old}]
      BY PurchaseAssumption DEF Init
    <3>3. QED
      BY <3>1, <3>2
  <2>3. flow \in [Flows -> FlowType]
    BY <1>2, <2>1
  <2>4. today \in 1..(MaxDay - PlanDays) /\ today \in 1..MaxDay /\ events \in 0..MaxEvents
    BY AccountsAssumption DEF Init, AccountsInit
  <2>5. owed = acct /\ overtaken = {}
    BY DEF Init, AccountsInit
  <2>6. QED
    BY <2>1, <2>2, <2>3, <2>4, <2>5
    DEF AccountsOK, AccountsTypeOK, TodayOK, AdditionsKept, FlowType
<1>5. QED
  BY <1>1, <1>3, <1>4 DEF IInv, DialogOK

\* And every step keeps it.
LEMMA NextIInv ==
  IInv /\ [Next]_vars => IInv'
<1> SUFFICES ASSUME IInv, [Next]_vars PROVE IInv'
  OBVIOUS
<1> USE DEF IInv
<1>b. Buyers \subseteq Flows /\ Accounts = Names
  BY PurchaseAssumption
<1>1. CASE PressButton /\ UNCHANGED accountVars
  <2>1. DialogOK' /\ \A b \in Buyers : Stays(b)
    BY <1>1, PressKeeps
  <2>2. UNCHANGED <<acct, today, flow, events, owed, overtaken>>
    BY <1>1 DEF accountVars
  <2>3. BuyersOK'
    BY <2>1, <2>2, BuyerStays DEF BuyersOK
  <2>4. AccountsOK'
    BY <2>2 DEF AccountsOK, AccountsTypeOK, TodayOK, FlowsOK, AdditionsKept
  <2>5. QED
    BY <2>1, <2>3, <2>4
<1>0. ASSUME NEW b \in Buyers, Confirms(b) PROVE IInv'
  <2>1. PICK p \in Plans : PlanFinal(b, p)
    BY <1>0 DEF Confirms
  <2>2. DialogOK' /\ \A c \in Buyers : Stays(c)
    BY <2>1, FinalKeeps
  <2>3. UNCHANGED <<acct, today, flow, owed, overtaken>> /\ Event
    BY <1>0 DEF Confirms
  <2>4. events' \in 0..MaxEvents
    BY <2>3, AccountsAssumption DEF Event, AccountsOK, AccountsTypeOK
  <2>5. BuyersOK'
    BY <2>2, <2>3, BuyerStays DEF BuyersOK
  <2>6. AccountsOK'
    BY <2>3, <2>4 DEF AccountsOK, AccountsTypeOK, TodayOK, FlowsOK, AdditionsKept
  <2>7. QED
    BY <2>2, <2>5, <2>6
<1>2. ASSUME NEW b \in Buyers, Purchases(b) PROVE IInv'
  <2>1. /\ DialogOK' /\ Target(b) \in Names /\ InPanel(b)' /\ selling'[b].name = Target(b)
        /\ \A c \in Buyers \ {b} : Stays(c)
    BY <1>2, TargetKeeps DEF Purchases
  <2>2. /\ Starts(b, [NoFlow EXCEPT !.at = "create", !.name = Target(b)])
        /\ UNCHANGED <<acct, today, events, owed, overtaken>>
    BY <1>2 DEF Purchases, Provision
  <2>3. AccountsOK' /\ Kept(b) /\ flow'[b].at = "create" /\ flow'[b].name = Target(b)
    BY <1>b, <2>1, <2>2, ProvisionKeeps
  <2>4. QED
    BY <2>1, <2>3, OthersStay
<1>3. ASSUME NEW b \in Buyers, Provisioning(b) PROVE IInv'
  <2>1. AccountsOK' /\ Kept(b) /\ Advances(b)
    BY <1>b, <1>3, FlowKeeps DEF Provisioning
  <2>2. CASE flow'[b].at = "idle"
    <3>1. PurchaseFails(b)
      BY <1>3, <2>2 DEF Provisioning
    <3>2. DialogOK' /\ ~InPanel(b)' /\ \A c \in Buyers \ {b} : Stays(c)
      BY <3>1, FailKeeps
    <3>3. QED
      BY <2>1, <2>2, <3>2, OthersStay
  <2>3. CASE flow'[b].at # "idle"
    <3>1. DialogOK' /\ \A c \in Buyers : Stays(c)
      BY <1>3, <2>3, DialogStays DEF Provisioning
    <3>2. flow[b].at \in {"create", "expire", "limit"}
      BY <1>3 DEF Provisioning, FlowStep, Create, SetExpire, SetLimit
    <3>3. InPanel(b) /\ flow[b].name = selling[b].name
      BY <3>2 DEF BuyersOK
    <3>4. QED
      BY <2>1, <2>3, <3>1, <3>3, OthersStay DEF Advances, Stays
  <2>4. QED
    BY <2>2, <2>3
<1>4. ASSUME NEW b \in Buyers, Commit(b) \/ Fail(b) PROVE IInv'
  <2>1. /\ PurchaseCommit(b) \/ PurchaseFails(b)
        /\ Returns(b) /\ UNCHANGED <<acct, today, events, owed, overtaken>>
    BY <1>4 DEF Commit, Fail
  <2>2. AccountsOK' /\ Kept(b) /\ flow'[b] = NoFlow
    BY <1>b, <2>1, Ends
  <2>3. DialogOK' /\ ~InPanel(b)' /\ \A c \in Buyers \ {b} : Stays(c)
    BY <2>1, CommitKeeps, FailKeeps
  <2>4. QED
    BY <2>2, <2>3, NoFlowOK, OthersStay
<1>5. ASSUME NEW k \in Admins, FlowStep(k) \/ AdminStep(k), UNCHANGED dialogVars
      PROVE  IInv'
  <2>1. k \in Flows /\ Buyers \subseteq Flows \ {k}
    BY <1>b DEF Admins
  <2>2. AccountsOK' /\ Kept(k)
    BY <1>5, <2>1, FlowKeeps, AdminKeeps
  <2>3. \A b \in Buyers : flow'[b].at = flow[b].at /\ flow'[b].name = flow[b].name
    BY <2>1, <2>2 DEF Kept
  <2>4. DialogOK' /\ \A b \in Buyers : Stays(b)
    BY <1>5, DialogStays
  <2>5. QED
    BY <2>2, <2>3, <2>4, BuyerStays DEF BuyersOK
<1>6. CASE Day /\ UNCHANGED dialogVars
  <2>1. AccountsOK' /\ flow' = flow
    BY <1>6, DayKeeps
  <2>2. DialogOK' /\ \A b \in Buyers : Stays(b)
    BY <1>6, DialogStays
  <2>3. QED
    BY <2>1, <2>2, BuyerStays DEF BuyersOK
<1>7. CASE UNCHANGED vars
  <2>1. UNCHANGED dialogVars /\ UNCHANGED <<acct, today, flow, events, owed, overtaken>>
    BY <1>7 DEF vars, accountVars
  <2>2. DialogOK' /\ \A b \in Buyers : Stays(b)
    BY <2>1, DialogStays
  <2>3. BuyersOK'
    BY <2>1, <2>2, BuyerStays DEF BuyersOK
  <2>4. AccountsOK'
    BY <2>1 DEF AccountsOK, AccountsTypeOK, TodayOK, FlowsOK, AdditionsKept
  <2>5. QED
    BY <2>2, <2>3, <2>4
<1>8. QED
  BY <1>0, <1>1, <1>2, <1>3, <1>4, <1>5, <1>6, <1>7 DEF Next

-----------------------------------------------------------------------------
(* Theorems *)

\* The invariant holds in every reachable state.
THEOREM Invariant ==
  Spec => []IInv
BY InitIInv, NextIInv, PTL DEF Spec

\* Choices, keyboards, flows and accounts are of the kinds the model gives them.
THEOREM TypeCorrect ==
  Spec => []TypeOK
<1>1. IInv => TypeOK
  BY DEF IInv, DialogOK, AccountsOK, TypeOK
<1>2. QED
  BY <1>1, Invariant, PTL

\* An account nobody has overtaken has the sum of what was done to it
\* (marzban_ops.py: add_data_gb, extend_expire, provision_for_plan).
THEOREM AdditionsAddUp ==
  Spec => []AdditionsKept
<1>1. IInv => AdditionsKept
  BY DEF IInv, AccountsOK
<1>2. QED
  BY <1>1, Invariant, PTL

\* What the confirmation has promised is what the purchase commits
\* (plans.py: cb_plan_final, _do_purchase).
THEOREM Delivered ==
  Spec => ConfirmedIsDelivered
<1> DEFINE Delivers ==
      \A b \in Buyers :
        Commit(b) /\ selling[b].shown # None /\ ~flow[b].crossed
          => acct[selling[b].shown] = flow[b].saw
<1>1. IInv => Delivers
  <2> SUFFICES ASSUME IInv, NEW b \in Buyers, Commit(b), selling[b].shown # None,
                      ~flow[b].crossed
               PROVE  acct[selling[b].shown] = flow[b].saw
    OBVIOUS
  <2>1. flow[b].at = "done" /\ InPanel(b)
    BY DEF Commit, PurchaseCommit, InPanel
  <2>2. selling[b].shown = flow[b].name
    BY <2>1 DEF IInv, DialogOK, SalesOK, Means, BuyersOK, InPanel
  <2>3. Finds(flow[b], acct[flow[b].name])
    BY PurchaseAssumption DEF IInv, AccountsOK, FlowsOK
  <2>4. QED
    BY <2>1, <2>2, <2>3 DEF Finds
<1>2. QED
  BY <1>1, Invariant, PTL DEF ConfirmedIsDelivered

-----------------------------------------------------------------------------
(***************************************************************************)
(* Texts.  Handlers are tried in order, so the first thing to know is that *)
(* what HandlerOf picks matches, and nothing before it does; then what     *)
(* each handler hears, and the bridge, which is several of them in one.    *)
(***************************************************************************)

\* A set of positions that is not empty has a first one.
LEMMA FirstPosition ==
  ASSUME NEW I \in SUBSET (1..11), I # {}
  PROVE  Min(I) \in I /\ \A j \in I : Min(I) <= j
<1> DEFINE First(i) == i \in I /\ \A j \in I : i <= j
<1>1. \E i \in I : First(i)
  <2> SUFFICES ASSUME \A i \in I : ~First(i) PROVE FALSE
    OBVIOUS
  <2>1. \A i \in I : \E j \in I : j < i
    OBVIOUS
  <2>2. 1 \notin I /\ 2 \notin I /\ 3 \notin I
    BY <2>1
  <2>3. 4 \notin I /\ 5 \notin I /\ 6 \notin I
    BY <2>1, <2>2
  <2>4. 7 \notin I /\ 8 \notin I /\ 9 \notin I
    BY <2>1, <2>2, <2>3
  <2>5. 10 \notin I /\ 11 \notin I
    BY <2>1, <2>2, <2>3, <2>4
  <2>6. \A i \in 1..11 : i \notin I
    BY <2>2, <2>3, <2>4, <2>5
  <2>7. QED
    BY <2>6
<1>2. QED
  BY <1>1 DEF Min

\* The handler of a text is the first whose filter matches.
LEMMA FirstMatches ==
  ASSUME NEW d, NEW t
  PROVE  \E i \in 1..11 : /\ HandlerOf(d, t) = Order[i]
                          /\ Matches(Order[i], d, t)
                          /\ \A j \in 1..(i - 1) : ~Matches(Order[j], d, t)
<1> DEFINE I == {i \in 1..Len(Order) : Matches(Order[i], d, t)}
<1>1. Len(Order) = 11 /\ Order[11] = "trial"
  BY DEF Order
<1>2. 11 \in I
  BY <1>1 DEF Matches
<1>3. I \in SUBSET (1..11)
  BY <1>1
<1>4. Min(I) \in I /\ \A j \in I : Min(I) <= j
  <2> HIDE DEF I
  <2>1. QED
    BY <1>2, <1>3, FirstPosition
<1>5. HandlerOf(d, t) = Order[Min(I)]
  BY <1>2 DEF HandlerOf, SelectInSeq
<1> HIDE DEF I
<1>6. PICK m \in 1..11 : m = Min(I)
  BY <1>3, <1>4
<1>7. \A j \in 1..11 : j \in I <=> Matches(Order[j], d, t)
  BY <1>1 DEF I
<1>8. m \in I /\ \A j \in I : m <= j
  BY <1>4, <1>6
<1>9. \A j \in 1..(m - 1) : j \in 1..11 /\ j \notin I
  BY <1>6, <1>8
<1>10. QED
  BY <1>5, <1>6, <1>7, <1>8, <1>9

\* So numbers, names and words never get past start.py, and what gets to the
\* bridge is no answer to its first filter.
LEMMA Dispatch ==
  ASSUME NEW d, NEW t
  PROVE  /\ HandlerOf(d, t) \in {"ref", "numeric", "digits", "price", "create", "field",
                                 "users", "amounts", "search", "grant", "trial"}
         /\ Matches(HandlerOf(d, t), d, t)
         /\ IsRef(t) <=> HandlerOf(d, t) = "ref"
         /\ HandlerOf(d, t) \in {"numeric", "digits"} <=>
              ~IsRef(t) /\ HasDigit(t)
<1>1. PICK i \in 1..11 :
        /\ HandlerOf(d, t) = Order[i]
        /\ Matches(Order[i], d, t)
        /\ \A j \in 1..(i - 1) : ~Matches(Order[j], d, t)
  BY FirstMatches
<1>2. /\ Order[1] = "ref" /\ Order[2] = "numeric" /\ Order[3] = "digits"
      /\ \A j \in 4..11 : Order[j] \in {"price", "create", "field", "users", "amounts",
                                                "search", "grant", "trial"}
  BY DEF Order
<1>3. /\ Matches("ref", d, t) <=> IsRef(t)
      /\ Matches("numeric", d, t) <=> IsNumber(t)
      /\ Matches("digits", d, t) <=> HasDigit(t)
  BY DEF Matches
<1>4. IsNumber(t) => HasDigit(t)
  BY DEF IsNumber, HasDigit
<1>5. CASE i = 1
  BY <1>1, <1>2, <1>3, <1>5
<1>6. CASE i \in 2..3
  <2>1. ~IsRef(t)
    BY <1>1, <1>2, <1>3, <1>6
  <2>2. QED
    BY <1>1, <1>2, <1>3, <1>4, <1>6, <2>1
<1>7. CASE i \in 4..11
  <2>1. ~IsRef(t) /\ ~HasDigit(t)
    <3>1. 1 \in 1..(i - 1) /\ 3 \in 1..(i - 1)
      BY <1>7
    <3>2. QED
      BY <1>1, <1>2, <1>3, <3>1
  <2>2. HandlerOf(d, t) \in {"price", "create", "field", "users", "amounts",
                                     "search", "grant", "trial"}
    BY <1>1, <1>2, <1>7
  <2>3. QED
    BY <1>1, <2>1, <2>2
<1>8. QED
  BY <1>5, <1>6, <1>7

\* The amount of a manual credit, and what it leaves alone.
LEMMA ManualAmountHears ==
  ASSUME NEW d, NEW t
  PROVE  LET r == ManualAmount(d, t)
         IN  /\ r.heard \subseteq {"manual"}
             /\ ~IsAmount(t) => r.heard = {}
             /\ d.manual = "amount" /\ IsAmount(t) => r.heard = {"manual"}
  BY DEF ManualAmount, Unheard, Hears

\* The limits of a top-up hear numbers.
LEMMA LimitsHear ==
  ASSUME NEW d, NEW t, NEW arrives
  PROVE  LET r == Limits(d, t, arrives)
         IN  /\ r.heard \subseteq {"min", "max"}
             /\ ~IsInt(t) => r.heard = {}
  BY DEF Limits, Unheard, Hears

\* So does a custom amount, after the limits.
LEMMA CustomHears ==
  ASSUME NEW d, NEW t, NEW ok, NEW arrives
  PROVE  LET r == Custom(d, t, ok, arrives)
         IN  /\ r.heard \subseteq {"min", "max", "custom"}
             /\ ~IsAmount(t) => r.heard = {}
             /\ ~IsInt(t) => r.heard \subseteq {"custom"}
<1>1. IsInt(t) => IsAmount(t)
  BY DEF IsAmount
<1>2. QED
  BY <1>1, LimitsHear DEF Custom, Unheard, Hears

\* The bridge: a manual credit or the others, and both only when a reply failed.
LEMMA BridgeHears ==
  ASSUME NEW d, NEW t, NEW ok, NEW arrives
  PROVE  LET h == Bridge(d, t, ok, arrives).heard
         IN  /\ ~IsAmount(t) => h = {}
             /\ d.manual = "amount" /\ IsAmount(t) => "manual" \in h
             /\ (d.manual = "amount" \/ d.memory = "amount") /\ arrives => h \subseteq {"manual"}
             /\ ~(d.manual = "amount" \/ d.memory = "amount")
                  => /\ h \subseteq {"min", "max", "custom"}
                     /\ ~IsInt(t) => h \subseteq {"custom"}
<1> DEFINE manual == "amount" \in {d.manual, d.memory}
           r1 == IF manual THEN ManualAmount(d, t) ELSE Unheard(d)
           l1 == Limits(r1.dialogs, t, arrives)
           r2 == Then(r1, l1)
           l2 == Limits(r2.dialogs, t, arrives)
           r3 == Then(r2, l2)
           c  == Custom(r3.dialogs, t, ok, arrives)
           h  == Bridge(d, t, ok, arrives).heard
<1>1. r2.heard = r1.heard \cup l1.heard /\ r3.heard = r1.heard \cup l1.heard \cup l2.heard
  BY DEF Then
<1>2. /\ manual /\ arrives => h = r1.heard
      /\ ~(manual /\ arrives) => h \in {r3.heard, r3.heard \cup c.heard}
  BY DEF Bridge, Then
<1>3. /\ r1.heard \subseteq {"manual"}
      /\ ~IsAmount(t) => r1.heard = {}
      /\ d.manual = "amount" /\ IsAmount(t) => r1.heard = {"manual"}
      /\ ~manual => r1.heard = {}
  BY ManualAmountHears DEF Unheard
<1>4. /\ l1.heard \subseteq {"min", "max"} /\ l2.heard \subseteq {"min", "max"}
      /\ ~IsInt(t) => l1.heard = {} /\ l2.heard = {}
  BY LimitsHear
<1>5. /\ c.heard \subseteq {"min", "max", "custom"}
      /\ ~IsAmount(t) => c.heard = {}
      /\ ~IsInt(t) => c.heard \subseteq {"custom"}
  BY CustomHears
<1>6. IsInt(t) => IsAmount(t)
  BY DEF IsAmount
<1>7. manual <=> d.manual = "amount" \/ d.memory = "amount"
  OBVIOUS
<1> HIDE DEF manual, r1, l1, r2, l2, r3, c, h
<1>8. QED
  BY <1>1, <1>2, <1>3, <1>4, <1>5, <1>6, <1>7 DEF h

\* Whoever else gets a text asks one question of it.
LEMMA OneHears ==
  ASSUME NEW d, NEW t, ~(~IsRef(t) /\ HasDigit(t))
  PROVE  \E q : \A ok, arrives \in BOOLEAN : Handled(d, t, ok, arrives).heard \subseteq {q}
<1> DEFINE h == HandlerOf(d, t)
           Only(q) == \A ok, arrives \in BOOLEAN :
                        Handled(d, t, ok, arrives).heard \subseteq {q}
<1>1. h \in {"ref", "price", "create", "field", "users", "amounts", "search", "grant", "trial"}
  BY Dispatch
<1> HIDE DEF h
<1> USE DEF Unheard, Hears
<1>2. CASE h = "ref"
  <2>1. Only("manual")
    BY <1>2 DEF h, Handled, ManualRef
  <2>2. QED
    BY <2>1
<1>3. CASE h = "price"
  <2>1. Only("price")
    BY <1>3 DEF h, Handled, PlanPrice
  <2>2. QED
    BY <2>1
<1>4. CASE h = "create"
  <2>1. Only("create")
    BY <1>4 DEF h, Handled, PlanCreate
  <2>2. QED
    BY <2>1
<1>5. CASE h = "field"
  <2>1. Only("field")
    BY <1>5 DEF h, Handled, PlanField
  <2>2. QED
    BY <2>1
<1>6. CASE h = "users"
  <2>1. Only("user")
    BY <1>6 DEF h, Handled
  <2>2. QED
    BY <2>1
<1>7. CASE h = "amounts"
  <2>1. Only(IF "service" \in d.open THEN "service" ELSE "user")
    BY <1>7 DEF h, Handled, UserAmount
  <2>2. QED
    BY <2>1
<1>8. CASE h = "search"
  <2>1. Only("search")
    BY <1>8 DEF h, Handled, Search
  <2>2. QED
    BY <2>1
<1>9. CASE h = "grant"
  <2>1. Only("grant")
    BY <1>9 DEF h, Handled, GrantName
  <2>2. QED
    BY <2>1
<1>10. CASE h = "trial"
  <2> DEFINE q == SelectInSeq(Trial, LAMBDA x : x \in d.open)
  <2>1. Only(Trial[q])
    BY <1>10 DEF h, Handled, TrialSetting
  <2>2. QED
    BY <2>1
<1>11. QED
  BY <1>1, <1>2, <1>3, <1>4, <1>5, <1>6, <1>7, <1>8, <1>9, <1>10

\* The bridge gets what is left of the texts with a digit.
LEMMA BridgeHandles ==
  ASSUME NEW d, NEW t, ~IsRef(t), HasDigit(t), NEW ok, NEW arrives
  PROVE  Handled(d, t, ok, arrives) = Bridge(d, t, ok, arrives)
<1>1. HandlerOf(d, t) \in {"numeric", "digits"}
  BY Dispatch
<1>2. QED
  BY <1>1 DEF Handled

\* A set within a single question counts no more than one.
LEMMA AtMostOne ==
  ASSUME NEW S, NEW q, S \subseteq {q}
  PROVE  ~(Cardinality(S) > 1)
<1>1. IsFiniteSet({q}) /\ Cardinality({q}) = 1
  BY FS_Singleton
<1>2. Cardinality(S) <= 1 /\ Cardinality(S) \in Nat
  BY <1>1, FS_Subset, FS_CardinalityType
<1>3. QED
  BY <1>2

\* No text is the answer to two questions, but for what the bridge does.
LEMMA CountsOnce == TextCountsOnce
<1> SUFFICES ASSUME NEW t \in Texts
             PROVE  /\ Cardinality(Hearers(t, TRUE)) > 1
                         => /\ t = "short"
                            /\ Hearers(t, TRUE) \subseteq {"min", "max", "custom"}
                    /\ Cardinality(Hearers(t, FALSE)) > 1 => IsNumber(t)
  BY DEF TextCountsOnce
<1>1. ASSUME NEW arrives \in BOOLEAN, NEW S,
             \A ok \in BOOLEAN : Handled(dialogs, t, ok, arrives).heard \subseteq S
      PROVE  Hearers(t, arrives) \subseteq S
  <2> DEFINE H(ok) == Handled(dialogs, t, ok, arrives).heard
  <2>1. Hearers(t, arrives) = UNION {H(ok) : ok \in BOOLEAN}
    BY DEF Hearers
  <2>2. \A ok \in BOOLEAN : H(ok) \subseteq S
    BY <1>1
  <2> HIDE DEF H
  <2>3. QED
    BY <2>1, <2>2
<1>2. CASE ~(~IsRef(t) /\ HasDigit(t))
  <2>1. PICK q : \A ok, arrives \in BOOLEAN :
                   Handled(dialogs, t, ok, arrives).heard \subseteq {q}
    BY <1>2, OneHears
  <2>2. \A arrives \in BOOLEAN : Hearers(t, arrives) \subseteq {q}
    BY <1>1, <2>1
  <2>3. QED
    BY <2>2, AtMostOne
<1>3. CASE ~IsRef(t) /\ HasDigit(t)
  <2>1. t \in {"short", "grouped", "noted"}
    BY <1>3 DEF Texts, IsRef, HasDigit
  <2>2. \A ok, arrives \in BOOLEAN :
          Handled(dialogs, t, ok, arrives) = Bridge(dialogs, t, ok, arrives)
    BY <1>3, BridgeHandles
  <2>3. CASE t = "noted"
    <3>1. ~IsAmount(t)
      BY <2>3 DEF IsAmount, IsInt
    <3>2. \A ok, arrives \in BOOLEAN : Handled(dialogs, t, ok, arrives).heard = {}
      BY <2>2, <3>1, BridgeHears
    <3>3. \A arrives \in BOOLEAN : Hearers(t, arrives) \subseteq {"manual"}
      BY <1>1, <3>2
    <3>4. QED
      BY <3>3, AtMostOne
  <2>4. CASE t \in {"short", "grouped"}
    <3>1. IsNumber(t)
      BY <2>4 DEF IsNumber
    <3>2. CASE dialogs.manual = "amount" \/ dialogs.memory = "amount"
      <4>1. \A ok \in BOOLEAN : Handled(dialogs, t, ok, TRUE).heard \subseteq {"manual"}
        BY <2>2, <3>2, BridgeHears
      <4>2. Hearers(t, TRUE) \subseteq {"manual"}
        BY <1>1, <4>1
      <4>3. QED
        BY <3>1, <4>2, AtMostOne
    <3>3. CASE ~(dialogs.manual = "amount" \/ dialogs.memory = "amount")
      <4>0. \A ok \in BOOLEAN :
              /\ Handled(dialogs, t, ok, TRUE).heard \subseteq {"min", "max", "custom"}
              /\ ~IsInt(t)
                   => Handled(dialogs, t, ok, TRUE).heard \subseteq {"custom"}
        BY <2>2, <3>3, BridgeHears
      <4>1. Hearers(t, TRUE) \subseteq {"min", "max", "custom"}
        BY <1>1, <4>0
      <4>2. CASE t = "grouped"
        <5>1. ~IsInt(t)
          BY <4>2 DEF IsInt
        <5>2. Hearers(t, TRUE) \subseteq {"custom"}
          BY <1>1, <4>0, <5>1
        <5>3. QED
          BY <3>1, <5>2, AtMostOne
      <4>3. QED
        BY <2>4, <3>1, <4>1, <4>2
    <3>4. QED
      BY <3>2, <3>3
  <2>5. QED
    BY <2>1, <2>3, <2>4
<1>4. QED
  BY <1>2, <1>3

\* The amount of a manual credit that the store remembers is heard.
LEMMA CreditHeard == AmountHeard
<1> SUFFICES ASSUME dialogs.manual = "amount", NEW t \in {"short", "grouped"},
                    NEW arrives \in BOOLEAN
             PROVE  "manual" \in Hearers(t, arrives)
  BY DEF AmountHeard
<1>1. ~IsRef(t) /\ HasDigit(t) /\ IsAmount(t)
  BY DEF IsRef, HasDigit, IsAmount, IsInt
<1>2. Handled(dialogs, t, TRUE, arrives) = Bridge(dialogs, t, TRUE, arrives)
  BY <1>1, BridgeHandles
<1> DEFINE H(ok) == Handled(dialogs, t, ok, arrives).heard
<1>3. Hearers(t, arrives) = UNION {H(ok) : ok \in BOOLEAN}
  BY DEF Hearers
<1>4. "manual" \in H(TRUE)
  BY <1>1, <1>2, BridgeHears
<1> HIDE DEF H
<1>5. QED
  BY <1>3, <1>4

-----------------------------------------------------------------------------
(***************************************************************************)
(* What a text or a button leaves behind.  Of the two copies of a manual   *)
(* credit, the one in memory may be forgotten, and may outlive the one in  *)
(* the store, but never contradicts it: this is what keeps the bridge from *)
(* taking a number for the amount of a credit that has no user yet.        *)
(***************************************************************************)

DialogsType ==
  [manual: Stages, memory: Stages, custom: {"none", "asked", "chosen"}, open: SUBSET Flags,
   step: Range(CreateSteps) \cup {Nothing}, field: {"title", "number", Nothing}]

CopiesAgree(d) == d.manual # "none" => d.memory \in {"none", d.manual}

Sound(d) == d \in DialogsType /\ CopiesAgree(d)

RoutingIInv == Sound(dialogs) /\ asked \in Questions \cup {Nothing}

\* The values of the two sequences of questions.
LEMMA QuestionRanges ==
  /\ Range(CreateSteps) = {"title", "gb", "days", "price"}
  /\ Range(Trial) = {"gb", "days", "reset"}
  BY DEF Range, CreateSteps, Trial

\* Closing what other menus have asked.
LEMMA ClosedSound ==
  ASSUME NEW d, Sound(d)
  PROVE  /\ Sound(ClosePlans(d)) /\ ClosePlans(d).manual = d.manual
         /\ Sound(CloseForSettings(d)) /\ Sound(UsersMenu(d))
  BY DEF Sound, DialogsType, CopiesAgree, ClosePlans, CloseForSettings, UsersMenu, Stages

\* The recipient of a manual credit, and its amount.
LEMMA ManualSound ==
  ASSUME NEW d, Sound(d), NEW t, NEW ok
  PROVE  Sound(ManualRef(d, t, ok).dialogs) /\ Sound(ManualAmount(d, t).dialogs)
  BY DEF Sound, DialogsType, CopiesAgree, Stages, ManualRef, ManualAmount, Unheard, Hears

\* The limits of a top-up.
LEMMA LimitsSound ==
  ASSUME NEW d, Sound(d), NEW t, NEW arrives
  PROVE  Sound(Limits(d, t, arrives).dialogs)
<1> DEFINE q   == IF "min" \in d.open \cap {"min", "max"} THEN "min" ELSE "max"
           set == [d EXCEPT !.open = @ \ {q}]
<1>1. Sound(set)
  BY DEF Sound, DialogsType, CopiesAgree
<1>2. Sound(CloseForSettings(set))
  BY <1>1, ClosedSound
<1>3. Limits(d, t, arrives).dialogs \in {d, set, CloseForSettings(set)}
  BY DEF Limits, Unheard, Hears
<1> HIDE DEF set
<1>4. QED
  BY <1>1, <1>2, <1>3

\* The amount of a top-up.
LEMMA CustomSound ==
  ASSUME NEW d, Sound(d), NEW t, NEW ok, NEW arrives
  PROVE  Sound(Custom(d, t, ok, arrives).dialogs)
<1>1. Sound([d EXCEPT !.custom = "chosen"])
  BY DEF Sound, DialogsType, CopiesAgree
<1>2. Sound(Limits(d, t, arrives).dialogs)
  BY LimitsSound
<1>3. QED
  BY <1>1, <1>2 DEF Custom, Unheard, Hears

\* The numeric bridge.
LEMMA BridgeSound ==
  ASSUME NEW d, Sound(d), NEW t, NEW ok, NEW arrives
  PROVE  Sound(Bridge(d, t, ok, arrives).dialogs)
<1> DEFINE manual == "amount" \in {d.manual, d.memory}
           r1 == IF manual THEN ManualAmount(d, t) ELSE Unheard(d)
           l1 == Limits(r1.dialogs, t, arrives)
           r2 == Then(r1, l1)
           l2 == Limits(r2.dialogs, t, arrives)
           r3 == Then(r2, l2)
           c  == Custom(r3.dialogs, t, ok, arrives)
<1>1. Sound(r1.dialogs)
  BY ManualSound DEF Unheard
<1>2. r2.dialogs = l1.dialogs /\ r3.dialogs = l2.dialogs /\ Then(r3, c).dialogs = c.dialogs
  BY DEF Then
<1>3. Bridge(d, t, ok, arrives) \in {r1, r3, Then(r3, c)}
  BY DEF Bridge
<1> HIDE DEF r1
<1>4. Sound(l1.dialogs)
  BY <1>1, LimitsSound
<1>5. Sound(r2.dialogs)
  BY <1>2, <1>4
<1> HIDE DEF l1, r2
<1>6. Sound(l2.dialogs)
  BY <1>5, LimitsSound
<1>7. Sound(r3.dialogs)
  BY <1>2, <1>6
<1> HIDE DEF l2, r3
<1>8. Sound(c.dialogs)
  BY <1>7, CustomSound
<1> HIDE DEF c
<1>9. QED
  BY <1>1, <1>2, <1>3, <1>7, <1>8

\* The dialogs about plans.
LEMMA PlansSound ==
  ASSUME NEW d, Sound(d), NEW t
  PROVE  /\ Sound(PlanPrice(d, t).dialogs) /\ Sound(PlanField(d, t).dialogs)
         /\ d.step # Nothing => Sound(PlanCreate(d, t).dialogs)
<1> USE DEF Sound, DialogsType, CopiesAgree, Unheard, Hears
<1>1. Sound(PlanPrice(d, t).dialogs) /\ Sound(PlanField(d, t).dialogs)
  BY DEF PlanPrice, PlanField
<1>2. ASSUME d.step # Nothing
      PROVE  Sound(PlanCreate(d, t).dialogs)
  <2> DEFINE i == CHOOSE n \in DOMAIN CreateSteps : CreateSteps[n] = d.step
             next == IF i = Len(CreateSteps) THEN Nothing ELSE CreateSteps[i + 1]
  <2>1. Len(CreateSteps) = 4 /\ DOMAIN CreateSteps = 1..4
    BY DEF CreateSteps
  <2>2. \E n \in DOMAIN CreateSteps : CreateSteps[n] = d.step
    BY <1>2, <2>1, QuestionRanges DEF CreateSteps
  <2>3. i \in 1..4
    BY <2>1, <2>2
  <2>4. next \in Range(CreateSteps) \cup {Nothing}
    <3> HIDE DEF i
    <3>1. CreateSteps[2] = "gb" /\ CreateSteps[3] = "days" /\ CreateSteps[4] = "price"
      BY DEF CreateSteps
    <3>2. QED
      BY <2>1, <2>3, <3>1, QuestionRanges
  <2>5. PlanCreate(d, t).dialogs \in {d, [d EXCEPT !.step = next]}
    BY DEF PlanCreate
  <2> HIDE DEF next
  <2>6. QED
    BY <2>4, <2>5
<1>3. QED
  BY <1>1, <1>2

\* The other dialogs of admins, whose questions are only taken off.
LEMMA AdminSound ==
  ASSUME NEW d, Sound(d), NEW t, NEW ok
  PROVE  /\ Sound(UserAmount(d, t, ok).dialogs) /\ Sound(Search(d).dialogs)
         /\ Sound(GrantName(d, t).dialogs) /\ Sound(TrialSetting(d, t).dialogs)
<1>1. \A q : Sound([d EXCEPT !.open = @ \ {q}])
  BY DEF Sound, DialogsType, CopiesAgree
<1> HIDE DEF Sound
<1>2. QED
  BY <1>1 DEF UserAmount, Search, GrantName, TrialSetting, Unheard, Hears

\* So whichever handler has the text.
LEMMA HandledSound ==
  ASSUME NEW d, Sound(d), NEW t, NEW ok, NEW arrives
  PROVE  Sound(Handled(d, t, ok, arrives).dialogs)
<1> DEFINE h == HandlerOf(d, t)
<1>1. /\ h \in {"ref", "numeric", "digits", "price", "create", "field", "users", "amounts",
                "search", "grant", "trial"}
      /\ h = "create" => d.step # Nothing
  BY Dispatch DEF Matches
<1>2. CASE h \in {"ref", "users"}
  BY <1>2, ManualSound, ClosedSound DEF Handled, Unheard
<1>3. CASE h \in {"numeric", "digits"}
  BY <1>3, BridgeSound DEF Handled
<1>4. CASE h \in {"price", "create", "field"}
  BY <1>1, <1>4, PlansSound DEF Handled
<1>5. CASE h \in {"amounts", "search", "grant", "trial"}
  BY <1>5, AdminSound DEF Handled
<1>6. QED
  BY <1>1, <1>2, <1>3, <1>4, <1>5

\* The initial state satisfies the invariant.
LEMMA RoutingInitIInv == RoutingInit => RoutingIInv
  BY DEF RoutingInit, RoutingIInv, Sound, DialogsType, CopiesAgree, Stages

\* A question that is asked.
LEMMA AskKeeps ==
  ASSUME NEW q \in Questions, NEW d, Sound(d), Ask(q, d)
  PROVE  RoutingIInv'
  BY DEF Ask, RoutingIInv, Sound, DialogsType, CopiesAgree

\* A button that asks nothing.
LEMMA ButtonKeeps ==
  ASSUME RoutingIInv, NEW d, Sound(d), Button(d)
  PROVE  RoutingIInv'
  BY DEF Button, RoutingIInv, Sound, DialogsType, CopiesAgree

\* Every text, question and button keeps the invariant.
LEMMA RoutingNextIInv == RoutingIInv /\ [RoutingNext]_routingVars => RoutingIInv'
<1> SUFFICES ASSUME RoutingIInv, [RoutingNext]_routingVars PROVE RoutingIInv'
  OBVIOUS
<1>1. Sound(dialogs) /\ asked \in Questions \cup {Nothing}
  BY DEF RoutingIInv
<1>2. ASSUME NEW t \in Texts, Text(t) PROVE RoutingIInv'
  <2>1. PICK ok, arrives \in BOOLEAN :
          /\ dialogs' = Handled(dialogs, t, ok, arrives).dialogs
          /\ asked' = IF asked \in Handled(dialogs, t, ok, arrives).heard THEN Nothing ELSE asked
    BY <1>2 DEF Text
  <2>2. Sound(dialogs')
    BY <1>1, <2>1, HandledSound
  <2>3. QED
    BY <1>1, <2>1, <2>2 DEF RoutingIInv, Sound, DialogsType, CopiesAgree
<1>3. CASE AskManual \/ AskUnit \/ AskCustom \/ AskPlan
  <2> USE DEF Sound, DialogsType, CopiesAgree, Stages
  <2>1. ClosePlans(dialogs) \in DialogsType
    BY <1>1, ClosedSound
  <2>2. "manual" \in Questions /\ "custom" \in Questions /\ "create" \in Questions
        /\ "field" \in Questions
    BY DEF Questions
  <2>3. CASE AskManual
    <3> DEFINE d == [ClosePlans(dialogs) EXCEPT !.open = @ \ {"user", "service", "search"},
                                                !.manual = "ref", !.memory = "ref"]
    <3>1. Sound(d)
      BY <2>1
    <3>2. Ask("manual", d)
      BY <2>3 DEF AskManual
    <3> HIDE DEF d
    <3>3. QED
      BY <2>2, <3>1, <3>2, AskKeeps
  <2>4. CASE AskUnit
    <3> DEFINE d == [dialogs EXCEPT !.manual = "amount", !.memory = "amount"]
    <3>1. Sound(d)
      BY <1>1
    <3>2. Ask("manual", d)
      BY <2>4 DEF AskUnit
    <3> HIDE DEF d
    <3>3. QED
      BY <2>2, <3>1, <3>2, AskKeeps
  <2>5. CASE AskCustom
    <3> DEFINE d == [dialogs EXCEPT !.manual = "none", !.custom = "asked"]
    <3>1. Sound(d)
      BY <1>1
    <3>2. Ask("custom", d)
      BY <2>5 DEF AskCustom
    <3> HIDE DEF d
    <3>3. QED
      BY <2>2, <3>1, <3>2, AskKeeps
  <2>6. CASE AskPlan
    <3> DEFINE c == [dialogs EXCEPT !.step = "title"]
               d(f) == [dialogs EXCEPT !.field = f]
    <3>1. Sound(c) /\ \A f \in {"title", "number"} : Sound(d(f))
      BY <1>1, QuestionRanges
    <3>2. Ask("create", c) \/ \E f \in {"title", "number"} : Ask("field", d(f))
      BY <2>6 DEF AskPlan
    <3> HIDE DEF c, d
    <3>3. QED
      BY <2>2, <3>1, <3>2, AskKeeps
  <2>7. QED
    BY <1>3, <2>3, <2>4, <2>5, <2>6
<1>4. ASSUME NEW q \in Flags, AskLimit(q) \/ AskUsers(q) \/ AskFlag(q)
      PROVE  RoutingIInv'
  <2> DEFINE c == [ClosePlans(dialogs) EXCEPT !.open = @ \cup {q}]
             u == [dialogs EXCEPT !.open = (@ \ {"search"}) \cup {q}]
             s == [dialogs EXCEPT !.open = (@ \ {"user"}) \cup {q}]
             f == [dialogs EXCEPT !.open = @ \cup {q}]
  <2>1. q \in Questions
    BY DEF Questions
  <2>2. Sound(ClosePlans(dialogs))
    BY <1>1, ClosedSound
  <2>3. Sound(c) /\ Sound(u) /\ Sound(s) /\ Sound(f)
    BY <1>1, <2>2 DEF Sound, DialogsType, CopiesAgree
  <2>4. Ask(q, c) \/ Ask(q, u) \/ Ask(q, s) \/ Ask(q, f)
    BY <1>4 DEF AskLimit, AskUsers, AskFlag
  <2> HIDE DEF c, u, s, f
  <2>5. QED
    BY <2>1, <2>3, <2>4, AskKeeps
<1>5. CASE Cancel \/ WalletMenu \/ SettingsMenu \/ UsersMenuButton \/ ViewUser
           \/ ChooseAmount \/ Receipt \/ Restart \/ \E q \in Flags : Drop(q)
  <2>1. PICK d : Sound(d) /\ Button(d)
    <3> USE <1>1 DEF Sound, DialogsType, CopiesAgree, Stages
    <3>1. CASE Cancel
      BY <3>1 DEF Cancel
    <3>2. CASE WalletMenu
      BY <3>2 DEF WalletMenu
    <3>3. CASE SettingsMenu \/ UsersMenuButton
      BY <3>3, ClosedSound DEF SettingsMenu, UsersMenuButton
    <3>4. CASE ViewUser
      BY <3>4 DEF ViewUser
    <3>5. CASE ChooseAmount \/ Receipt
      BY <3>5 DEF ChooseAmount, Receipt
    <3>6. CASE Restart
      BY <3>6 DEF Restart
    <3>7. ASSUME NEW q \in Flags, Drop(q) PROVE \E d : Sound(d) /\ Button(d)
      BY <3>7 DEF Drop
    <3>8. QED
      BY <1>5, <3>1, <3>2, <3>3, <3>4, <3>5, <3>6, <3>7
  <2>2. QED
    BY <2>1, ButtonKeeps
<1>6. CASE UNCHANGED routingVars
  BY <1>6 DEF routingVars, RoutingIInv, Sound, DialogsType, CopiesAgree
<1>7. QED
  BY <1>2, <1>3, <1>4, <1>5, <1>6 DEF RoutingNext

\* A text that the bridge gets is not taken for the amount of a credit that
\* waits for its user or unit, whatever the memory still holds.
LEMMA CreditWaits == RoutingIInv => KeepsWaiting
<1> SUFFICES ASSUME RoutingIInv, dialogs.manual \in {"ref", "unit"},
                    dialogs.open \cap {"min", "max"} = {},
                    NEW t \in Texts, NEW ok \in BOOLEAN, NEW arrives \in BOOLEAN
             PROVE  Handled(dialogs, t, ok, arrives).dialogs.manual # "none"
  BY DEF KeepsWaiting
<1> DEFINE d == dialogs
           h == HandlerOf(d, t)
<1>1. d \in DialogsType /\ d.memory \in {"none", d.manual} /\ d.manual # "none"
  BY DEF RoutingIInv, Sound, CopiesAgree
<1>2. h \in {"ref", "numeric", "digits", "price", "create", "field", "users", "amounts",
             "search", "grant", "trial"}
  BY Dispatch
<1> USE DEF DialogsType, Unheard, Hears
<1>3. CASE h = "ref"
  BY <1>1, <1>3 DEF Handled, ManualRef
<1>4. CASE h \in {"numeric", "digits"}
  <2>1. "amount" \notin {d.manual, d.memory}
    BY <1>1
  <2>2. Limits(d, t, arrives) = Unheard(d)
    BY DEF Limits
  <2>3. Custom(d, t, ok, arrives).dialogs \in {d, [d EXCEPT !.custom = "chosen"]}
    BY <2>2 DEF Custom
  <2>4. Bridge(d, t, ok, arrives).dialogs \in {d, [d EXCEPT !.custom = "chosen"]}
    <3>1. Then(Unheard(d), Limits(d, t, arrives)) = Unheard(d)
      BY <2>2 DEF Then
    <3>2. Bridge(d, t, ok, arrives).dialogs \in {d, Custom(d, t, ok, arrives).dialogs}
      BY <2>1, <2>2, <3>1 DEF Bridge, Then
    <3>3. QED
      BY <2>3, <3>2
  <2>5. QED
    BY <1>1, <1>4, <2>4 DEF Handled
<1>5. CASE h \in {"price", "create", "field"}
  BY <1>1, <1>5 DEF Handled, PlanPrice, PlanCreate, PlanField
<1>6. CASE h = "users"
  BY <1>1, <1>6 DEF Handled, UsersMenu
<1>7. CASE h \in {"amounts", "search", "grant", "trial"}
  <2>1. \A q : [d EXCEPT !.open = @ \ {q}].manual = d.manual
    BY <1>1
  <2>2. QED
    BY <1>1, <1>7, <2>1 DEF Handled, UserAmount, Search, GrantName, TrialSetting
<1>8. QED
  BY <1>2, <1>3, <1>4, <1>5, <1>6, <1>7

\* The invariant holds in every reachable state.
THEOREM RoutingInvariant == RoutingSpec => []RoutingIInv
<1>1. QED
  BY RoutingInitIInv, RoutingNextIInv, PTL DEF RoutingSpec

\* Whatever is typed or pressed, and in whatever order, each dialog of a person
\* is at one of its stages, in the store and in memory.
THEOREM RoutingTypeCorrect == RoutingSpec => []RoutingTypeOK
<1>1. RoutingIInv => RoutingTypeOK
  BY DEF RoutingIInv, Sound, DialogsType, RoutingTypeOK
<1>2. QED
  BY <1>1, RoutingInvariant, PTL

\* No text is the answer to two questions, except for what the numeric bridge
\* does with the limits and after a reply that failed (start.py:251-345).
THEOREM TextsCountOnce == RoutingSpec => []TextCountsOnce
<1>1. QED
  BY CountsOnce, PTL

\* Neither a restart, by which the dictionary of wallet.py loses what the store
\* still has, nor a text loses the place of a manual credit.  A text that gets to
\* the bridge of start.py as a number, one of less than three digits or with
\* commas, is heard by the credit that waits for its amount; and no text closes
\* one that waits for its user or its unit, save that which sets a limit of
\* top-ups.
THEOREM CreditKept == RoutingSpec => []CreditSurvives
<1>1. RoutingIInv => CreditSurvives
  BY CreditHeard, CreditWaits DEF CreditSurvives
<1>2. QED
  BY <1>1, RoutingInvariant, PTL
=============================================================================
