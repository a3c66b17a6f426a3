------------------------------ MODULE Notices ------------------------------
(***************************************************************************)
(* The two jobs of the worker that write to users about their service: one *)
(* when the usage reported by the panel has passed a threshold, one when   *)
(* the day of expiry comes near.  Each run loads the active users, asks    *)
(* the panel about one after the other, stores in the user's row what it   *)
(* is going to say, says it, and commits after the last user.  What a run  *)
(* that does not get to its COMMIT has said is forgotten, not unsaid.      *)
(*                                                                         *)
(* Usage is the number of thresholds it has reached; 0 days left is the    *)
(* day of expiry.                                                          *)
(***************************************************************************)
EXTENDS Integers

CONSTANTS
  Users,
  Jobs,         \* "usage", "expiry" or both
  Thresholds,   \* how many NOTIFY_USAGE_THRESHOLDS there are
  NoticeDays,   \* NOTIFY_EXPIRY_DAYS
  Term,         \* days a renewed service lasts
  MaxRenewals,  \* bound: resets, added volumes and extensions
  MaxLosses     \* bound: runs that do not get to their COMMIT

ASSUME NoticesAssumption ==
  /\ Jobs \subseteq {"usage", "expiry"}
  /\ Thresholds \in Nat /\ Term \in Nat /\ NoticeDays \subseteq 0..Term
  /\ MaxRenewals \in Nat /\ MaxLosses \in Nat

VARIABLES
  level,     \* panel: thresholds the usage of each user has reached
  left,      \* panel: days until the service of each user expires
  mark,      \* last_notified_usage_threshold, last_notified_expiry_day
  run,       \* the run of each job
  renewals, losses,
  said,      \* history: how often each job has said each thing to each user
  lost       \* history: users told something that a lost run has forgotten

vars == <<level, left, mark, run, renewals, losses, said, lost>>

Never  == -1

\* How long ago the service of a user may have expired: Day says.
Oldest == 0 - (MaxRenewals + 1) * (Term + 1)
Sayings(j) == IF j = "usage" THEN 1..Thresholds ELSE 0..Term
Marks(j)   == Sayings(j) \cup {Never}

\* `mine': the rows as the session has them; `next': the user about to be
\* told; `told': users told so far; `today': days since the run started, by
\* whose clock job_notify_expiry counts.
Off(j) == [on |-> FALSE, todo |-> {}, mine |-> [u \in Users |-> Never],
           next |-> {}, told |-> {}, today |-> 0]

TypeOK ==
  /\ level \in [Users -> 0..Thresholds] /\ left \in [Users -> Oldest..Term]
  /\ \A j \in Jobs :
       /\ mark[j] \in [Users -> Marks(j)]
       /\ run[j] \in [on: BOOLEAN, todo: SUBSET Users, mine: [Users -> Marks(j)],
                      next: SUBSET Users, told: SUBSET Users, today: 0..(Term + 1)]
       /\ said[j] \in [Users -> [Sayings(j) -> 0..2]]
  /\ renewals \in 0..MaxRenewals /\ losses \in 0..MaxLosses
  /\ lost \in [Jobs -> SUBSET Users]

Init ==
  /\ level = [u \in Users |-> 0] /\ left = [u \in Users |-> Term]
  /\ mark = [j \in Jobs |-> [u \in Users |-> Never]]
  /\ run = [j \in Jobs |-> Off(j)]
  /\ renewals = 0 /\ losses = 0
  /\ said = [j \in Jobs |-> [u \in Users |-> [m \in Sayings(j) |-> 0]]]
  /\ lost = [j \in Jobs |-> {}]

-----------------------------------------------------------------------------
(* The panel *)

Use(u) ==
  /\ "usage" \in Jobs /\ level[u] < Thresholds
  /\ level' = [level EXCEPT ![u] = @ + 1]
  /\ UNCHANGED <<left, mark, run, renewals, losses, said, lost>>

\* The usage is reset or volume is added.
Refill(u) ==
  /\ renewals < MaxRenewals /\ renewals' = renewals + 1
  /\ \E l \in 0..(level[u] - 1) : level' = [level EXCEPT ![u] = l]
  /\ UNCHANGED <<left, mark, run, losses, said, lost>>

\* The expiry is extended: the days are counted, and announced, anew.
Extend(u) ==
  /\ "expiry" \in Jobs /\ renewals < MaxRenewals /\ renewals' = renewals + 1
  /\ left' = [left EXCEPT ![u] = Term]
  /\ said' = [said EXCEPT !["expiry"][u] = [d \in 0..Term |-> 0]]
  /\ UNCHANGED <<level, mark, run, losses, lost>>

\* A day goes by for everybody, and for a run that has started, until the
\* services of all users have expired.
Day ==
  /\ "expiry" \in Jobs /\ \E u \in Users : left[u] >= 0
  /\ left' = [u \in Users |-> left[u] - 1]
  /\ run' = [run EXCEPT !["expiry"].today = IF run["expiry"].on THEN @ + 1 ELSE 0]
  /\ run'["expiry"].today <= Term + 1  \* bound: days a run may last
  /\ UNCHANGED <<level, mark, renewals, losses, said, lost>>

-----------------------------------------------------------------------------
(* job_notify_usage and job_notify_expiry *)

RunStart(j) ==
  /\ ~run[j].on
  /\ run' = [run EXCEPT ![j] = [Off(j) EXCEPT !.on = TRUE, !.todo = Users, !.mine = mark[j]]]
  /\ UNCHANGED <<level, left, mark, renewals, losses, said, lost>>

\* What the job would say now.
Saying(j, u) == IF j = "usage" THEN level[u] ELSE left[u] + run[j].today

\* The highest threshold reached, if none that high has been announced.
AnyThreshold(u) == level[u] > 0
OnlyThatThreshold(u) == level[u] = 1 /\ run["usage"].mine[u] < 1
NewThreshold(u) == level[u] > 0 /\ level[u] > run["usage"].mine[u]

\* `last_notified_expiry_day or -999': day 0 counts as nothing announced.
LastDay(m) == IF m = 0 THEN Never ELSE m
AnyDay(u) == Saying("expiry", u) \in NoticeDays
NewDay(u) ==
  LET d == Saying("expiry", u)
  IN  d \in NoticeDays /\ d # LastDay(run["expiry"].mine[u])

Due(j, u) == IF j = "usage" THEN NewThreshold(u) ELSE NewDay(u)

Asks(j, u) == run[j].on /\ run[j].next = {} /\ u \in run[j].todo

\* The panel answers; if something is due the row is flushed.
Answer(j, u) ==
  /\ Asks(j, u)
  /\ run' = [run EXCEPT
               ![j] = IF Due(j, u)
                      THEN [@ EXCEPT !.mine[u] = Saying(j, u), !.next = {u}]
                      ELSE [@ EXCEPT !.todo = run[j].todo \ {u}]]
  /\ UNCHANGED <<level, left, mark, renewals, losses, said, lost>>

\* The panel does not, or has no such user: on to the next one.
Skip(j, u) ==
  /\ Asks(j, u)
  /\ run' = [run EXCEPT ![j].todo = @ \ {u}]
  /\ UNCHANGED <<level, left, mark, renewals, losses, said, lost>>

\* The expiry has been extended since the panel was asked: what is said is
\* about the days before, and counts for neither time.
Outdated(j, u) == j = "expiry" /\ run[j].mine[u] # Saying(j, u)

\* notify_user, which swallows its errors.
Say(j, u) ==
  LET m == run[j].mine[u]
  IN  /\ u \in run[j].next
      /\ run' = [run EXCEPT ![j].next = {}, ![j].todo = @ \ {u}, ![j].told = @ \cup {u}]
      /\ said' = IF Outdated(j, u) THEN said
                 ELSE [said EXCEPT ![j][u][m] = IF @ = 2 THEN 2 ELSE @ + 1]
      /\ UNCHANGED <<level, left, mark, renewals, losses, lost>>

SentinelsAfter(j) ==
  mark' = [mark EXCEPT ![j] = [u \in Users |-> IF run[j].mine[u] = Never
                                               THEN -999 ELSE run[j].mine[u]]]
MarksAfter(j) == mark' = [mark EXCEPT ![j] = run[j].mine]

Commit(j) ==
  /\ run[j].on /\ run[j].todo = {}
  /\ MarksAfter(j)
  /\ run' = [run EXCEPT ![j] = Off(j)]
  /\ UNCHANGED <<level, left, renewals, losses, said, lost>>

\* A statement or the COMMIT fails, or the worker is restarted.
Lose(j) ==
  /\ run[j].on /\ losses < MaxLosses /\ losses' = losses + 1
  /\ lost' = [lost EXCEPT ![j] = @ \cup run[j].told]
  /\ run' = [run EXCEPT ![j] = Off(j)]
  /\ UNCHANGED <<level, left, mark, renewals, said>>

Next ==
  \/ \E u \in Users : Use(u) \/ Refill(u) \/ Extend(u)
  \/ Day
  \/ \E j \in Jobs : RunStart(j) \/ Commit(j) \/ Lose(j)
  \/ \E j \in Jobs, u \in Users : Answer(j, u) \/ Skip(j, u) \/ Say(j, u)

Spec == Init /\ [][Next]_vars

\* The scheduler runs its jobs for ever, and about no user does the panel
\* fail to answer every time.
FairSpec ==
  /\ Spec
  /\ \A j \in Jobs : WF_vars(RunStart(j)) /\ WF_vars(Commit(j))
  /\ \A j \in Jobs, u \in Users : SF_vars(Answer(j, u)) /\ WF_vars(Say(j, u))

-----------------------------------------------------------------------------
(* Properties *)

\* No threshold is announced twice to a user, across runs and errors of the
\* panel, unless a run was lost after it had told that user.
OncePerThreshold ==
  "usage" \in Jobs =>
    \A u \in Users \ lost["usage"], t \in 1..Thresholds : said["usage"][u][t] <= 1

\* Between two extensions no number of days left is announced twice either,
\* whatever midnights and extensions fall into a run, except the last day.
OncePerDay ==
  "expiry" \in Jobs =>
    \A u \in Users \ lost["expiry"], d \in 1..Term : said["expiry"][u][d] <= 1

\* A user whose usage stays above a threshold is told of it or of a higher
\* one in the end, although runs skip users and runs are lost.
ThresholdReached(u, t) ==
  (level[u] >= t) ~> (level[u] < t \/ \E s \in t..Thresholds : said["usage"][u][s] > 0)
UsageAnnounced ==
  "usage" \in Jobs => \A u \in Users, t \in 1..Thresholds : ThresholdReached(u, t)
=============================================================================
