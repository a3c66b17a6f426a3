--------------------------- MODULE NoticesProofs ---------------------------
(***************************************************************************)
(* Proofs about Notices: the jobs of the worker do not tell a user the     *)
(* same thing twice, for any users, thresholds, days, renewals and lost    *)
(* runs.                                                                   *)
(***************************************************************************)
EXTENDS Notices, TLAPS

(***************************************************************************)
(* The inductive invariant.  What has been said to a user bounds the marks *)
(* of that user: the committed one unless the run under way has told the   *)
(* user, and the one in the session of the run - so that the next saying   *)
(* is a new one.  The bound is one of numbers: thresholds announced only   *)
(* grow, days only fall.                                                   *)
(***************************************************************************)

\* A run that is not under way has told nobody and has nothing to tell.
RunsOK ==
  \A j \in Jobs :
    /\ ~run[j].on => run[j].told = {} /\ run[j].next = {} /\ run[j].today = 0
    /\ \A u \in run[j].next : run[j].mine[u] \in Sayings(j)

\* A mark that goes with the user having been told d.
Days(u) == left[u] + run["expiry"].today
Covers(j, u, m, d) == IF j = "usage" THEN d <= m ELSE Days(u) <= m /\ m <= d

\* Day 0 may be said more than once.
Counts(j, d) == j = "usage" \/ d # 0

SaidOK(j, u) ==
  u \notin lost[j] =>
    \A d \in Sayings(j) : said[j][u][d] > 0 =>
      /\ Counts(j, d) => said[j][u][d] = 1
      /\ u \notin run[j].told => Covers(j, u, mark[j][u], d)
      /\ run[j].on => Covers(j, u, run[j].mine[u], d)
      /\ u \in run[j].next /\ Counts(j, d) => d # run[j].mine[u]
MarksOK == \A j \in Jobs, u \in Users : SaidOK(j, u)

\* Days go by only while somebody's service has not expired, and an extension
\* adds Term + 1 of them at most.
DaysOK ==
  \A u \in Users : /\ \E v \in Users : left[v] >= -1
                   /\ \A v \in Users : left[u] > left[v] - (renewals + 1) * (Term + 1)

\* The variables that are functions on the jobs.
JobsOK ==
  /\ mark = [j \in Jobs |-> mark[j]] /\ run = [j \in Jobs |-> run[j]]
  /\ said = [j \in Jobs |-> said[j]]

IInv == TypeOK /\ JobsOK /\ RunsOK /\ MarksOK /\ DaysOK

-----------------------------------------------------------------------------
(* What a step does to the run of a job *)

RunType(j) == [on: BOOLEAN, todo: SUBSET Users, mine: [Users -> Marks(j)],
               next: SUBSET Users, told: SUBSET Users, today: 0..(Term + 1)]

\* Only the run of job j changes.
RunOnly(j) ==
  /\ run' = [i \in Jobs |-> run'[i]]
  /\ run'[j] \in RunType(j)
  /\ \A i \in Jobs \ {j} : run'[i] = run[i]

\* What a run has in its session and whom it has told stays.
Same(j) ==
  /\ run'[j].on = run[j].on /\ run'[j].mine = run[j].mine
  /\ run'[j].told = run[j].told /\ run'[j].today = run[j].today

\* A run of the right type takes the place of another.
LEMMA RunReplaced ==
  ASSUME JobsOK, NEW j \in Jobs, NEW r \in RunType(j), run' = [run EXCEPT ![j] = r]
  PROVE  RunOnly(j) /\ run'[j] = r
  BY DEF JobsOK, RunOnly

\* A run that is not under way.
LEMMA OffType ==
  ASSUME NEW j \in Jobs
  PROVE  /\ Off(j) \in RunType(j) /\ Off(j).today = 0
         /\ Off(j).on = FALSE /\ Off(j).told = {} /\ Off(j).next = {}
  BY NoticesAssumption DEF Off, RunType, Marks

\* A run begins with the marks that are committed.
LEMMA StartEffect ==
  ASSUME IInv, NEW j \in Jobs, RunStart(j)
  PROVE  /\ RunOnly(j)
         /\ run'[j].mine = mark[j] /\ run'[j].today = 0
         /\ run'[j].told = {} /\ run'[j].next = {}
<1> DEFINE r == [Off(j) EXCEPT !.on = TRUE, !.todo = Users, !.mine = mark[j]]
<1>1. mark[j] \in [Users -> Marks(j)]
  BY DEF IInv, TypeOK
<1>2. /\ r \in RunType(j) /\ r.mine = mark[j] /\ r.today = 0 /\ r.told = {} /\ r.next = {}
  BY <1>1, OffType DEF RunType
<1>3. run' = [run EXCEPT ![j] = r]
  BY DEF RunStart
<1> HIDE DEF r
<1>4. QED
  BY <1>2, <1>3, RunReplaced DEF IInv

\* A run that ends, either way.
LEMMA EndEffect ==
  ASSUME IInv, NEW j \in Jobs, run' = [run EXCEPT ![j] = Off(j)]
  PROVE  /\ RunOnly(j)
         /\ run'[j].on = FALSE /\ run'[j].today = 0 /\ run'[j].told = {} /\ run'[j].next = {}
  BY OffType, RunReplaced DEF IInv

\* A user of whom nothing is to be said.
LEMMA PassEffect ==
  ASSUME IInv, NEW j \in Jobs, NEW u \in Users,
         run' = [run EXCEPT ![j] = [run[j] EXCEPT !.todo = @ \ {u}]]
  PROVE  RunOnly(j) /\ Same(j) /\ run'[j].next = run[j].next
<1> DEFINE r == [run[j] EXCEPT !.todo = @ \ {u}]
<1>1. run[j] \in RunType(j)
  BY DEF IInv, TypeOK, RunType
<1>2. /\ r \in RunType(j) /\ r.mine = run[j].mine /\ r.today = run[j].today
      /\ r.told = run[j].told /\ r.next = run[j].next /\ r.on = run[j].on
  BY <1>1 DEF RunType
<1>3. run' = [run EXCEPT ![j] = r]
  OBVIOUS
<1> HIDE DEF r
<1>4. QED
  BY <1>2, <1>3, RunReplaced DEF IInv, Same

\* An answer that is news: the row is flushed, the user is next.
LEMMA NewsEffect ==
  ASSUME IInv, NEW j \in Jobs, NEW u \in Users, Saying(j, u) \in Sayings(j),
         run' = [run EXCEPT ![j] = [run[j] EXCEPT !.mine[u] = Saying(j, u), !.next = {u}]]
  PROVE  /\ RunOnly(j)
         /\ run'[j].on = run[j].on /\ run'[j].told = run[j].told
         /\ run'[j].today = run[j].today /\ run'[j].next = {u}
         /\ run'[j].mine[u] = Saying(j, u)
         /\ \A v \in Users \ {u} : run'[j].mine[v] = run[j].mine[v]
<1> DEFINE s == Saying(j, u)
           mine == [run[j].mine EXCEPT ![u] = s]
           r == [run[j] EXCEPT !.mine = mine, !.next = {u}]
<1>1. run[j] \in RunType(j) /\ s \in Marks(j)
  BY DEF IInv, TypeOK, RunType, Marks
<1>2. run' = [run EXCEPT ![j] = r]
  OBVIOUS
<1> HIDE DEF s
<1>3. /\ mine \in [Users -> Marks(j)] /\ mine[u] = s
      /\ \A v \in Users \ {u} : mine[v] = run[j].mine[v]
  BY <1>1 DEF RunType
<1> HIDE DEF mine
<1>4. /\ r \in RunType(j) /\ r.mine = mine /\ r.today = run[j].today
      /\ r.told = run[j].told /\ r.next = {u} /\ r.on = run[j].on
  BY <1>1, <1>3 DEF RunType
<1> HIDE DEF r
<1>5. run'[j] = r /\ RunOnly(j)
  BY <1>2, <1>4, RunReplaced DEF IInv
<1>6. QED
  BY <1>3, <1>4, <1>5 DEF s

\* An answer: the user is next, with something to be said, or done with.
LEMMA AnswerEffect ==
  ASSUME IInv, NEW j \in Jobs, NEW u \in Users, Answer(j, u)
  PROVE  /\ RunOnly(j)
         /\ run'[j].on = run[j].on /\ run'[j].told = run[j].told
         /\ run'[j].today = run[j].today
         /\ \/ run'[j].mine = run[j].mine /\ run'[j].next = run[j].next
            \/ /\ Due(j, u) /\ Saying(j, u) \in Sayings(j) /\ run'[j].next = {u}
               /\ run'[j].mine[u] = Saying(j, u)
               /\ \A v \in Users \ {u} : run'[j].mine[v] = run[j].mine[v]
<1>1. CASE Due(j, u)
  <2>1. Saying(j, u) \in Sayings(j)
    <3>1. CASE j = "usage"
      BY <1>1, <3>1, NoticesAssumption
         DEF Due, NewThreshold, Saying, Sayings, IInv, TypeOK
    <3>2. CASE j # "usage"
      BY <1>1, <3>2, NoticesAssumption DEF Due, NewDay, Saying, Sayings
    <3>3. QED
      BY <3>1, <3>2
  <2>2. run' = [run EXCEPT ![j] = [run[j] EXCEPT !.mine[u] = Saying(j, u), !.next = {u}]]
    BY <1>1 DEF Answer
  <2>3. QED
    BY <1>1, <2>1, <2>2, NewsEffect
<1>2. CASE ~Due(j, u)
  <2>1. run' = [run EXCEPT ![j] = [run[j] EXCEPT !.todo = @ \ {u}]]
    BY <1>2 DEF Answer
  <2>2. QED
    BY <2>1, PassEffect DEF Same
<1>3. QED
  BY <1>1, <1>2

\* A user is told.
LEMMA SayEffect ==
  ASSUME IInv, NEW j \in Jobs, NEW u \in Users, Say(j, u)
  PROVE  /\ RunOnly(j)
         /\ run'[j].on = run[j].on /\ run'[j].mine = run[j].mine
         /\ run'[j].today = run[j].today
         /\ run'[j].told = run[j].told \cup {u} /\ run'[j].next = {}
<1> DEFINE r == [run[j] EXCEPT !.next = {}, !.todo = @ \ {u}, !.told = @ \cup {u}]
<1>1. run[j] \in RunType(j)
  BY DEF IInv, TypeOK, RunType
<1>2. /\ r \in RunType(j) /\ r.mine = run[j].mine /\ r.today = run[j].today
      /\ r.told = run[j].told \cup {u} /\ r.next = {} /\ r.on = run[j].on
  BY <1>1 DEF RunType
<1>3. run' = [run EXCEPT ![j] = r]
  BY <1>1 DEF Say
<1> HIDE DEF r
<1>4. QED
  BY <1>2, <1>3, RunReplaced DEF IInv

\* A day goes by for a run that is under way.
LEMMA DayEffect ==
  ASSUME IInv, Day
  PROVE  /\ "expiry" \in Jobs /\ RunOnly("expiry")
         /\ run'["expiry"].on = run["expiry"].on /\ run'["expiry"].mine = run["expiry"].mine
         /\ run'["expiry"].told = run["expiry"].told /\ run'["expiry"].next = run["expiry"].next
         /\ run'["expiry"].today = IF run["expiry"].on THEN run["expiry"].today + 1 ELSE 0
<1> DEFINE t == IF run["expiry"].on THEN run["expiry"].today + 1 ELSE 0
           r == [run["expiry"] EXCEPT !.today = t]
<1>1. "expiry" \in Jobs /\ run["expiry"] \in RunType("expiry")
  BY DEF IInv, TypeOK, RunType, Day
<1>2. run' = [run EXCEPT !["expiry"] = r] /\ r.today = t
  BY <1>1 DEF Day, RunType
<1>3. t \in 0..(Term + 1)
  BY <1>1, <1>2, NoticesAssumption DEF Day, RunType, IInv, JobsOK
<1> HIDE DEF t
<1>4. /\ r \in RunType("expiry") /\ r.mine = run["expiry"].mine
      /\ r.told = run["expiry"].told /\ r.next = run["expiry"].next /\ r.on = run["expiry"].on
  BY <1>1, <1>3 DEF RunType
<1> HIDE DEF r
<1>5. RunOnly("expiry") /\ run'["expiry"] = r
  BY <1>1, <1>2, <1>4, RunReplaced DEF IInv
<1>6. QED
  BY <1>1, <1>2, <1>4, <1>5 DEF t

-----------------------------------------------------------------------------
(* What it does to the record of what has been said *)

SaidType(j) == [Users -> [Sayings(j) -> 0..2]]

\* Only what job j has said to user u changes.
SaidOnly(j, u) ==
  /\ said' = [i \in Jobs |-> said'[i]]
  /\ said'[j] \in SaidType(j)
  /\ \A i \in Jobs \ {j} : said'[i] = said[i]
  /\ \A v \in Users \ {u} : said'[j][v] = said[j][v]

\* The record of one user is replaced.
LEMMA SaidReplaced ==
  ASSUME TypeOK, JobsOK, NEW j \in Jobs, NEW u \in Users, NEW h \in [Sayings(j) -> 0..2],
         said' = [said EXCEPT ![j] = [said[j] EXCEPT ![u] = h]]
  PROVE  SaidOnly(j, u) /\ said'[j][u] = h
<1>1. said[j] \in SaidType(j)
  BY DEF TypeOK, SaidType
<1> DEFINE f == [said[j] EXCEPT ![u] = h]
<1>2. f \in SaidType(j) /\ f[u] = h /\ \A v \in Users \ {u} : f[v] = said[j][v]
  BY <1>1 DEF SaidType
<1>3. said' = [said EXCEPT ![j] = f]
  OBVIOUS
<1> HIDE DEF f
<1>4. said' = [i \in Jobs |-> said'[i]] /\ said'[j] = f /\ \A i \in Jobs \ {j} : said'[i] = said[i]
  BY <1>3 DEF JobsOK
<1>5. QED
  BY <1>2, <1>4 DEF SaidOnly

\* A notice that counts is one more.
LEMMA SayCounts ==
  ASSUME IInv, NEW j \in Jobs, NEW u \in Users, Say(j, u), ~Outdated(j, u)
  PROVE  LET m == run[j].mine[u]
         IN  /\ SaidOnly(j, u) /\ m \in Sayings(j)
             /\ said'[j][u][m] = IF said[j][u][m] = 2 THEN 2 ELSE said[j][u][m] + 1
             /\ \A d \in Sayings(j) \ {m} : said'[j][u][d] = said[j][u][d]
<1> DEFINE m == run[j].mine[u]
           n == IF said[j][u][m] = 2 THEN 2 ELSE said[j][u][m] + 1
           h == [said[j][u] EXCEPT ![m] = n]
<1>1. m \in Sayings(j)
  BY DEF IInv, RunsOK, Say
<1>2. said' = [said EXCEPT ![j] = [said[j] EXCEPT ![u] = h]]
  BY DEF Say, Outdated
<1>3. said[j][u] \in [Sayings(j) -> 0..2]
  BY DEF IInv, TypeOK
<1> HIDE DEF m
<1>4. n \in 0..2
  BY <1>1, <1>3
<1> HIDE DEF n
<1>5. /\ h \in [Sayings(j) -> 0..2] /\ h[m] = n
      /\ \A d \in Sayings(j) \ {m} : h[d] = said[j][u][d]
  BY <1>1, <1>3, <1>4
<1> HIDE DEF h
<1>6. SaidOnly(j, u) /\ said'[j][u] = h
  BY <1>2, <1>5, SaidReplaced DEF IInv
<1>7. QED
  BY <1>1, <1>5, <1>6 DEF m, n

\* An extension starts the count of days anew.
LEMMA ExtendEffect ==
  ASSUME IInv, NEW u \in Users, Extend(u)
  PROVE  /\ "expiry" \in Jobs /\ SaidOnly("expiry", u)
         /\ \A d \in Sayings("expiry") : said'["expiry"][u][d] = 0
<1> DEFINE h == [d \in 0..Term |-> 0]
<1>1. "expiry" \in Jobs /\ said' = [said EXCEPT !["expiry"] = [said["expiry"] EXCEPT ![u] = h]]
  BY DEF Extend
<1>2. /\ h \in [Sayings("expiry") -> 0..2]
      /\ \A d \in Sayings("expiry") : h[d] = 0
  BY DEF Sayings
<1> HIDE DEF h
<1>3. QED
  BY <1>1, <1>2, SaidReplaced DEF IInv

-----------------------------------------------------------------------------
(* Days *)

\* How far the days left of two users may be apart.
Slack(r) == (r + 1) * (Term + 1)

\* Slack grows by Term + 1 with every renewal.
LEMMA SlackGrows ==
  ASSUME NEW r \in 0..MaxRenewals
  PROVE  /\ Slack(r) \in Nat /\ Slack(r + 1) = Slack(r) + Term + 1
         /\ Slack(r) <= Slack(MaxRenewals)
<1>1. Term \in Nat /\ MaxRenewals \in Nat
  BY NoticesAssumption
<1>2. Slack(r) \in Nat /\ Slack(r + 1) = Slack(r) + Term + 1
  BY <1>1 DEF Slack
<1>3. Slack(MaxRenewals) = Slack(r) + (MaxRenewals - r) * (Term + 1)
  BY <1>1 DEF Slack
<1>4. (MaxRenewals - r) * (Term + 1) \in Nat
  BY <1>1
<1>5. QED
  BY <1>2, <1>3, <1>4

\* Every step keeps the users' days together.
LEMMA DaysStep ==
  ASSUME IInv, [Next]_vars
  PROVE  DaysOK' /\ renewals' \in 0..MaxRenewals /\ left' \in [Users -> Int]
         /\ \A u \in Users : left'[u] <= Term
<1>1. Term \in Nat /\ MaxRenewals \in Nat /\ renewals \in 0..MaxRenewals
  BY NoticesAssumption DEF IInv, TypeOK
<1>2. Oldest \in Int /\ left \in [Users -> Oldest..Term]
  BY <1>1 DEF Oldest, IInv, TypeOK
<1>3. left \in [Users -> Int] /\ \A u \in Users : left[u] <= Term
  BY <1>1, <1>2
<1>4. \A u \in Users : /\ \E v \in Users : left[v] >= -1
                       /\ \A v \in Users : left[u] > left[v] - Slack(renewals)
  BY DEF IInv, DaysOK, Slack
<1>5. /\ Slack(renewals) \in Nat /\ Slack(renewals + 1) = Slack(renewals) + Term + 1
  BY <1>1, SlackGrows
<1> SUFFICES /\ \A u \in Users : /\ \E v \in Users : left'[v] >= -1
                                 /\ \A v \in Users : left'[u] > left'[v] - Slack(renewals')
             /\ renewals' \in 0..MaxRenewals /\ left' \in [Users -> Int]
             /\ \A u \in Users : left'[u] <= Term
  BY DEF DaysOK, Slack
<1>6. CASE left' = left /\ renewals' = renewals
  BY <1>1, <1>3, <1>4, <1>6
<1>7. CASE left' = left /\ renewals < MaxRenewals /\ renewals' = renewals + 1
  BY <1>1, <1>3, <1>4, <1>5, <1>7
<1>8. ASSUME NEW w \in Users, Extend(w)
      PROVE  /\ \A u \in Users : /\ \E v \in Users : left'[v] >= -1
                                 /\ \A v \in Users : left'[u] > left'[v] - Slack(renewals')
             /\ renewals' \in 0..MaxRenewals /\ left' \in [Users -> Int]
             /\ \A u \in Users : left'[u] <= Term
  <2>1. /\ left' = [left EXCEPT ![w] = Term] /\ renewals < MaxRenewals /\ renewals' = renewals + 1
    BY <1>8 DEF Extend
  <2>2. left'[w] = Term /\ \A u \in Users \ {w} : left'[u] = left[u]
    BY <1>3, <2>1
  <2>3. \A u \in Users : left[u] >= 0 - Slack(renewals)
    BY <1>3, <1>4, <1>5
  <2>4. /\ left' \in [Users -> Int]
        /\ \A u \in Users : left'[u] <= Term /\ left'[u] >= 0 - Slack(renewals)
    BY <1>1, <1>3, <1>5, <2>1, <2>2, <2>3
  <2>5. \A u, v \in Users : left'[u] > left'[v] - Slack(renewals')
    BY <1>1, <1>5, <2>1, <2>4
  <2>6. QED
    BY <1>1, <2>1, <2>2, <2>4, <2>5
<1>9. CASE Day
  <2>1. /\ left' = [u \in Users |-> left[u] - 1] /\ renewals' = renewals
        /\ \E v \in Users : left[v] >= 0
    BY <1>9 DEF Day
  <2>2. \A u \in Users : left'[u] = left[u] - 1
    BY <2>1
  <2>3. left' \in [Users -> Int] /\ \A u \in Users : left'[u] <= Term
    BY <1>1, <1>3, <2>1
  <2>4. \E v \in Users : left'[v] >= -1
    BY <1>3, <2>1, <2>2
  <2>5. \A u, v \in Users : left'[u] > left'[v] - Slack(renewals')
    BY <1>3, <1>4, <1>5, <2>1, <2>2
  <2>6. QED
    BY <1>1, <2>1, <2>3, <2>4, <2>5
<1>10. QED
  BY <1>6, <1>7, <1>8, <1>9
     DEF Next, vars, Use, Refill, RunStart, Commit, Lose, Answer, Skip, Say

-----------------------------------------------------------------------------
(* Types *)

\* The service of no user has expired longer ago than Oldest.
LEMMA LeftStep ==
  ASSUME IInv, [Next]_vars
  PROVE  left' \in [Users -> Oldest..Term] /\ renewals' \in 0..MaxRenewals
<1>1. /\ DaysOK' /\ renewals' \in 0..MaxRenewals /\ left' \in [Users -> Int]
      /\ \A u \in Users : left'[u] <= Term
  BY DaysStep
<1>2. /\ Slack(renewals') \in Nat /\ Slack(renewals') <= Slack(MaxRenewals)
      /\ Slack(MaxRenewals) \in Nat
  BY <1>1, SlackGrows, NoticesAssumption
<1>20. Oldest = 0 - Slack(MaxRenewals)
  BY DEF Oldest, Slack
<1>3. ASSUME NEW u \in Users PROVE left'[u] >= Oldest
  <2>1. PICK v \in Users : left'[v] >= -1
    BY <1>1 DEF DaysOK
  <2>2. left'[u] > left'[v] - Slack(renewals')
    BY <1>1 DEF DaysOK, Slack
  <2>3. QED
    BY <1>1, <1>2, <1>20, <2>1, <2>2
<1>4. QED
  BY <1>1, <1>2, <1>20, <1>3, NoticesAssumption

\* The part of the type invariant that is about a job.
JobTypes ==
  \A j \in Jobs : /\ mark[j] \in [Users -> Marks(j)]
                  /\ run[j] \in RunType(j)
                  /\ said[j] \in SaidType(j)

\* Steps that leave marks and record alone keep it.
LEMMA RunOnlyTypes ==
  ASSUME IInv, NEW j \in Jobs, RunOnly(j), UNCHANGED <<mark, said>>
  PROVE  JobTypes' /\ JobsOK'
  BY DEF IInv, TypeOK, JobsOK, RunOnly, JobTypes, RunType, SaidType

\* Every step keeps the types of what the jobs have.
LEMMA JobTypesStep ==
  ASSUME IInv, [Next]_vars
  PROVE  JobTypes' /\ JobsOK'
<1>1. ASSUME UNCHANGED <<mark, run, said>> PROVE JobTypes' /\ JobsOK'
  BY <1>1 DEF IInv, TypeOK, JobsOK, JobTypes, RunType, SaidType
<1>2. ASSUME NEW u \in Users, Extend(u) PROVE JobTypes' /\ JobsOK'
  <2>1. "expiry" \in Jobs /\ SaidOnly("expiry", u) /\ UNCHANGED <<mark, run>>
    BY <1>2, ExtendEffect DEF Extend
  <2>2. QED
    BY <2>1 DEF IInv, TypeOK, JobsOK, JobTypes, RunType, SaidType, SaidOnly
<1>3. CASE Day
  <2>1. UNCHANGED <<mark, said>>
    BY <1>3 DEF Day
  <2>2. QED
    BY <1>3, <2>1, DayEffect, RunOnlyTypes
<1>4. ASSUME NEW j \in Jobs, RunStart(j) PROVE JobTypes' /\ JobsOK'
  <2>1. UNCHANGED <<mark, said>>
    BY <1>4 DEF RunStart
  <2>2. QED
    BY <1>4, <2>1, StartEffect, RunOnlyTypes
<1>5. ASSUME NEW j \in Jobs, Commit(j) PROVE JobTypes' /\ JobsOK'
  <2>1. RunOnly(j) /\ said' = said /\ mark' = [mark EXCEPT ![j] = run[j].mine]
    BY <1>5, EndEffect DEF Commit, MarksAfter
  <2>2. run[j].mine \in [Users -> Marks(j)]
    BY DEF IInv, TypeOK
  <2>3. QED
    BY <2>1, <2>2 DEF IInv, TypeOK, JobsOK, RunOnly, JobTypes, RunType, SaidType
<1>6. ASSUME NEW j \in Jobs, Lose(j) PROVE JobTypes' /\ JobsOK'
  <2>1. RunOnly(j) /\ UNCHANGED <<mark, said>>
    BY <1>6, EndEffect DEF Lose
  <2>2. QED
    BY <2>1, RunOnlyTypes
<1>7. ASSUME NEW j \in Jobs, NEW u \in Users, Answer(j, u) \/ Skip(j, u)
      PROVE  JobTypes' /\ JobsOK'
  <2>1. RunOnly(j) /\ UNCHANGED <<mark, said>>
    BY <1>7, AnswerEffect, PassEffect DEF Answer, Skip
  <2>2. QED
    BY <2>1, RunOnlyTypes
<1>8. ASSUME NEW j \in Jobs, NEW u \in Users, Say(j, u) PROVE JobTypes' /\ JobsOK'
  <2>1. RunOnly(j) /\ mark' = mark
    BY <1>8, SayEffect DEF Say
  <2>2. CASE Outdated(j, u)
    BY <1>8, <2>1, <2>2, RunOnlyTypes DEF Say
  <2>3. CASE ~Outdated(j, u)
    <3>1. SaidOnly(j, u)
      BY <1>8, <2>3, SayCounts
    <3>2. QED
      BY <2>1, <3>1 DEF IInv, TypeOK, JobsOK, RunOnly, SaidOnly, JobTypes, RunType, SaidType
  <2>4. QED
    BY <2>2, <2>3
<1>9. QED
  BY <1>1, <1>2, <1>3, <1>4, <1>5, <1>6, <1>7, <1>8 DEF Next, vars, Use, Refill

\* Every step keeps the type invariant.
LEMMA TypeStep ==
  ASSUME IInv, [Next]_vars
  PROVE  TypeOK' /\ JobsOK'
<1>1. level' \in [Users -> 0..Thresholds]
  <2>1. level \in [Users -> 0..Thresholds] /\ Thresholds \in Nat
    BY NoticesAssumption DEF IInv, TypeOK
  <2>2. ASSUME NEW u \in Users, Use(u) PROVE level' \in [Users -> 0..Thresholds]
    BY <2>1, <2>2 DEF Use
  <2>3. ASSUME NEW u \in Users, Refill(u) PROVE level' \in [Users -> 0..Thresholds]
    BY <2>1, <2>3 DEF Refill
  <2>4. QED
    BY <2>1, <2>2, <2>3
       DEF Next, vars, Extend, Day, RunStart, Commit, Lose, Answer, Skip, Say
<1>2. losses' \in 0..MaxLosses /\ lost' \in [Jobs -> SUBSET Users]
  <2>1. losses \in 0..MaxLosses /\ lost \in [Jobs -> SUBSET Users] /\ MaxLosses \in Nat
    BY NoticesAssumption DEF IInv, TypeOK
  <2>2. ASSUME NEW j \in Jobs, Lose(j)
        PROVE  losses' \in 0..MaxLosses /\ lost' \in [Jobs -> SUBSET Users]
    <3>1. run[j].told \subseteq Users
      BY DEF IInv, TypeOK
    <3>2. QED
      BY <2>1, <2>2, <3>1 DEF Lose
  <2>3. QED
    BY <2>1, <2>2
       DEF Next, vars, Use, Refill, Extend, Day, RunStart, Commit, Answer, Skip, Say
<1>3. QED
  BY <1>1, <1>2, LeftStep, JobTypesStep DEF TypeOK, JobTypes, RunType, SaidType

-----------------------------------------------------------------------------
(* Runs, and what has been said *)

\* A run has something to say only while it is under way.
LEMMA RunsStep ==
  ASSUME IInv, [Next]_vars
  PROVE  RunsOK'
<1> USE DEF RunsOK, RunOnly
<1>1. RunsOK
  BY DEF IInv
<1>2. ASSUME run' = run PROVE RunsOK'
  BY <1>1, <1>2
<1>3. CASE Day
  BY <1>1, <1>3, DayEffect
<1>4. ASSUME NEW j \in Jobs, RunStart(j) PROVE RunsOK'
  BY <1>1, <1>4, StartEffect
<1>5. ASSUME NEW j \in Jobs, Commit(j) \/ Lose(j) PROVE RunsOK'
  <2>1. run' = [run EXCEPT ![j] = Off(j)]
    BY <1>5 DEF Commit, Lose
  <2>2. QED
    BY <1>1, <2>1, EndEffect
<1>6. ASSUME NEW j \in Jobs, NEW u \in Users, Answer(j, u) PROVE RunsOK'
  <2>1. run[j].on /\ run[j].next = {}
    BY <1>6 DEF Answer, Asks
  <2>2. QED
    BY <1>1, <1>6, <2>1, AnswerEffect
<1>7. ASSUME NEW j \in Jobs, NEW u \in Users, Skip(j, u) PROVE RunsOK'
  <2>1. RunOnly(j) /\ Same(j) /\ run'[j].next = run[j].next
    BY <1>7, PassEffect DEF Skip
  <2>2. QED
    BY <1>1, <2>1 DEF Same
<1>8. ASSUME NEW j \in Jobs, NEW u \in Users, Say(j, u) PROVE RunsOK'
  <2>1. u \in run[j].next
    BY <1>8 DEF Say
  <2>2. QED
    BY <1>1, <1>8, <2>1, SayEffect
<1>9. QED
  BY <1>2, <1>3, <1>4, <1>5, <1>6, <1>7, <1>8 DEF Next, vars, Use, Refill, Extend

\* Marks and days are numbers.
LEMMA Numbers ==
  ASSUME TypeOK, NEW j \in Jobs, NEW u \in Users
  PROVE  /\ mark[j][u] \in Int /\ run[j].mine[u] \in Int
         /\ Sayings(j) \subseteq Nat /\ left[u] \in Int /\ run[j].today \in Nat
<1>1. Marks(j) \subseteq Int /\ Sayings(j) \subseteq Nat
  BY NoticesAssumption DEF Marks, Sayings, Never
<1>2. left[u] \in Int
  BY NoticesAssumption DEF TypeOK, Oldest
<1>3. mark[j] \in [Users -> Marks(j)] /\ run[j].mine \in [Users -> Marks(j)]
  BY DEF TypeOK
<1>4. run[j].today \in Nat
  BY NoticesAssumption DEF TypeOK
<1>5. QED
  BY <1>1, <1>2, <1>3, <1>4

\* Nothing about the user changes but that days go by.
LEMMA SaidFrame ==
  ASSUME IInv, NEW j \in Jobs, NEW u \in Users, SaidOK(j, u),
         said'[j][u] = said[j][u], mark'[j] = mark[j], lost[j] \subseteq lost'[j],
         run'[j].on = run[j].on, run'[j].mine[u] = run[j].mine[u],
         run[j].told \subseteq run'[j].told, run'[j].next \subseteq run[j].next \cup (Users \ {u}),
         j = "usage" \/ (Days(u) \in Int /\ Days(u)' \in Int /\ Days(u)' <= Days(u))
  PROVE  SaidOK(j, u)'
<1>1. mark[j][u] \in Int /\ run[j].mine[u] \in Int
  BY Numbers DEF IInv
<1>2. \A m \in Int, d \in Sayings(j) :
        Covers(j, u, m, d) => IF j = "usage" THEN d <= m ELSE Days(u)' <= m /\ m <= d
  BY DEF Covers
<1>3. QED
  BY <1>1, <1>2 DEF SaidOK, Covers, Counts

\* The days left of a user only fall, from an extension to the next.
LEMMA DayPasses ==
  ASSUME IInv, Day, NEW u \in Users
  PROVE  Days(u) \in Int /\ Days(u)' \in Int /\ Days(u)' <= Days(u)
<1>1. /\ "expiry" \in Jobs /\ left'[u] = left[u] - 1
      /\ run'["expiry"].today = IF run["expiry"].on THEN run["expiry"].today + 1 ELSE 0
  BY DayEffect DEF Day
<1>2. left[u] \in Int /\ run["expiry"].today \in Nat
  BY <1>1, Numbers DEF IInv
<1>3. QED
  BY <1>1, <1>2 DEF Days

\* Every step keeps SaidOK, for every job and every user.
LEMMA SaidStep ==
  ASSUME IInv, [Next]_vars, NEW i \in Jobs, NEW v \in Users
  PROVE  SaidOK(i, v)'
<1> DEFINE Frame ==
      /\ said'[i] = said[i] /\ mark'[i] = mark[i] /\ lost[i] \subseteq lost'[i]
      /\ run'[i] = run[i] /\ left'[v] = left[v]
<1>1. SaidOK(i, v) /\ TypeOK /\ (i = "usage" \/ i = "expiry")
  BY NoticesAssumption DEF IInv, MarksOK
<1>2. /\ mark[i][v] \in Int /\ run[i].mine[v] \in Int /\ Sayings(i) \subseteq Nat
      /\ left[v] \in Int /\ run[i].today \in Nat
  BY <1>1, Numbers
<1>3. i = "expiry" => Days(v) \in Int
  BY <1>2 DEF Days
<1>4. ASSUME Frame PROVE SaidOK(i, v)'
  BY <1>1, <1>4 DEF SaidOK, Covers, Counts, Days
<1>5. ASSUME UNCHANGED <<left, mark, run, said, lost>> PROVE SaidOK(i, v)'
  BY <1>4, <1>5
<1>6. ASSUME NEW u \in Users, Extend(u) PROVE SaidOK(i, v)'
  <2>1. /\ "expiry" \in Jobs /\ SaidOnly("expiry", u) /\ UNCHANGED <<mark, run, lost>>
        /\ \A d \in Sayings("expiry") : said'["expiry"][u][d] = 0
    BY <1>6, ExtendEffect DEF Extend
  <2>2. left' = [left EXCEPT ![u] = Term]
    BY <1>6 DEF Extend
  <2>3. CASE i = "expiry" /\ v = u
    BY <2>1, <2>3 DEF SaidOK
  <2>4. CASE i = "expiry" /\ v # u
    <3>1. said'[i][v] = said[i][v] /\ left'[v] = left[v]
      BY <1>1, <2>1, <2>2, <2>4 DEF SaidOnly, TypeOK
    <3>2. QED
      BY <1>1, <2>1, <3>1 DEF SaidOK, Covers, Counts, Days
  <2>5. CASE i = "usage"
    <3>1. said'[i] = said[i]
      BY <2>1, <2>5 DEF SaidOnly
    <3>2. QED
      BY <1>1, <2>1, <2>5, <3>1 DEF SaidOK, Covers, Counts
  <2>6. QED
    BY <1>1, <2>3, <2>4, <2>5
<1>7. CASE Day
  <2>1. UNCHANGED <<mark, said, lost>>
    BY <1>7 DEF Day
  <2>2. Days(v) \in Int /\ Days(v)' \in Int /\ Days(v)' <= Days(v)
    BY <1>7, DayPasses
  <2>3. /\ run'[i].on = run[i].on /\ run'[i].mine = run[i].mine
        /\ run'[i].told = run[i].told /\ run'[i].next = run[i].next
    BY <1>7, DayEffect DEF RunOnly
  <2>4. QED
    BY <1>1, <2>1, <2>2, <2>3, SaidFrame
<1>8. ASSUME NEW j \in Jobs, RunStart(j) PROVE SaidOK(i, v)'
  <2>1. UNCHANGED <<left, mark, said, lost>> /\ ~run[j].on
    BY <1>8 DEF RunStart
  <2>2. /\ RunOnly(j) /\ run'[j].mine = mark[j] /\ run'[j].today = 0
        /\ run'[j].told = {} /\ run'[j].next = {}
    BY <1>8, StartEffect
  <2>3. run[j].told = {} /\ run[j].today = 0
    BY <2>1 DEF IInv, RunsOK
  <2>4. CASE i = j
    <3>1. i = "expiry" => Days(v)' = Days(v)
      BY <2>1, <2>2, <2>3, <2>4 DEF Days
    <3>2. QED
      BY <1>1, <2>1, <2>2, <2>3, <2>4, <3>1 DEF SaidOK, Covers, Counts
  <2>5. CASE i # j
    BY <1>4, <2>1, <2>2, <2>5 DEF RunOnly
  <2>6. QED
    BY <2>4, <2>5
<1>9. ASSUME NEW j \in Jobs, Commit(j) PROVE SaidOK(i, v)'
  <2>1. /\ UNCHANGED <<left, said, lost>> /\ run[j].on
        /\ mark' = [mark EXCEPT ![j] = run[j].mine]
    BY <1>9 DEF Commit, MarksAfter
  <2>2. RunOnly(j) /\ run'[j].on = FALSE /\ run'[j].today = 0 /\ run'[j].next = {}
    BY <1>9, EndEffect DEF Commit
  <2>3. mark'[j] = run[j].mine /\ \A k \in Jobs \ {j} : mark'[k] = mark[k]
    BY <2>1 DEF IInv, JobsOK
  <2>4. CASE i = j
    <3>1. i = "expiry" => Days(v)' \in Int /\ Days(v)' <= Days(v)
      BY <1>2, <2>1, <2>2, <2>4 DEF Days
    <3>2. QED
      BY <1>1, <1>2, <1>3, <2>1, <2>2, <2>3, <2>4, <3>1 DEF SaidOK, Covers, Counts
  <2>5. CASE i # j
    BY <1>4, <2>1, <2>2, <2>3, <2>5 DEF RunOnly
  <2>6. QED
    BY <2>4, <2>5
<1>10. ASSUME NEW j \in Jobs, Lose(j) PROVE SaidOK(i, v)'
  <2>1. UNCHANGED <<left, said, mark>> /\ lost' = [lost EXCEPT ![j] = @ \cup run[j].told]
    BY <1>10 DEF Lose
  <2>2. RunOnly(j) /\ run'[j].on = FALSE /\ run'[j].today = 0 /\ run'[j].next = {}
    BY <1>10, EndEffect DEF Lose
  <2>3. lost'[j] = lost[j] \cup run[j].told /\ \A k \in Jobs \ {j} : lost'[k] = lost[k]
    BY <1>1, <2>1 DEF TypeOK
  <2>4. CASE i = j
    <3>1. i = "expiry" => Days(v)' \in Int /\ Days(v)' <= Days(v)
      BY <1>2, <2>1, <2>2, <2>4 DEF Days
    <3>2. QED
      BY <1>1, <1>2, <1>3, <2>1, <2>2, <2>3, <2>4, <3>1 DEF SaidOK, Covers, Counts
  <2>5. CASE i # j
    BY <1>4, <2>1, <2>2, <2>3, <2>5 DEF RunOnly
  <2>6. QED
    BY <2>4, <2>5
<1>11. ASSUME NEW j \in Jobs, NEW u \in Users, Answer(j, u) PROVE SaidOK(i, v)'
  <2>1. UNCHANGED <<left, mark, said, lost>> /\ run[j].on /\ run[j].next = {}
    BY <1>11 DEF Answer, Asks
  <2>2. /\ RunOnly(j)
        /\ run'[j].on = run[j].on /\ run'[j].told = run[j].told /\ run'[j].today = run[j].today
        /\ \/ run'[j].mine = run[j].mine /\ run'[j].next = run[j].next
           \/ /\ Due(j, u) /\ Saying(j, u) \in Sayings(j) /\ run'[j].next = {u}
              /\ run'[j].mine[u] = Saying(j, u)
              /\ \A w \in Users \ {u} : run'[j].mine[w] = run[j].mine[w]
    BY <1>11, AnswerEffect
  <2>3. i = j /\ i = "expiry" => Days(v)' = Days(v)
    BY <2>1, <2>2 DEF Days
  <2>4. CASE i # j
    BY <1>4, <2>1, <2>2, <2>4 DEF RunOnly
  <2>5. CASE /\ i = j
             /\ \/ v # u /\ run'[i].mine[v] = run[i].mine[v] /\ run'[i].next \subseteq {u}
                \/ run'[i].mine = run[i].mine /\ run'[i].next = run[i].next
    <3>1. i = "usage" \/ (Days(v) \in Int /\ Days(v)' \in Int /\ Days(v)' <= Days(v))
      BY <1>1, <1>3, <2>3, <2>5
    <3>2. /\ run'[i].mine[v] = run[i].mine[v]
          /\ run'[i].next \subseteq run[i].next \cup (Users \ {v})
      BY <2>5
    <3>3. QED
      BY <1>1, <2>1, <2>2, <2>5, <3>1, <3>2, SaidFrame
  <2>6. CASE /\ i = j /\ v = u /\ Due(j, u) /\ Saying(j, u) \in Sayings(j)
             /\ run'[j].mine[u] = Saying(j, u)
    <3> DEFINE m == Saying(j, u)
    <3>1. CASE i = "usage"
      <4>1. run[i].mine[v] < m /\ m \in Int
        BY <1>2, <2>6, <3>1 DEF Due, NewThreshold, Saying, Sayings
      <4> HIDE DEF m
      <4>2. QED
        BY <1>1, <1>2, <2>1, <2>2, <2>6, <3>1, <4>1 DEF SaidOK, Covers, Counts, m
    <3>2. CASE i = "expiry"
      <4>1. m = Days(v) /\ m # LastDay(run[i].mine[v])
        BY <2>6, <3>2 DEF Due, NewDay, Saying, Days
      <4>2. run'[i].mine[v] = Days(v) /\ Days(v)' = Days(v)
        BY <2>3, <2>6, <3>2, <4>1
      <4>3. \A d \in Sayings(i) :
               said[i][v][d] > 0 /\ Counts(i, d) /\ v \notin lost[i] => d # Days(v)
        BY <1>1, <1>2, <1>3, <2>1, <2>6, <3>2, <4>1 DEF SaidOK, Covers, Counts, LastDay
      <4>4. \A d \in Sayings(i) : said[i][v][d] > 0 /\ v \notin lost[i] => Days(v) <= d
        BY <1>1, <1>2, <1>3, <2>1, <2>6, <3>2 DEF SaidOK, Covers
      <4>5. QED
        BY <1>1, <1>2, <1>3, <2>1, <2>2, <2>6, <3>2, <4>2, <4>3, <4>4 DEF SaidOK, Covers, Counts
    <3>3. QED
      BY <1>1, <3>1, <3>2
  <2>7. QED
    BY <2>2, <2>4, <2>5, <2>6
<1>12. ASSUME NEW j \in Jobs, NEW u \in Users, Skip(j, u) PROVE SaidOK(i, v)'
  <2>1. UNCHANGED <<left, mark, said, lost>>
    BY <1>12 DEF Skip
  <2>2. RunOnly(j) /\ Same(j) /\ run'[j].next = run[j].next
    BY <1>12, PassEffect DEF Skip
  <2>3. CASE i = j
    <3>1. i = "expiry" => Days(v)' = Days(v)
      BY <2>1, <2>2, <2>3 DEF Days, Same
    <3>2. i = "usage" \/ (Days(v) \in Int /\ Days(v)' \in Int /\ Days(v)' <= Days(v))
      BY <1>1, <1>3, <3>1
    <3>3. QED
      BY <1>1, <2>1, <2>2, <2>3, <3>2, SaidFrame DEF Same
  <2>4. CASE i # j
    BY <1>4, <2>1, <2>2, <2>4 DEF RunOnly
  <2>5. QED
    BY <2>3, <2>4
<1>13. ASSUME NEW j \in Jobs, NEW u \in Users, Say(j, u) PROVE SaidOK(i, v)'
  <2>1. UNCHANGED <<left, mark, lost>> /\ u \in run[j].next
    BY <1>13 DEF Say
  <2>2. /\ RunOnly(j) /\ run'[j].on = run[j].on /\ run'[j].mine = run[j].mine
        /\ run'[j].today = run[j].today
        /\ run'[j].told = run[j].told \cup {u} /\ run'[j].next = {}
    BY <1>13, SayEffect
  <2>3. i = j /\ i = "expiry" => Days(v)' = Days(v)
    BY <2>1, <2>2 DEF Days
  <2>4. said' = said \/ (~Outdated(j, u) /\ SaidOnly(j, u))
    <3>1. CASE Outdated(j, u)
      BY <1>13, <3>1, Zenon DEF Say
    <3>2. CASE ~Outdated(j, u)
      BY <1>13, <3>2, SayCounts
    <3>3. QED
      BY <3>1, <3>2
  <2>5. CASE i # j
    <3>1. said'[i] = said[i]
      BY <2>4, <2>5 DEF SaidOnly
    <3>2. QED
      BY <1>4, <2>1, <2>2, <2>5, <3>1 DEF RunOnly
  <2>6. CASE i = j /\ (v # u \/ said' = said)
    <3>1. said'[i][v] = said[i][v]
      BY <2>4, <2>6 DEF SaidOnly
    <3>2. i = "usage" \/ (Days(v) \in Int /\ Days(v)' \in Int /\ Days(v)' <= Days(v))
      BY <1>1, <1>3, <2>3, <2>6
    <3>3. run[i].told \subseteq run'[i].told /\ run'[i].next = {}
      BY <2>2, <2>6
    <3>4. QED
      BY <1>1, <2>1, <2>2, <2>6, <3>1, <3>2, <3>3, SaidFrame
  <2>7. CASE i = j /\ v = u /\ ~Outdated(j, u)
    <3> DEFINE m == run[i].mine[v]
    <3>1. /\ m \in Sayings(i)
          /\ said'[i][v][m] = IF said[i][v][m] = 2 THEN 2 ELSE said[i][v][m] + 1
          /\ \A d \in Sayings(i) \ {m} : said'[i][v][d] = said[i][v][d]
      BY <1>13, <2>7, SayCounts
    <3>2. said[i][v][m] \in 0..2
      BY <1>1, <3>1 DEF TypeOK
    <3>3. v \notin lost[i] /\ Counts(i, m) => said[i][v][m] = 0
      BY <1>1, <2>1, <2>7, <3>1, <3>2 DEF SaidOK
    <3>4. i = "expiry" => m = Days(v)
      BY <2>7 DEF Outdated, Saying, Days
    <3>5. run'[i].mine[v] = m /\ m \in Int
      BY <1>2, <2>2, <2>7
    <3> HIDE DEF m
    <3>6. QED
      BY <1>1, <1>2, <2>1, <2>2, <2>3, <2>7, <3>1, <3>2, <3>3, <3>4, <3>5
         DEF SaidOK, Covers, Counts
  <2>8. QED
    BY <2>4, <2>5, <2>6, <2>7
<1>14. QED
  BY <1>5, <1>6, <1>7, <1>8, <1>9, <1>10, <1>11, <1>12, <1>13 DEF Next, vars, Use, Refill

-----------------------------------------------------------------------------
(* The invariant, and what follows from it *)

\* The worker starts in it.
LEMMA InitIInv == Init => IInv
<1> SUFFICES ASSUME Init PROVE IInv
  OBVIOUS
<1>1. /\ Term \in Nat /\ Thresholds \in Nat /\ MaxRenewals \in Nat /\ MaxLosses \in Nat
      /\ Slack(0) = Term + 1 /\ Slack(0) <= Slack(MaxRenewals)
  BY NoticesAssumption, SlackGrows DEF Slack
<1>2. Oldest = 0 - Slack(MaxRenewals) /\ Slack(MaxRenewals) \in Nat
  BY NoticesAssumption, SlackGrows DEF Oldest, Slack
<1>3. \A u \in Users : left[u] = Term
  BY DEF Init
<1>4. left \in [Users -> Oldest..Term]
  BY <1>1, <1>2 DEF Init
<1>5. ASSUME NEW j \in Jobs
      PROVE  /\ mark[j] \in [Users -> Marks(j)] /\ run[j] = Off(j)
             /\ said[j] \in SaidType(j)
             /\ \A u \in Users, d \in Sayings(j) : said[j][u][d] = 0
  BY <1>5 DEF Init, Marks, SaidType
<1>6. TypeOK
  <2>1. /\ level \in [Users -> 0..Thresholds] /\ lost \in [Jobs -> SUBSET Users]
        /\ renewals \in 0..MaxRenewals /\ losses \in 0..MaxLosses
    BY <1>1 DEF Init
  <2>2. QED
    BY <1>4, <1>5, <2>1, OffType DEF TypeOK, RunType, SaidType
<1>7. JobsOK
  BY DEF Init, JobsOK
<1>8. RunsOK /\ MarksOK
  <2>1. RunsOK
    BY <1>5, OffType DEF RunsOK
  <2>2. MarksOK
    BY <1>5 DEF MarksOK, SaidOK
  <2>3. QED
    BY <2>1, <2>2
<1>9. DaysOK
  <2>1. \A u, v \in Users : left[u] > left[v] - Slack(0)
    BY <1>1, <1>3
  <2>2. renewals = 0 /\ \A u \in Users : left[u] >= -1
    BY <1>1, <1>3 DEF Init
  <2>3. QED
    BY <2>1, <2>2 DEF DaysOK, Slack
<1>10. QED
  BY <1>6, <1>7, <1>8, <1>9 DEF IInv

\* Every step keeps it.
LEMMA NextIInv == IInv /\ [Next]_vars => IInv'
<1> SUFFICES ASSUME IInv, [Next]_vars PROVE IInv'
  OBVIOUS
<1>1. MarksOK'
  BY SaidStep DEF MarksOK
<1>2. QED
  BY <1>1, TypeStep, RunsStep, DaysStep DEF IInv

\* IInv is an invariant of the jobs.
THEOREM Invariant == Spec => []IInv
  BY InitIInv, NextIInv, PTL DEF Spec

\* The variables keep their types; how long ago a service may have expired is
\* bounded by the renewals.
THEOREM TypeCorrect == Spec => []TypeOK
<1>1. IInv => TypeOK
  BY DEF IInv
<1>2. QED
  BY <1>1, Invariant, PTL

\* No threshold is announced twice, whatever the panel answers, unless a run
\* is lost after it has told the user.
THEOREM ThresholdSaidOnce == Spec => []OncePerThreshold
<1>1. IInv => OncePerThreshold
  <2> SUFFICES ASSUME IInv, "usage" \in Jobs, NEW u \in Users \ lost["usage"],
                      NEW t \in 1..Thresholds
               PROVE  said["usage"][u][t] <= 1
    BY DEF OncePerThreshold
  <2>1. said["usage"][u][t] \in 0..2 /\ t \in Sayings("usage")
    <3>1. t \in Sayings("usage")
      BY DEF Sayings
    <3>2. QED
      BY <3>1 DEF IInv, TypeOK
  <2>2. QED
    BY <2>1 DEF IInv, MarksOK, SaidOK, Counts
<1>2. QED
  BY <1>1, Invariant, PTL

\* Nor is a number of days left, between two extensions.
THEOREM DaySaidOnce == Spec => []OncePerDay
<1>1. IInv => OncePerDay
  <2> SUFFICES ASSUME IInv, "expiry" \in Jobs, NEW u \in Users \ lost["expiry"],
                      NEW d \in 1..Term
               PROVE  said["expiry"][u][d] <= 1
    BY DEF OncePerDay
  <2>1. said["expiry"][u][d] \in 0..2 /\ d \in Sayings("expiry") /\ d # 0
    <3>1. d \in Sayings("expiry") /\ d # 0
      BY NoticesAssumption DEF Sayings
    <3>2. QED
      BY <3>1 DEF IInv, TypeOK
  <2>2. QED
    BY <2>1 DEF IInv, MarksOK, SaidOK, Counts
<1>2. QED
  BY <1>1, Invariant, PTL
=============================================================================
