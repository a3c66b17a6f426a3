------------------------- MODULE MarzbanClientProofs -------------------------
(***************************************************************************)
(* Proofs about MarzbanClient: its type invariant, the lock around logging *)
(* in, who sees a 401, and how often the panel does what it is asked for,  *)
(* for any number of calls and attempts.                                   *)
(***************************************************************************)
EXTENDS MarzbanClient, TLAPS

(***************************************************************************)
(* The inductive invariant.  The queue of the lock and the places of the   *)
(* calls say the same; a call that sends again after its login has a good  *)
(* token or knows why not; and the attempt a call is in has not had its    *)
(* effect yet.                                                             *)
(***************************************************************************)
AtLock(k)   == call[k].pc \in {"ensure", "login", "relock", "relogin"}
LogsIn(k)   == call[k].pc \in {"login", "relogin"}

\* Exactly the calls at the lock are in its queue, each once, and the one that
\* logs in is the first.
LockOK ==
  /\ \A k \in Calls : AtLock(k) <=> \E i \in 1..Len(queue) : queue[i] = k
  /\ \A i, j \in 1..Len(queue) : queue[i] = queue[j] => i = j
  /\ \A k \in Calls : LogsIn(k) => queue # <<>> /\ queue[1] = k

\* A call under way has no outcome yet.
OutcomeOK == \A k \in Calls : call[k].pc # "idle" => call[k].outcome = "none"

\* A token sent after a login was good then.
ResentOK ==
  \A k \in Calls : call[k].pc = "resent" /\ call[k].auth # "good" => expired[k]

\* What a call has done, its attempts before this one have done.
EarlierAttempts ==
  \A k \in Calls : call[k].pc # "idle" => effects[k] < call[k].attempt

IInv ==
  /\ TypeOK /\ LockOK /\ OutcomeOK
  /\ ResentOK /\ UnauthorizedOnlyIfExpired
  /\ EarlierAttempts /\ EffectsPerAttempt

-----------------------------------------------------------------------------
(* Records: what becomes of a call *)

CallType == [pc: PCs, attempt: 1..MaxAttempts, auth: Tokens, outcome: Outcomes \cup {"none"}]

\* Only the call k changes, and keeps its attempt and its outcome.
Moves(k, pc) ==
  /\ call' \in [Calls -> CallType]
  /\ \A j \in Calls \ {k} : call'[j] = call[j]
  /\ call'[k].pc = pc
  /\ call'[k].attempt = call[k].attempt /\ call'[k].outcome = call[k].outcome

\* A call goes on with the token it has.
LEMMA GoesMoves ==
  ASSUME TypeOK, NEW k \in Calls, NEW pc \in PCs, Goes(k, pc)
  PROVE  Moves(k, pc) /\ call'[k].auth = call[k].auth
  BY DEF TypeOK, Goes, Moves, CallType

\* A call goes on with another token.
LEMMA SendsMoves ==
  ASSUME TypeOK, NEW k \in Calls, NEW pc \in PCs, NEW t \in Tokens, Sends(k, pc, t)
  PROVE  Moves(k, pc) /\ call'[k].auth = t
<1> DEFINE c == [call[k] EXCEPT !.pc = pc, !.auth = t]
<1>1. call \in [Calls -> CallType] /\ call[k] \in CallType
  BY DEF TypeOK, CallType
<1>2. c \in CallType
  BY <1>1, Zenon DEF CallType
<1>3. c.pc = pc /\ c.auth = t /\ c.attempt = call[k].attempt /\ c.outcome = call[k].outcome
  BY <1>1 DEF CallType
<1>4. call' = [call EXCEPT ![k] = c]
  BY <1>1 DEF Sends
<1> HIDE DEF c
<1>5. QED
  BY <1>1, <1>2, <1>3, <1>4 DEF Moves

\* A call ends with an outcome.
Ended(k, outcome) ==
  /\ call' \in [Calls -> CallType]
  /\ \A j \in Calls \ {k} : call'[j] = call[j]
  /\ call'[k].pc = "idle" /\ call'[k].auth = "none"
  /\ call'[k].attempt = call[k].attempt /\ call'[k].outcome = outcome

\* Ends(k, outcome) is such an end.
LEMMA EndsEnds ==
  ASSUME TypeOK, NEW k \in Calls, NEW outcome \in Outcomes, Ends(k, outcome)
  PROVE  Ended(k, outcome)
<1> DEFINE c == [call[k] EXCEPT !.pc = "idle", !.auth = "none", !.outcome = outcome]
<1>1. call \in [Calls -> CallType] /\ call[k] \in CallType
  BY DEF TypeOK, CallType
<1>2. "idle" \in PCs /\ "none" \in Tokens /\ outcome \in Outcomes \cup {"none"}
  BY DEF PCs, Tokens
<1>3. c \in CallType
  BY <1>1, <1>2, Zenon DEF CallType
<1>4. c.pc = "idle" /\ c.auth = "none" /\ c.attempt = call[k].attempt /\ c.outcome = outcome
  BY <1>1 DEF CallType
<1>5. call' = [call EXCEPT ![k] = c]
  BY <1>1 DEF Ends
<1> HIDE DEF c
<1>6. QED
  BY <1>1, <1>3, <1>4, <1>5 DEF Ended

\* After a fault a call is one attempt further, or it has failed.
Retried(k) ==
  /\ call' \in [Calls -> CallType]
  /\ \A j \in Calls \ {k} : call'[j] = call[j]
  /\ call'[k].pc = "backoff" /\ call'[k].auth = "none"
  /\ call'[k].attempt = call[k].attempt + 1 /\ call'[k].outcome = call[k].outcome

\* Retry(k) takes another attempt only while one is left.
LEMMA RetryRetries ==
  ASSUME TypeOK, NEW k \in Calls, Retry(k)
  PROVE  Retried(k) \/ Ended(k, "failed")
<1>1. CASE MayRetry(k)
  <2> DEFINE next == call[k].attempt + 1
             c == [call[k] EXCEPT !.pc = "backoff", !.attempt = next, !.auth = "none"]
  <2>1. call \in [Calls -> CallType] /\ call[k] \in CallType
    BY DEF TypeOK, CallType
  <2>2. next \in 1..MaxAttempts
    BY <1>1, <2>1, ClientAssumption DEF MayRetry, CallType
  <2>3. "backoff" \in PCs /\ "none" \in Tokens
    BY DEF PCs, Tokens
  <2>4. c \in CallType
    <3> HIDE DEF next
    <3>1. QED
      BY <2>1, <2>2, <2>3, Zenon DEF CallType
  <2>5. c.pc = "backoff" /\ c.auth = "none" /\ c.attempt = next /\ c.outcome = call[k].outcome
    <3> HIDE DEF next
    <3>1. QED
      BY <2>1 DEF CallType
  <2>6. call' = [call EXCEPT ![k] = c]
    BY <1>1, <2>1 DEF Retry
  <2> HIDE DEF c
  <2>7. QED
    BY <2>1, <2>4, <2>5, <2>6 DEF Retried
<1>2. CASE ~MayRetry(k)
  BY <1>2, EndsEnds DEF Retry, Outcomes
<1>3. QED
  BY <1>1, <1>2

-----------------------------------------------------------------------------
(* The lock *)

\* A call that comes to the lock waits behind the others.
LEMMA WaitsKeeps ==
  ASSUME TypeOK, LockOK, NEW k \in Calls, ~AtLock(k), Waits(k),
         call'[k].pc \in {"ensure", "relock"}, \A j \in Calls \ {k} : call'[j] = call[j]
  PROVE  LockOK' /\ queue' \in Seq(Calls)
<1>1. /\ queue \in Seq(Calls) /\ queue' = Append(queue, k) /\ queue' \in Seq(Calls)
      /\ Len(queue') = Len(queue) + 1 /\ queue'[Len(queue) + 1] = k
      /\ \A i \in 1..Len(queue) : queue'[i] = queue[i]
  BY DEF TypeOK, Waits
<1>2. \A j \in Calls : AtLock(j)' <=> AtLock(j) \/ j = k
  BY DEF AtLock
<1>3. \A j \in Calls : LogsIn(j)' => LogsIn(j)
  BY DEF LogsIn
<1>4. Len(queue) \in Nat
  BY <1>1
<1>5. \A j \in Calls : AtLock(j)' <=> \E i \in 1..Len(queue') : queue'[i] = j
  BY <1>1, <1>2, <1>4 DEF LockOK
<1>6. \A i, j \in 1..Len(queue') : queue'[i] = queue'[j] => i = j
  BY <1>1, <1>4 DEF LockOK
<1>7. \A j \in Calls : LogsIn(j)' => queue' # <<>> /\ queue'[1] = j
  BY <1>1, <1>3, <1>4 DEF LockOK
<1>8. QED
  BY <1>1, <1>5, <1>6, <1>7 DEF LockOK

\* The call that has the lock passes it on when it leaves.
LEMMA ReleaseKeeps ==
  ASSUME TypeOK, LockOK, NEW k \in Calls, Has(k), Release,
         call'[k].pc \notin {"ensure", "login", "relock", "relogin"},
         \A j \in Calls \ {k} : call'[j] = call[j]
  PROVE  LockOK' /\ queue' \in Seq(Calls)
<1>1. /\ queue \in Seq(Calls) /\ queue # <<>> /\ queue[1] = k /\ queue' = Tail(queue)
      /\ queue' \in Seq(Calls) /\ Len(queue) \in Nat \ {0} /\ Len(queue') = Len(queue) - 1
      /\ \A i \in 1..Len(queue') : queue'[i] = queue[i + 1]
  BY DEF TypeOK, Has, Release
<1>2. \A j \in Calls : AtLock(j)' <=> AtLock(j) /\ j # k
  BY DEF AtLock
<1>3. \A j \in Calls : LogsIn(j)' => LogsIn(j) /\ j # k
  BY DEF LogsIn
<1>4. \A j \in Calls : AtLock(j)' <=> \E i \in 1..Len(queue') : queue'[i] = j
  <2>1. ASSUME NEW j \in Calls, AtLock(j)' PROVE \E i \in 1..Len(queue') : queue'[i] = j
    <3>1. PICK i \in 1..Len(queue) : queue[i] = j
      BY <1>2, <2>1 DEF LockOK
    <3>2. i - 1 \in 1..Len(queue') /\ queue'[i - 1] = j
      BY <1>1, <1>2, <2>1, <3>1
    <3>3. QED
      BY <3>2
  <2>2. ASSUME NEW j \in Calls, NEW i \in 1..Len(queue'), queue'[i] = j PROVE AtLock(j)'
    <3>1. i + 1 \in 1..Len(queue) /\ queue[i + 1] = j
      BY <1>1, <2>2
    <3>2. 1 \in 1..Len(queue) /\ i + 1 # 1
      BY <1>1
    <3>3. j # k
      BY <1>1, <3>1, <3>2 DEF LockOK
    <3>4. QED
      BY <1>2, <3>1, <3>3 DEF LockOK
  <2>3. QED
    BY <2>1, <2>2
<1>5. \A i, j \in 1..Len(queue') : queue'[i] = queue'[j] => i = j
  <2>1. ASSUME NEW i \in 1..Len(queue'), NEW j \in 1..Len(queue'), queue'[i] = queue'[j]
        PROVE  i = j
    <3>1. i + 1 \in 1..Len(queue) /\ j + 1 \in 1..Len(queue) /\ queue[i + 1] = queue[j + 1]
      BY <1>1, <2>1
    <3>2. i + 1 = j + 1
      BY <3>1 DEF LockOK
    <3>3. QED
      BY <1>1, <3>2
  <2>2. QED
    BY <2>1
<1>6. \A j \in Calls : ~LogsIn(j)'
  BY <1>1, <1>3 DEF LockOK
<1>7. QED
  BY <1>1, <1>4, <1>5, <1>6 DEF LockOK

\* Nothing changes at the lock, except that the call that has it may log in.
LEMMA StaysKeeps ==
  ASSUME TypeOK, LockOK, NEW k \in Calls, queue' = queue, AtLock(k)' <=> AtLock(k),
         LogsIn(k)' => Has(k), \A j \in Calls \ {k} : call'[j] = call[j]
  PROVE  LockOK' /\ queue' \in Seq(Calls)
<1>1. \A j \in Calls : AtLock(j)' <=> AtLock(j)
  BY DEF AtLock
<1>2. \A j \in Calls \ {k} : LogsIn(j)' => LogsIn(j)
  BY DEF LogsIn
<1>3. QED
  BY <1>1, <1>2 DEF TypeOK, LockOK, Has

\* The call that logs in has the lock.
LEMMA LogsInHas ==
  ASSUME TypeOK, LockOK, NEW k \in Calls, LogsIn(k)
  PROVE  Has(k)
  BY DEF TypeOK, LockOK, Has

-----------------------------------------------------------------------------
(* Steps *)

\* Types, and who is at the lock.
LEMMA LockStep ==
  ASSUME TypeOK, LockOK, EarlierAttempts, [Next]_vars
  PROVE  TypeOK' /\ LockOK'
<1> DEFINE Kept == TypeOK' /\ LockOK'
<1> USE ClientAssumption DEF PCs, Tokens, Outcomes, AtLock, LogsIn, history
<1>1. CASE Expire
  <2>1. /\ token' \in Tokens
        /\ call' \in [Calls -> [pc: PCs, attempt: 1..MaxAttempts, auth: Tokens,
                                outcome: Outcomes \cup {"none"}]]
        /\ \A k \in Calls : call'[k].pc = call[k].pc
    BY <1>1 DEF Expire, TypeOK
  <2>2. queue' = queue /\ effects' = effects /\ expired' \in [Calls -> BOOLEAN]
    BY <1>1 DEF Expire, TypeOK
  <2>3. QED
    BY <2>1, <2>2 DEF TypeOK, LockOK
<1>2. ASSUME NEW k \in Calls, Begin(k) PROVE Kept
  <2>1. /\ call' = [call EXCEPT ![k] = [pc |-> IF token = "none" THEN "ensure" ELSE "sent",
                                        attempt |-> 1, auth |-> token, outcome |-> "none"]]
        /\ call' \in [Calls -> [pc: PCs, attempt: 1..MaxAttempts, auth: Tokens,
                                outcome: Outcomes \cup {"none"}]]
    BY <1>2 DEF Begin, TypeOK
  <2>2. /\ token' \in Tokens /\ effects' \in [Calls -> 0..MaxAttempts]
        /\ expired' \in [Calls -> BOOLEAN]
    BY <1>2 DEF Begin, TypeOK
  <2>3. LockOK' /\ queue' \in Seq(Calls)
    <3>1. /\ ~AtLock(k) /\ \A j \in Calls \ {k} : call'[j] = call[j]
          /\ call'[k].pc = IF token = "none" THEN "ensure" ELSE "sent"
      BY <1>2, <2>1 DEF Begin, TypeOK
    <3>2. CASE token = "none"
      BY <1>2, <3>1, <3>2, WaitsKeeps DEF Begin
    <3>3. CASE token # "none"
      BY <1>2, <3>1, <3>3, StaysKeeps DEF Begin
    <3>4. QED
      BY <3>2, <3>3
  <2>4. QED
    BY <2>1, <2>2, <2>3 DEF TypeOK
<1>3. ASSUME NEW k \in Calls, Ensure(k) PROVE Kept
  <2>1. CASE token = "none"
    BY <1>3, <2>1, GoesMoves, StaysKeeps DEF Ensure, Moves, CallType, TypeOK
  <2>2. CASE token # "none"
    <3>1. Moves(k, "sent")
      BY <1>3, <2>2, SendsMoves DEF Ensure, TypeOK
    <3>2. LockOK' /\ queue' \in Seq(Calls)
      BY <1>3, <2>2, <3>1, ReleaseKeeps DEF Ensure, Moves
    <3>3. QED
      BY <1>3, <3>1, <3>2 DEF Ensure, Moves, CallType, TypeOK
  <2>3. QED
    BY <2>1, <2>2
<1>4. ASSUME NEW k \in Calls, Login(k) \/ Relogin(k) PROVE Kept
  <2>1. LogsIn(k) /\ Has(k) /\ Release
    BY <1>4, LogsInHas DEF Login, Relogin, LoginOK
  <2>2. PICK to \in {"sent", "resent"} : Sends(k, to, "good")
    BY <1>4 DEF Login, Relogin, LoginOK
  <2>3. Moves(k, to)
    BY <2>2, SendsMoves
  <2>4. LockOK' /\ queue' \in Seq(Calls)
    BY <2>1, <2>3, ReleaseKeeps DEF Moves
  <2>5. token' = "good" /\ effects' = effects /\ expired' \in [Calls -> BOOLEAN]
    BY <1>4 DEF Login, Relogin, LoginOK, TypeOK
  <2>6. QED
    BY <2>3, <2>4, <2>5 DEF Moves, CallType, TypeOK
<1>5. ASSUME NEW k \in Calls, LoginFails(k) PROVE Kept
  <2>1. LogsIn(k) /\ Has(k) /\ Release
    BY <1>5, LogsInHas DEF LoginFails
  <2>2. Ended(k, "login_failed")
    BY <1>5, EndsEnds DEF LoginFails
  <2>3. LockOK' /\ queue' \in Seq(Calls)
    BY <2>1, <2>2, ReleaseKeeps DEF Ended
  <2>4. QED
    BY <1>5, <2>2, <2>3 DEF LoginFails, Ended, CallType, TypeOK
<1>6. ASSUME NEW k \in Calls, Fault(k) PROVE Kept
  <2>1. Retried(k) \/ Ended(k, "failed")
    BY <1>6, RetryRetries DEF Fault
  <2>2. LockOK' /\ queue' \in Seq(Calls)
    BY <1>6, <2>1, StaysKeeps DEF Fault, Retried, Ended
  <2>3. effects' \in [Calls -> 0..MaxAttempts]
    <3>1. effects[k] + 1 \in 0..MaxAttempts
      <4>1. effects[k] \in Nat /\ call[k].attempt \in 1..MaxAttempts
        BY DEF TypeOK
      <4>2. effects[k] < call[k].attempt
        BY <1>6 DEF Fault, EarlierAttempts
      <4>3. QED
        BY <4>1, <4>2, ClientAssumption
    <3>2. effects' = effects \/ effects' = [effects EXCEPT ![k] = @ + 1]
      BY <1>6 DEF Fault
    <3>3. QED
      BY <3>1, <3>2 DEF TypeOK
  <2>4. QED
    BY <1>6, <2>1, <2>2, <2>3 DEF Fault, Retried, Ended, CallType, TypeOK
<1>7. ASSUME NEW k \in Calls, Reply(k) PROVE Kept
  <2>1. Ended(k, "ok") \/ Ended(k, "refused")
    BY <1>7, EndsEnds DEF Reply
  <2>2. LockOK' /\ queue' \in Seq(Calls)
    BY <1>7, <2>1, StaysKeeps DEF Reply, Ended
  <2>3. effects' \in [Calls -> 0..MaxAttempts]
    <3>1. effects[k] + 1 \in 0..MaxAttempts
      <4>1. effects[k] \in Nat /\ call[k].attempt \in 1..MaxAttempts
        BY DEF TypeOK
      <4>2. effects[k] < call[k].attempt
        BY <1>7 DEF Reply, EarlierAttempts
      <4>3. QED
        BY <4>1, <4>2, ClientAssumption
    <3>2. effects' = effects \/ effects' = [effects EXCEPT ![k] = @ + 1]
      BY <1>7 DEF Reply
    <3>3. QED
      BY <3>1, <3>2 DEF TypeOK
  <2>4. QED
    BY <1>7, <2>1, <2>2, <2>3 DEF Reply, Ended, CallType, TypeOK
<1>8. ASSUME NEW k \in Calls, Unauthorized(k) PROVE Kept
  <2>1. Moves(k, "relock")
    BY <1>8, GoesMoves DEF Unauthorized
  <2>2. LockOK' /\ queue' \in Seq(Calls)
    BY <1>8, <2>1, WaitsKeeps DEF Unauthorized, Moves
  <2>3. QED
    BY <1>8, <2>1, <2>2 DEF Unauthorized, Moves, CallType, TypeOK
<1>9. ASSUME NEW k \in Calls, UnauthorizedAgain(k) PROVE Kept
  <2>1. Ended(k, "unauthorized")
    BY <1>9, EndsEnds DEF UnauthorizedAgain
  <2>2. LockOK' /\ queue' \in Seq(Calls)
    BY <1>9, <2>1, StaysKeeps DEF UnauthorizedAgain, Ended
  <2>3. QED
    BY <1>9, <2>1, <2>2 DEF UnauthorizedAgain, Ended, CallType, TypeOK
<1>10. ASSUME NEW k \in Calls, DropToken(k) PROVE Kept
  <2>1. Moves(k, "relogin")
    BY <1>10, GoesMoves DEF DropToken
  <2>2. LockOK' /\ queue' \in Seq(Calls)
    BY <1>10, <2>1, StaysKeeps DEF DropToken, Moves
  <2>3. QED
    BY <1>10, <2>1, <2>2 DEF DropToken, Moves, CallType, TypeOK
<1>11. ASSUME NEW k \in Calls, ReloginFails(k) PROVE Kept
  <2>1. LogsIn(k) /\ Has(k) /\ Release
    BY <1>11, LogsInHas DEF ReloginFails
  <2>2. Retried(k) \/ Ended(k, "failed") \/ Ended(k, "login_failed")
    BY <1>11, RetryRetries, EndsEnds DEF ReloginFails
  <2>3. LockOK' /\ queue' \in Seq(Calls)
    BY <2>1, <2>2, ReleaseKeeps DEF Retried, Ended
  <2>4. QED
    BY <1>11, <2>2, <2>3 DEF ReloginFails, Retried, Ended, CallType, TypeOK
<1>12. ASSUME NEW k \in Calls, Backoff(k) PROVE Kept
  <2>1. Moves(k, "sent")
    BY <1>12, SendsMoves DEF Backoff, TypeOK
  <2>2. LockOK' /\ queue' \in Seq(Calls)
    BY <1>12, <2>1, StaysKeeps DEF Backoff, Moves
  <2>3. QED
    BY <1>12, <2>1, <2>2 DEF Backoff, Moves, CallType, TypeOK
<1>13. CASE UNCHANGED vars
  BY <1>13 DEF vars, TypeOK, LockOK
<1>14. QED
  BY <1>1, <1>2, <1>3, <1>4, <1>5, <1>6, <1>7, <1>8, <1>9, <1>10, <1>11, <1>12, <1>13
     DEF Next, Step

\* What a call that is under way has done and knows, and what it ends with.
CallOK(c) ==
  /\ call[c].pc # "idle" => call[c].outcome = "none" /\ effects[c] < call[c].attempt
  /\ call[c].pc = "resent" /\ call[c].auth # "good" => expired[c]
  /\ call[c].outcome = "unauthorized" => expired[c]
  /\ effects[c] <= call[c].attempt
  /\ call[c].outcome = "ok" => effects[c] >= 1

\* The quantified parts of IInv, call by call.
LEMMA CallsOK ==
  (\A c \in Calls : CallOK(c))
    <=> /\ OutcomeOK /\ ResentOK /\ UnauthorizedOnlyIfExpired
        /\ EarlierAttempts /\ EffectsPerAttempt
  BY DEF CallOK, OutcomeOK, ResentOK, UnauthorizedOnlyIfExpired, EarlierAttempts,
         EffectsPerAttempt

\* A step leaves every call in order, its own and the others.
LEMMA CallStep ==
  ASSUME TypeOK, \A c \in Calls : CallOK(c), [Next]_vars, NEW c \in Calls
  PROVE  CallOK(c)'
<1> DEFINE Kept == CallOK(c)'
<1>0. /\ CallOK(c) /\ effects[c] \in Nat /\ call[c].attempt \in Nat
  BY ClientAssumption DEF TypeOK
<1> USE DEF CallOK, Outcomes, PCs, history
<1>1. CASE Expire
  <2>1. /\ call'[c].pc = call[c].pc /\ call'[c].attempt = call[c].attempt
        /\ call'[c].outcome = call[c].outcome /\ expired'[c] = TRUE /\ effects' = effects
    BY <1>1 DEF Expire, TypeOK
  <2>2. QED
    BY <1>0, <2>1
<1>2. ASSUME NEW k \in Calls, Begin(k) PROVE Kept
  <2>1. CASE c = k
    <3>1. /\ call'[k].pc # "resent" /\ call'[k].attempt = 1 /\ call'[k].outcome = "none"
          /\ effects'[k] = 0
      BY <1>2 DEF Begin, TypeOK
    <3>2. QED
      BY <2>1, <3>1
  <2>2. CASE c # k
    <3>1. call'[c] = call[c] /\ effects'[c] = effects[c] /\ expired'[c] = expired[c]
      BY <1>2, <2>2 DEF Begin, TypeOK
    <3>2. QED
      BY <1>0, <3>1
  <2>3. QED
    BY <2>1, <2>2
<1>3. ASSUME NEW k \in Calls, NEW pc \in PCs \ {"idle", "resent"}, Moves(k, pc),
             call[k].pc # "idle", effects' = effects, expired' = expired
      PROVE  Kept
  BY <1>0, <1>3 DEF Moves
<1>4. ASSUME NEW k \in Calls, Ensure(k) PROVE Kept
  BY <1>3, <1>4, GoesMoves, SendsMoves DEF Ensure, TypeOK
<1>5. ASSUME NEW k \in Calls, Login(k) \/ Relogin(k) PROVE Kept
  <2>1. PICK to \in {"sent", "resent"} : Sends(k, to, "good")
    BY <1>5 DEF Login, Relogin, LoginOK
  <2>2. Moves(k, to) /\ call'[k].auth = "good"
    BY <2>1, SendsMoves DEF Tokens
  <2>3. /\ call[k].pc # "idle" /\ effects' = effects
        /\ \A j \in Calls \ {k} : expired'[j] = expired[j]
    BY <1>5 DEF Login, Relogin, LoginOK, TypeOK
  <2>4. QED
    BY <1>0, <2>2, <2>3 DEF Moves
\* The panel does what is asked for, once more at most.
<1> DEFINE AtMostOneEffect(k) ==
             /\ effects'[k] = effects[k] \/ effects'[k] = effects[k] + 1
             /\ \A j \in Calls \ {k} : effects'[j] = effects[j]
<1>6. ASSUME NEW k \in Calls, NEW outcome \in Outcomes, Ended(k, outcome),
             outcome = "ok" => effects'[k] >= 1, outcome = "unauthorized" => expired[k],
             call[k].pc # "idle", AtMostOneEffect(k), expired' = expired
      PROVE  Kept
  BY <1>0, <1>6 DEF Ended
<1>7. ASSUME NEW k \in Calls, Retried(k), call[k].pc # "idle", AtMostOneEffect(k),
             expired' = expired
      PROVE  Kept
  BY <1>0, <1>7 DEF Retried
<1>8. ASSUME NEW k \in Calls, LoginFails(k) PROVE Kept
  BY <1>6, <1>8, EndsEnds DEF LoginFails
<1>9. ASSUME NEW k \in Calls, Fault(k) PROVE Kept
  <2>1. Retried(k) \/ Ended(k, "failed")
    BY <1>9, RetryRetries DEF Fault
  <2>2. AtMostOneEffect(k) /\ call[k].pc # "idle" /\ expired' = expired
    BY <1>9 DEF Fault, TypeOK
  <2>3. QED
    BY <1>6, <1>7, <2>1, <2>2
<1>10. ASSUME NEW k \in Calls, Reply(k) PROVE Kept
  <2>1. \/ Ended(k, "ok") /\ effects'[k] = effects[k] + 1
        \/ Ended(k, "refused") /\ effects'[k] = effects[k]
    BY <1>10, EndsEnds DEF Reply, TypeOK
  <2>2. /\ AtMostOneEffect(k) /\ call[k].pc # "idle" /\ expired' = expired
        /\ effects[k] \in Nat
    BY <1>10, ClientAssumption DEF Reply, TypeOK
  <2>3. QED
    BY <1>6, <2>1, <2>2
<1>11. ASSUME NEW k \in Calls, Unauthorized(k) PROVE Kept
  BY <1>3, <1>11, GoesMoves DEF Unauthorized
<1>12. ASSUME NEW k \in Calls, UnauthorizedAgain(k) PROVE Kept
  BY <1>0, <1>6, <1>12, EndsEnds DEF UnauthorizedAgain
<1>13. ASSUME NEW k \in Calls, DropToken(k) PROVE Kept
  BY <1>3, <1>13, GoesMoves DEF DropToken
<1>14. ASSUME NEW k \in Calls, ReloginFails(k) PROVE Kept
  <2>1. Retried(k) \/ Ended(k, "failed") \/ Ended(k, "login_failed")
    BY <1>14, RetryRetries, EndsEnds DEF ReloginFails
  <2>2. QED
    BY <1>6, <1>7, <1>14, <2>1 DEF ReloginFails
<1>15. ASSUME NEW k \in Calls, Backoff(k) PROVE Kept
  BY <1>3, <1>15, SendsMoves DEF Backoff, TypeOK
<1>16. CASE UNCHANGED vars
  BY <1>0, <1>16 DEF vars
<1>17. QED
  BY <1>1, <1>2, <1>4, <1>5, <1>8, <1>9, <1>10, <1>11, <1>12, <1>13, <1>14, <1>15, <1>16
     DEF Next, Step

-----------------------------------------------------------------------------
(* Results *)

\* No call has begun.
LEMMA InitIInv == Init => IInv
  BY ClientAssumption
     DEF Init, IInv, TypeOK, LockOK, OutcomeOK, ResentOK, UnauthorizedOnlyIfExpired,
         EarlierAttempts, EffectsPerAttempt, AtLock, LogsIn, PCs, Tokens, Outcomes

\* The invariant holds in every reachable state: the queue of the lock agrees
\* with the calls, and every attempt before the last has had its turn.
THEOREM Invariant == Spec => []IInv
<1>1. Init => IInv
  BY InitIInv
<1>2. IInv /\ [Next]_vars => IInv'
  <2> SUFFICES ASSUME IInv, [Next]_vars PROVE IInv'
    OBVIOUS
  <2>1. TypeOK' /\ LockOK'
    BY LockStep DEF IInv
  <2>2. \A c \in Calls : CallOK(c)'
    BY CallsOK, CallStep DEF IInv
  <2>3. /\ OutcomeOK' /\ ResentOK' /\ UnauthorizedOnlyIfExpired'
        /\ EarlierAttempts' /\ EffectsPerAttempt'
    BY <2>2
       DEF CallOK, OutcomeOK, ResentOK, UnauthorizedOnlyIfExpired, EarlierAttempts,
           EffectsPerAttempt
  <2>4. QED
    BY <2>1, <2>3 DEF IInv
<1>3. QED
  BY <1>1, <1>2, PTL DEF Spec

\* The token, the lock's queue, the calls and the history keep their types.
THEOREM TypeCorrect == Spec => []TypeOK
<1>1. IInv => TypeOK
  BY DEF IInv
<1>2. QED
  BY <1>1, Invariant, PTL

\* asyncio.Lock as the client uses it: at most one call logs in at a time, and
\* the lock is never left with a call that is no longer at it, whatever login
\* or request fails.
LoginAlone == \A j, k \in Calls : LogsIn(j) /\ LogsIn(k) => j = k
NoStaleHolder == queue # <<>> => AtLock(Head(queue))

\* Logging in is never done twice at once, and the lock is never orphaned.
THEOREM LockKept == Spec => [](LoginAlone /\ NoStaleHolder)
<1>1. IInv => LoginAlone /\ NoStaleHolder
  <2> SUFFICES ASSUME IInv PROVE LoginAlone /\ NoStaleHolder
    OBVIOUS
  <2>1. LoginAlone
    BY DEF IInv, LockOK, LoginAlone
  <2>2. ASSUME queue # <<>> PROVE AtLock(Head(queue))
    <3>1. 1 \in 1..Len(queue) /\ Head(queue) = queue[1] /\ queue[1] \in Calls
      BY <2>2 DEF IInv, TypeOK
    <3>2. QED
      BY <3>1 DEF IInv, LockOK
  <2>3. QED
    BY <2>1, <2>2 DEF NoStaleHolder
<1>2. QED
  BY <1>1, Invariant, PTL

\* Only an expiry of tokens after its own login can end a call with a 401.
THEOREM UnauthorizedExplained == Spec => []UnauthorizedOnlyIfExpired
<1>1. IInv => UnauthorizedOnlyIfExpired
  BY DEF IInv
<1>2. QED
  BY <1>1, Invariant, PTL

\* At most one effect per attempt, and one at least for a call that succeeds.
THEOREM EffectsCounted == Spec => []EffectsPerAttempt
<1>1. IInv => EffectsPerAttempt
  BY DEF IInv
<1>2. QED
  BY <1>1, Invariant, PTL
=============================================================================
