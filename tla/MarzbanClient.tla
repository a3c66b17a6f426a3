--------------------------- MODULE MarzbanClient ---------------------------
(***************************************************************************)
(* The client of the panel's API that all handlers of a process share: one *)
(* bearer token, a lock around logging in, and for every request up to     *)
(* MaxAttempts attempts with a new login when the panel says 401.          *)
(*                                                                         *)
(* The code between two awaits is one step.  asyncio.Lock serves its       *)
(* waiters in order: the head of `queue' holds it.  A token has no         *)
(* identity here, only its standing with the panel: when tokens expire,    *)
(* the client's copy and those in requests under way turn stale.           *)
(***************************************************************************)
EXTENDS Integers, Sequences

CONSTANTS
  Calls,        \* requests of handlers being served at the same time
  MaxAttempts   \* _max_attempts

ASSUME ClientAssumption == MaxAttempts \in Nat \ {0}

VARIABLES
  token,    \* _auth.access_token
  queue,    \* _auth_lock: its holder, then its waiters
  call,     \* where each call of _request is
  effects,  \* history: how often the panel has done what the call asks for
  expired   \* history: tokens have expired since the call's last login

vars == <<token, queue, call, effects, expired>>
history == <<effects, expired>>

Tokens   == {"none", "good", "stale"}
Outcomes == {"ok", "refused", "unauthorized", "failed", "login_failed"}
PCs      == {"idle", "ensure", "login", "sent", "relock", "relogin", "resent", "backoff"}

TypeOK ==
  /\ token \in Tokens
  /\ queue \in Seq(Calls)
  /\ call \in [Calls -> [pc: PCs, attempt: 1..MaxAttempts, auth: Tokens,
                         outcome: Outcomes \cup {"none"}]]
  /\ effects \in [Calls -> 0..MaxAttempts]
  /\ expired \in [Calls -> BOOLEAN]

Init ==
  /\ token = "none" /\ queue = <<>>
  /\ call = [k \in Calls |-> [pc |-> "idle", attempt |-> 1, auth |-> "none",
                              outcome |-> "none"]]
  /\ effects = [k \in Calls |-> 0]
  /\ expired = [k \in Calls |-> FALSE]

-----------------------------------------------------------------------------
(* The lock *)

Waits(k) == queue' = Append(queue, k)
Has(k)   == queue # <<>> /\ Head(queue) = k
Release  == queue' = Tail(queue)

\* What becomes of the call.
Goes(k, pc)      == call' = [call EXCEPT ![k].pc = pc]
Sends(k, pc, t)  == call' = [call EXCEPT ![k].pc = pc, ![k].auth = t]
Ends(k, outcome) == call' = [call EXCEPT ![k].pc = "idle", ![k].auth = "none",
                                         ![k].outcome = outcome]

\* After a fault: another attempt, if any is left.
MayRetryOnceMore(k) == call[k].attempt <= MaxAttempts
MayRetry(k) == call[k].attempt < MaxAttempts
RetryUncounted(k) == call' = [call EXCEPT ![k].pc = "backoff", ![k].auth = "none"]
Retry(k) ==
  IF MayRetry(k)
  THEN call' = [call EXCEPT ![k].pc = "backoff", ![k].attempt = @ + 1, ![k].auth = "none"]
  ELSE Ends(k, "failed")

-----------------------------------------------------------------------------
(* _request and _ensure_token *)

Begin(k) ==
  /\ call[k].pc = "idle"
  /\ call' = [call EXCEPT ![k] = [pc |-> IF token = "none" THEN "ensure" ELSE "sent",
                                  attempt |-> 1, auth |-> token, outcome |-> "none"]]
  /\ IF token = "none" THEN Waits(k) ELSE UNCHANGED queue
  /\ effects' = [effects EXCEPT ![k] = 0]
  /\ expired' = [expired EXCEPT ![k] = FALSE]
  /\ UNCHANGED token

\* The token is looked at again under the lock.
Ensure(k) ==
  /\ call[k].pc = "ensure" /\ Has(k)
  /\ IF token = "none"
     THEN Goes(k, "login") /\ UNCHANGED queue
     ELSE Sends(k, "sent", token) /\ Release
  /\ UNCHANGED <<token, history>>

\* _login; an error leaves the lock and the caller of _request.
LoginOK(k, from, to) ==
  /\ call[k].pc = from
  /\ token' = "good"
  /\ Sends(k, to, "good") /\ Release
  /\ expired' = [expired EXCEPT ![k] = FALSE]
  /\ UNCHANGED effects

Login(k) == LoginOK(k, "login", "sent")

LoginFails(k) ==
  /\ call[k].pc = "login"
  /\ Ends(k, "login_failed") /\ Release
  /\ UNCHANGED <<token, history>>

-----------------------------------------------------------------------------
(* The reply to a request *)

\* The panel does what is asked for, or not, and the reply is no use:
\* 429, 502, 503, 504 or no reply at all.
Fault(k) ==
  /\ call[k].pc \in {"sent", "resent"}
  /\ \/ UNCHANGED effects
     \/ /\ call[k].auth = "good"
        /\ effects' = [effects EXCEPT ![k] = @ + 1]
  /\ Retry(k)
  /\ UNCHANGED <<token, queue, expired>>

Reply(k) ==
  /\ call[k].pc \in {"sent", "resent"} /\ call[k].auth = "good"
  /\ \/ Ends(k, "ok") /\ effects' = [effects EXCEPT ![k] = @ + 1]
     \/ Ends(k, "refused") /\ UNCHANGED effects
  /\ UNCHANGED <<token, queue, expired>>

\* 401 to the first request of an attempt: wait for the lock, log in, resend.
Unauthorized(k) ==
  /\ call[k].pc = "sent" /\ call[k].auth # "good"
  /\ Goes(k, "relock") /\ Waits(k)
  /\ UNCHANGED <<token, history>>

\* Another 401 ends the call.
UnauthorizedAgain(k) ==
  /\ call[k].pc = "resent" /\ call[k].auth # "good"
  /\ Ends(k, "unauthorized")
  /\ UNCHANGED <<token, queue, history>>

\* The token is dropped, even one another call has got in the meantime.
KeepToken(k) ==
  /\ call[k].pc = "relock" /\ Has(k)
  /\ IF token = "none" THEN Goes(k, "relogin") /\ UNCHANGED queue
                       ELSE Sends(k, "resent", token) /\ Release
  /\ UNCHANGED <<token, history>>
DropToken(k) ==
  /\ call[k].pc = "relock" /\ Has(k)
  /\ token' = "none"
  /\ Goes(k, "relogin")
  /\ UNCHANGED <<queue, history>>

Relogin(k) == LoginOK(k, "relogin", "resent")

\* A transport error counts as a fault of the attempt, any other error ends
\* the call; the lock is released either way, the token stays dropped.
ReloginFailsLocked(k) ==
  /\ call[k].pc = "relogin"
  /\ Retry(k) \/ Ends(k, "login_failed")
  /\ UNCHANGED <<token, queue, history>>
ReloginFails(k) ==
  /\ call[k].pc = "relogin"
  /\ Retry(k) \/ Ends(k, "login_failed")
  /\ Release
  /\ UNCHANGED <<token, history>>

\* asyncio.sleep is over: the next attempt, with what the token is by now.
Backoff(k) ==
  /\ call[k].pc = "backoff"
  /\ Sends(k, "sent", token)
  /\ UNCHANGED <<token, queue, history>>

-----------------------------------------------------------------------------
\* The panel forgets the tokens it has given out: they are too old, or it
\* has been restarted with another secret.
Expire ==
  LET Aged(t) == IF t = "good" THEN "stale" ELSE t
  IN  /\ token = "good" \/ \E k \in Calls : call[k].auth = "good"
      /\ token' = Aged(token)
      /\ call' = [k \in Calls |-> [call[k] EXCEPT !.auth = Aged(@)]]
      /\ expired' = [k \in Calls |-> TRUE]
      /\ UNCHANGED <<queue, effects>>

Step(k) ==
  \/ Ensure(k) \/ Login(k) \/ LoginFails(k) \/ Fault(k) \/ Reply(k) \/ Unauthorized(k)
  \/ UnauthorizedAgain(k) \/ DropToken(k) \/ Relogin(k) \/ ReloginFails(k) \/ Backoff(k)

Next == Expire \/ \E k \in Calls : Begin(k) \/ Step(k)

Spec == Init /\ [][Next]_vars

\* Replies and timeouts come (the HTTP client has timeouts), sleeps end.
FairSpec == Spec /\ \A k \in Calls : WF_vars(Step(k))

-----------------------------------------------------------------------------
(* Properties *)

\* A handler sees 401 only if tokens expired after a login of its own: the
\* lock, the re-login and the other calls never make it lose a good token.
UnauthorizedOnlyIfExpired ==
  \A k \in Calls : call[k].outcome = "unauthorized" => expired[k]

\* The panel does what a call asks for at most once per attempt, resending
\* after a 401 included, and at least once if the call succeeds.
EffectsPerAttempt ==
  \A k \in Calls : /\ effects[k] <= call[k].attempt
                   /\ call[k].outcome = "ok" => effects[k] >= 1

\* Every call ends, whatever the panel answers and however often its tokens
\* expire: attempts are counted, and the lock is passed on by failed logins.
CallsEnd == \A k \in Calls : call[k].pc # "idle" ~> call[k].pc = "idle"
=============================================================================
