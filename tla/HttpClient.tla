----------------------------- MODULE HttpClient -----------------------------
(***************************************************************************)
(* The retry loop of utils/httpClient.js: one httpCall, its attempts, the  *)
(* network between them and the service called, and the time they take.    *)
(***************************************************************************)
EXTENDS CallContract, FiniteSets

CONSTANTS TIMEOUT_MS,       \* REQUEST_TIMEOUT_MS, the axios timeout
          BASE_DELAY_MS,    \* the first back-off
          ErrorStatus       \* the error statuses a peer may answer with

NoResponse == 0             \* err.response is undefined
Transient  == {429, 502, 503, 504}

ASSUME HttpAssumption == /\ TIMEOUT_MS \in Nat
                         /\ BASE_DELAY_MS \in Nat
                         /\ ErrorStatus \subseteq 400 .. 599

VARIABLES attempt,    \* the loop variable
          phase,      \* where the loop is
          wire,       \* what became of the request of each attempt
          lastErr,    \* the last error caught, NoResponse or a status
          elapsed     \* milliseconds since httpCall was entered

vars == <<attempt, phase, wire, lastErr, elapsed>>

Attempts == 1 .. MAX_RETRIES
Waiting  == {"calling", "sleeping"}

\* The types of the loop's variables.
TypeOK == /\ attempt \in Attempts
          /\ phase \in {"calling", "sleeping", "returned", "threw"}
          /\ wire \in [Attempts -> {"unsent", "travelling", "executed", "refused"}]
          /\ lastErr \in ErrorStatus \cup {NoResponse}
          /\ elapsed \in Nat

\* isRetryable: no response at all, or a transient status.
IsRetryable(err) == err = NoResponse \/ err \in Transient

\* The first attempt is sent as soon as httpCall is entered.
Init == /\ attempt = 1
        /\ phase = "calling"
        /\ wire = [i \in Attempts |-> IF i = 1 THEN "travelling" ELSE "unsent"]
        /\ lastErr = NoResponse
        /\ elapsed = 0

(* The peer, outside src: a request is executed, now or after its sender   *)
(* has stopped waiting for it, or refused, or it stays on the wire for     *)
(* ever, which is how a lost request looks.                                *)
PeerExecutes(i) == /\ wire[i] = "travelling"
                   /\ wire' = [wire EXCEPT ![i] = "executed"]
                   /\ UNCHANGED <<attempt, phase, lastErr, elapsed>>

PeerRefuses(i) == /\ wire[i] = "travelling"
                  /\ wire' = [wire EXCEPT ![i] = "refused"]
                  /\ UNCHANGED <<attempt, phase, lastErr, elapsed>>

\* Mutant: validateStatus lets every answer resolve.
ResolveAnyAnswer ==
  /\ phase = "calling"
  /\ wire[attempt] \in {"executed", "refused"}
  /\ phase' = "returned"
  /\ elapsed' = elapsed
  /\ UNCHANGED <<attempt, wire, lastErr>>

\* await axios(config) resolves: the answer to the current attempt arrives.
Resolve == /\ phase = "calling"
           /\ wire[attempt] = "executed"
           /\ phase' = "returned"
           /\ \E ms \in {0, TIMEOUT_MS} : elapsed' = elapsed + ms
           /\ UNCHANGED <<attempt, wire, lastErr>>

\* Mutants of the next action: one attempt too many, and axios without a
\* timeout.
RejectWhen(err, last) ==
  /\ phase = "calling"
  /\ lastErr' = err
  /\ phase' = IF ~IsRetryable(err) \/ last THEN "threw" ELSE "sleeping"
  /\ \E ms \in {0, TIMEOUT_MS} : elapsed' = elapsed + ms
  /\ UNCHANGED <<attempt, wire>>
RejectLate(err)      == RejectWhen(err, attempt > MAX_RETRIES)
RejectNoTimeout(err) == wire[attempt] = "refused" /\ RejectWhen(err, attempt = MAX_RETRIES)

\* axios rejects: an error status, or no answer within TIMEOUT_MS, which may
\* come from a request that was executed.  The loop breaks or backs off.
Reject(err) == /\ phase = "calling"
               /\ lastErr' = err
               /\ phase' = IF ~IsRetryable(err) \/ attempt = MAX_RETRIES
                           THEN "threw" ELSE "sleeping"
               /\ \E ms \in {0, TIMEOUT_MS} : elapsed' = elapsed + ms
               /\ UNCHANGED <<attempt, wire>>

\* Mutant: the exponent is not one less than the attempt.
BackOffTwice(n) == BASE_DELAY_MS * 2 ^ n

BackOff(n) == BASE_DELAY_MS * 2 ^ (n - 1)

\* await sleep(delay) ends and the next iteration sends again.
Wake == /\ phase = "sleeping"
        /\ attempt' = attempt + 1
        /\ phase' = "calling"
        /\ wire' = [wire EXCEPT ![attempt + 1] = "travelling"]
        /\ elapsed' = elapsed + BackOff(attempt)
        /\ UNCHANGED lastErr

Client == Resolve \/ (\E err \in ErrorStatus \cup {NoResponse} : Reject(err)) \/ Wake

Next == Client \/ \E i \in Attempts : PeerExecutes(i) \/ PeerRefuses(i)

Spec == Init /\ [][Next]_vars

\* Timers fire: an attempt always ends, at the latest by its timeout.
FairSpec == Spec /\ WF_vars(Client)

-----------------------------------------------------------------------------
(* The loop as one call of the contract.                                   *)

callState == CASE phase \in Waiting    -> "open"
               [] phase = "returned"   -> "ok"
               [] phase = "threw"      -> "failed"

ExecutedAttempts == {i \in Attempts : wire[i] = "executed"}

Contract == INSTANCE RemoteCall WITH
              call <- [st       |-> callState,
                       sent     |-> attempt,
                       executed |-> Cardinality(ExecutedAttempts)]

\* The loop makes no call, answer or execution the contract does not allow:
\* resolved calls were executed at least once, and no call more than once
\* per attempt made, however late a request is executed.
ImplementsContract == Contract!Spec

\* The longest a caller can be held: every attempt times out and every
\* back-off but the last is slept through (15600 ms with the shipped values,
\* longer than the 10 s that index.js leaves to a graceful shutdown).
WorstCaseMs == MAX_RETRIES * TIMEOUT_MS
               + BASE_DELAY_MS * (2 ^ (MAX_RETRIES - 1) - 1)

\* No httpCall holds its caller longer than WorstCaseMs.
DurationBounded == elapsed <= WorstCaseMs

\* Every call ends, resolved or rejected, whatever the peer does.
CallEnds == <>(phase \notin Waiting)
=============================================================================
