-------------------------- MODULE HttpClientProofs --------------------------
(***************************************************************************)
(* The retry loop implements the abstract call and ends in bounded time,   *)
(* for every number of attempts, every timeout and every set of error      *)
(* statuses.                                                               *)
(***************************************************************************)
EXTENDS HttpClient, FiniteSetTheorems, TLAPS

\* What the loop keeps true: it sleeps only when an attempt is left, and it has
\* sent the attempts up to the current one and no other.
LoopInv ==
  /\ attempt \in Attempts
  /\ phase \in {"calling", "sleeping", "returned", "threw"}
  /\ wire \in [Attempts -> {"unsent", "travelling", "executed", "refused"}]
  /\ \A i \in Attempts : i > attempt => wire[i] = "unsent"
  /\ phase = "sleeping" => attempt < MAX_RETRIES
  /\ phase = "returned" => wire[attempt] = "executed"

LEMMA InitLoopInv == Init => LoopInv
BY MaxRetriesAssumption DEF Init, LoopInv, Attempts

LEMMA NextLoopInv == LoopInv /\ [Next]_vars => LoopInv'
<1> SUFFICES ASSUME LoopInv, [Next]_vars
             PROVE  LoopInv'
  OBVIOUS
<1> USE MaxRetriesAssumption DEF LoopInv, Attempts
<1>1. CASE Resolve
  BY <1>1 DEF Resolve
<1>2. ASSUME NEW err \in ErrorStatus \cup {NoResponse}, Reject(err)
      PROVE  LoopInv'
  BY <1>2 DEF Reject, IsRetryable
<1>3. CASE Wake
  <2>1. attempt + 1 \in 1 .. MAX_RETRIES /\ attempt' = attempt + 1
    BY <1>3 DEF Wake
  <2> QED
    BY <1>3, <2>1 DEF Wake
<1>4. ASSUME NEW i \in Attempts, PeerExecutes(i)
      PROVE  LoopInv'
  BY <1>4 DEF PeerExecutes
<1>5. ASSUME NEW i \in Attempts, PeerRefuses(i)
      PROVE  LoopInv'
  BY <1>5 DEF PeerRefuses
<1>6. CASE UNCHANGED vars
  BY <1>6 DEF vars, IsRetryable
<1> QED
  BY <1>1, <1>2, <1>3, <1>4, <1>5, <1>6 DEF Next, Client

\* The invariant of the retry loop.
THEOREM LoopInvariant == Spec => []LoopInv
BY InitLoopInv, NextLoopInv, PTL DEF Spec

-----------------------------------------------------------------------------
(* Counting executions.                                                    *)

LEMMA AttemptsUpTo ==
  ASSUME NEW n \in Nat \ {0}
  PROVE  IsFiniteSet(1 .. n) /\ Cardinality(1 .. n) = n
<1>1. Cardinality(1 .. n) = n - 1 + 1 /\ IsFiniteSet(1 .. n)
  BY FS_Interval
<1> QED
  BY <1>1

\* The executed attempts are among those sent, so there are at most as many.
LEMMA ExecutedAreSent ==
  ASSUME LoopInv
  PROVE  /\ IsFiniteSet(ExecutedAttempts)
         /\ Cardinality(ExecutedAttempts) \in 0 .. attempt
<1> USE MaxRetriesAssumption DEF LoopInv, Attempts, ExecutedAttempts
<1>1. ExecutedAttempts \subseteq 1 .. attempt
  OBVIOUS
<1>2. IsFiniteSet(1 .. attempt) /\ Cardinality(1 .. attempt) = attempt
  BY AttemptsUpTo
<1>3. IsFiniteSet(ExecutedAttempts) /\ Cardinality(ExecutedAttempts) <= attempt
  BY <1>1, <1>2, FS_Subset
<1>4. Cardinality(ExecutedAttempts) \in Nat
  BY <1>3, FS_CardinalityType
<1> QED
  BY <1>3, <1>4

\* One more execution is one more executed attempt, and there was room for it.
LEMMA ExecutionCounts ==
  ASSUME LoopInv, NEW i \in Attempts, PeerExecutes(i)
  PROVE  /\ Cardinality(ExecutedAttempts) < attempt
         /\ Cardinality(ExecutedAttempts') = Cardinality(ExecutedAttempts) + 1
<1> USE MaxRetriesAssumption DEF LoopInv, Attempts
<1>1. i \notin ExecutedAttempts /\ ExecutedAttempts' = ExecutedAttempts \cup {i}
  BY DEF PeerExecutes, ExecutedAttempts
<1>2. IsFiniteSet(ExecutedAttempts) /\ Cardinality(ExecutedAttempts) \in Nat
  BY ExecutedAreSent
<1>3. Cardinality(ExecutedAttempts') = Cardinality(ExecutedAttempts) + 1
  BY <1>1, <1>2, FS_AddElement
<1>4. ExecutedAttempts' \subseteq 1 .. attempt
  BY DEF PeerExecutes, ExecutedAttempts
<1>5. IsFiniteSet(1 .. attempt) /\ Cardinality(1 .. attempt) = attempt
  BY AttemptsUpTo
<1>6. Cardinality(ExecutedAttempts') <= attempt
  BY <1>4, <1>5, FS_Subset
<1> QED
  BY <1>2, <1>3, <1>6

-----------------------------------------------------------------------------
(* The refinement.                                                         *)

callBar == [st       |-> callState,
            sent     |-> attempt,
            executed |-> Cardinality(ExecutedAttempts)]

LEMMA RefinedInit == Init => Contract!Init
<1> SUFFICES ASSUME Init
             PROVE  callBar = Contract!OpenCall
  BY DEF Contract!Init, callBar
<1>1. ExecutedAttempts = {}
  BY DEF Init, ExecutedAttempts
<1>2. Cardinality(ExecutedAttempts) = 0
  BY <1>1, FS_EmptySet
<1>3. callState = "open" /\ attempt = 1
  BY DEF Init, callState, Waiting
<1> QED
  BY <1>2, <1>3 DEF callBar, Contract!OpenCall

LEMMA RefinedNext ==
  ASSUME LoopInv, LoopInv', [Next]_vars
  PROVE  [Contract!Next]_callBar
<1> USE MaxRetriesAssumption DEF callState, Waiting
<1>1. CASE Resolve
  <2>1. ExecutedAttempts' = ExecutedAttempts
    BY <1>1 DEF Resolve, ExecutedAttempts
  <2>2. Cardinality(ExecutedAttempts) > 0
    <3>1. ExecutedAttempts # {}
      BY <1>1 DEF Resolve, ExecutedAttempts, LoopInv
    <3> QED
      BY <3>1, ExecutedAreSent, FS_EmptySet
  <2>3. callBar.st = "open" /\ callBar' = [callBar EXCEPT !.st = "ok"]
    BY <1>1, <2>1 DEF Resolve, callBar
  <2>4. Contract!Return
    BY <2>2, <2>3 DEF Contract!Return, Contract!CanReturn, Contract!Returned, callBar
  <2> QED
    BY <2>4 DEF Contract!Next
<1>2. ASSUME NEW err \in ErrorStatus \cup {NoResponse}, Reject(err)
      PROVE  [Contract!Next]_callBar
  <2>1. ExecutedAttempts' = ExecutedAttempts /\ attempt' = attempt
    BY <1>2 DEF Reject, ExecutedAttempts
  <2>2. CASE phase' = "sleeping"
    <3>1. callBar' = callBar
      BY <1>2, <2>1, <2>2 DEF Reject, callBar
    <3> QED
      BY <3>1
  <2>3. CASE phase' = "threw"
    <3>1. callBar.st = "open" /\ callBar' = [callBar EXCEPT !.st = "failed"]
      BY <1>2, <2>1, <2>3 DEF Reject, callBar
    <3>2. Contract!GiveUp
      BY <3>1 DEF Contract!GiveUp, Contract!GivenUp, callBar
    <3> QED
      BY <3>2 DEF Contract!Next
  <2> QED
    BY <1>2, <2>2, <2>3 DEF Reject
<1>3. CASE Wake
  <2>1. ExecutedAttempts' = ExecutedAttempts
    <3>1. attempt + 1 \in Attempts /\ wire[attempt + 1] = "unsent"
      BY <1>3 DEF Wake, LoopInv, Attempts
    <3> QED
      BY <1>3, <3>1 DEF Wake, ExecutedAttempts, LoopInv
  <2>2. attempt' = attempt + 1 /\ attempt < MAX_RETRIES
    BY <1>3 DEF Wake, LoopInv
  <2>3. callBar.st = "open" /\ callBar' = [callBar EXCEPT !.sent = @ + 1]
    BY <1>3, <2>1, <2>2 DEF Wake, callBar
  <2>4. Contract!Resend
    BY <2>2, <2>3 DEF Contract!Resend, Contract!CanResend, Contract!Resent, callBar
  <2> QED
    BY <2>4 DEF Contract!Next
<1>4. ASSUME NEW i \in Attempts, PeerExecutes(i)
      PROVE  [Contract!Next]_callBar
  <2>1. attempt' = attempt /\ phase' = phase
    BY <1>4 DEF PeerExecutes
  <2>2. callBar' = [callBar EXCEPT !.executed = @ + 1]
    <3>1. Cardinality(ExecutedAttempts') = Cardinality(ExecutedAttempts) + 1
      BY <1>4, ExecutionCounts
    <3>2. callState' = callState
      BY <2>1
    <3> HIDE DEF callState
    <3> QED
      BY <2>1, <3>1, <3>2 DEF callBar
  <2>3. Contract!Execute
    BY <1>4, <2>2, ExecutionCounts
    DEF Contract!Execute, Contract!CanExecute, Contract!Executed, callBar
  <2> QED
    BY <2>3 DEF Contract!Next
<1>5. ASSUME NEW i \in Attempts, PeerRefuses(i)
      PROVE  [Contract!Next]_callBar
  <2>1. ExecutedAttempts' = ExecutedAttempts
    BY <1>5 DEF PeerRefuses, ExecutedAttempts, LoopInv
  <2> QED
    BY <1>5, <2>1 DEF PeerRefuses, callBar
<1>6. CASE UNCHANGED vars
  BY <1>6 DEF vars, callBar, ExecutedAttempts
<1> QED
  BY <1>1, <1>2, <1>3, <1>4, <1>5, <1>6 DEF Next, Client

\* Whatever the peer and the network do, one httpCall is one call of the
\* contract: executed at least once when it resolves, at most once for each
\* attempt, never executed without having been sent.
THEOREM HttpClientImplementsCall == Spec => ImplementsContract
<1>1. LoopInv /\ LoopInv' /\ [Next]_vars => [Contract!Next]_callBar
  BY RefinedNext
<1>2. Spec => Contract!Init /\ [][Contract!Next]_callBar
  BY <1>1, RefinedInit, LoopInvariant, PTL DEF Spec
<1> QED
  BY <1>2 DEF ImplementsContract, Contract!Spec, callBar

-----------------------------------------------------------------------------
(* The clock of the loop.  The provers know no law of exponents; they come *)
(* from counting: 2^n is the number of subsets of 1 .. n.                  *)

LEMMA PowerCounts ==
  ASSUME NEW n \in Nat
  PROVE  /\ IsFiniteSet(SUBSET (1 .. n))
         /\ Cardinality(SUBSET (1 .. n)) = 2 ^ n
         /\ 2 ^ n \in Nat
<1>1. IsFiniteSet(1 .. n) /\ Cardinality(1 .. n) = n
  <2>1. CASE n = 0
    <3>1. 1 .. n = {}
      BY <2>1
    <3> QED
      BY <2>1, <3>1, FS_EmptySet
  <2>2. CASE n # 0
    BY <2>2, AttemptsUpTo
  <2> QED
    BY <2>1, <2>2
<1>2. IsFiniteSet(SUBSET (1 .. n)) /\ Cardinality(SUBSET (1 .. n)) = 2 ^ Cardinality(1 .. n)
  BY <1>1, FS_SUBSET
<1>3. Cardinality(SUBSET (1 .. n)) \in Nat
  BY <1>2, FS_CardinalityType
<1> QED
  BY <1>1, <1>2, <1>3

LEMMA PowerZero == 2 ^ 0 = 1
<1>1. 1 .. 0 = {} /\ SUBSET {} = {{}}
  OBVIOUS
<1>2. Cardinality(SUBSET (1 .. 0)) = 1
  BY <1>1, FS_Singleton
<1> QED
  BY <1>2, PowerCounts

\* A larger set has no fewer subsets.
LEMMA PowerGrows ==
  ASSUME NEW m \in Nat, NEW n \in Nat, m <= n
  PROVE  2 ^ m <= 2 ^ n
<1>1. SUBSET (1 .. m) \subseteq SUBSET (1 .. n)
  <2>1. 1 .. m \subseteq 1 .. n
    OBVIOUS
  <2> QED
    BY <2>1
<1>2. Cardinality(SUBSET (1 .. m)) <= Cardinality(SUBSET (1 .. n))
  BY <1>1, PowerCounts, FS_Subset
<1> QED
  BY <1>2, PowerCounts

\* The subsets of 1 .. n + 1 are those without n + 1, and as many with it.
LEMMA PowerDoubles ==
  ASSUME NEW n \in Nat
  PROVE  2 ^ (n + 1) = 2 ^ n + 2 ^ n
<1> DEFINE without == SUBSET (1 .. n)
           with    == {s \in SUBSET (1 .. n + 1) : n + 1 \in s}
           f       == [s \in without |-> s \cup {n + 1}]
<1>1. n + 1 \notin 1 .. n /\ 1 .. n + 1 = (1 .. n) \cup {n + 1}
  OBVIOUS
<1>2. SUBSET (1 .. n + 1) = without \cup with /\ without \cap with = {}
  BY <1>1
<1>3. ExistsBijection(without, with)
  <2>1. \A s \in without : s \cup {n + 1} \in with
    BY <1>1
  <2>2. f \in [without -> with]
    BY <2>1
  <2>3. \A s, t \in without : f[s] = f[t] => s = t
    BY <1>1
  <2>4. \A t \in with : \E s \in without : f[s] = t
    <3> SUFFICES ASSUME NEW t \in with
                 PROVE  \E s \in without : f[s] = t
      OBVIOUS
    <3>1. t \ {n + 1} \in without
      BY <1>1
    <3>2. f[t \ {n + 1}] = t
      BY <3>1
    <3> QED
      BY <3>1, <3>2
  <2> HIDE DEF f, with, without
  <2>5. f \in Bijection(without, with)
    BY <2>2, <2>3, <2>4 DEF Bijection, Injection, Surjection, IsInjective
  <2> QED
    BY <2>5 DEF ExistsBijection
<1>4. IsFiniteSet(without) /\ Cardinality(without) = 2 ^ n
  BY PowerCounts
<1>5. IsFiniteSet(with) /\ Cardinality(with) = 2 ^ n
  <2> HIDE DEF without, with
  <2> QED
    BY <1>3, <1>4, FS_Bijection
<1>6. Cardinality(without \cup with) = Cardinality(without) + Cardinality(with) - Cardinality({})
  <2> HIDE DEF without, with
  <2> QED
    BY <1>2, <1>4, <1>5, FS_Union
<1>7. Cardinality(SUBSET (1 .. n + 1)) = 2 ^ n + 2 ^ n
  <2> HIDE DEF without, with
  <2>1. Cardinality(without \cup with) = 2 ^ n + 2 ^ n - 0
    BY <1>4, <1>5, <1>6, FS_EmptySet
  <2>2. SUBSET (1 .. n + 1) = without \cup with
    BY <1>2
  <2>3. PICK p \in Nat : p = 2 ^ n
    BY PowerCounts
  <2>4. p + p - 0 = p + p
    OBVIOUS
  <2> QED
    BY <2>1, <2>2, <2>3, <2>4
<1>8. n + 1 \in Nat
  OBVIOUS
<1> QED
  BY <1>7, <1>8, PowerCounts

-----------------------------------------------------------------------------
\* The timeouts that may have run out: of the attempts before the current one
\* and, unless it is still awaited, of the current one.
TimedOut == IF phase = "calling" THEN attempt - 1 ELSE attempt

\* The clock shows no more than those timeouts and the back-offs slept
\* through, which are the powers of two below the current one.
ClockInv ==
  /\ lastErr \in ErrorStatus \cup {NoResponse}
  /\ elapsed \in Nat
  /\ elapsed <= TimedOut * TIMEOUT_MS + BASE_DELAY_MS * (2 ^ (attempt - 1) - 1)

LEMMA MoreTakesLonger ==
  ASSUME NEW m \in Nat, NEW n \in Nat, m <= n, NEW t \in Nat
  PROVE  m * t <= n * t
<1>1. PICK d \in Nat : n = m + d
  <2>1. n - m \in Nat /\ n = m + (n - m)
    OBVIOUS
  <2> QED
    BY <2>1
<1>2. n * t = m * t + d * t /\ d * t \in Nat /\ m * t \in Nat
  BY <1>1
<1> QED
  BY <1>2

LEMMA InitClock == Init => ClockInv
<1> SUFFICES ASSUME Init
             PROVE  ClockInv
  OBVIOUS
<1>1. 2 ^ (attempt - 1) - 1 = 0
  <2>1. attempt - 1 = 0
    BY DEF Init
  <2> QED
    BY <2>1, PowerZero
<1>2. TimedOut = 0 /\ elapsed = 0 /\ lastErr = NoResponse
  BY DEF Init, TimedOut
<1>3. TimedOut * TIMEOUT_MS = 0 /\ BASE_DELAY_MS * 0 = 0
  BY <1>2, HttpAssumption
<1> QED
  BY <1>1, <1>2, <1>3 DEF ClockInv

\* An attempt that settles takes nothing or its whole timeout.
LEMMA AttemptTakes ==
  ASSUME LoopInv, ClockInv, phase = "calling",
         attempt' = attempt, phase' # "calling",
         NEW ms \in {0, TIMEOUT_MS}, elapsed' = elapsed + ms,
         lastErr' \in ErrorStatus \cup {NoResponse}
  PROVE  ClockInv'
<1> DEFINE slept == BASE_DELAY_MS * (2 ^ (attempt - 1) - 1)
<1>1. attempt \in Nat /\ TimedOut = attempt - 1 /\ TimedOut' = attempt
  BY DEF LoopInv, Attempts, TimedOut
<1>2. slept' = slept
  OBVIOUS
<1>3. slept \in Int
  <2>1. attempt - 1 \in Nat
    BY MaxRetriesAssumption DEF LoopInv, Attempts
  <2>2. 2 ^ (attempt - 1) \in Nat
    BY <2>1, PowerCounts
  <2> QED
    BY <2>2, HttpAssumption
<1>4. elapsed \in Nat /\ elapsed <= (attempt - 1) * TIMEOUT_MS + slept
  BY <1>1 DEF ClockInv
<1> HIDE DEF slept
<1>5. attempt * TIMEOUT_MS = (attempt - 1) * TIMEOUT_MS + TIMEOUT_MS
  BY <1>1, HttpAssumption
<1>6. elapsed' \in Nat /\ elapsed' <= attempt * TIMEOUT_MS + slept
  <2>1. (attempt - 1) * TIMEOUT_MS \in Int
    BY <1>1, HttpAssumption
  <2>2. attempt * TIMEOUT_MS \in Int
    BY <1>1, HttpAssumption
  <2> QED
    BY <1>3, <1>4, <1>5, <2>1, <2>2, HttpAssumption
<1> QED
  BY <1>1, <1>2, <1>6 DEF ClockInv, slept

LEMMA NextClock == LoopInv /\ LoopInv' /\ ClockInv /\ [Next]_vars => ClockInv'
<1> SUFFICES ASSUME LoopInv, LoopInv', ClockInv, [Next]_vars
             PROVE  ClockInv'
  OBVIOUS
<1>1. CASE Resolve
  <2>1. PICK ms \in {0, TIMEOUT_MS} : elapsed' = elapsed + ms
    BY <1>1 DEF Resolve
  <2>2. phase = "calling" /\ phase' # "calling" /\ attempt' = attempt
        /\ lastErr' \in ErrorStatus \cup {NoResponse}
    BY <1>1 DEF Resolve, ClockInv
  <2> QED
    BY <2>1, <2>2, AttemptTakes
<1>2. ASSUME NEW err \in ErrorStatus \cup {NoResponse}, Reject(err)
      PROVE  ClockInv'
  <2>1. PICK ms \in {0, TIMEOUT_MS} : elapsed' = elapsed + ms
    BY <1>2 DEF Reject
  <2>2. phase = "calling" /\ phase' # "calling" /\ attempt' = attempt
        /\ lastErr' \in ErrorStatus \cup {NoResponse}
    BY <1>2 DEF Reject
  <2> QED
    BY <2>1, <2>2, AttemptTakes
<1>3. CASE Wake
  <2>1. PICK n \in Nat : attempt = n + 1
    <3>1. attempt - 1 \in Nat /\ attempt = attempt - 1 + 1
      BY MaxRetriesAssumption DEF LoopInv, Attempts
    <3> QED
      BY <3>1
  <2>2. n + 1 - 1 = n /\ attempt' - 1 = n + 1 /\ TimedOut = n + 1 /\ TimedOut' = n + 1
    BY <1>3, <2>1 DEF Wake, TimedOut
  <2>3. PICK p \in Nat : p = 2 ^ n
    BY PowerCounts
  <2>4. 2 ^ (n + 1) = p + p
    BY <2>3, PowerDoubles
  <2>5. elapsed' = elapsed + BASE_DELAY_MS * p
    <3>1. BackOff(attempt) = BASE_DELAY_MS * 2 ^ n
      BY <2>1, <2>2 DEF BackOff
    <3> QED
      BY <1>3, <2>3, <3>1 DEF Wake
  <2>6. elapsed \in Nat /\ elapsed <= (n + 1) * TIMEOUT_MS + BASE_DELAY_MS * (p - 1)
    BY <2>1, <2>2, <2>3 DEF ClockInv
  <2>7. /\ elapsed' \in Nat
        /\ elapsed' <= (n + 1) * TIMEOUT_MS + BASE_DELAY_MS * (p + p - 1)
    <3>1. BASE_DELAY_MS * (p + p - 1) = BASE_DELAY_MS * (p - 1) + BASE_DELAY_MS * p
      BY HttpAssumption
    <3>2. /\ BASE_DELAY_MS * p \in Nat
          /\ BASE_DELAY_MS * (p - 1) \in Int
          /\ (n + 1) * TIMEOUT_MS \in Int
      BY HttpAssumption
    <3> QED
      BY <2>5, <2>6, <3>1, <3>2
  <2>8. lastErr' \in ErrorStatus \cup {NoResponse}
    BY <1>3 DEF Wake, ClockInv
  <2> QED
    BY <2>2, <2>4, <2>7, <2>8 DEF ClockInv
<1>4. ASSUME UNCHANGED <<attempt, phase, lastErr, elapsed>>
      PROVE  ClockInv'
  BY <1>4 DEF ClockInv, TimedOut
<1> QED
  BY <1>1, <1>2, <1>3, <1>4 DEF Next, Client, PeerExecutes, PeerRefuses, vars

LEMMA ClockInvariant == Spec => []ClockInv
BY LoopInvariant, InitClock, NextClock, PTL DEF Spec

\* The loop's variables keep their types; the clock shows whole milliseconds.
THEOREM LoopTypes == Spec => []TypeOK
<1>1. LoopInv /\ ClockInv => TypeOK
  BY DEF LoopInv, ClockInv, TypeOK
<1> QED
  BY <1>1, LoopInvariant, ClockInvariant, PTL

\* However often it retries, one httpCall holds its caller no longer than all
\* its timeouts and all its back-offs together.
THEOREM CallIsBounded == Spec => []DurationBounded
<1>1. ASSUME LoopInv, ClockInv
      PROVE  DurationBounded
  <2>1. /\ attempt - 1 \in Nat
        /\ MAX_RETRIES - 1 \in Nat
        /\ attempt - 1 <= MAX_RETRIES - 1
    BY <1>1, MaxRetriesAssumption DEF LoopInv, Attempts
  <2>2. TimedOut \in Nat /\ MAX_RETRIES \in Nat /\ TimedOut <= MAX_RETRIES
    BY <1>1, MaxRetriesAssumption DEF LoopInv, Attempts, TimedOut
  <2>3. TimedOut * TIMEOUT_MS <= MAX_RETRIES * TIMEOUT_MS
    BY <2>2, MoreTakesLonger, HttpAssumption
  <2>4. PICK p \in Nat, q \in Nat : p = 2 ^ (attempt - 1) /\ q = 2 ^ (MAX_RETRIES - 1)
    BY <2>1, PowerCounts
  <2>5. p <= q
    BY <2>1, <2>4, PowerGrows
  <2>6. BASE_DELAY_MS * (p - 1) <= BASE_DELAY_MS * (q - 1)
    <3>1. p * BASE_DELAY_MS <= q * BASE_DELAY_MS
      BY <2>5, MoreTakesLonger, HttpAssumption
    <3>2. /\ BASE_DELAY_MS * (p - 1) = p * BASE_DELAY_MS - BASE_DELAY_MS
          /\ BASE_DELAY_MS * (q - 1) = q * BASE_DELAY_MS - BASE_DELAY_MS
      BY HttpAssumption
    <3>3. p * BASE_DELAY_MS \in Nat /\ q * BASE_DELAY_MS \in Nat
      BY HttpAssumption
    <3> QED
      BY <3>1, <3>2, <3>3, HttpAssumption
  <2>7. elapsed \in Nat /\ elapsed <= TimedOut * TIMEOUT_MS + BASE_DELAY_MS * (p - 1)
    BY <1>1, <2>4 DEF ClockInv
  <2>8. elapsed <= MAX_RETRIES * TIMEOUT_MS + BASE_DELAY_MS * (q - 1)
    <3>1. /\ TimedOut * TIMEOUT_MS \in Int
          /\ MAX_RETRIES * TIMEOUT_MS \in Int
          /\ BASE_DELAY_MS * (p - 1) \in Int
          /\ BASE_DELAY_MS * (q - 1) \in Int
      BY <2>2, HttpAssumption
    <3> QED
      BY <2>3, <2>6, <2>7, <3>1
  <2> QED
    BY <2>4, <2>8 DEF DurationBounded, WorstCaseMs
<1> QED
  BY <1>1, LoopInvariant, ClockInvariant, PTL
=============================================================================
