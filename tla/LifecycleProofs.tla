-------------------------- MODULE LifecycleProofs --------------------------
(***************************************************************************)
(* What a graceful exit may cut, and whom a notification may reach, for    *)
(* any number of requests, attempts, exits and clients that leave.         *)
(***************************************************************************)
EXTENDS Lifecycle, TLAPS

P == INSTANCE MoneySagaProofs WITH MAX_RETRIES <- MaxEffects

\* The connection tells how far the handler is.
Placed == \A r \in Request :
  /\ conn[r] = "none" => saga[r].stage = "waiting"
  /\ conn[r] \in {"idle", "closed"} => saga[r].stage = "over"

\* A notification exists only of what has been entered.
Told == \A r \in Request :
  /\ post[r].st = "none" => post[r].sent = 0 /\ counted[r] = "no"
  /\ post[r].st # "none" => saga[r].entered

LifeInv == TypeOK /\ P!SagaInv /\ Placed /\ Told /\ NoticeAccounted

-----------------------------------------------------------------------------
(* Calls, and the saga that is carried along.                              *)

LEMMA CallSteps ==
  ASSUME NEW c \in CallRecord
  PROVE  /\ CanExecute(c) => /\ Executed(c) \in CallRecord /\ Executed(c).executed > 0
                             /\ Executed(c).st = c.st /\ Executed(c).sent = c.sent
         /\ CanResend(c) => /\ Resent(c) \in CallRecord /\ Resent(c).st = "open"
                            /\ Resent(c).executed = c.executed
         /\ Returned(c) \in CallRecord /\ Returned(c).st = "ok"
         /\ Returned(c).executed = c.executed
         /\ GivenUp(c) \in CallRecord /\ GivenUp(c).executed = c.executed
         /\ GivenUp(c).sent = c.sent
         /\ GivenUp(c).st = IF c.st = "open" THEN "failed" ELSE c.st
  BY MaxRetriesAssumption
     DEF CallRecord, CanExecute, Executed, CanResend, Resent, Returned, GivenUp

LEMMA FreshCalls == /\ OpenCall \in CallRecord /\ NoCall \in CallRecord
                    /\ OpenCall.st = "open" /\ NoCall.st = "none" /\ NoCall.sent = 0
  BY MaxRetriesAssumption DEF OpenCall, NoCall, CallRecord

\* The saga of the process and that of MoneySagaProofs are one.
LEMMA SameInit == Saga!Init <=> P!Init
  BY Zenon DEF P!Init, Saga!Init, P!Waiting, Saga!Waiting, P!Op, Saga!Op

LEMMA SameNext == [Saga!Next]_(Saga!sagaVars) <=> [P!Next]_(P!sagaVars)
  BY Zenon DEF P!Next, Saga!Next, P!sagaVars, Saga!sagaVars, P!Handle, Saga!Handle,
         P!Begin, Saga!Begin, P!Refuse, Saga!Refuse, P!Take, Saga!Take,
         P!TakeFails, Saga!TakeFails, P!Give, Saga!Give, P!GiveFails,
         Saga!GiveFails, P!RestoreEnds, Saga!RestoreEnds, P!Enter, Saga!Enter,
         P!EnterFails, Saga!EnterFails, P!Effect, Saga!Effect, P!Die, Saga!Die,
         P!Set, Saga!Set, P!Asking, Saga!Asking, P!Over, Saga!Over,
         P!Kind, Saga!Kind, P!Op, Saga!Op

LEMMA SagaFacts ==
  ASSUME P!SagaInv
  PROVE  /\ Saga!TypeOK
         /\ \A r \in Request : saga[r].entered => /\ saga[r].stage = "over"
                                                  /\ "rollback" \notin saga[r].asked
  BY DEF P!SagaInv, P!TypeOK, Saga!TypeOK, P!SagaRecord, Saga!SagaRecord, P!Stage, Saga!Stage,
         P!Kind, Saga!Kind, P!Op, Saga!Op, P!StageInv, P!MoneyInOrder

\* Every step of the process is a step of the saga or none.
LEMMA SagaMoves ==
  ASSUME LifeInv, [Next]_vars
  PROVE  [Saga!Next]_(Saga!sagaVars)
  <1>1. ASSUME NEW r \in Request, Handle(r) PROVE Saga!Next
    BY <1>1 DEF Handle, Awaits, EnterAndNotify, Saga!Next, Saga!Handle
  <1>2. ASSUME NEW r \in Request, Effect(r) PROVE Saga!Next
    BY <1>2 DEF Effect, Saga!Next
  <1>3. ASSUME NEW how, Exits(how) PROVE Saga!Next
    <2>1. {r \in Request : conn[r] = "none"} \in SUBSET {r \in Request : saga[r].stage = "waiting"}
      BY DEF LifeInv, Placed
    <2>2. saga' = [r \in Request |-> IF r \in {q \in Request : conn[q] = "none"} THEN saga[r]
                                     ELSE Saga!Over(saga[r])]
      BY <1>3 DEF Exits
    <2>3. Saga!Die
      BY <1>3, <2>1, <2>2 DEF Exits, Saga!Die
    <2> QED BY <2>3 DEF Saga!Next
  <1>4. ASSUME NEW r \in Request,
               Arrive(r) \/ CloseIdle(r) \/ Disconnect(r) \/ Notice(r) \/ NoticeFails(r)
        PROVE  UNCHANGED Saga!sagaVars
    BY <1>4 DEF Arrive, CloseIdle, Disconnect, Notice, NoticeFails, Saga!sagaVars
  <1>5. Signal \/ Restart \/ UNCHANGED vars => UNCHANGED Saga!sagaVars
    BY DEF Signal, Restart, vars, Saga!sagaVars
  <1> QED BY <1>1, <1>2, <1>3, <1>4, <1>5 DEF Next, GracefulExit, ForcedExit, Crash

LEMMA SagaKept ==
  ASSUME LifeInv, [Next]_vars
  PROVE  P!SagaInv' /\ Saga!TypeOK'
  <1>1. P!SagaInv'
    BY SagaMoves, SameNext, P!NextSagaInv, LifecycleAssumption DEF LifeInv
  <1> QED BY <1>1 DEF P!SagaInv, P!TypeOK, Saga!TypeOK, P!SagaRecord, Saga!SagaRecord,
                      P!Stage, Saga!Stage, P!Kind, Saga!Kind, P!Op, Saga!Op

\* A handler's step is not of a request that is over, and touches no other.
LEMMA HandleFacts ==
  ASSUME P!SagaInv, NEW r \in Request, Saga!Handle(r)
  PROVE  /\ saga[r].stage # "over" /\ ~saga[r].entered /\ deaths' = deaths
         /\ \A q \in Request \ {r} : saga'[q] = saga[q]
         /\ Saga!Enter(r) => saga'[r].entered
  <1>1. saga \in [Request -> Saga!SagaRecord]
    BY SagaFacts DEF Saga!TypeOK
  <1>2. saga[r].stage # "over" /\ deaths' = deaths /\ \E s : saga' = [saga EXCEPT ![r] = s]
    BY DEF Saga!Handle, Saga!Begin, Saga!Refuse, Saga!Take, Saga!TakeFails, Saga!Give,
           Saga!GiveFails, Saga!RestoreEnds, Saga!Enter, Saga!EnterFails, Saga!Set
  <1>3. Saga!Enter(r) => saga'[r].entered
    BY <1>1 DEF Saga!Enter, Saga!Set, Saga!Over, Saga!SagaRecord
  <1> QED BY <1>1, <1>2, <1>3, SagaFacts

LEMMA EffectFacts ==
  ASSUME P!SagaInv, NEW r \in Request, NEW op \in Saga!Op, Saga!Effect(r, op)
  PROVE  /\ deaths' = deaths
         /\ \A q \in Request : saga'[q].stage = saga[q].stage /\ saga'[q].entered = saga[q].entered
  BY SagaFacts DEF Saga!TypeOK, Saga!Effect, Saga!Set, Saga!SagaRecord

-----------------------------------------------------------------------------

LEMMA InitLifeInv == Init => LifeInv
  <1> SUFFICES ASSUME Init PROVE LifeInv
    OBVIOUS
  <1>1. P!SagaInv
    BY P!InitSagaInv, SameInit, LifecycleAssumption DEF Init
  <1>2. \A r \in Request : saga[r].stage = "waiting"
    BY DEF Init, Saga!Init, Saga!Waiting
  <1> QED BY <1>1, <1>2, SagaFacts, FreshCalls, LifecycleAssumption
          DEF Init, LifeInv, TypeOK, Placed, Told, NoticeAccounted, NoticeInit, NoticeTypes, Connection

\* Steps that change no notification: what is left to see is the connection.
LEMMA NoticesKept ==
  ASSUME LifeInv, UNCHANGED noticeVars, deaths' \in Nat, deaths' >= deaths,
         \A r \in Request : saga[r].entered => saga'[r].entered
  PROVE  NoticeTypes' /\ Told' /\ NoticeAccounted'
  <1>1. deaths \in Nat
    BY SagaFacts DEF LifeInv, Saga!TypeOK
  <1> QED BY <1>1 DEF LifeInv, TypeOK, noticeVars, NoticeTypes, Told, NoticeAccounted

LEMMA DispatchKeeps ==
  ASSUME LifeInv, NEW r \in Request, Dispatch(r), deaths' = deaths, saga'[r].entered,
         \A q \in Request \ {r} : saga'[q] = saga[q]
  PROVE  NoticeTypes' /\ Told' /\ NoticeAccounted'
  BY FreshCalls DEF Dispatch, LifeInv, TypeOK, NoticeTypes, Told, NoticeAccounted

LEMMA NoticeKeeps ==
  ASSUME LifeInv, NEW r \in Request, Notice(r) \/ NoticeFails(r)
  PROVE  NoticeTypes' /\ Told' /\ NoticeAccounted'
  <1> DEFINE c == post[r]
  <1>0. /\ post \in [Request -> CallRecord] /\ counted \in [Request -> {"no", "true", "false"}]
        /\ c \in CallRecord /\ UNCHANGED <<saga, deaths>>
    BY DEF LifeInv, TypeOK, NoticeTypes, Notice, NoticeFails
  <1>1. CASE Deliver(r)
    <2>1. c.sent # 0 /\ c.executed \in Nat /\ c.sent \in Nat
      BY <1>0, <1>1 DEF Deliver, CanExecute, CallRecord
    <2> QED BY <1>0, <1>1, <2>1, CallSteps
            DEF Deliver, LifeInv, NoticeTypes, Told, NoticeAccounted
  <1>2. CASE Resend(r)
    <2>1. c.st = "open"
      BY <1>2 DEF Resend, CanResend
    <2> QED BY <1>0, <1>2, <2>1, CallSteps DEF Resend, LifeInv, NoticeTypes, Told, NoticeAccounted
  <1>3. CASE Sent(r)
    <2>1. c.st = "open" /\ c.executed > 0
      BY <1>3 DEF Sent, CanReturn
    <2> QED BY <1>0, <1>3, <2>1, CallSteps DEF Sent, LifeInv, NoticeTypes, Told, NoticeAccounted
  <1>4. CASE Failed(r)
    <2>1. c.st = "open"
      BY <1>4 DEF Failed
    <2> QED BY <1>0, <1>4, <2>1, CallSteps DEF Failed, LifeInv, NoticeTypes, Told, NoticeAccounted
  <1> QED BY <1>1, <1>2, <1>3, <1>4 DEF Notice, NoticeFails

\* An exit: the calls that were open are given up, and there has been a death.
LEMMA ExitKeeps ==
  ASSUME LifeInv, Saga!TypeOK', NEW how \in {"graceful", "forced", "crashed"}, Exits(how)
  PROVE  TypeOK' /\ Placed' /\ Told' /\ NoticeAccounted'
  <1>0. /\ post \in [Request -> CallRecord] /\ deaths \in Nat /\ deaths' = deaths + 1
        /\ counted \in [Request -> {"no", "true", "false"}] /\ counted' = counted
        /\ saga \in [Request -> Saga!SagaRecord]
    BY SagaFacts DEF LifeInv, TypeOK, NoticeTypes, Saga!TypeOK, Exits, LoseAll
  <1>1. ASSUME NEW r \in Request
        PROVE  /\ post'[r] = GivenUp(post[r])
               /\ post'[r] \in CallRecord /\ post'[r].executed = post[r].executed
               /\ post'[r].sent = post[r].sent /\ (post'[r].st = "none" <=> post[r].st = "none")
    BY <1>0, CallSteps DEF Exits, LoseAll
  <1>2. ASSUME NEW r \in Request
        PROVE  /\ saga'[r].entered = saga[r].entered
               /\ saga'[r].stage = IF conn[r] = "none" THEN saga[r].stage ELSE "over"
               /\ conn'[r] = IF conn[r] = "none" THEN "none" ELSE "closed"
    BY <1>0 DEF Exits, Saga!Over, Saga!SagaRecord
  <1>3. NoticeTypes' /\ Told' /\ NoticeAccounted'
    <2>1. post' \in [Request -> CallRecord]
      BY <1>0, <1>1 DEF Exits, LoseAll
    <2> QED BY <1>0, <1>1, <1>2, <2>1 DEF LifeInv, NoticeTypes, Told, NoticeAccounted
  <1>4. Placed'
    BY <1>2 DEF LifeInv, Placed
  <1> QED BY <1>3, <1>4 DEF TypeOK, LifeInv, Exits, Connection

\* A connection that opens, closes or is lost.
LEMMA ConnectionKeeps ==
  ASSUME LifeInv, Saga!TypeOK', NEW r \in Request, Arrive(r) \/ CloseIdle(r) \/ Disconnect(r)
  PROVE  TypeOK' /\ Placed' /\ Told' /\ NoticeAccounted'
  <1>0. /\ UNCHANGED <<saga, deaths>> /\ UNCHANGED noticeVars /\ deaths \in Nat
        /\ conn \in [Request -> Connection]
    BY SagaFacts DEF LifeInv, TypeOK, Saga!TypeOK, Arrive, CloseIdle, Disconnect, noticeVars
  <1>1. NoticeTypes' /\ Told' /\ NoticeAccounted'
    BY <1>0, NoticesKept
  <1>2. Placed' /\ conn' \in [Request -> Connection]
    BY <1>0 DEF LifeInv, Placed, Arrive, CloseIdle, Disconnect, Connection
  <1>3. gone' \in 0 .. MaxGone /\ UNCHANGED processVars
    BY LifecycleAssumption DEF LifeInv, TypeOK, Arrive, CloseIdle, Disconnect
  <1> QED BY <1>1, <1>2, <1>3 DEF TypeOK, LifeInv, processVars

LEMMA HandleKeeps ==
  ASSUME LifeInv, Saga!TypeOK', NEW r \in Request, Handle(r)
  PROVE  TypeOK' /\ Placed' /\ Told' /\ NoticeAccounted'
  <1>0. /\ Saga!Handle(r) /\ P!SagaInv
        /\ conn[r] \in {"busy", "gone"} /\ conn \in [Request -> Connection]
        /\ deaths \in Nat /\ deaths' = deaths
    BY HandleFacts, SagaFacts
       DEF Handle, Awaits, EnterAndNotify, Saga!Handle, LifeInv, TypeOK, Saga!TypeOK
  <1>1. /\ saga[r].stage # "over" /\ ~saga[r].entered
        /\ \A q \in Request \ {r} : saga'[q] = saga[q]
        /\ Saga!Enter(r) => saga'[r].entered
    BY <1>0, HandleFacts
  <1>2. NoticeTypes' /\ Told' /\ NoticeAccounted'
    <2>1. CASE Saga!Enter(r) /\ Dispatch(r)
      BY <1>0, <1>1, <2>1, DispatchKeeps
    <2>2. CASE UNCHANGED noticeVars
      BY <1>0, <1>1, <2>2, NoticesKept
    <2> QED BY <2>1, <2>2 DEF Handle, EnterAndNotify
  <1>3. Placed' /\ conn' \in [Request -> Connection]
    BY <1>0, <1>1 DEF LifeInv, Placed, Handle, Answers, Connection
  <1> QED BY <1>2, <1>3 DEF TypeOK, LifeInv, Handle, processVars

LEMMA NextLifeInv == LifeInv /\ [Next]_vars => LifeInv'
  <1> SUFFICES ASSUME LifeInv, [Next]_vars PROVE LifeInv'
    OBVIOUS
  <1>0. P!SagaInv' /\ Saga!TypeOK'
    BY SagaKept
  <1> SUFFICES TypeOK' /\ Placed' /\ Told' /\ NoticeAccounted'
    BY <1>0 DEF LifeInv
  <1>d. deaths \in Nat
    BY SagaFacts DEF LifeInv, Saga!TypeOK
  <1>1. ASSUME NEW r \in Request, Arrive(r) \/ CloseIdle(r) \/ Disconnect(r)
        PROVE  TypeOK' /\ Placed' /\ Told' /\ NoticeAccounted'
    BY <1>0, <1>1, ConnectionKeeps
  <1>2. ASSUME NEW r \in Request, Handle(r) PROVE TypeOK' /\ Placed' /\ Told' /\ NoticeAccounted'
    BY <1>0, <1>2, HandleKeeps
  <1>3. ASSUME NEW r \in Request, Effect(r) PROVE TypeOK' /\ Placed' /\ Told' /\ NoticeAccounted'
    <2>1. PICK op \in Saga!Op : Saga!Effect(r, op)
      BY <1>3 DEF Effect
    <2>2. /\ deaths' = deaths
          /\ \A q \in Request : saga'[q].stage = saga[q].stage /\ saga'[q].entered = saga[q].entered
      BY <2>1, EffectFacts DEF LifeInv
    <2>3. UNCHANGED noticeVars /\ UNCHANGED <<processVars, conn, gone>>
      BY <1>3 DEF Effect
    <2>4. NoticeTypes' /\ Told' /\ NoticeAccounted'
      BY <1>d, <2>2, <2>3, NoticesKept
    <2>5. Placed'
      BY <2>2, <2>3 DEF LifeInv, Placed
    <2> QED BY <1>0, <2>3, <2>4, <2>5 DEF LifeInv, TypeOK, processVars
  <1>4. ASSUME NEW r \in Request, Notice(r) \/ NoticeFails(r)
        PROVE  TypeOK' /\ Placed' /\ Told' /\ NoticeAccounted'
    <2>1. NoticeTypes' /\ Told' /\ NoticeAccounted'
      BY <1>4, NoticeKeeps
    <2>2. UNCHANGED <<saga, deaths, processVars, conn, gone>>
      BY <1>4 DEF Notice, NoticeFails
    <2> QED BY <1>0, <2>1, <2>2 DEF LifeInv, TypeOK, Placed, processVars
  <1>5. CASE Signal \/ Restart \/ UNCHANGED vars
    <2>1. UNCHANGED noticeVars /\ UNCHANGED <<saga, deaths, conn, gone>>
      BY <1>5 DEF Signal, Restart, vars, noticeVars
    <2>2. NoticeTypes' /\ Told' /\ NoticeAccounted'
      BY <1>d, <2>1, NoticesKept
    <2>3. Placed'
      BY <2>1 DEF LifeInv, Placed
    <2>4. phase' \in {"serving", "closing", "exited"}
          /\ exit' \in {"none", "graceful", "forced", "crashed"}
      BY <1>5 DEF Signal, Restart, vars, LifeInv, TypeOK
    <2> QED BY <1>0, <2>1, <2>2, <2>3, <2>4 DEF LifeInv, TypeOK
  <1>6. CASE GracefulExit \/ ForcedExit \/ Crash
    BY <1>0, <1>6, ExitKeeps DEF GracefulExit, ForcedExit, Crash
  <1> QED BY <1>1, <1>2, <1>3, <1>4, <1>5, <1>6 DEF Next

LEMMA LifeInvariant == Spec => []LifeInv
  BY InitLifeInv, NextLifeInv, PTL DEF Spec

\* The types of the process, its connections and its calls.
THEOREM LifecycleTypes == Spec => []TypeOK
  BY LifeInvariant, PTL DEF LifeInv

\* Nobody is told of money that is not in the ledger or was sent back, whatever
\* is repeated, cut, or delivered after the exit.
THEOREM NoticesStand == Spec => []NoticeStandsOnLedger
  <1>1. LifeInv => NoticeStandsOnLedger
    BY SagaFacts DEF LifeInv, Told, NoticeStandsOnLedger
  <1> QED BY <1>1, LifeInvariant, PTL

\* The counter of notifications claims no delivery that was not made.
THEOREM NoticesCounted == Spec => []NoticeAccounted
  BY LifeInvariant, PTL DEF LifeInv

\* The callback of server.close cuts no transfer whose client waits.
THEOREM GracefulWaits == Spec => GracefulKeepsWaiting
  <1> DEFINE Keeps == exit' = "graceful" /\ phase' = "exited" =>
                        phase = "exited" \/ \A r \in Request : MidTransfer(r) => conn[r] = "gone"
  <1>1. ASSUME LifeInv, [Next]_vars PROVE [Keeps]_vars
    <2> SUFFICES ASSUME Next, exit' = "graceful", phase' = "exited", phase # "exited",
                        NEW r \in Request, MidTransfer(r)
                 PROVE  conn[r] = "gone"
      BY <1>1
    <2>1. GracefulExit
      BY DEF Next, Arrive, CloseIdle, Disconnect, Handle, Effect, Notice, NoticeFails, Signal,
             Restart, ForcedExit, Crash, Exits, processVars
    <2>2. conn[r] \notin {"busy", "idle"}
      BY <2>1 DEF GracefulExit, Drained
    <2>3. saga[r].stage \notin {"waiting", "over"}
      BY DEF MidTransfer
    <2> QED BY <1>1, <2>2, <2>3 DEF LifeInv, TypeOK, Placed, Connection
  <1> HIDE DEF Keeps
  <1>2. Spec => [][Keeps]_vars
    BY <1>1, LifeInvariant, PTL DEF Spec
  <1> QED BY <1>2 DEF GracefulKeepsWaiting, Keeps
=============================================================================
