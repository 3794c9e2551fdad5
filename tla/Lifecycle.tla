----------------------------- MODULE Lifecycle -----------------------------
(***************************************************************************)
(* The process of index.js around its handlers: connections, signals,      *)
(* graceful and forced exit, crash and restart.  The handlers are those of *)
(* MoneySaga, which TransactionService implements; the notifications are   *)
(* those of NotificationDelivery.                                          *)
(***************************************************************************)
EXTENDS NotificationDelivery

CONSTANTS MaxEffects,  \* bound: executions of a PATCH call by the Account Service
          MaxDeaths,   \* bound: exits of the process
          MaxGone      \* bound: clients that do not wait for their answer

ASSUME LifecycleAssumption == MaxEffects \in Nat \ {0} /\ MaxGone \in Nat

VARIABLES saga, deaths,
          phase,   \* of the process
          exit,    \* how it ended last
          conn,    \* the connection that carries each request
          gone     \* clients that have disconnected
processVars == <<phase, exit>>
vars == <<saga, deaths, phase, exit, conn, gone, post, counted>>

Saga == INSTANCE MoneySaga WITH MAX_RETRIES <- MaxEffects

\* "busy": a handler owes an answer; "idle": answered and kept alive;
\* "gone": the client left, the handler goes on.
Connection == {"none", "busy", "idle", "gone", "closed"}

TypeOK == /\ Saga!TypeOK /\ NoticeTypes
          /\ phase \in {"serving", "closing", "exited"}
          /\ exit \in {"none", "graceful", "forced", "crashed"}
          /\ conn \in [Request -> Connection]
          /\ gone \in 0 .. MaxGone

Init == /\ Saga!Init /\ NoticeInit
        /\ phase = "serving" /\ exit = "none"
        /\ conn = [r \in Request |-> "none"]
        /\ gone = 0

-----------------------------------------------------------------------------
(* Connections.                                                            *)

\* server.close refuses new connections and serves those it has.
Arrive(r) ==
  /\ conn[r] = "none"
  /\ \/ /\ phase = "serving"
        /\ conn' = [conn EXCEPT ![r] = "busy"]
     \/ \E q \in Request :
          /\ conn[q] = "idle" /\ phase # "exited"
          /\ conn' = [conn EXCEPT ![q] = "closed", ![r] = "busy"]
  /\ UNCHANGED <<saga, deaths, processVars, gone, noticeVars>>

\* The keep-alive timeout, or the client, closes an idle connection.
CloseIdle(r) ==
  /\ conn[r] = "idle"
  /\ conn' = [conn EXCEPT ![r] = "closed"]
  /\ UNCHANGED <<saga, deaths, processVars, gone, noticeVars>>

Disconnect(r) ==
  /\ conn[r] = "busy" /\ gone < MaxGone
  /\ conn' = [conn EXCEPT ![r] = "gone"]
  /\ gone' = gone + 1
  /\ UNCHANGED <<saga, deaths, processVars, noticeVars>>

-----------------------------------------------------------------------------
(* Handlers, and the services they call.                                   *)

\* The handler that is over answers, if anybody is there.
Answers(r) ==
  conn' = [conn EXCEPT ![r] = IF @ = "busy" /\ saga'[r].stage = "over" THEN "idle" ELSE @]

\* Mutant: the notification is sent before the rows are written.
EnterNotifiedFirst(r) ==
  \/ Saga!Enter(r) /\ Dispatch(r)
  \/ Saga!EnterFails(r) /\ Dispatch(r)

\* The rows are written and the notification is dispatched in one turn; a
\* statement that throws after the rows are committed leaves them unnotified.
EnterAndNotify(r) ==
  \/ Saga!Enter(r) /\ (Dispatch(r) \/ UNCHANGED noticeVars)
  \/ Saga!EnterFails(r) /\ UNCHANGED noticeVars

Awaits(r) == \/ Saga!Begin(r) \/ Saga!Refuse(r) \/ Saga!Take(r) \/ Saga!TakeFails(r)
             \/ Saga!Give(r) \/ Saga!GiveFails(r) \/ Saga!RestoreEnds(r)

Handle(r) ==
  /\ phase # "exited" /\ conn[r] \in {"busy", "gone"}
  /\ \/ Awaits(r) /\ UNCHANGED noticeVars
     \/ EnterAndNotify(r)
  /\ Answers(r)
  /\ UNCHANGED <<processVars, gone>>

\* The Account Service does what is on the wire, also after an exit.
Effect(r) == /\ \E op \in Saga!Op : Saga!Effect(r, op)
             /\ UNCHANGED <<processVars, conn, gone, noticeVars>>

Notice(r) == /\ Deliver(r) \/ Resend(r) \/ Sent(r)
             /\ UNCHANGED <<saga, deaths, processVars, conn, gone>>

NoticeFails(r) == Failed(r) /\ UNCHANGED <<saga, deaths, processVars, conn, gone>>

-----------------------------------------------------------------------------
(* The process.                                                            *)

\* SIGTERM or SIGINT: server.close; a second signal changes nothing.
Signal == /\ phase = "serving" /\ deaths < MaxDeaths
          /\ phase' = "closing"
          /\ UNCHANGED <<saga, deaths, exit, conn, gone, noticeVars>>

\* process.exit: handlers, connections and open calls end where they are.
Exits(how) ==
  /\ deaths < MaxDeaths /\ deaths' = deaths + 1
  /\ phase' = "exited" /\ exit' = how
  /\ saga' = [r \in Request |-> IF conn[r] = "none" THEN saga[r] ELSE Saga!Over(saga[r])]
  /\ conn' = [r \in Request |-> IF conn[r] = "none" THEN "none" ELSE "closed"]
  /\ LoseAll
  /\ UNCHANGED gone

\* Mutant: only idle connections are waited for.
DrainedIdle == \A r \in Request : conn[r] # "idle"

\* The callback of server.close: no connection is left.
Drained == \A r \in Request : conn[r] \notin {"busy", "idle"}

GracefulExit == phase = "closing" /\ Drained /\ Exits("graceful")

\* Mutant: no timer.
ForcedExitNever == phase = "closing" /\ Drained /\ Exits("forced")

\* The timer of 10 s; a handler may take longer.
ForcedExit == phase = "closing" /\ Exits("forced")

\* uncaughtException, or a kill.
Crash == phase # "exited" /\ Exits("crashed")

\* Nothing of index.js looks for what was cut.
Restart == /\ phase = "exited"
           /\ phase' = "serving"
           /\ UNCHANGED <<saga, deaths, exit, conn, gone, noticeVars>>

Next == \/ \E r \in Request : \/ Arrive(r) \/ CloseIdle(r) \/ Disconnect(r)
                              \/ Handle(r) \/ Effect(r)
                              \/ Notice(r) \/ NoticeFails(r)
        \/ Signal \/ GracefulExit \/ ForcedExit \/ Crash \/ Restart

\* Timers fire and timeouts end every call while the process lives; neither
\* clients, signals nor the other services owe anything.
Fairness ==
  /\ WF_vars(ForcedExit)
  /\ \A r \in Request :
       /\ WF_vars(Handle(r))
       /\ WF_vars(NoticeFails(r))

Spec == Init /\ [][Next]_vars /\ Fairness

-----------------------------------------------------------------------------

MidTransfer(r) == saga[r].stage \in {"taking", "giving", "restoring", "entering"}

\* A graceful exit leaves no transfer between its steps whose client waits for
\* the answer, on whatever connection and however often it was kept alive:
\* the callback of server.close (index.js:36) comes after the last answer.
GracefulKeepsWaiting ==
  [][exit' = "graceful" /\ phase' = "exited" =>
       phase = "exited" \/ \A r \in Request : MidTransfer(r) => conn[r] = "gone"]_vars

\* Nobody is notified of what is not in the ledger, nor of what was sent back,
\* whatever is repeated, cut or delivered after the exit.
NoticeStandsOnLedger ==
  \A r \in Request : post[r].sent > 0 => saga[r].entered /\ "rollback" \notin saga[r].asked

\* The counter of notifications says "sent" only of what has arrived, and a
\* notification that no counter knows of was cut by an exit or is on its way.
NoticeAccounted ==
  \A r \in Request :
    /\ counted[r] = "true" => post[r].executed > 0
    /\ post[r].st # "none" /\ counted[r] = "no" => post[r].st = "open" \/ deaths > 0

\* A signal ends the process, though clients keep their connections.
ShutdownEnds == phase = "closing" ~> phase = "exited"

\* A dispatched notification is counted in the end, or the process exits: no
\* answer is waited for without end.
NoticeSettles == \A r \in Request : post[r].st = "open" ~> post[r].st # "open"
=============================================================================
