----------------------------- MODULE SagaProofs -----------------------------
(***************************************************************************)
(* TransactionService implements MoneySaga, for any requests, accounts,    *)
(* keys, bodies, hash, attempts and faults.                                *)
(***************************************************************************)
EXTENDS SagaRefinement, LedgerProofs

sg == [r \in Request |-> SagaOf(r)]

\* What a saga sees of a request.
SameSaga(q) ==
  /\ StageOf(q)' = StageOf(q)
  /\ \A op \in Op : /\ Issued(q, op)' = Issued(q, op)
                    /\ calls'[q][op].executed = calls[q][op].executed
  /\ Asked(q) # {} => req'[q].kind = req[q].kind
  /\ Legs(q)' = Legs(q)

LEMMA SagaFrame ==
  ASSUME NEW q \in Request, SameSaga(q)
  PROVE  SagaOf(q)' = SagaOf(q)
  <1>1. Asked(q)' = Asked(q)
    BY DEF SameSaga, Asked
  <1> QED BY <1>1 DEF SagaOf, SameSaga

\* A step that no saga sees.
LEMMA Stutters ==
  ASSUME \A q \in Request : SameSaga(q), UNCHANGED crashes
  PROVE  UNCHANGED <<sg, crashes>>
  BY SagaFrame DEF sg

\* A step that one saga sees.
LEMMA OneSaga ==
  ASSUME NEW r \in Request, NEW s, SagaOf(r)' = s, UNCHANGED crashes,
         \A q \in Request \ {r} : SameSaga(q)
  PROVE  Saga!Set(r, s)
  <1>1. \A q \in Request \ {r} : SagaOf(q)' = SagaOf(q)
    BY SagaFrame
  <1> QED BY <1>1 DEF Saga!Set

\* The other requests do not see a step that leaves their calls and rows.
LEMMA Others ==
  ASSUME TypeOK, NEW r \in Request,
         \A q \in Request \ {r} : /\ pc'[q] = pc[q] /\ req'[q] = req[q]
                                  /\ calls'[q] = calls[q] /\ Legs(q)' = Legs(q)
  PROVE  \A q \in Request \ {r} : SameSaga(q)
  BY DEF SameSaga, StageOf, Issued

\* A handler that asks for ops more, and enters nothing in the ledger.
LEMMA Advances ==
  ASSUME NEW r \in Request, NEW ops \in SUBSET Op,
         \A op \in Op : /\ Issued(r, op)' <=> Issued(r, op) \/ op \in ops
                        /\ calls'[r][op].executed = calls[r][op].executed,
         Asked(r) \cup ops # {} => req'[r].kind = req[r].kind,
         Legs(r)' = Legs(r)
  PROVE  SagaOf(r)' = [stage |-> StageOf(r)',
                       kind |-> IF Asked(r) \cup ops = {} THEN "none" ELSE req[r].kind,
                       asked |-> Asked(r) \cup ops,
                       done |-> SagaOf(r).done,
                       entered |-> SagaOf(r).entered]
  <1>1. Asked(r)' = Asked(r) \cup ops
    BY DEF Asked
  <1> QED BY <1>1 DEF SagaOf

LEMMA Shape ==
  ASSUME NEW r \in Request
  PROVE  /\ SagaOf(r).stage = StageOf(r) /\ SagaOf(r).asked = Asked(r)
         /\ SagaOf(r).kind = IF Asked(r) = {} THEN "none" ELSE req[r].kind
         /\ SagaOf(r).done = [op \in Op |-> calls[r][op].executed]
         /\ SagaOf(r).entered = (Legs(r) # {})
         /\ Saga!Over(SagaOf(r)) =
              [stage |-> "over", kind |-> SagaOf(r).kind, asked |-> SagaOf(r).asked,
               done |-> SagaOf(r).done, entered |-> SagaOf(r).entered]
  <1>1. /\ SagaOf(r).stage = StageOf(r) /\ SagaOf(r).asked = Asked(r)
        /\ SagaOf(r).kind = IF Asked(r) = {} THEN "none" ELSE req[r].kind
        /\ SagaOf(r).done = [op \in Op |-> calls[r][op].executed]
        /\ SagaOf(r).entered = (Legs(r) # {})
    BY DEF SagaOf
  <1> DEFINE s == SagaOf(r)
  <1>2. s = [stage |-> s.stage, kind |-> s.kind, asked |-> s.asked,
             done |-> s.done, entered |-> s.entered]
    BY DEF SagaOf
  <1>3. Saga!Over(SagaOf(r)) = [s EXCEPT !.stage = "over"]
    BY DEF Saga!Over
  <1> HIDE DEF s
  <1>4. [s EXCEPT !.stage = "over"] =
          [stage |-> "over", kind |-> s.kind, asked |-> s.asked,
           done |-> s.done, entered |-> s.entered]
    BY <1>2
  <1> QED BY <1>1, <1>3, <1>4 DEF s

LEMMA RefinedInit == Init => Saga!Init
  <1> SUFFICES ASSUME Init PROVE Saga!Init
    OBVIOUS
  <1>1. ASSUME NEW r \in Request PROVE SagaOf(r) = Saga!Waiting
    <2>1. Asked(r) = {}
      BY <1>1 DEF Init, Asked, Issued, NoCall
    <2>2. Legs(r) = {}
      BY DEF Init, Legs
    <2>3. StageOf(r) = "waiting"
      BY <1>1 DEF Init, StageOf
    <2>4. [op \in Op |-> calls[r][op].executed] = [op \in Op |-> 0]
      BY <1>1 DEF Init, NoCall
    <2>5. Op = Saga!Op
      BY DEF Op, Saga!Op
    <2> QED BY <2>1, <2>2, <2>3, <2>4, <2>5 DEF SagaOf, Saga!Waiting
  <1> QED BY <1>1 DEF Init, Saga!Init

-----------------------------------------------------------------------------
(* Steps that send no PATCH and write no row.                              *)

LEMMA NothingAsked ==
  ASSUME IInv, NEW r \in Request, pc[r] \in {"idle", "reading"}
  PROVE  Asked(r) = {} /\ StageOf(r) = "waiting" /\ \A op \in Op : ~Issued(r, op)
  BY DEF IInv, ControlInv, CallsAt, Sts, Asked, Issued, Op, StageOf

LEMMA StageDone == \A r \in Request : pc[r] = "done" => StageOf(r) = "over"
  BY DEF StageOf

\* A handler that is over without having asked for anything more.
LEMMA Ends ==
  ASSUME NEW r \in Request, pc'[r] = "done",
         \A op \in Op : /\ Issued(r, op)' <=> Issued(r, op)
                        /\ calls'[r][op].executed = calls[r][op].executed,
         Asked(r) # {} => req'[r].kind = req[r].kind,
         Legs(r)' = Legs(r)
  PROVE  SagaOf(r)' = Saga!Over(SagaOf(r))
  <1>1. SagaOf(r)' = [stage |-> StageOf(r)', kind |-> SagaOf(r).kind, asked |-> Asked(r),
                      done |-> SagaOf(r).done, entered |-> SagaOf(r).entered]
    <2>1. {} \in SUBSET Op /\ Asked(r) \cup {} = Asked(r)
      OBVIOUS
    <2>2. SagaOf(r)' = [stage |-> StageOf(r)',
                        kind |-> IF Asked(r) \cup {} = {} THEN "none" ELSE req[r].kind,
                        asked |-> Asked(r) \cup {},
                        done |-> SagaOf(r).done, entered |-> SagaOf(r).entered]
      BY <2>1, Advances
    <2> QED BY <2>1, <2>2 DEF SagaOf
  <1>2. StageOf(r)' = "over"
    BY DEF StageOf
  <1> QED BY <1>1, <1>2, Shape

LEMMA ArrivalRefines ==
  ASSUME IInv, NEW r \in Request, Arrival(r)
  PROVE  Saga!Refuse(r) \/ UNCHANGED <<sg, crashes>>
  <1>1. PICK b \in Body : \/ Accept(r, b) \/ RejectSameAccount(r, b)
                          \/ RejectKeyReuse(r, b) \/ Replay(r, b) \/ LookupFails(r, b)
    BY DEF Arrival
  <1>2. /\ TypeOK /\ pc[r] = "idle" /\ UNCHANGED <<calls, ledger, crashes>>
        /\ req' = [req EXCEPT ![r] = b]
    BY <1>1 DEF Accept, RejectSameAccount, RejectKeyReuse, Replay, LookupFails, Arrives,
                tables, env, IInv
  <1>3. Asked(r) = {} /\ StageOf(r) = "waiting" /\ Legs(r)' = Legs(r)
    BY <1>2, NothingAsked DEF Legs
  <1>4. \A q \in Request : Legs(q)' = Legs(q)
    BY <1>2 DEF Legs
  <1>5. CASE Accept(r, b)
    <2>1. pc' = [pc EXCEPT ![r] = "reading"]
      BY <1>5 DEF Accept, Goto
    <2>2. \A q \in Request \ {r} : SameSaga(q)
      BY <1>2, <1>4, <2>1, Others DEF TypeOK
    <2>3. SameSaga(r)
      BY <1>2, <1>3, <2>1 DEF SameSaga, StageOf, Issued, TypeOK
    <2> QED BY <1>2, <2>2, <2>3, Stutters
  <1>6. CASE ~Accept(r, b)
    <2>1. pc' = [pc EXCEPT ![r] = "done"]
      BY <1>1, <1>6 DEF RejectSameAccount, RejectKeyReuse, Replay, LookupFails, Respond
    <2>2. \A q \in Request \ {r} : SameSaga(q)
      BY <1>2, <1>4, <2>1, Others DEF TypeOK
    <2>3. SagaOf(r)' = Saga!Over(SagaOf(r))
      BY <1>2, <1>3, <2>1, Ends DEF TypeOK, Issued
    <2>4. Saga!Set(r, Saga!Over(SagaOf(r)))
      BY <1>2, <2>2, <2>3, OneSaga
    <2> QED BY <1>3, <2>4, Shape DEF Saga!Refuse
  <1> QED BY <1>5, <1>6

LEMMA DecideRefines ==
  ASSUME IInv, NEW r \in Request, pc[r] = "reading", NEW f, NEW t, Decide(r, f, t),
         UNCHANGED <<ledger, req, crashes>>
  PROVE  Saga!Refuse(r) \/ Saga!Begin(r)
  <1>1. /\ TypeOK /\ Asked(r) = {} /\ StageOf(r) = "waiting"
        /\ \A q \in Request : Legs(q)' = Legs(q)
        /\ \A op \in Op : ~Issued(r, op)
    BY NothingAsked DEF IInv, Legs
  <1>2. req[r].kind \in Kind /\ Kind = Saga!Kind
    BY BodyFacts DEF IInv, ReqInv, Kind, Saga!Kind
  <1>3. CASE UNCHANGED calls /\ pc' = [pc EXCEPT ![r] = "done"]
    <2>1. \A q \in Request \ {r} : SameSaga(q)
      BY <1>1, <1>3, Others DEF TypeOK
    <2>2. SagaOf(r)' = Saga!Over(SagaOf(r))
      BY <1>1, <1>3, Ends DEF TypeOK, Issued
    <2>3. Saga!Set(r, Saga!Over(SagaOf(r)))
      BY <2>1, <2>2, OneSaga
    <2> QED BY <1>1, <2>3, Shape DEF Saga!Refuse
  <1>4. ASSUME NEW op \in Op, NEW place, pc' = [pc EXCEPT ![r] = place],
               calls' = [calls EXCEPT ![r][op] = OpenCall],
               \/ op = "credit" /\ place = "crediting" /\ req[r].kind = "DEPOSIT"
               \/ op = "debit" /\ place = "debiting" /\ req[r].kind # "DEPOSIT"
        PROVE  Saga!Begin(r)
    <2>1. \A q \in Request \ {r} : SameSaga(q)
      BY <1>1, <1>4, Others DEF TypeOK
    <2>2. \A o \in Op : /\ Issued(r, o)' <=> Issued(r, o) \/ o \in {op}
                        /\ calls'[r][o].executed = calls[r][o].executed
      <3>1. calls[r][op].st = "none" /\ calls[r][op].executed \in Nat
            /\ calls[r][op].executed <= calls[r][op].sent /\ calls[r][op].sent = 0
        BY <1>1 DEF Issued, IInv, CallInv, TypeOK, CallRecord
      <3>2. calls[r][op].executed = 0
        BY <3>1
      <3> QED BY <1>1, <1>4, <3>2, CallUpdate DEF TypeOK, OpenCall, Issued
    <2>3. SagaOf(r)' = [stage |-> StageOf(r)', kind |-> req[r].kind, asked |-> {op},
                        done |-> SagaOf(r).done, entered |-> SagaOf(r).entered]
      <3>1. {op} \in SUBSET Op /\ Asked(r) \cup {op} = {op} /\ {op} # {}
        BY <1>1
      <3> QED BY <1>1, <2>2, <3>1, Advances
    <2>4. StageOf(r)' = IF req[r].kind = "DEPOSIT" THEN "giving" ELSE "taking"
      BY <1>1, <1>4 DEF StageOf, TypeOK
    <2> DEFINE s == [SagaOf(r) EXCEPT !.kind = req[r].kind]
    <2>5. SagaOf(r)' = IF req[r].kind = "DEPOSIT" THEN Saga!Asking(s, "giving", "credit")
                                                  ELSE Saga!Asking(s, "taking", "debit")
      BY <1>1, <1>4, <2>3, <2>4 DEF SagaOf, Saga!Asking
    <2>6. Saga!Set(r, IF req[r].kind = "DEPOSIT" THEN Saga!Asking(s, "giving", "credit")
                                                 ELSE Saga!Asking(s, "taking", "debit"))
      BY <2>1, <2>5, OneSaga
    <2>7. SagaOf(r).stage = "waiting"
      BY <1>1 DEF SagaOf
    <2> QED BY <1>2, <2>6, <2>7 DEF Saga!Begin
  <1>5. \/ UNCHANGED calls /\ pc' = [pc EXCEPT ![r] = "done"]
        \/ req[r].kind = "DEPOSIT" /\ Goto(r, "crediting") /\ StartCall(r, "credit")
        \/ req[r].kind # "DEPOSIT" /\ Goto(r, "debiting") /\ StartCall(r, "debit")
    BY DEF Decide, Respond
  <1> QED BY <1>3, <1>4, <1>5 DEF Goto, StartCall, Op

LEMMA GetRefines ==
  ASSUME IInv, NEW r \in Request, NEW a \in Account, Get(r, a)
  PROVE  Saga!Refuse(r) \/ Saga!Begin(r) \/ UNCHANGED <<sg, crashes>>
  <1>1. TypeOK /\ UNCHANGED <<ledger, req, crashes>>
    BY DEF IInv, Get, GetReturns, GetFallsBack, GetFails, tables, env
  <1>2. \A q \in Request : Legs(q)' = Legs(q)
    BY <1>1 DEF Legs
  <1>3. CASE UNCHANGED <<pc, calls>>
    <2>1. \A q \in Request : SameSaga(q)
      BY <1>1, <1>2, <1>3 DEF SameSaga, StageOf, Issued
    <2> QED BY <1>1, <2>1, Stutters
  <1>4. ASSUME NEW s, Settle(r, a, s)
        PROVE  Saga!Refuse(r) \/ Saga!Begin(r) \/ UNCHANGED <<pc, calls>>
    <2>1. \/ UNCHANGED <<pc, calls>>
          \/ pc[r] = "reading" /\ \E f, t : Decide(r, f, t)
      BY <1>4 DEF Settle
    <2> QED BY <1>1, <2>1, DecideRefines
  <1>5. CASE GetFails(r, a)
    <2>1. CASE pc[r] = "reading"
      <3>1. pc' = [pc EXCEPT ![r] = "done"] /\ UNCHANGED calls
        BY <1>5, <2>1 DEF GetFails, Respond
      <3>2. \A q \in Request \ {r} : SameSaga(q)
        BY <1>1, <1>2, <3>1, Others DEF TypeOK
      <3>3. SagaOf(r)' = Saga!Over(SagaOf(r))
        BY <1>1, <1>2, <3>1, Ends DEF TypeOK, Issued
      <3>4. Saga!Set(r, Saga!Over(SagaOf(r)))
        BY <1>1, <3>2, <3>3, OneSaga
      <3>5. StageOf(r) = "waiting"
        BY <2>1 DEF StageOf
      <3> QED BY <3>4, <3>5, Shape DEF Saga!Refuse
    <2>2. CASE pc[r] # "reading"
      BY <1>3, <1>5, <2>2 DEF GetFails
    <2> QED BY <2>1, <2>2
  <1> QED BY <1>3, <1>4, <1>5 DEF Get, GetReturns, GetFallsBack

-----------------------------------------------------------------------------
(* The Account Service, and the handlers that wait for it.                 *)

LEMMA OpFacts == Saga!Op = Op /\ Saga!Kind = Kind
  BY DEF Op, Saga!Op, Kind, Saga!Kind

LEMMA SagaTyped ==
  ASSUME IInv, NEW r \in Request
  PROVE  SagaOf(r) \in Saga!SagaRecord
  <1>1. TypeOK
    BY DEF IInv
  <1>2. StageOf(r) \in Saga!Stage
    BY DEF StageOf, Saga!Stage
  <1>3. Asked(r) # {} => req[r].kind \in Kind
    BY NothingAsked, BodyFacts DEF IInv, ReqInv
  <1>4. \A op \in Op : calls[r][op].executed \in 0 .. MAX_RETRIES
    BY <1>1 DEF TypeOK, CallRecord
  <1>5. Asked(r) \in SUBSET Op
    BY DEF Asked
  <1> QED BY <1>2, <1>3, <1>4, <1>5, OpFacts DEF SagaOf, Saga!SagaRecord

LEMMA SameFields ==
  ASSUME NEW s \in Saga!SagaRecord
  PROVE  s = [stage |-> s.stage, kind |-> s.kind, asked |-> s.asked,
              done |-> s.done, entered |-> s.entered]
  BY DEF Saga!SagaRecord

\* The forms in which MoneySaga writes a changed saga.
LEMMA AskingForm ==
  ASSUME NEW s \in Saga!SagaRecord, NEW stage \in Saga!Stage, NEW op \in Op
  PROVE  Saga!Asking(s, stage, op) =
           [stage |-> stage, kind |-> s.kind, asked |-> s.asked \cup {op},
            done |-> s.done, entered |-> s.entered]
  <1> DEFINE t == Saga!Asking(s, stage, op)
  <1>1. /\ t \in Saga!SagaRecord /\ t.stage = stage /\ t.kind = s.kind
        /\ t.asked = s.asked \cup {op} /\ t.done = s.done /\ t.entered = s.entered
    BY OpFacts DEF Saga!Asking, Saga!SagaRecord
  <1> HIDE DEF t
  <1>2. t = [stage |-> stage, kind |-> s.kind, asked |-> s.asked \cup {op},
             done |-> s.done, entered |-> s.entered]
    BY <1>1, SameFields
  <1> QED BY <1>2 DEF t

LEMMA StageForm ==
  ASSUME NEW s \in Saga!SagaRecord, NEW stage \in Saga!Stage
  PROVE  [s EXCEPT !.stage = stage] =
           [stage |-> stage, kind |-> s.kind, asked |-> s.asked,
            done |-> s.done, entered |-> s.entered]
  BY DEF Saga!SagaRecord

LEMMA EnterForm ==
  ASSUME NEW s \in Saga!SagaRecord
  PROVE  [Saga!Over(s) EXCEPT !.entered = TRUE] =
           [stage |-> "over", kind |-> s.kind, asked |-> s.asked,
            done |-> s.done, entered |-> TRUE]
  <1> DEFINE t == Saga!Over(s)
             u == [t EXCEPT !.entered = TRUE]
  <1>1. /\ t \in Saga!SagaRecord /\ t.stage = "over" /\ t.kind = s.kind
        /\ t.asked = s.asked /\ t.done = s.done
    BY DEF Saga!Over, Saga!SagaRecord, Saga!Stage
  <1> HIDE DEF t
  <1>2. /\ u \in Saga!SagaRecord /\ u.stage = t.stage /\ u.kind = t.kind
        /\ u.asked = t.asked /\ u.done = t.done /\ u.entered = TRUE
    BY <1>1 DEF Saga!SagaRecord
  <1> HIDE DEF u
  <1>3. u = [stage |-> "over", kind |-> s.kind, asked |-> s.asked,
             done |-> s.done, entered |-> TRUE]
    BY <1>1, <1>2, SameFields
  <1> QED BY <1>3 DEF t, u

LEMMA EffectForm ==
  ASSUME NEW s \in Saga!SagaRecord, NEW op \in Op
  PROVE  [s EXCEPT !.done[op] = @ + 1] =
           [stage |-> s.stage, kind |-> s.kind, asked |-> s.asked,
            done |-> [s.done EXCEPT ![op] = @ + 1], entered |-> s.entered]
  BY OpFacts DEF Saga!SagaRecord

LEMMA ServerRefines ==
  ASSUME IInv, NEW r \in Request, Server(r)
  PROVE  \/ \E op \in Op : Saga!Effect(r, op)
         \/ UNCHANGED <<sg, crashes>>
  <1>1. TypeOK /\ UNCHANGED <<ledger, req, pc, crashes>>
    BY DEF IInv, Server, ServerReads, ServerExecutes, Resends, tables, env
  <1>2. \A q \in Request : Legs(q)' = Legs(q) /\ StageOf(q)' = StageOf(q)
    BY <1>1 DEF Legs, StageOf
  <1>3. CASE \E a \in Account : ServerReads(r, a)
    <2>1. UNCHANGED calls
      BY <1>3 DEF ServerReads
    <2> QED BY <1>1, <1>2, <2>1, Stutters DEF SameSaga, Issued
  <1>4. ASSUME NEW op \in Op, Resends(r, op) PROVE UNCHANGED <<sg, crashes>>
    <2>1. calls' = [calls EXCEPT ![r][op] = Resent(calls[r][op])]
      BY <1>4 DEF Resends, EndCall
    <2>2. /\ Resent(calls[r][op]).st = calls[r][op].st
          /\ Resent(calls[r][op]).executed = calls[r][op].executed
      BY <1>1 DEF Resent, TypeOK, CallRecord
    <2>3. \A q \in Request, o \in Op : /\ calls'[q][o].st = calls[q][o].st
                                      /\ calls'[q][o].executed = calls[q][o].executed
      BY <1>1, <2>1, <2>2, CallUpdate DEF TypeOK
    <2> QED BY <1>1, <1>2, <2>3, Stutters DEF SameSaga, Issued
  <1>5. ASSUME NEW op \in Op, ServerExecutes(r, op) PROVE Saga!Effect(r, op)
    <2> DEFINE c == calls[r][op]
    <2>1. calls' = [calls EXCEPT ![r][op] = Executed(c)] /\ c.executed < c.sent
      BY <1>5 DEF ServerExecutes, EndCall, CanExecute
    <2>2. c \in CallRecord /\ c.st # "none" /\ c.executed < MAX_RETRIES
      BY <1>1, <2>1, MaxRetriesAssumption DEF IInv, CallInv, TypeOK, CallRecord
    <2>3. Executed(c).st = c.st /\ Executed(c).executed = c.executed + 1
      BY <2>2 DEF Executed, CallRecord
    <2>4. \A q \in Request \ {r} : SameSaga(q)
      <3>1. \A q \in Request \ {r} : calls'[q] = calls[q]
        BY <1>1, <2>1 DEF TypeOK
      <3> QED BY <1>1, <1>2, <3>1, Others
    <2>5. \A o \in Op : Issued(r, o)' <=> Issued(r, o)
      BY <1>1, <2>1, <2>3, CallUpdate DEF TypeOK, Issued
    <2>6. Asked(r)' = Asked(r) /\ op \in Asked(r)
      BY <2>2, <2>5 DEF Asked, Issued
    <2>7. [o \in Op |-> calls'[r][o].executed] = [SagaOf(r).done EXCEPT ![op] = @ + 1]
      <3>1. \A o \in Op : calls'[r][o].executed = IF o = op THEN calls[r][o].executed + 1
                                                          ELSE calls[r][o].executed
        BY <1>1, <2>1, <2>3, CallUpdate DEF TypeOK
      <3>2. SagaOf(r).done = [o \in Op |-> calls[r][o].executed]
        BY Shape
      <3> QED BY <3>1, <3>2
    <2>8. SagaOf(r)' = [stage |-> SagaOf(r).stage, kind |-> SagaOf(r).kind,
                        asked |-> SagaOf(r).asked,
                        done |-> [SagaOf(r).done EXCEPT ![op] = @ + 1],
                        entered |-> SagaOf(r).entered]
      BY <1>1, <1>2, <2>6, <2>7, Shape DEF SagaOf
    <2>9. Saga!Set(r, [SagaOf(r) EXCEPT !.done[op] = @ + 1])
      BY <1>1, <2>4, <2>8, SagaTyped, EffectForm, OneSaga DEF Saga!SagaRecord
    <2> QED BY <2>2, <2>6, <2>9, Shape DEF Saga!Effect
  <1> QED BY <1>3, <1>4, <1>5 DEF Server

\* A handler whose call is over goes on to another place, with one more call
\* (next) or none (next = op).
Stepped(r, op, c, next, place) ==
  /\ calls[r][op].st = "open"
  /\ c \in {Returned(calls[r][op]), GivenUp(calls[r][op])}
  /\ next = op \/ calls[r][next].st = "none"
  /\ Closes(r, op, c, next)
  /\ pc' = [pc EXCEPT ![r] = place]
  /\ UNCHANGED <<ledger, req, crashes>>

Outcome(r, op, next, place) ==
  /\ SagaOf(r)' = [stage |-> StageOf(r)', kind |-> SagaOf(r).kind,
                   asked |-> SagaOf(r).asked \cup {next},
                   done |-> SagaOf(r).done, entered |-> SagaOf(r).entered]
  /\ op \in SagaOf(r).asked /\ SagaOf(r).kind = req[r].kind
  /\ SagaOf(r).done[op] = calls[r][op].executed
  /\ \A q \in Request \ {r} : SameSaga(q)
  /\ pc'[r] = place

LEMMA PatchStep ==
  ASSUME IInv, NEW r \in Request, NEW op \in Op, NEW c, NEW next \in Op, NEW place,
         Stepped(r, op, c, next, place)
  PROVE  Outcome(r, op, next, place)
  <1> USE DEF Stepped
  <1>1. TypeOK /\ calls[r][op] \in CallRecord /\ pc'[r] = place
    BY DEF IInv, TypeOK
  <1>2. c.st # "none" /\ c.executed = calls[r][op].executed
    BY <1>1 DEF Returned, GivenUp, CallRecord
  <1>3. \A q \in Request : Legs(q)' = Legs(q)
    BY DEF Legs
  <1>4. \A q \in Request \ {r} : SameSaga(q)
    BY <1>1, <1>3, Others DEF Closes, TypeOK
  <1>5. op \in Asked(r) /\ Asked(r) # {}
    BY DEF Asked, Issued
  <1>6. \A o \in Op : /\ Issued(r, o)' <=> Issued(r, o) \/ o \in {next}
                      /\ calls'[r][o].executed = calls[r][o].executed
    <2>1. calls'[r][op].st # "none" /\ calls'[r][op].executed = calls[r][op].executed
      BY <1>2 DEF Closes
    <2>2. next # op => /\ calls'[r][next].st = "open"
                       /\ calls'[r][next].executed = calls[r][next].executed
      <3>1. ASSUME calls[r][next].st = "none" PROVE calls[r][next].executed = 0
        <4>1. /\ calls[r][next].sent = 0 /\ calls[r][next].executed \in Nat
              /\ calls[r][next].executed <= calls[r][next].sent
          BY <1>1, <3>1 DEF IInv, CallInv, TypeOK, CallRecord
        <4> QED BY <4>1
      <3> QED BY <3>1 DEF Closes, OpenCall
    <2> QED BY <2>1, <2>2 DEF Closes, Issued
  <1>7. SagaOf(r)' = [stage |-> StageOf(r)',
                      kind |-> IF Asked(r) \cup {next} = {} THEN "none" ELSE req[r].kind,
                      asked |-> Asked(r) \cup {next},
                      done |-> SagaOf(r).done, entered |-> SagaOf(r).entered]
    <2>1. {next} \in SUBSET Op
      OBVIOUS
    <2> QED BY <1>3, <1>6, <2>1, Advances
  <1>8. SagaOf(r).kind = req[r].kind
    BY <1>5, Shape
  <1>9. SagaOf(r).done[op] = calls[r][op].executed
    BY Shape
  <1> QED BY <1>1, <1>4, <1>5, <1>7, <1>8, <1>9, Shape DEF Outcome

\* What an outcome is in the forms of MoneySaga.
LEMMA OutcomeForms ==
  ASSUME IInv, NEW r \in Request, NEW op \in Op, NEW next \in Op, NEW place,
         NEW stage \in Saga!Stage, Outcome(r, op, next, place), StageOf(r)' = stage
  PROVE  /\ SagaOf(r)' = Saga!Asking(SagaOf(r), stage, next)
         /\ next = op => SagaOf(r)' = [SagaOf(r) EXCEPT !.stage = stage]
  <1> DEFINE s == SagaOf(r)
  <1>1. s \in Saga!SagaRecord
    BY SagaTyped
  <1>2. /\ SagaOf(r)' = [stage |-> stage, kind |-> s.kind, asked |-> s.asked \cup {next},
                         done |-> s.done, entered |-> s.entered]
        /\ op \in s.asked
    BY DEF Outcome
  <1> HIDE DEF s
  <1>3. Saga!Asking(s, stage, next) =
          [stage |-> stage, kind |-> s.kind, asked |-> s.asked \cup {next},
           done |-> s.done, entered |-> s.entered]
    BY <1>1, AskingForm
  <1>4. [s EXCEPT !.stage = stage] =
          [stage |-> stage, kind |-> s.kind, asked |-> s.asked,
           done |-> s.done, entered |-> s.entered]
    BY <1>1, StageForm
  <1>5. next = op => s.asked \cup {next} = s.asked
    BY <1>2
  <1>6. SagaOf(r)' = Saga!Asking(s, stage, next)
    BY <1>2, <1>3
  <1>7. ASSUME next = op PROVE SagaOf(r)' = [s EXCEPT !.stage = stage]
    BY <1>2, <1>4, <1>5, <1>7
  <1> QED BY <1>6, <1>7 DEF s

LEMMA DebitReturnsRefines ==
  ASSUME IInv, NEW r \in Request, DebitReturns(r)
  PROVE  Saga!Take(r)
  <1> DEFINE c == Returned(calls[r]["debit"])
  <1>0. /\ TypeOK /\ pc[r] = "debiting" /\ calls[r]["debit"].st = "open"
        /\ calls[r]["debit"].executed > 0 /\ calls[r]["credit"].st = "none"
        /\ "debit" \in Op /\ "credit" \in Op /\ "credit" # "debit"
        /\ UNCHANGED <<ledger, req, crashes>>
    BY DEF DebitReturns, IInv, ControlInv, CallsAt, Sts, CanReturn, Op, env
  <1>a. c \in CallRecord /\ c \in {Returned(calls[r]["debit"]), GivenUp(calls[r]["debit"])}
    BY <1>0, PatchFacts
  <1> HIDE DEF c
  <1>1. /\ TypeOK /\ pc[r] = "debiting" /\ calls[r]["debit"].st = "open"
        /\ calls[r]["debit"].executed > 0 /\ calls[r]["credit"].st = "none"
        /\ "debit" \in Op /\ "credit" \in Op /\ c \in CallRecord
        /\ c \in {Returned(calls[r]["debit"]), GivenUp(calls[r]["debit"])}
        /\ UNCHANGED <<ledger, req, crashes>>
    BY <1>0, <1>a
  <1>2. CASE req[r].kind = "TRANSFER"
    <2>1. Closes(r, "debit", c, "credit") /\ pc' = [pc EXCEPT ![r] = "crediting"]
      <3>1. /\ calls' = [calls EXCEPT ![r]["debit"] = c, ![r]["credit"] = OpenCall]
            /\ pc' = [pc EXCEPT ![r] = "crediting"]
        BY <1>2 DEF DebitReturns, Goto, c
      <3> QED BY <1>0, <1>1, <3>1, ClosesAndOpens
    <2>2. Outcome(r, "debit", "credit", "crediting")
      <3>1. Stepped(r, "debit", c, "credit", "crediting")
        BY <1>1, <2>1 DEF Stepped
      <3> QED BY <1>1, <3>1, PatchStep
    <2>3. StageOf(r)' = "giving" /\ StageOf(r) = "taking" /\ "giving" \in Saga!Stage
      BY <1>1, <2>2 DEF Outcome, StageOf, Saga!Stage
    <2>4. Saga!Set(r, Saga!Asking(SagaOf(r), "giving", "credit"))
      <3>1. SagaOf(r)' = Saga!Asking(SagaOf(r), "giving", "credit")
        BY <1>1, <2>2, <2>3, OutcomeForms
      <3> QED BY <1>1, <2>2, <3>1, OneSaga DEF Outcome
    <2> QED BY <1>1, <1>2, <2>2, <2>3, <2>4, Shape DEF Outcome, Saga!Take
  <1>3. CASE req[r].kind # "TRANSFER"
    <2>1. Closes(r, "debit", c, "debit") /\ pc' = [pc EXCEPT ![r] = "recording"]
      <3>1. EndCall(r, "debit", c) /\ pc' = [pc EXCEPT ![r] = "recording"]
        BY <1>3 DEF DebitReturns, Goto, c
      <3> QED BY <1>1, <3>1, ClosesLast
    <2>2. Outcome(r, "debit", "debit", "recording")
      <3>1. Stepped(r, "debit", c, "debit", "recording")
        BY <1>1, <2>1 DEF Stepped
      <3> QED BY <1>1, <3>1, PatchStep
    <2>3. StageOf(r)' = "entering" /\ StageOf(r) = "taking" /\ "entering" \in Saga!Stage
      BY <1>1, <2>2 DEF Outcome, StageOf, Saga!Stage
    <2>5. Saga!Set(r, [SagaOf(r) EXCEPT !.stage = "entering"])
      <3>1. SagaOf(r)' = [SagaOf(r) EXCEPT !.stage = "entering"]
        BY <1>1, <2>2, <2>3, OutcomeForms
      <3> QED BY <1>1, <2>2, <3>1, OneSaga DEF Outcome
    <2> QED BY <1>1, <1>3, <2>2, <2>3, <2>5, Shape DEF Outcome, Saga!Take
  <1> QED BY <1>2, <1>3

\* A handler that answers when its call is over.
LEMMA LastCall ==
  ASSUME IInv, NEW r \in Request, NEW op \in Op, calls[r][op].st = "open",
         NEW c \in CallRecord, c \in {Returned(calls[r][op]), GivenUp(calls[r][op])},
         EndCall(r, op, c), pc' = [pc EXCEPT ![r] = "done"],
         UNCHANGED <<ledger, req, crashes>>
  PROVE  Saga!Set(r, Saga!Over(SagaOf(r)))
  <1>1. TypeOK /\ Closes(r, op, c, op)
    BY ClosesLast DEF IInv
  <1>2. Outcome(r, op, op, "done")
    <2>1. Stepped(r, op, c, op, "done")
      BY <1>1 DEF Stepped
    <2> QED BY <2>1, PatchStep
  <1>3. StageOf(r)' = "over" /\ SagaOf(r).asked \cup {op} = SagaOf(r).asked
    BY <1>2 DEF Outcome, StageOf
  <1> QED BY <1>2, <1>3, Shape, OneSaga DEF Outcome

LEMMA CreditRefines ==
  ASSUME IInv, NEW r \in Request, CreditReturns(r) \/ CreditFails(r)
  PROVE  Saga!Give(r) \/ Saga!GiveFails(r)
  <1>0. /\ TypeOK /\ pc[r] = "crediting" /\ calls[r]["credit"].st = "open"
        /\ calls[r]["rollback"].st = "none" /\ "credit" \in Op /\ "rollback" \in Op
        /\ "rollback" # "credit" /\ UNCHANGED <<ledger, req, crashes>>
    BY DEF CreditReturns, CreditFails, IInv, ControlInv, CallsAt, Sts, CanReturn, CanFail,
           Op, tables, env
  <1>1. /\ TypeOK /\ pc[r] = "crediting" /\ calls[r]["credit"].st = "open"
        /\ calls[r]["rollback"].st = "none" /\ "credit" \in Op /\ "rollback" \in Op
        /\ UNCHANGED <<ledger, req, crashes>>
        /\ Returned(calls[r]["credit"]) \in CallRecord
        /\ GivenUp(calls[r]["credit"]) \in CallRecord
    BY <1>0, PatchFacts
  <1>2. StageOf(r) = "giving" /\ {"entering", "restoring"} \subseteq Saga!Stage
    BY <1>1 DEF StageOf, Saga!Stage
  <1>3. CASE CreditReturns(r)
    <2> DEFINE c == Returned(calls[r]["credit"])
    <2>1. Closes(r, "credit", c, "credit") /\ pc' = [pc EXCEPT ![r] = "recording"]
      <3>1. EndCall(r, "credit", c) /\ pc' = [pc EXCEPT ![r] = "recording"]
        BY <1>3 DEF CreditReturns, Goto
      <3> QED BY <1>0, <1>1, <3>1, ClosesLast
    <2>2. Outcome(r, "credit", "credit", "recording")
      <3>1. Stepped(r, "credit", c, "credit", "recording")
        BY <1>1, <2>1 DEF Stepped
      <3> QED BY <1>1, <3>1, PatchStep
    <2>3. StageOf(r)' = "entering" /\ calls[r]["credit"].executed > 0
      BY <1>3, <2>2 DEF Outcome, StageOf, CreditReturns, CanReturn
    <2>5. Saga!Set(r, [SagaOf(r) EXCEPT !.stage = "entering"])
      <3>1. SagaOf(r)' = [SagaOf(r) EXCEPT !.stage = "entering"]
        BY <1>1, <1>2, <2>2, <2>3, OutcomeForms
      <3> QED BY <1>1, <2>2, <3>1, OneSaga DEF Outcome
    <2> QED BY <1>2, <2>2, <2>3, <2>5, Shape DEF Outcome, Saga!Give
  <1>4. CASE CreditFails(r) /\ req[r].kind = "TRANSFER"
    <2> DEFINE c == GivenUp(calls[r]["credit"])
    <2>1. Closes(r, "credit", c, "rollback") /\ pc' = [pc EXCEPT ![r] = "rolling"]
      <3>1. /\ calls' = [calls EXCEPT ![r]["credit"] = c, ![r]["rollback"] = OpenCall]
            /\ pc' = [pc EXCEPT ![r] = "rolling"]
        BY <1>4 DEF CreditFails, Goto
      <3> QED BY <1>0, <1>1, <3>1, ClosesAndOpens
    <2>2. Outcome(r, "credit", "rollback", "rolling")
      <3>1. Stepped(r, "credit", c, "rollback", "rolling")
        BY <1>1, <2>1 DEF Stepped
      <3> QED BY <1>1, <3>1, PatchStep
    <2>3. StageOf(r)' = "restoring"
      BY <2>2 DEF Outcome, StageOf
    <2>4. Saga!Set(r, Saga!Asking(SagaOf(r), "restoring", "rollback"))
      <3>1. SagaOf(r)' = Saga!Asking(SagaOf(r), "restoring", "rollback")
        BY <1>1, <1>2, <2>2, <2>3, OutcomeForms
      <3> QED BY <1>1, <2>2, <3>1, OneSaga DEF Outcome
    <2> QED BY <1>2, <1>4, <2>2, <2>4, Shape DEF Outcome, Saga!GiveFails
  <1>5. CASE CreditFails(r) /\ req[r].kind # "TRANSFER"
    <2>1. Saga!Set(r, Saga!Over(SagaOf(r)))
      BY <1>1, <1>5, LastCall DEF CreditFails, Respond
    <2>2. SagaOf(r).kind # "TRANSFER"
      BY <1>1, <1>5, Shape DEF Asked, Issued
    <2> QED BY <1>2, <2>1, <2>2, Shape DEF Saga!GiveFails
  <1> QED BY <1>3, <1>4, <1>5

LEMMA PatchRefines ==
  ASSUME IInv, NEW r \in Request, Patch(r)
  PROVE  Saga!Handle(r)
  <1>1. CASE DebitReturns(r)
    BY <1>1, DebitReturnsRefines DEF Saga!Handle
  <1>2. CASE CreditReturns(r) \/ CreditFails(r)
    BY <1>2, CreditRefines DEF Saga!Handle
  <1>3. CASE DebitFails(r)
    <2>1. /\ "debit" \in Op /\ calls[r]["debit"] \in CallRecord
          /\ GivenUp(calls[r]["debit"]) \in CallRecord /\ calls[r]["debit"].st = "open"
          /\ StageOf(r) = "taking" /\ UNCHANGED <<ledger, req, crashes>>
      BY <1>3, CallFacts DEF DebitFails, CanFail, IInv, TypeOK, Op, StageOf, tables, env
    <2>2. Saga!Set(r, Saga!Over(SagaOf(r)))
      BY <1>3, <2>1, LastCall DEF DebitFails, Respond
    <2> QED BY <2>1, <2>2, Shape DEF Saga!TakeFails, Saga!Handle
  <1>4. CASE RollbackReturns(r) \/ RollbackFails(r)
    <2>1. PICK c \in CallRecord :
            /\ c \in {Returned(calls[r]["rollback"]), GivenUp(calls[r]["rollback"])}
            /\ RollbackEnds(r, c)
      BY <1>4, CallFacts DEF RollbackReturns, RollbackFails, IInv, TypeOK, Op
    <2>2. /\ "rollback" \in Op /\ calls[r]["rollback"].st = "open"
          /\ StageOf(r) = "restoring" /\ UNCHANGED <<ledger, req, crashes>>
      BY <1>4, <2>1 DEF RollbackReturns, RollbackFails, RollbackEnds, CanReturn, CanFail,
                        Op, StageOf, tables, env
    <2>3. Saga!Set(r, Saga!Over(SagaOf(r)))
      BY <2>1, <2>2, LastCall DEF RollbackEnds, Respond
    <2> QED BY <2>2, <2>3, Shape DEF Saga!RestoreEnds, Saga!Handle
  <1> QED BY <1>1, <1>2, <1>3, <1>4 DEF Patch

-----------------------------------------------------------------------------
(* The rows of a transaction, the environment and the death of the process. *)

\* The rows of a finished request go into the ledger.
LEMMA EnterRefines ==
  ASSUME IInv, NEW r \in Request, pc[r] = "recording",
         NEW p \in {"counting", "done"}, pc' = [pc EXCEPT ![r] = p],
         NEW rows, ledger' = ledger \cup rows, rows # {},
         \A row \in rows : row.by = r,
         UNCHANGED <<calls, req, crashes>>
  PROVE  Saga!Enter(r)
  <1>1. TypeOK
    BY DEF IInv
  <1>2. Legs(r)' # {} /\ \A q \in Request \ {r} : Legs(q)' = Legs(q)
    BY DEF Legs
  <1>3. \A q \in Request \ {r} : SameSaga(q)
    BY <1>1, <1>2, Others DEF TypeOK
  <1>4. Asked(r)' = Asked(r)
    BY DEF Asked, Issued
  <1>5. StageOf(r)' = "over" /\ StageOf(r) = "entering"
    BY <1>1 DEF StageOf, TypeOK
  <1> DEFINE s == SagaOf(r)
  <1>6. SagaOf(r)' = [stage |-> "over", kind |-> s.kind, asked |-> s.asked,
                      done |-> s.done, entered |-> TRUE]
    BY <1>2, <1>4, <1>5, Shape DEF SagaOf
  <1>7. s \in Saga!SagaRecord
    BY SagaTyped
  <1>8. SagaOf(r)' = [Saga!Over(SagaOf(r)) EXCEPT !.entered = TRUE]
    BY <1>6, <1>7, EnterForm
  <1>9. Saga!Set(r, [Saga!Over(SagaOf(r)) EXCEPT !.entered = TRUE])
    BY <1>3, <1>8, OneSaga
  <1> QED BY <1>5, <1>9, Shape DEF Saga!Enter

LEMMA CommitRefines ==
  ASSUME IInv, NEW r \in Request, Commit(r)
  PROVE  Saga!Enter(r) \/ Saga!EnterFails(r) \/ UNCHANGED <<sg, crashes>>
  <1>1. TypeOK
    BY DEF IInv
  <1>2. CASE RecordSingle(r)
    <2> DEFINE rows == {Leg(r, req[r].kind)}
    <2>1. rows # {} /\ \A row \in rows : row.by = r
      BY DEF Leg
    <2>2. /\ pc[r] = "recording" /\ pc' = [pc EXCEPT ![r] = "done"]
          /\ ledger' = ledger \cup rows /\ UNCHANGED <<calls, req, crashes>>
      BY <1>2 DEF RecordSingle, Respond, env
    <2> HIDE DEF rows
    <2> QED BY <2>1, <2>2, EnterRefines
  <1>3. CASE InsertBoth(r)
    <2> DEFINE rows == {Leg(r, "TRANSFER_OUT"), Leg(r, "TRANSFER_IN")}
    <2>1. \A row \in rows : row.by = r
      BY DEF Leg
    <2>2. /\ pc[r] = "recording" /\ pc' = [pc EXCEPT ![r] = "counting"]
          /\ ledger' = ledger \cup rows /\ UNCHANGED <<calls, req, crashes>>
      BY <1>3 DEF InsertBoth, Goto, env
    <2>3. rows # {}
      OBVIOUS
    <2> HIDE DEF rows
    <2> QED BY <2>1, <2>2, <2>3, EnterRefines
  <1>4. CASE IncrementDailyTotal(r) \/ StoreIdempotent(r) \/ DbFails(r)
    <2>1. /\ UNCHANGED <<calls, req, ledger, crashes>>
          /\ \E p \in {"storing", "done"} : pc' = [pc EXCEPT ![r] = p]
          /\ pc[r] \in {"recording", "counting", "storing"}
          /\ pc[r] = "recording" => pc' = [pc EXCEPT ![r] = "done"]
      BY <1>4 DEF IncrementDailyTotal, StoreIdempotent, DbFails, Goto, Respond, tables, env,
                  SyncPhase
    <2>2. \A q \in Request : Legs(q)' = Legs(q)
      BY <2>1 DEF Legs
    <2>3. \A q \in Request \ {r} : SameSaga(q)
      BY <1>1, <2>1, <2>2, Others DEF TypeOK
    <2>4. CASE pc[r] = "recording"
      <3>1. pc'[r] = "done" /\ StageOf(r) = "entering"
        BY <1>1, <2>1, <2>4 DEF TypeOK, StageOf
      <3>2. SagaOf(r)' = Saga!Over(SagaOf(r))
        BY <2>1, <2>2, <3>1, Ends DEF Issued
      <3>3. Saga!Set(r, Saga!Over(SagaOf(r)))
        BY <2>1, <2>3, <3>2, OneSaga
      <3> QED BY <3>1, <3>3, Shape DEF Saga!EnterFails
    <2>5. CASE pc[r] # "recording"
      <3>1. StageOf(r) = "over" /\ StageOf(r)' = "over"
        BY <1>1, <2>1, <2>5 DEF TypeOK, StageOf
      <3>2. SameSaga(r)
        BY <2>1, <2>2, <3>1 DEF SameSaga, Issued
      <3> QED BY <2>1, <2>3, <3>2, Stutters
    <2> QED BY <2>4, <2>5
  <1> QED BY <1>2, <1>3, <1>4 DEF Commit

LEMMA QuietRefines ==
  ASSUME Tick \/ (\E a \in Account : AccountChanges(a)) \/ UNCHANGED vars
  PROVE  UNCHANGED <<sg, crashes>>
  <1>1. UNCHANGED <<calls, req, ledger, pc, crashes>>
    BY DEF Tick, AccountChanges, tables, vars
  <1> QED BY <1>1, Stutters DEF SameSaga, StageOf, Issued, Legs

LEMMA CrashRefines ==
  ASSUME IInv, Crash
  PROVE  Saga!Die
  <1> DEFINE S == {r \in Request : pc[r] = "idle"}
  <1>1. TypeOK /\ crashes < MaxCrashes /\ crashes' = crashes + 1
    BY DEF IInv, Crash
  <1>2. S \in SUBSET {r \in Request : sg[r].stage = "waiting"}
    BY Shape DEF sg, StageOf
  <1>3. ASSUME NEW r \in Request
        PROVE  /\ \A op \in Op : /\ Issued(r, op)' <=> Issued(r, op)
                                 /\ calls'[r][op].executed = calls[r][op].executed
               /\ req'[r] = req[r] /\ Legs(r)' = Legs(r)
               /\ pc'[r] = IF r \in S THEN pc[r] ELSE "done"
    <2>1. \A op \in Op : calls'[r][op] = GivenUp(calls[r][op]) /\ calls[r][op] \in CallRecord
      BY <1>1 DEF Crash, TypeOK
    <2>2. \A op \in Op : /\ calls'[r][op].st = "none" <=> calls[r][op].st = "none"
                         /\ calls'[r][op].executed = calls[r][op].executed
      BY <2>1 DEF GivenUp, CallRecord
    <2>3. pc'[r] = IF r \in S THEN pc[r] ELSE "done"
      BY <1>1 DEF Crash, TypeOK, InFlight, SyncPhase, AwaitPhase
    <2> QED BY <2>2, <2>3 DEF Issued, Crash, Legs, tables
  <1>4. ASSUME NEW r \in Request
        PROVE  SagaOf(r)' = IF r \in S THEN SagaOf(r) ELSE Saga!Over(SagaOf(r))
    <2>1. CASE r \in S
      BY <1>3, <2>1, SagaFrame DEF SameSaga, StageOf, Issued
    <2>2. CASE r \notin S
      BY <1>3, <2>2, Ends
    <2> QED BY <2>1, <2>2
  <1> HIDE DEF S
  <1>5. sg' = [r \in Request |-> IF r \in S THEN sg[r] ELSE Saga!Over(sg[r])]
    BY <1>4 DEF sg
  <1> QED BY <1>1, <1>2, <1>5 DEF Saga!Die, sg

LEMMA RefinedNext == IInv /\ [Next]_vars => [Saga!Next]_<<sg, crashes>>
  <1> SUFFICES ASSUME IInv, [Next]_vars PROVE Saga!Next \/ UNCHANGED <<sg, crashes>>
    OBVIOUS
  <1>1. ASSUME NEW r \in Request, Saga!Handle(r) PROVE Saga!Next
    BY <1>1 DEF Saga!Next
  <1>2. CASE \E r \in Request : Arrival(r)
    BY <1>1, <1>2, ArrivalRefines DEF Saga!Handle
  <1>3. CASE \E r \in Request : Patch(r)
    BY <1>1, <1>3, PatchRefines
  <1>4. CASE \E r \in Request : Commit(r)
    BY <1>1, <1>4, CommitRefines DEF Saga!Handle
  <1>5. CASE \E r \in Request : Server(r)
    BY <1>5, ServerRefines, OpFacts DEF Saga!Next
  <1>6. CASE \E r \in Request, a \in Account : Get(r, a)
    BY <1>1, <1>6, GetRefines DEF Saga!Handle
  <1>7. CASE Crash
    BY <1>7, CrashRefines DEF Saga!Next
  <1>8. CASE Tick \/ (\E a \in Account : AccountChanges(a)) \/ UNCHANGED vars
    BY <1>8, QuietRefines
  <1> QED BY <1>2, <1>3, <1>4, <1>5, <1>6, <1>7, <1>8 DEF Next

\* The service moves money only as MoneySaga allows, whatever the network, SQLite
\* and the process do: every step of it is a step of the saga or none.
THEOREM ServiceImplementsSaga == Spec => ImplementsSaga
  <1>1. Init => Saga!Init
    BY RefinedInit
  <1>2. IInv /\ [Next]_vars => [Saga!Next]_(Saga!sagaVars)
    BY RefinedNext DEF Saga!sagaVars, sg
  <1> QED BY <1>1, <1>2, Invariant, PTL DEF Spec, ImplementsSaga, Saga!Spec

Abstract == INSTANCE MoneySagaProofs WITH saga <- [r \in Request |-> SagaOf(r)],
                                         deaths <- crashes, MaxDeaths <- MaxCrashes

\* What MoneySagaProofs shows of the saga holds of the service: its PATCH calls
\* and rows come in the order of the money, on every path.
THEOREM ServiceMovesMoneyInOrder == Spec => []MoneyMovesInOrder
  <1>1. Abstract!Spec => []Abstract!MoneyInOrder
    BY Abstract!OrderedMoney, MaxRetriesAssumption
  <1>2. Abstract!Init <=> Saga!Init
    BY DEF Abstract!Init, Saga!Init, Abstract!Waiting, Saga!Waiting, Abstract!Op, Saga!Op
  <1>3. [Abstract!Next]_(Abstract!sagaVars) <=> [Saga!Next]_(Saga!sagaVars)
    BY Zenon DEF Abstract!Next, Saga!Next, Abstract!sagaVars, Saga!sagaVars, Abstract!Handle, Saga!Handle,
           Abstract!Begin, Saga!Begin, Abstract!Refuse, Saga!Refuse, Abstract!Take, Saga!Take,
           Abstract!TakeFails, Saga!TakeFails, Abstract!Give, Saga!Give, Abstract!GiveFails,
           Saga!GiveFails, Abstract!RestoreEnds, Saga!RestoreEnds, Abstract!Enter, Saga!Enter,
           Abstract!EnterFails, Saga!EnterFails, Abstract!Effect, Saga!Effect, Abstract!Die, Saga!Die,
           Abstract!Set, Saga!Set, Abstract!Asking, Saga!Asking, Abstract!Over, Saga!Over,
           Abstract!Kind, Saga!Kind, Abstract!Op, Saga!Op
  <1>4. Abstract!MoneyInOrder <=> Saga!MoneyInOrder
    BY Zenon DEF Abstract!MoneyInOrder, Saga!MoneyInOrder, Abstract!Needs, Saga!Needs
  <1> QED BY <1>1, <1>2, <1>3, <1>4, ServiceImplementsSaga, PTL
          DEF ImplementsSaga, MoneyMovesInOrder, Abstract!Spec, Saga!Spec
=============================================================================
