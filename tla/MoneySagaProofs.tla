-------------------------- MODULE MoneySagaProofs --------------------------
(***************************************************************************)
(* The order of the money's steps, for any requests, attempts and deaths.  *)
(***************************************************************************)
EXTENDS MoneySaga, TLAPS

\* What a request has asked for at each stage, and what has been done of it.
StageInv ==
  \A r \in Request :
    LET s == saga[r]
    IN /\ s.stage = "waiting" => s.asked = {} /\ s.kind = "none"
       /\ s.stage = "taking" => s.asked = {"debit"} /\ s.kind \in {"WITHDRAWAL", "TRANSFER"}
       /\ s.stage = "giving" => /\ s.kind \in {"DEPOSIT", "TRANSFER"}
                                /\ s.asked = Needs(s.kind)
       /\ s.stage = "restoring" => s.kind = "TRANSFER"
       /\ s.stage = "entering" => /\ s.kind \in Kind /\ s.asked = Needs(s.kind)
                                  /\ \A op \in Needs(s.kind) : s.done[op] > 0
       /\ s.entered => s.stage = "over" /\ s.asked = Needs(s.kind) /\ s.kind \in Kind

SagaInv == TypeOK /\ StageInv /\ MoneyInOrder

\* SagaInv of one request: a step changes one saga.
Fine(s) ==
  /\ s \in SagaRecord
  /\ s.stage = "waiting" => s.asked = {} /\ s.kind = "none"
  /\ s.stage = "taking" => s.asked = {"debit"} /\ s.kind \in {"WITHDRAWAL", "TRANSFER"}
  /\ s.stage = "giving" => s.kind \in {"DEPOSIT", "TRANSFER"} /\ s.asked = Needs(s.kind)
  /\ s.stage = "restoring" => s.kind = "TRANSFER"
  /\ s.stage = "entering" => /\ s.kind \in Kind /\ s.asked = Needs(s.kind)
                             /\ \A op \in Needs(s.kind) : s.done[op] > 0
  /\ s.entered => s.stage = "over" /\ s.asked = Needs(s.kind) /\ s.kind \in Kind
  /\ s.kind = "TRANSFER" /\ "credit" \in s.asked => s.done["debit"] > 0
  /\ "rollback" \in s.asked => s.kind = "TRANSFER" /\ ~s.entered
  /\ s.entered => \A op \in Needs(s.kind) : s.done[op] > 0

LEMMA FineIsInv ==
  SagaInv <=> /\ saga = [r \in Request |-> saga[r]] /\ deaths \in Nat
              /\ \A r \in Request : Fine(saga[r])
  BY DEF SagaInv, TypeOK, StageInv, MoneyInOrder, Fine

LEMMA InitSagaInv == Init => SagaInv
  <1> SUFFICES ASSUME Init PROVE SagaInv
    OBVIOUS
  <1>1. Fine(Waiting)
    BY MaxRetriesAssumption DEF Fine, Waiting, SagaRecord, Stage
  <1> QED BY <1>1, FineIsInv, MaxRetriesAssumption DEF Init

LEMMA SetKeeps ==
  ASSUME SagaInv, NEW r \in Request, NEW s, Set(r, s), Fine(s)
  PROVE  SagaInv'
  <1>1. /\ saga = [q \in Request |-> saga[q]] /\ deaths \in Nat
        /\ \A q \in Request : Fine(saga[q])
    BY FineIsInv
  <1>2. /\ saga' = [q \in Request |-> saga'[q]] /\ deaths' \in Nat
        /\ \A q \in Request : Fine(saga'[q])
    BY <1>1 DEF Set
  <1>3. SagaInv' <=> /\ saga' = [q \in Request |-> saga'[q]] /\ deaths' \in Nat
                     /\ \A q \in Request : Fine(saga'[q])
    BY DEF SagaInv, TypeOK, StageInv, MoneyInOrder, Fine
  <1> QED BY <1>2, <1>3

LEMMA NeedsFacts ==
  /\ Needs("DEPOSIT") = {"credit"} /\ Needs("WITHDRAWAL") = {"debit"}
  /\ Needs("TRANSFER") = {"debit", "credit"}
  BY DEF Needs

LEMMA NextSagaInv == SagaInv /\ [Next]_sagaVars => SagaInv'
  <1> SUFFICES ASSUME SagaInv, [Next]_sagaVars PROVE SagaInv'
    OBVIOUS
  <1>0. \A r \in Request : Fine(saga[r])
    BY FineIsInv
  <1>1. ASSUME NEW r \in Request, Handle(r) PROVE SagaInv'
    <2> DEFINE s == saga[r]
    <2>0. Fine(s) BY <1>0
    <2>1. CASE Begin(r)
      <3>1. PICK k \in Kind :
              Set(r, IF k = "DEPOSIT" THEN Asking([s EXCEPT !.kind = k], "giving", "credit")
                                      ELSE Asking([s EXCEPT !.kind = k], "taking", "debit"))
        BY <2>1 DEF Begin
      <3>2. s.stage = "waiting" BY <2>1 DEF Begin
      <3>3. Fine(IF k = "DEPOSIT" THEN Asking([s EXCEPT !.kind = k], "giving", "credit")
                                  ELSE Asking([s EXCEPT !.kind = k], "taking", "debit"))
        BY <2>0, <3>2, NeedsFacts DEF Fine, Asking, SagaRecord, Kind, Op, Stage
      <3> QED BY <3>1, <3>3, SetKeeps
    <2>2. CASE Refuse(r) \/ TakeFails(r) \/ RestoreEnds(r) \/ EnterFails(r)
      <3>1. Fine(Over(s))
        BY <2>0, <2>2 DEF Fine, Over, SagaRecord, Stage, Refuse, TakeFails, RestoreEnds, EnterFails
      <3> QED BY <2>2, <3>1, SetKeeps DEF Refuse, TakeFails, RestoreEnds, EnterFails
    <2>3. CASE Take(r)
      <3> DEFINE t == IF s.kind = "TRANSFER" THEN Asking(s, "giving", "credit")
                                             ELSE [s EXCEPT !.stage = "entering"]
      <3>1. Fine(t)
        BY <2>0, <2>3, NeedsFacts DEF Fine, Asking, SagaRecord, Stage, Kind, Op, Take
      <3> QED BY <2>3, <3>1, SetKeeps DEF Take
    <2>4. CASE Give(r)
      <3>1. Fine([s EXCEPT !.stage = "entering"])
        BY <2>0, <2>4, NeedsFacts DEF Fine, SagaRecord, Stage, Kind, Op, Give
      <3> QED BY <2>4, <3>1, SetKeeps DEF Give
    <2>5. CASE GiveFails(r)
      <3> DEFINE t == IF s.kind = "TRANSFER" THEN Asking(s, "restoring", "rollback") ELSE Over(s)
      <3>1. Fine(t)
        BY <2>0, <2>5, NeedsFacts DEF Fine, Asking, Over, SagaRecord, Stage, Kind, Op, GiveFails
      <3> QED BY <2>5, <3>1, SetKeeps DEF GiveFails
    <2>6. CASE Enter(r)
      <3> DEFINE t == [Over(s) EXCEPT !.entered = TRUE]
      <3>0. s.stage = "entering" /\ s \in SagaRecord
        BY <2>0, <2>6 DEF Enter, Fine
      <3>2. /\ t.stage = "over" /\ t.entered /\ t.kind = s.kind /\ t.asked = s.asked
            /\ t.done = s.done /\ t \in SagaRecord
        BY <3>0 DEF Over, SagaRecord, Stage
      <3>3. s.kind \in Kind /\ s.asked = Needs(s.kind) /\ \A op \in Needs(s.kind) : s.done[op] > 0
        BY <2>0, <3>0 DEF Fine
      <3>4. "rollback" \notin s.asked
        BY <3>3, NeedsFacts DEF Kind
      <3>5. s.kind = "TRANSFER" /\ "credit" \in s.asked => s.done["debit"] > 0
        BY <2>0 DEF Fine
      <3> HIDE DEF t
      <3>1. Fine(t)
        BY <3>2, <3>3, <3>4, <3>5 DEF Fine
      <3> USE DEF t
      <3> QED BY <2>6, <3>1, SetKeeps DEF Enter
    <2> QED BY <1>1, <2>1, <2>2, <2>3, <2>4, <2>5, <2>6 DEF Handle
  <1>2. ASSUME NEW r \in Request, NEW op \in Op, Effect(r, op) PROVE SagaInv'
    <2>1. Fine([saga[r] EXCEPT !.done[op] = @ + 1])
      BY <1>0, <1>2, MaxRetriesAssumption DEF Fine, SagaRecord, Effect
    <2> QED BY <1>2, <2>1, SetKeeps DEF Effect
  <1>3. CASE Die
    <2>1. \A r \in Request : saga'[r] \in {saga[r], Over(saga[r])}
      BY <1>3 DEF Die
    <2>2. \A r \in Request : Fine(Over(saga[r]))
      BY <1>0 DEF Fine, Over, SagaRecord, Stage
    <2>3. \A r \in Request : Fine(saga'[r])
      BY <1>0, <2>1, <2>2
    <2>4. saga' = [r \in Request |-> saga'[r]] /\ deaths' \in Nat
      BY <1>3, MaxRetriesAssumption DEF Die, SagaInv, TypeOK
    <2> QED BY <2>3, <2>4 DEF SagaInv, TypeOK, StageInv, MoneyInOrder, Fine
  <1>4. CASE UNCHANGED sagaVars
    BY <1>4 DEF sagaVars, SagaInv, TypeOK, StageInv, MoneyInOrder
  <1> QED BY <1>1, <1>2, <1>3, <1>4 DEF Next

\* The stage of a request tells what it has asked for, in every behaviour.
LEMMA SagaInvariant == Spec => []SagaInv
  BY InitSagaInv, NextSagaInv, PTL DEF Spec

\* Money is never given, restored or entered ahead of what it stands on.
THEOREM OrderedMoney == Spec => []MoneyInOrder
  BY SagaInvariant, PTL DEF SagaInv

\* No call has more effects than attempts.
THEOREM SagaTypes == Spec => []TypeOK
  BY SagaInvariant, PTL DEF SagaInv
=============================================================================
