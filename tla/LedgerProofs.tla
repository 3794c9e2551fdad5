---------------------------- MODULE LedgerProofs ----------------------------
(***************************************************************************)
(* What the service records and answers under every fault: nothing is      *)
(* recorded that was not done, nothing is recorded by halves, nothing      *)
(* stands for a transfer that was sent back, the answers are true and stay *)
(* so, and what is cached, recorded or decided on is one answer, or row.   *)
(***************************************************************************)
EXTENDS TransactionServiceProofs

Committing == {"counting", "storing"}
Committed  == Committing \cup {"done"}

\* A row belongs to a request that has made the movement it records.
RowInv ==
  \A row \in ledger :
    /\ pc[row.by] \in Committed
    /\ calls[row.by][OpOf(row.type)].st = "ok"
    /\ calls[row.by]["rollback"].st = "none"
    /\ row.type \in BothLegs => /\ req[row.by].kind = "TRANSFER"
                                /\ row.reference = req[row.by].key
    /\ row.type \notin BothLegs => row.type = req[row.by].kind

\* The legs of a transfer come together, and before what follows them.
LegInv ==
  /\ \A r \in Request :
       \/ LegTypes(r) \cap BothLegs = {} \/ LegTypes(r) \cap BothLegs = BothLegs
  /\ \A r \in Request : pc[r] \in Committing => LegTypes(r) = BothLegs

IdemInv ==
  \A k \in Key : idem[k] # None =>
    /\ pc[idem[k].by] = "done"
    /\ LegTypes(idem[k].by) = BothLegs
    /\ req[idem[k].by].key = k
    /\ idem[k].hash = HashOf(req[idem[k].by])

OutboxInv == \A n \in outbox : pc[n.by] = "done" /\ Legs(n.by) # {}

SafeInv == RowInv /\ LegInv /\ IdemInv /\ OutboxInv

-----------------------------------------------------------------------------
(* Steps that touch none of the tables.                                    *)

\* A request at its end keeps its place, its body and its settled calls.
Settled ==
  /\ \A q \in Request : pc[q] \in Committed =>
       /\ pc'[q] \in Committed /\ (pc[q] = "done" => pc'[q] = "done")
       /\ req'[q] = req[q]
       /\ \A op \in Op : calls[q][op].st \in {"ok", "none"} =>
            calls'[q][op].st = calls[q][op].st
  /\ \A q \in Request : pc'[q] \in Committing => pc[q] \in Committing

LEMMA OpOfFacts == \A type : OpOf(type) \in Op
BY DEF OpOf, Op

LEMMA SafeFrame ==
  ASSUME IInv, SafeInv, Settled, UNCHANGED <<ledger, idem, outbox>>
  PROVE  SafeInv'
<1>1. /\ \A row \in ledger : row.by \in Request
      /\ \A n \in outbox : n.by \in Request
      /\ \A k \in Key : idem[k] # None => idem[k].by \in Request
  BY DEF IInv, TypeOK, Row, Notice, IdemRow
<1>2. \A r \in Request : Legs(r)' = Legs(r) /\ LegTypes(r)' = LegTypes(r)
  BY DEF Legs, LegTypes
<1>3. RowInv'
  BY <1>1, OpOfFacts DEF SafeInv, RowInv, Settled, Op
<1>4. LegInv'
  BY <1>2 DEF SafeInv, LegInv, Settled
<1>5. IdemInv'
  BY <1>1, <1>2 DEF SafeInv, IdemInv, Settled, Committed
<1>6. OutboxInv'
  BY <1>1, <1>2 DEF SafeInv, OutboxInv, Settled, Committed
<1> QED
  BY <1>3, <1>4, <1>5, <1>6 DEF SafeInv

LEMMA InitSafe == Init => SafeInv
BY DEF Init, SafeInv, RowInv, LegInv, IdemInv, OutboxInv, Legs, LegTypes, Committing

LEMMA QuietSteps ==
  ASSUME IInv, SafeInv,
         \/ \E r \in Request : Arrival(r) \/ Server(r) \/ (\E a \in Account : Get(r, a))
         \/ Tick \/ Crash \/ (\E a \in Account : AccountChanges(a))
         \/ UNCHANGED vars
  PROVE  SafeInv'
<1> USE DEF Committed, Committing
<1>0. TypeOK
  BY DEF IInv
<1>1. ASSUME NEW r \in Request, Arrival(r)
      PROVE  SafeInv'
  <2>1. PICK b \in Body : /\ Arrives(r, b)
                          /\ \/ pc' = [pc EXCEPT ![r] = "done"]
                             \/ pc' = [pc EXCEPT ![r] = "reading"]
    BY <1>1 DEF Arrival, Accept, RejectSameAccount, RejectKeyReuse, Replay,
                LookupFails, Goto, Respond
  <2>2. Settled
    BY <1>0, <2>1 DEF Arrives, Settled, TypeOK
  <2> QED
    BY <2>1, <2>2, SafeFrame DEF Arrives, tables, side
<1>2. ASSUME NEW r \in Request, Server(r)
      PROVE  SafeInv'
  <2>1. CASE \E a \in Account : ServerReads(r, a)
    <3>1. UNCHANGED <<pc, req, calls, ledger, idem, outbox>>
      BY <2>1 DEF ServerReads, tables, side
    <3> QED
      BY <3>1, SafeFrame DEF Settled
  <2>2. ASSUME NEW op \in Op, ServerExecutes(r, op) \/ Resends(r, op)
        PROVE  SafeInv'
    <3>1. UNCHANGED <<pc, req, ledger, idem, outbox>>
      BY <2>2 DEF ServerExecutes, Resends, tables, side
    <3>2. \A q \in Request, o \in Op : calls'[q][o].st = calls[q][o].st
      <4>1. PICK c : /\ c = Executed(calls[r][op]) \/ c = Resent(calls[r][op])
                     /\ EndCall(r, op, c)
        BY <2>2 DEF ServerExecutes, Resends
      <4>2. calls[r][op] \in CallRecord
        BY <1>0 DEF TypeOK
      <4>3. c.st = calls[r][op].st
        BY <4>1, <4>2 DEF CallRecord, Executed, Resent
      <4>4. calls' = [calls EXCEPT ![r][op] = c]
        BY <4>1 DEF EndCall
      <4>5. ASSUME NEW q \in Request, NEW o \in Op
            PROVE  calls'[q][o].st = calls[q][o].st
        <5>1. /\ calls'[r][op] = c
              /\ q # r \/ o # op => calls'[q][o] = calls[q][o]
          BY <1>0, <1>2, <2>2, <4>4, CallUpdate DEF TypeOK
        <5>2. CASE q # r \/ o # op
          BY <5>1, <5>2
        <5>3. CASE q = r /\ o = op
          BY <4>3, <5>1, <5>3
        <5> QED
          BY <5>2, <5>3
      <4> QED
        BY <4>5
    <3> QED
      BY <3>1, <3>2, SafeFrame DEF Settled
  <2> QED
    BY <1>2, <2>1, <2>2 DEF Server
<1>3. ASSUME NEW r \in Request, NEW a \in Account, Get(r, a)
      PROVE  SafeInv'
  <2>1. UNCHANGED <<req, ledger, idem, outbox>>
    <3>1. CASE GetReturns(r, a)
      BY <3>1 DEF GetReturns, side
    <3>2. CASE GetFallsBack(r, a)
      BY <3>2 DEF GetFallsBack, tables, side
    <3>3. CASE GetFails(r, a)
      BY <3>3 DEF GetFails, tables, side
    <3> QED
      BY <1>3, <3>1, <3>2, <3>3 DEF Get
  <2>2. \/ UNCHANGED <<pc, calls>>
        \/ /\ pc[r] = "reading"
           /\ \E p \in {"done", "crediting", "debiting"} : pc' = [pc EXCEPT ![r] = p]
           /\ \A q \in Request \ {r} : calls'[q] = calls[q]
    <3> DEFINE Step == \/ UNCHANGED <<pc, calls>>
                       \/ /\ pc[r] = "reading"
                          /\ \E p \in {"done", "crediting", "debiting"} :
                               pc' = [pc EXCEPT ![r] = p]
                          /\ \A q \in Request \ {r} : calls'[q] = calls[q]
    <3>1. ASSUME NEW s, Settle(r, a, s)
          PROVE  Step
      BY <1>0, <3>1 DEF Settle, Decide, Goto, Respond, StartCall, TypeOK
    <3>2. CASE GetReturns(r, a)
      BY <3>1, <3>2 DEF GetReturns
    <3>3. CASE GetFallsBack(r, a)
      BY <3>1, <3>3 DEF GetFallsBack
    <3>4. CASE GetFails(r, a)
      BY <1>0, <3>4 DEF GetFails, Respond, TypeOK
    <3> QED
      BY <1>3, <3>2, <3>3, <3>4 DEF Get
  <2>3. Settled
    BY <1>0, <2>1, <2>2 DEF Settled, TypeOK
  <2> QED
    BY <2>1, <2>3, SafeFrame
<1>4. CASE Crash
  <2>1. Settled
    BY <1>0, <1>4 DEF Crash, Settled, TypeOK, InFlight, SyncPhase, GivenUp, CallRecord
  <2> QED
    BY <1>4, <2>1, SafeFrame DEF Crash, tables, side
<1>5. CASE Tick \/ (\E a \in Account : AccountChanges(a)) \/ UNCHANGED vars
  <2>1. UNCHANGED <<pc, req, calls, ledger, idem, outbox>>
    BY <1>5 DEF Tick, AccountChanges, vars, tables, side
  <2> QED
    BY <2>1, SafeFrame DEF Settled
<1> QED
  BY <1>1, <1>2, <1>3, <1>4, <1>5

LEMMA PatchSafe ==
  ASSUME IInv, SafeInv, NEW r \in Request, Patch(r)
  PROVE  SafeInv'
<1>1. TypeOK
  BY DEF IInv
<1>2. UNCHANGED <<req, ledger, idem, outbox>>
  BY DEF Patch, DebitReturns, DebitFails, CreditReturns, CreditFails,
         RollbackReturns, RollbackFails, RollbackEnds, tables, side
<1>3. /\ pc[r] \in {"debiting", "crediting", "rolling"}
      /\ \E p \in {"done", "crediting", "rolling", "recording"} :
           pc' = [pc EXCEPT ![r] = p]
      /\ \A q \in Request \ {r} : calls'[q] = calls[q]
  BY <1>1 DEF Patch, DebitReturns, DebitFails, CreditReturns, CreditFails,
              RollbackReturns, RollbackFails, RollbackEnds, EndCall, Goto, Respond,
              TypeOK
<1>4. Settled
  BY <1>1, <1>2, <1>3 DEF Settled, TypeOK, Committed, Committing
<1> QED
  BY <1>2, <1>4, SafeFrame

-----------------------------------------------------------------------------
(* Steps that write.                                                       *)

\* New rows of one request, which has made the movements they record.
LEMMA InsertKeeps ==
  ASSUME IInv, SafeInv, NEW r \in Request, pc[r] = "recording",
         NEW rows \in SUBSET Row, ledger' = ledger \cup rows, rows # {},
         \A row \in rows :
           /\ row.by = r /\ calls[r][OpOf(row.type)].st = "ok"
           /\ row.type \in BothLegs => row.reference = req[r].key,
         calls[r]["rollback"].st = "none",
         \/ /\ req[r].kind = "TRANSFER" /\ pc' = [pc EXCEPT ![r] = "counting"]
            /\ {row.type : row \in rows} = BothLegs
            /\ UNCHANGED outbox
         \/ /\ req[r].kind # "TRANSFER" /\ pc' = [pc EXCEPT ![r] = "done"]
            /\ \A row \in rows : row.type = req[r].kind /\ row.type \notin BothLegs
            /\ \A n \in outbox' : n \in outbox \/ n.by = r,
         UNCHANGED <<calls, req, idem>>
  PROVE  SafeInv'
<1> USE DEF Committed, Committing
<1>1. /\ TypeOK
      /\ \A row \in ledger : row.by \in Request
      /\ \A n \in outbox : n.by \in Request
      /\ \A k \in Key : idem[k] # None => idem[k].by \in Request
  BY DEF IInv, TypeOK, Row, Notice, IdemRow
<1>2. Legs(r) = {}
  BY DEF SafeInv, RowInv, Legs
<1>3. /\ Legs(r)' = rows
      /\ \A q \in Request \ {r} : Legs(q)' = Legs(q)
  BY <1>2 DEF Legs
<1>4. /\ LegTypes(r)' = {row.type : row \in rows}
      /\ \A q \in Request \ {r} : LegTypes(q)' = LegTypes(q)
  BY <1>3 DEF LegTypes
<1>5. pc'[r] \in {"counting", "done"} /\ \A q \in Request \ {r} : pc'[q] = pc[q]
  BY <1>1 DEF TypeOK
<1>6. RowInv'
  <2>1. ASSUME NEW row \in ledger
        PROVE  /\ pc'[row.by] \in Committed
               /\ calls'[row.by][OpOf(row.type)].st = "ok"
               /\ calls'[row.by]["rollback"].st = "none"
               /\ row.type \in BothLegs => /\ req'[row.by].kind = "TRANSFER"
                                           /\ row.reference = req'[row.by].key
               /\ row.type \notin BothLegs => row.type = req'[row.by].kind
    BY <1>1, <1>5 DEF SafeInv, RowInv
  <2>2. ASSUME NEW row \in rows
        PROVE  /\ pc'[row.by] \in Committed
               /\ calls'[row.by][OpOf(row.type)].st = "ok"
               /\ calls'[row.by]["rollback"].st = "none"
               /\ row.type \in BothLegs => /\ req'[row.by].kind = "TRANSFER"
                                           /\ row.reference = req'[row.by].key
               /\ row.type \notin BothLegs => row.type = req'[row.by].kind
    BY <1>5
  <2> QED
    BY <2>1, <2>2 DEF RowInv
<1>7. LegInv'
  <2>1. \/ LegTypes(r)' = BothLegs
        \/ LegTypes(r)' \cap BothLegs = {} /\ pc'[r] = "done"
    BY <1>1, <1>4 DEF TypeOK
  <2> QED
    BY <1>4, <1>5, <2>1 DEF SafeInv, LegInv
<1>8. IdemInv'
  <2>1. \A k \in Key : idem[k] # None => idem[k].by # r
    BY DEF SafeInv, IdemInv
  <2> QED
    BY <1>1, <1>4, <1>5, <2>1 DEF SafeInv, IdemInv
<1>9. OutboxInv'
  <2>1. \A n \in outbox : n.by # r /\ pc'[n.by] = "done" /\ Legs(n.by)' # {}
    BY <1>1, <1>3, <1>5 DEF SafeInv, OutboxInv
  <2>2. ASSUME NEW n \in outbox', n \notin outbox
        PROVE  n.by = r /\ pc'[r] = "done"
    BY <1>1, <2>2 DEF TypeOK
  <2>3. Legs(r)' # {}
    BY <1>3
  <2> QED
    BY <2>1, <2>2, <2>3 DEF OutboxInv
<1> QED
  BY <1>6, <1>7, <1>8, <1>9 DEF SafeInv

LEMMA StoreSafe ==
  ASSUME IInv, SafeInv, NEW r \in Request, StoreIdempotent(r)
  PROVE  SafeInv'
<1> USE DEF Committed, Committing
<1>1. /\ TypeOK /\ pc[r] = "storing" /\ LegTypes(r) = BothLegs
      /\ req[r] \in Body /\ req[r].key \in Key
      /\ pc' = [pc EXCEPT ![r] = "done"] /\ UNCHANGED <<calls, req, ledger>>
      /\ \A q \in Request : LegTypes(q)' = LegTypes(q) /\ Legs(q)' = Legs(q)
  BY BodyFacts
  DEF IInv, ReqInv, SafeInv, LegInv, StoreIdempotent, Respond, LegTypes, Legs
<1>2. /\ \A row \in ledger : row.by \in Request
      /\ \A n \in outbox : n.by \in Request
      /\ \A k \in Key : idem[k] # None => idem[k].by \in Request
  BY DEF IInv, TypeOK, Row, Notice, IdemRow
<1>3. pc'[r] = "done" /\ \A q \in Request \ {r} : pc'[q] = pc[q]
  BY <1>1 DEF TypeOK
<1>4. RowInv' /\ LegInv'
  BY <1>1, <1>2, <1>3 DEF SafeInv, RowInv, LegInv
<1>5. IdemInv'
  <2>1. /\ idem'[req[r].key] = [by |-> r, hash |-> HashOf(req[r]),
                               expires |-> now + TicksPerDay]
        /\ \A k \in Key \ {req[r].key} : idem'[k] = idem[k]
    BY <1>1 DEF StoreIdempotent, TypeOK
  <2>2. HashOf(req[r])' = HashOf(req[r])
        /\ \A q \in Request : HashOf(req[q])' = HashOf(req[q])
    BY <1>1 DEF HashOf
  <2> QED
    BY <1>1, <1>2, <1>3, <2>1, <2>2 DEF SafeInv, IdemInv
<1>6. OutboxInv'
  <2>1. \A n \in outbox' : n \in outbox \/ n.by = r
    BY DEF StoreIdempotent, Notify
  <2>2. Legs(r) # {}
    BY <1>1 DEF LegTypes, BothLegs
  <2> QED
    BY <1>1, <1>2, <1>3, <2>1, <2>2 DEF SafeInv, OutboxInv
<1> QED
  BY <1>4, <1>5, <1>6 DEF SafeInv

LEMMA CommitSafe ==
  ASSUME IInv, SafeInv, NEW r \in Request, Commit(r)
  PROVE  SafeInv'
<1>1. TypeOK
  BY DEF IInv
<1>2. CASE RecordSingle(r)
  <2> DEFINE row == Leg(r, req[r].kind)
  <2>1. /\ pc[r] = "recording" /\ pc[r] \in SyncPhase
        /\ calls[r]["rollback"].st = "none"
        /\ \/ req[r].kind = "DEPOSIT" /\ calls[r]["credit"].st = "ok"
           \/ req[r].kind = "WITHDRAWAL" /\ calls[r]["debit"].st = "ok"
    BY <1>2 DEF RecordSingle, SyncPhase, IInv, ControlInv, CallsAt, Sts
  <2>2. /\ req[r] \in Body
        /\ \A op \in Op : calls[r][op].st = "ok" => replies[r][op] \in AccountRecord
    BY <2>1, CommitFacts
  <2>3. row \in Row /\ row.by = r /\ row.type = req[r].kind
    BY <2>1, <2>2, LegFacts DEF TxnType, Op
  <2>4. /\ calls[r][OpOf(row.type)].st = "ok" /\ row.type \notin BothLegs
        /\ req[r].kind # "TRANSFER"
    BY <2>1, <2>3 DEF OpOf, BothLegs
  <2>5. /\ ledger' = ledger \cup {row} /\ pc' = [pc EXCEPT ![r] = "done"]
        /\ UNCHANGED <<calls, req, idem>>
        /\ \A n \in outbox' : n \in outbox \/ n.by = r
    BY <1>2 DEF RecordSingle, Respond, Notify
  <2> DEFINE rows == {row}
  <2> HIDE DEF row
  <2>6. /\ rows \in SUBSET Row /\ rows # {} /\ ledger' = ledger \cup rows
        /\ \A x \in rows : /\ x.by = r /\ calls[r][OpOf(x.type)].st = "ok"
                          /\ x.type \notin BothLegs /\ x.type = req[r].kind
    BY <2>3, <2>4, <2>5
  <2> HIDE DEF rows
  <2> QED
    BY <2>1, <2>4, <2>5, <2>6, InsertKeeps
<1>3. CASE InsertBoth(r)
  <2> DEFINE out == Leg(r, "TRANSFER_OUT")
             in  == Leg(r, "TRANSFER_IN")
  <2>1. /\ pc[r] = "recording" /\ pc[r] \in SyncPhase /\ req[r].kind = "TRANSFER"
        /\ calls[r]["debit"].st = "ok" /\ calls[r]["credit"].st = "ok"
        /\ calls[r]["rollback"].st = "none"
    BY <1>3 DEF InsertBoth, SyncPhase, IInv, ControlInv, CallsAt, Sts
  <2>2. /\ req[r] \in Body
        /\ \A op \in Op : calls[r][op].st = "ok" => replies[r][op] \in AccountRecord
    BY <2>1, CommitFacts
  <2>3. /\ out \in Row /\ out.by = r /\ out.type = "TRANSFER_OUT"
        /\ in \in Row /\ in.by = r /\ in.type = "TRANSFER_IN"
        /\ out.reference = req[r].key /\ in.reference = req[r].key
    BY <2>1, <2>2, LegFacts DEF TxnType, Op
  <2>4. /\ ledger' = ledger \cup {out, in} /\ pc' = [pc EXCEPT ![r] = "counting"]
        /\ UNCHANGED <<calls, req, idem, outbox>>
    BY <1>3 DEF InsertBoth, Goto, side
  <2> DEFINE rows == {out, in}
  <2> HIDE DEF out, in
  <2>5. {x.type : x \in rows} = BothLegs
    BY <2>3 DEF BothLegs
  <2>6. \A x \in rows :
          x.by = r /\ calls[r][OpOf(x.type)].st = "ok" /\ x.reference = req[r].key
    BY <2>1, <2>3 DEF OpOf
  <2>7. rows \in SUBSET Row /\ rows # {} /\ ledger' = ledger \cup rows
    BY <2>3, <2>4
  <2> HIDE DEF rows
  <2> QED
    BY <2>1, <2>4, <2>5, <2>6, <2>7, InsertKeeps
<1>4. CASE IncrementDailyTotal(r) \/ DbFails(r)
  <2>1. /\ UNCHANGED <<calls, req, ledger, idem, outbox>>
        /\ \/ pc[r] = "counting" /\ pc' = [pc EXCEPT ![r] = "storing"]
           \/ pc[r] \in SyncPhase /\ pc' = [pc EXCEPT ![r] = "done"]
    BY <1>4 DEF IncrementDailyTotal, DbFails, Goto, Respond, side, tables
  <2>2. Settled
    BY <1>1, <2>1 DEF Settled, TypeOK, Committed, Committing
  <2> QED
    BY <2>1, <2>2, SafeFrame
<1>5. CASE StoreIdempotent(r)
  BY <1>5, StoreSafe
<1> QED
  BY <1>2, <1>3, <1>4, <1>5 DEF Commit

-----------------------------------------------------------------------------

LEMMA NextSafe == IInv /\ SafeInv /\ [Next]_vars => SafeInv'
BY QuietSteps, PatchSafe, CommitSafe DEF Next

LEMMA SafeInvariant == Spec => [](IInv /\ SafeInv)
<1>1. Init => IInv /\ SafeInv
  BY InitInv, InitSafe
<1>2. IInv /\ SafeInv /\ [Next]_vars => (IInv /\ SafeInv)'
  BY NextInv, NextSafe
<1> QED
  BY <1>1, <1>2, PTL DEF Spec

\* Every ledger row records a movement that the Account Service has made,
\* whatever is lost, late, retried or interrupted.
THEOREM Recorded == Spec => []RecordedOnlyIfMoved
<1>1. IInv /\ SafeInv => RecordedOnlyIfMoved
  <2> SUFFICES ASSUME IInv, SafeInv, NEW row \in ledger
               PROVE  Moved(row.by, OpOf(row.type))
    BY DEF RecordedOnlyIfMoved
  <2>1. row.by \in Request /\ OpOf(row.type) \in Op
    BY OpOfFacts DEF IInv, TypeOK, Row
  <2>2. calls[row.by][OpOf(row.type)].st = "ok"
    BY DEF SafeInv, RowInv
  <2> QED
    BY <2>1, <2>2 DEF IInv, CallInv, Moved
<1> QED
  BY <1>1, SafeInvariant, PTL

\* No transfer is recorded by halves, and none that was sent back is in the
\* ledger, in the idempotency table or among the notifications.
THEOREM RecordedOrReversed == Spec => []NeverRecordedAndReversed
<1>1. IInv /\ SafeInv => NeverRecordedAndReversed
  <2> SUFFICES ASSUME IInv, SafeInv, NEW r \in Request
               PROVE  /\ LegTypes(r) \cap BothLegs \in {{}, BothLegs}
                      /\ Issued(r, "rollback") =>
                           /\ Legs(r) = {}
                           /\ \A k \in Key : idem[k] = None \/ idem[k].by # r
                           /\ \A n \in outbox : n.by # r
    BY DEF NeverRecordedAndReversed
  <2>1. LegTypes(r) \cap BothLegs \in {{}, BothLegs}
    BY DEF SafeInv, LegInv
  <2>2. ASSUME Issued(r, "rollback")
        PROVE  Legs(r) = {} /\ LegTypes(r) = {}
    BY <2>2 DEF SafeInv, RowInv, Legs, LegTypes, Issued
  <2>3. BothLegs # {}
    BY DEF BothLegs
  <2> QED
    BY <2>1, <2>2, <2>3 DEF SafeInv, IdemInv, OutboxInv
<1> QED
  BY <1>1, SafeInvariant, PTL

\* A row of idempotency_keys always stands for a recorded transfer of its key
\* and parameters, so what a replay answers did happen.
THEOREM StoredWasRecorded == Spec => []StoredImpliesRecorded
<1>1. IInv /\ SafeInv => StoredImpliesRecorded
  <2> SUFFICES ASSUME IInv, SafeInv, NEW k \in Key, idem[k] # None
               PROVE  /\ LegTypes(idem[k].by) = BothLegs
                      /\ \A row \in Legs(idem[k].by) : row.reference = k
                      /\ idem[k].hash = HashOf(req[idem[k].by])
    BY DEF StoredImpliesRecorded
  <2>1. /\ LegTypes(idem[k].by) = BothLegs /\ req[idem[k].by].key = k
        /\ idem[k].hash = HashOf(req[idem[k].by])
    BY DEF SafeInv, IdemInv
  <2>2. \A row \in Legs(idem[k].by) : row.type \in BothLegs /\ row \in ledger
                                      /\ row.by = idem[k].by
    BY <2>1 DEF LegTypes, Legs
  <2> QED
    BY <2>1, <2>2 DEF SafeInv, RowInv
<1> QED
  BY <1>1, SafeInvariant, PTL

-----------------------------------------------------------------------------
(* When a request is over.                                                 *)

\* Nothing of a request changes once it is over, but what its calls on the
\* wire still do at the Account Service.
Over(r) ==
  /\ pc'[r] = "done" /\ result'[r] = result[r] /\ req'[r] = req[r]
  /\ \A op \in Op : /\ calls'[r][op].sent = calls[r][op].sent
                    /\ calls'[r][op].st = calls[r][op].st
  /\ Legs(r)' = Legs(r)

AfterAnswer ==
  /\ \A r \in Request : pc[r] = "done" => Over(r)
  /\ outbox \subseteq outbox'

\* A step of the handler of r.
StepOf(r) ==
  /\ \A q \in Request \ {r} : /\ pc'[q] = pc[q] /\ result'[q] = result[q]
                              /\ req'[q] = req[q] /\ calls'[q] = calls[q]
  /\ ledger \subseteq ledger' /\ \A row \in ledger' \ ledger : row.by = r
  /\ outbox \subseteq outbox'

LEMMA StepOver ==
  ASSUME NEW r \in Request, StepOf(r), pc[r] # "done"
  PROVE  AfterAnswer
BY DEF StepOf, AfterAnswer, Over, Legs

LEMMA NoStepOver ==
  ASSUME UNCHANGED <<pc, result, req, calls, ledger, outbox>>
  PROVE  AfterAnswer
BY DEF AfterAnswer, Over, Legs

LEMMA ArrivalTouches ==
  ASSUME IInv, NEW r \in Request, Arrival(r)
  PROVE  StepOf(r) /\ pc[r] = "idle" /\ UNCHANGED calls
<1>1. PICK b \in Body :
        /\ Arrives(r, b)
        /\ \/ Goto(r, "reading")
           \/ \E code, of : Respond(r, code, of)
  BY DEF Arrival, Accept, RejectSameAccount, RejectKeyReuse, Replay, LookupFails
<1> QED
  BY <1>1 DEF Arrives, Goto, Respond, StepOf, tables, side, IInv, TypeOK

LEMMA GetTouches ==
  ASSUME IInv, NEW r \in Request, NEW a \in Account, Get(r, a)
  PROVE  StepOf(r) /\ (pc[r] = "reading" \/ UNCHANGED <<pc, result, req, calls, ledger, outbox>>)
<1>1. TypeOK
  BY DEF IInv
<1>2. UNCHANGED <<req, ledger, outbox>>
  BY DEF Get, GetReturns, GetFallsBack, GetFails, tables, side
<1>3. ASSUME NEW s, Settle(r, a, s)
      PROVE  /\ pc[r] = "reading" \/ UNCHANGED <<pc, result, calls>>
             /\ \A q \in Request \ {r} : /\ pc'[q] = pc[q] /\ result'[q] = result[q]
                                         /\ calls'[q] = calls[q]
  BY <1>1, <1>3 DEF Settle, Decide, Goto, Respond, StartCall, TypeOK
<1>4. CASE GetReturns(r, a)
  BY <1>2, <1>3, <1>4 DEF GetReturns, StepOf
<1>5. CASE GetFallsBack(r, a)
  BY <1>2, <1>3, <1>5 DEF GetFallsBack, StepOf
<1>6. CASE GetFails(r, a)
  BY <1>1, <1>2, <1>6 DEF GetFails, Respond, TypeOK, StepOf
<1> QED
  BY <1>4, <1>5, <1>6 DEF Get

LEMMA PatchTouches ==
  ASSUME IInv, NEW r \in Request, Patch(r)
  PROVE  StepOf(r) /\ pc[r] # "done"
<1>1. TypeOK
  BY DEF IInv
<1>2. UNCHANGED <<req, ledger, outbox>>
  BY DEF Patch, DebitReturns, DebitFails, CreditReturns, CreditFails,
         RollbackReturns, RollbackFails, RollbackEnds, tables, side
<1>3. /\ pc[r] \in {"debiting", "crediting", "rolling"}
      /\ \A q \in Request \ {r} : calls'[q] = calls[q] /\ pc'[q] = pc[q] /\ result'[q] = result[q]
  BY <1>1 DEF Patch, DebitReturns, DebitFails, CreditReturns, CreditFails,
              RollbackReturns, RollbackFails, RollbackEnds, EndCall, Goto, Respond,
              TypeOK
<1> QED
  BY <1>2, <1>3 DEF StepOf

LEMMA CommitTouches ==
  ASSUME IInv, NEW r \in Request, Commit(r)
  PROVE  StepOf(r) /\ pc[r] # "done" /\ UNCHANGED <<req, calls>>
<1>1. TypeOK
  BY DEF IInv
<1>2. pc[r] # "done" /\ UNCHANGED <<req, calls>>
  BY DEF Commit, RecordSingle, InsertBoth, IncrementDailyTotal, StoreIdempotent,
         DbFails, SyncPhase
<1>3. \A q \in Request \ {r} : pc'[q] = pc[q] /\ result'[q] = result[q]
  BY <1>1 DEF Commit, RecordSingle, InsertBoth, IncrementDailyTotal, StoreIdempotent,
         DbFails, Goto, Respond, TypeOK
<1>4. outbox \subseteq outbox'
  BY DEF Commit, RecordSingle, InsertBoth, IncrementDailyTotal, StoreIdempotent,
         DbFails, Notify, side
<1>5. ledger \subseteq ledger' /\ \A row \in ledger' \ ledger : row.by = r
  <2>1. \A type : Leg(r, type).by = r
    BY DEF Leg
  <2> QED
    BY <2>1 DEF Commit, RecordSingle, InsertBoth, IncrementDailyTotal, StoreIdempotent,
         DbFails, tables
<1> QED
  BY <1>2, <1>3, <1>4, <1>5 DEF StepOf

LEMMA ServerTouches ==
  ASSUME IInv, NEW r \in Request, Server(r)
  PROVE  /\ AfterAnswer
         /\ UNCHANGED <<pc, result, req>>
         /\ \A q \in Request, o \in Op : calls'[q][o].st = calls[q][o].st
<1>1. TypeOK
  BY DEF IInv
<1>2. UNCHANGED <<pc, result, req, ledger, outbox>>
  BY DEF Server, ServerReads, ServerExecutes, Resends, tables, side
<1>3. CASE UNCHANGED calls
  BY <1>2, <1>3, NoStepOver
<1>4. ASSUME NEW op \in Op, ServerExecutes(r, op) \/ Resends(r, op)
      PROVE  \A q \in Request, o \in Op :
               /\ calls'[q][o].st = calls[q][o].st
               /\ calls'[q][o].sent = calls[q][o].sent \/ pc[q] # "done"
  <2>1. PICK c : /\ \/ c = Executed(calls[r][op])
                    \/ c = Resent(calls[r][op]) /\ calls[r][op].st = "open"
                 /\ calls' = [calls EXCEPT ![r][op] = c]
    BY <1>4 DEF ServerExecutes, Resends, EndCall, CanResend
  <2>2. calls \in [Request -> [Op -> CallRecord]] /\ calls[r][op] \in CallRecord
    BY <1>1 DEF TypeOK
  <2>3. /\ c.st = calls[r][op].st
        /\ c.sent = calls[r][op].sent \/ calls[r][op].st = "open"
    BY <2>1, <2>2 DEF CallRecord, Executed, Resent
  <2>4. calls[r][op].st = "open" => pc[r] # "done"
    BY DEF IInv, ControlInv, CallsAt
  <2>5. ASSUME NEW q \in Request, NEW o \in Op
        PROVE  /\ calls'[q][o].st = calls[q][o].st
               /\ calls'[q][o].sent = calls[q][o].sent \/ pc[q] # "done"
    <3>1. /\ calls'[r][op] = c
          /\ q # r \/ o # op => calls'[q][o] = calls[q][o]
      BY <2>1, <2>2, CallUpdate
    <3>2. CASE q # r \/ o # op
      BY <3>1, <3>2
    <3>3. CASE q = r /\ o = op
      BY <2>3, <2>4, <3>1, <3>3
    <3> QED
      BY <3>2, <3>3
  <2> QED
    BY <2>5
<1>5. \/ UNCHANGED calls
      \/ \A q \in Request, o \in Op :
           /\ calls'[q][o].st = calls[q][o].st
           /\ calls'[q][o].sent = calls[q][o].sent \/ pc[q] # "done"
  BY <1>4 DEF Server, ServerReads
<1> QED
  BY <1>2, <1>3, <1>5 DEF AfterAnswer, Over, Legs

LEMMA CrashTouches ==
  ASSUME IInv, Crash
  PROVE  AfterAnswer
<1>1. TypeOK /\ UNCHANGED <<req, ledger, outbox>>
  BY DEF IInv, Crash, tables, side
<1>2. ASSUME NEW r \in Request, pc[r] = "done"
      PROVE  /\ pc'[r] = "done" /\ result'[r] = result[r]
             /\ \A op \in Op : calls'[r][op] = calls[r][op]
  <2>1. pc[r] \notin InFlight
    BY <1>2 DEF InFlight, AwaitPhase, SyncPhase
  <2>2. \A op \in Op : calls[r][op] \in CallRecord /\ calls[r][op].st # "open"
    BY <1>1, <1>2 DEF IInv, TypeOK, ControlInv, CallsAt
  <2>3. \A op \in Op : calls'[r][op] = GivenUp(calls[r][op])
    BY DEF Crash
  <2>4. \A c \in CallRecord : c.st # "open" => GivenUp(c) = c
    BY DEF GivenUp, CallRecord
  <2> QED
    BY <1>2, <2>1, <2>2, <2>3, <2>4 DEF Crash
<1> QED
  BY <1>1, <1>2 DEF AfterAnswer, Over, Legs

LEMMA NextOver == IInv /\ [Next]_vars => AfterAnswer
<1> SUFFICES ASSUME IInv, [Next]_vars PROVE AfterAnswer
  OBVIOUS
<1>1. ASSUME NEW r \in Request, Arrival(r) \/ Patch(r) \/ Commit(r) \/ Server(r)
      PROVE  AfterAnswer
  BY <1>1, ArrivalTouches, PatchTouches, CommitTouches, ServerTouches, StepOver
<1>2. ASSUME NEW r \in Request, NEW a \in Account, Get(r, a)
      PROVE  AfterAnswer
  BY <1>2, GetTouches, StepOver, NoStepOver
<1>3. CASE Tick \/ (\E a \in Account : AccountChanges(a)) \/ UNCHANGED vars
  <2>1. UNCHANGED <<pc, result, req, calls, ledger, outbox>>
    BY <1>3 DEF Tick, AccountChanges, vars, tables, side
  <2> QED
    BY <2>1, NoStepOver
<1> QED
  BY <1>1, <1>2, <1>3, CrashTouches DEF Next

\* When a request is over, no callback that is left of it, no answer that comes
\* late and no restart sends anything, records anything or changes its answer.
THEOREM OverIsOver == Spec => NothingDoneAfterAnswer
<1> DEFINE Quiet == \A r \in Request : pc[r] = "done" =>
                      /\ pc'[r] = "done" /\ result'[r] = result[r]
                      /\ \A op \in Op : calls'[r][op].sent = calls[r][op].sent
                      /\ \A row \in ledger' \ ledger : row.by # r
<1>1. AfterAnswer => Quiet
  BY DEF AfterAnswer, Over, Legs
<1>2. IInv /\ [Next]_vars => [Quiet]_vars
  BY <1>1, NextOver
<1> HIDE DEF Quiet
<1>3. Spec => [][Quiet]_vars
  BY <1>2, Invariant, PTL DEF Spec
<1> QED
  BY <1>3 DEF NothingDoneAfterAnswer, Quiet

-----------------------------------------------------------------------------
(* What the answer says.                                                   *)

Unsent(r) == \A op \in Op : calls[r][op].st = "none"

\* A replay is of a recorded transfer with the same key and parameters.
SameTransfer(r) ==
  \E q \in Request \ {r} :
    /\ result[r].of = q /\ pc[q] = "done" /\ LegTypes(q) = BothLegs
    /\ req[q].key = req[r].key /\ HashOf(req[q]) = HashOf(req[r])

AnswerAt(r) ==
  LET code == result[r].code
  IN /\ pc[r] # "done" => code = "NONE"
     /\ code \in Refusal \cup {"REPLAY"} => Unsent(r)
     /\ code = "CREATED" =>
          /\ calls[r]["rollback"].st = "none"
          /\ LegTypes(r) = IF req[r].kind = "TRANSFER" THEN BothLegs
                           ELSE {req[r].kind}
          /\ \E n \in outbox : n.by = r
     /\ code = "REPLAY" => SameTransfer(r)
     /\ code = "TRANSFER_CREDIT_FAILED" =>
          calls[r]["debit"].st = "ok" /\ calls[r]["rollback"].st # "none"

AnswerInv == \A r \in Request : AnswerAt(r)

LEMMA InitAnswer == Init => AnswerInv
BY DEF Init, AnswerInv, AnswerAt, Refusal

\* An answer that was true stays true.
LEMMA AnswerStands ==
  ASSUME AnswerInv, AfterAnswer, NEW r \in Request, pc[r] = "done"
  PROVE  AnswerAt(r)'
<1>1. Over(r) /\ LegTypes(r)' = LegTypes(r) /\ {"debit", "rollback"} \subseteq Op
  BY DEF AfterAnswer, Over, LegTypes, Op
<1>2. Unsent(r) => Unsent(r)'
  BY <1>1 DEF Over, Unsent
<1>3. ASSUME SameTransfer(r)
      PROVE  SameTransfer(r)'
  <2>1. PICK q \in Request \ {r} :
          /\ result[r].of = q /\ pc[q] = "done" /\ LegTypes(q) = BothLegs
          /\ req[q].key = req[r].key /\ HashOf(req[q]) = HashOf(req[r])
    BY <1>3 DEF SameTransfer
  <2>2. /\ result'[r].of = q /\ pc'[q] = "done" /\ LegTypes(q)' = BothLegs
        /\ req'[q] = req[q] /\ req'[r] = req[r]
    BY <1>1, <2>1 DEF AfterAnswer, Over, LegTypes
  <2> QED
    BY <2>1, <2>2 DEF SameTransfer, HashOf
<1> QED
  BY <1>1, <1>2, <1>3 DEF AnswerInv, AnswerAt, Over, AfterAnswer

\* The step of a handler that goes on, or answers truly.
LEMMA AnswerFrame ==
  ASSUME IInv, AnswerInv, AfterAnswer,
         \A r \in Request : \/ AnswerAt(r)'
                            \/ pc[r] = "done"
                            \/ pc[r] # "done" /\ pc'[r] # "done" /\ result'[r] = result[r]
  PROVE  AnswerInv'
<1>1. ASSUME NEW r \in Request, pc[r] # "done", pc'[r] # "done", result'[r] = result[r]
      PROVE  AnswerAt(r)'
  BY <1>1 DEF AnswerInv, AnswerAt, Refusal
<1> QED
  BY <1>1, AnswerStands DEF AnswerInv

\* Two answers that promise nothing.
LEMMA Vague ==
  ASSUME NEW r \in Request, pc'[r] = "done",
         result'[r].code \in {"INTERNAL_ERROR", "LOST"}
  PROVE  AnswerAt(r)'
BY DEF AnswerAt, Refusal

LEMMA Refused ==
  ASSUME NEW r \in Request, pc'[r] = "done", result'[r].code \in Refusal, Unsent(r)'
  PROVE  AnswerAt(r)'
BY DEF AnswerAt, Refusal

LEMMA ArrivalAnswer ==
  ASSUME IInv, SafeInv, AnswerInv, NEW r \in Request, Arrival(r)
  PROVE  AnswerInv'
<1>1. StepOf(r) /\ pc[r] = "idle" /\ UNCHANGED calls /\ AfterAnswer /\ TypeOK
  BY ArrivalTouches, StepOver DEF IInv
<1>2. Unsent(r)'
  BY <1>1 DEF IInv, ControlInv, CallsAt, Sts, Unsent, Op
<1>3. PICK b \in Body : \/ Accept(r, b) \/ RejectSameAccount(r, b)
                        \/ RejectKeyReuse(r, b) \/ Replay(r, b)
                        \/ LookupFails(r, b)
  BY DEF Arrival
<1>4. CASE Accept(r, b)
  <2>1. pc'[r] # "done" /\ result'[r] = result[r]
    BY <1>1, <1>4 DEF Accept, Goto, TypeOK
  <2> QED
    BY <1>1, <2>1, AnswerFrame DEF StepOf
<1>5. ASSUME NEW code, NEW of, Respond(r, code, of)
      PROVE  pc'[r] = "done" /\ result'[r].code = code /\ result'[r].of = of
  BY <1>1, <1>5 DEF Respond, TypeOK
<1>6. CASE RejectSameAccount(r, b) \/ RejectKeyReuse(r, b) \/ LookupFails(r, b)
  <2>1. \E code \in {"SAME_ACCOUNT_TRANSFER", "IDEMPOTENCY_KEY_CONFLICT", "INTERNAL_ERROR"} :
          Respond(r, code, None)
    BY <1>6 DEF RejectSameAccount, RejectKeyReuse, LookupFails
  <2>2. pc'[r] = "done" /\ result'[r].code \in Refusal \cup {"INTERNAL_ERROR"}
    BY <1>5, <2>1 DEF Refusal
  <2>3. AnswerAt(r)'
    BY <1>2, <2>2, Vague, Refused
  <2> QED
    BY <1>1, <2>3, AnswerFrame DEF StepOf
<1>7. CASE Replay(r, b)
  <2>1. PICK q : q = idem[b.key].by
    OBVIOUS
  <2>2. /\ b.key \in Key /\ idem[b.key] # None /\ idem[b.key].hash = HashOf(b)
        /\ UNCHANGED ledger /\ req' = [req EXCEPT ![r] = b]
        /\ result'[r].code = "REPLAY" /\ result'[r].of = q /\ pc'[r] = "done"
    BY <1>5, <1>7, <2>1, BodyFacts DEF Replay, LooksUpKey, Stored, Arrives, tables
  <2>3. /\ q \in Request /\ pc[q] = "done" /\ LegTypes(q) = BothLegs
        /\ req[q].key = b.key /\ idem[b.key].hash = HashOf(req[q])
    BY <1>1, <2>1, <2>2 DEF SafeInv, IdemInv, TypeOK, IdemRow
  <2>4. /\ q # r /\ pc'[q] = "done" /\ req'[q] = req[q] /\ req'[r] = b
        /\ LegTypes(q)' = LegTypes(q)
    BY <1>1, <2>2, <2>3 DEF StepOf, LegTypes, Legs, TypeOK
  <2>5. SameTransfer(r)'
    <3>1. /\ pc'[q] = "done" /\ LegTypes(q)' = BothLegs /\ result'[r].of = q
          /\ req'[q].key = req'[r].key
      BY <2>2, <2>3, <2>4
    <3>2. HashOf(req'[q]) = HashOf(req'[r]) /\ q \in Request \ {r}
      BY <2>2, <2>3, <2>4
    <3> QED
      BY <3>1, <3>2 DEF SameTransfer
  <2>6. AnswerAt(r)'
    BY <1>2, <2>2, <2>5 DEF AnswerAt, Refusal
  <2> QED
    BY <1>1, <2>6, AnswerFrame DEF StepOf
<1> QED
  BY <1>3, <1>4, <1>6, <1>7

LEMMA GetAnswer ==
  ASSUME IInv, AnswerInv, NEW r \in Request, NEW a \in Account, Get(r, a)
  PROVE  AnswerInv'
<1>1. /\ StepOf(r) /\ TypeOK
      /\ pc[r] = "reading" \/ UNCHANGED <<pc, result, req, calls, ledger, outbox>>
  BY GetTouches DEF IInv
<1>2. CASE UNCHANGED <<pc, result, req, calls, ledger, outbox>>
  BY <1>2, NoStepOver, AnswerFrame
<1>3. CASE pc[r] = "reading"
  <2>1. AfterAnswer
    BY <1>1, <1>3, StepOver
  <2>2. Unsent(r)
    BY <1>3 DEF IInv, ControlInv, CallsAt, Sts, Unsent, Op
  <2>3. ASSUME NEW code, NEW of, Respond(r, code, of)
        PROVE  pc'[r] = "done" /\ result'[r].code = code /\ result'[r].of = of
    BY <1>1, <2>3 DEF Respond, TypeOK
  <2>4. ASSUME NEW phase \in InFlight, Goto(r, phase)
        PROVE  pc'[r] # "done" /\ result'[r] = result[r]
    BY <1>1, <2>4 DEF Goto, TypeOK, InFlight, AwaitPhase, SyncPhase
  <2>5. \/ /\ \E of : Respond(r, "INTERNAL_ERROR", of)
        \/ /\ \E code \in Refusal : \E of : Respond(r, code, of)
           /\ UNCHANGED calls
        \/ \E phase \in InFlight : Goto(r, phase)
        \/ UNCHANGED <<pc, result>>
    <3>1. ASSUME NEW f, NEW t
          PROVE  AccountVerdict(req[r], f, t) # "OK" => AccountVerdict(req[r], f, t) \in Refusal
      BY DEF AccountVerdict, ValidateAccount, Refusal
    <3>2. ASSUME NEW f, NEW t, Decide(r, f, t)
          PROVE  \/ /\ \E of : Respond(r, "INTERNAL_ERROR", of)
                 \/ /\ \E code \in Refusal : \E of : Respond(r, code, of)
                    /\ UNCHANGED calls
                 \/ \E phase \in InFlight : Goto(r, phase)
      <4>1. {"crediting", "debiting"} \subseteq InFlight /\ "DAILY_LIMIT_EXCEEDED" \in Refusal
        BY DEF InFlight, AwaitPhase, Refusal
      <4> QED
        BY <3>1, <3>2, <4>1 DEF Decide
    <3>3. ASSUME NEW s, Settle(r, a, s)
          PROVE  \/ \E f, t : Decide(r, f, t)
                 \/ UNCHANGED <<pc, result>>
      BY <3>3 DEF Settle
    <3>4. GetFails(r, a) => Respond(r, "UNAVAILABLE", None) /\ UNCHANGED calls
      BY <1>3 DEF GetFails
    <3>5. "UNAVAILABLE" \in Refusal
      BY DEF Refusal
    <3> QED
      BY <3>2, <3>3, <3>4, <3>5 DEF Get, GetReturns, GetFallsBack
  <2>6. AnswerAt(r)' \/ (pc'[r] # "done" /\ result'[r] = result[r])
    <3>1. UNCHANGED calls => Unsent(r)'
      BY <2>2 DEF Unsent
    <3>2. ASSUME NEW of, Respond(r, "INTERNAL_ERROR", of)
          PROVE  AnswerAt(r)'
      BY <2>3, <3>2, Vague
    <3>3. ASSUME NEW code \in Refusal, NEW of, Respond(r, code, of), UNCHANGED calls
          PROVE  AnswerAt(r)'
      BY <2>3, <3>1, <3>3, Refused
    <3> QED
      BY <1>3, <2>4, <2>5, <3>2, <3>3
  <2> QED
    BY <1>1, <1>3, <2>1, <2>6, AnswerFrame DEF StepOf
<1> QED
  BY <1>1, <1>2, <1>3

LEMMA PatchAnswer ==
  ASSUME IInv, AnswerInv, NEW r \in Request, Patch(r)
  PROVE  AnswerInv'
<1>1. StepOf(r) /\ pc[r] # "done" /\ AfterAnswer /\ TypeOK
  BY PatchTouches, StepOver DEF IInv
<1>2. CASE \E phase \in InFlight : Goto(r, phase)
  <2>1. pc'[r] # "done" /\ result'[r] = result[r]
    BY <1>1, <1>2 DEF Goto, TypeOK, InFlight, AwaitPhase, SyncPhase
  <2> QED
    BY <1>1, <2>1, AnswerFrame DEF StepOf
<1>3. CASE Respond(r, "INTERNAL_ERROR", None)
  <2>1. pc'[r] = "done" /\ result'[r].code = "INTERNAL_ERROR"
    BY <1>1, <1>3 DEF Respond, TypeOK
  <2> QED
    BY <1>1, <2>1, Vague, AnswerFrame DEF StepOf
<1>4. ASSUME NEW after, RollbackEnds(r, after),
             after \in {Returned(calls[r]["rollback"]), GivenUp(calls[r]["rollback"])}
      PROVE  AnswerInv'
  <2>1. /\ pc'[r] = "done" /\ result'[r].code = "TRANSFER_CREDIT_FAILED"
        /\ calls' = [calls EXCEPT ![r]["rollback"] = after]
    BY <1>1, <1>4 DEF RollbackEnds, Respond, EndCall, TypeOK
  <2>2. /\ calls[r]["debit"].st = "ok" /\ calls[r]["rollback"].st = "open"
        /\ {"debit", "rollback"} \subseteq Op
    BY <1>4 DEF RollbackEnds, IInv, ControlInv, CallsAt, Sts, Op
  <2>3. after.st # "none"
    BY <1>4, <2>2, PatchFacts
  <2>4. calls'[r]["debit"].st = "ok" /\ calls'[r]["rollback"].st # "none"
    BY <1>1, <2>1, <2>2, <2>3 DEF TypeOK
  <2>5. AnswerAt(r)'
    BY <2>1, <2>4 DEF AnswerAt, Refusal
  <2> QED
    BY <1>1, <2>5, AnswerFrame DEF StepOf
<1>5. {"crediting", "recording", "rolling"} \subseteq InFlight
  BY DEF InFlight, AwaitPhase, SyncPhase
<1> QED
  BY <1>2, <1>3, <1>4, <1>5 DEF Patch, DebitReturns, DebitFails, CreditReturns, CreditFails,
                         RollbackReturns, RollbackFails

LEMMA CommitAnswer ==
  ASSUME IInv, SafeInv, AnswerInv, NEW r \in Request, Commit(r)
  PROVE  AnswerInv'
<1>1. StepOf(r) /\ pc[r] # "done" /\ AfterAnswer /\ TypeOK /\ UNCHANGED <<req, calls>>
  BY CommitTouches, StepOver DEF IInv
<1>2. CASE \E phase \in InFlight : Goto(r, phase)
  <2>1. pc'[r] # "done" /\ result'[r] = result[r]
    BY <1>1, <1>2 DEF Goto, TypeOK, InFlight, AwaitPhase, SyncPhase
  <2> QED
    BY <1>1, <2>1, AnswerFrame DEF StepOf
<1>3. CASE Respond(r, "INTERNAL_ERROR", None)
  <2>1. pc'[r] = "done" /\ result'[r].code = "INTERNAL_ERROR"
    BY <1>1, <1>3 DEF Respond, TypeOK
  <2> QED
    BY <1>1, <2>1, Vague, AnswerFrame DEF StepOf
<1>4. ASSUME Respond(r, "CREATED", r), calls[r]["rollback"].st = "none",
             LegTypes(r)' = IF req[r].kind = "TRANSFER" THEN BothLegs ELSE {req[r].kind},
             \E n \in outbox' : n.by = r
      PROVE  AnswerInv'
  <2>1. pc'[r] = "done" /\ result'[r].code = "CREATED"
    BY <1>1, <1>4 DEF Respond, TypeOK
  <2>2. AnswerAt(r)'
    BY <1>1, <1>4, <2>1 DEF AnswerAt, Refusal
  <2> QED
    BY <1>1, <2>2, AnswerFrame DEF StepOf
<1>5. \A type : Notify(r, type) => \E n \in outbox' : n.by = r
  <2> SUFFICES ASSUME NEW type, Notify(r, type)
               PROVE  \E n \in outbox' : n.by = r
    OBVIOUS
  <2> DEFINE n == [by |-> r, type |-> type,
                   path |-> IF req[r].amount >= HIGH_VALUE_THRESHOLD
                            THEN "high-value" ELSE "plain"]
  <2>1. n \in outbox' /\ n.by = r
    BY DEF Notify
  <2> QED
    BY <2>1
<1>6. CASE RecordSingle(r)
  <2>1. Legs(r) = {} /\ calls[r]["rollback"].st = "none"
    BY <1>6 DEF RecordSingle, SafeInv, RowInv, Legs, Committed, Committing,
                IInv, ControlInv, CallsAt, Sts
  <2>2. Legs(r)' = {Leg(r, req[r].kind)} /\ Leg(r, req[r].kind).type = req[r].kind
    <3>1. /\ Leg(r, req[r].kind).type = req[r].kind /\ Leg(r, req[r].kind).by = r
          /\ ledger' = ledger \cup {Leg(r, req[r].kind)}
      BY <1>6 DEF Leg, RecordSingle
    <3> QED
      BY <2>1, <3>1 DEF Legs
  <2>3. LegTypes(r)' = {req[r].kind} /\ req[r].kind # "TRANSFER"
    BY <1>6, <2>2 DEF LegTypes, RecordSingle
  <2> QED
    BY <1>3, <1>4, <1>5, <1>6, <2>1, <2>3 DEF RecordSingle
<1>7. CASE StoreIdempotent(r)
  <2>1. /\ LegTypes(r) = BothLegs /\ req[r].kind = "TRANSFER" /\ calls[r]["rollback"].st = "none"
        /\ LegTypes(r)' = LegTypes(r)
    BY <1>7 DEF StoreIdempotent, SafeInv, LegInv, Committing,
                IInv, ControlInv, CallsAt, Sts, LegTypes, Legs
  <2> QED
    BY <1>4, <1>5, <1>7, <2>1 DEF StoreIdempotent
<1>8. {"counting", "storing"} \subseteq InFlight
  BY DEF InFlight, SyncPhase
<1> QED
  BY <1>2, <1>3, <1>6, <1>7, <1>8 DEF Commit, InsertBoth, IncrementDailyTotal, DbFails

LEMMA NextAnswer == IInv /\ SafeInv /\ AnswerInv /\ [Next]_vars => AnswerInv'
<1> SUFFICES ASSUME IInv, SafeInv, AnswerInv, [Next]_vars PROVE AnswerInv'
  OBVIOUS
<1>1. AfterAnswer
  BY NextOver
<1>2. CASE UNCHANGED <<pc, result>>
  BY <1>1, <1>2, AnswerFrame
<1>3. CASE Crash
  <2>1. ASSUME NEW r \in Request
        PROVE  \/ AnswerAt(r)' \/ pc[r] = "done"
               \/ pc[r] # "done" /\ pc'[r] # "done" /\ result'[r] = result[r]
    <3>1. CASE pc[r] \in InFlight
      <4>1. pc'[r] = "done" /\ result'[r].code = "LOST"
        BY <1>3, <3>1 DEF Crash
      <4> QED
        BY <4>1, Vague
    <3>2. CASE pc[r] \notin InFlight
      BY <1>3, <3>2 DEF Crash
    <3> QED
      BY <3>1, <3>2
  <2> QED
    BY <1>1, <2>1, AnswerFrame
<1>4. \A r \in Request : Server(r) => UNCHANGED <<pc, result>>
  BY ServerTouches
<1>5. Tick \/ (\E a \in Account : AccountChanges(a)) \/ UNCHANGED vars
      => UNCHANGED <<pc, result>>
  BY DEF Tick, AccountChanges, vars
<1> QED
  BY <1>2, <1>3, <1>4, <1>5, ArrivalAnswer, GetAnswer, PatchAnswer, CommitAnswer DEF Next

LEMMA AnswerInvariant == Spec => [](IInv /\ SafeInv /\ AnswerInv)
<1>1. Init => IInv /\ SafeInv /\ AnswerInv
  BY InitInv, InitSafe, InitAnswer
<1>2. IInv /\ SafeInv /\ AnswerInv /\ [Next]_vars => (IInv /\ SafeInv /\ AnswerInv)'
  BY NextInv, NextSafe, NextAnswer
<1> QED
  BY <1>1, <1>2, PTL DEF Spec

\* The answer a client has been given is true of its money, now and from then
\* on: refused means untouched, 201 means done and recorded, a replay names a
\* recorded transfer, and a reversal is said of a debit that was made.
THEOREM AnswersTrue == Spec => []AnswersAreTruthful
<1>1. IInv /\ SafeInv /\ AnswerInv => AnswersAreTruthful
  <2> SUFFICES ASSUME IInv, SafeInv, AnswerInv, NEW r \in Request
               PROVE  LET code == result[r].code
                          q    == result[r].of
                      IN /\ code \in Refusal \cup {"REPLAY"} => \A op \in Op : ~Issued(r, op)
                         /\ code = "CREATED" =>
                              /\ ~Issued(r, "rollback")
                              /\ LegTypes(r) = IF req[r].kind = "TRANSFER" THEN BothLegs
                                               ELSE {req[r].kind}
                              /\ \E n \in outbox : n.by = r
                         /\ code = "REPLAY" =>
                              /\ q # r /\ LegTypes(q) = BothLegs
                              /\ req[q].key = req[r].key /\ HashOf(req[q]) = HashOf(req[r])
                         /\ code = "TRANSFER_CREDIT_FAILED" =>
                              Moved(r, "debit") /\ Issued(r, "rollback") /\ Legs(r) = {}
    BY DEF AnswersAreTruthful
  <2>1. AnswerAt(r) /\ {"debit", "rollback"} \subseteq Op
    BY DEF AnswerInv, Op
  <2>2. calls[r]["debit"].st = "ok" => Moved(r, "debit")
    BY <2>1 DEF IInv, CallInv, Moved
  <2>3. calls[r]["rollback"].st # "none" => Legs(r) = {}
    BY DEF SafeInv, RowInv, Legs
  <2> QED
    BY <2>1, <2>2, <2>3 DEF AnswerAt, Unsent, SameTransfer, Issued
<1> QED
  BY <1>1, AnswerInvariant, PTL

-----------------------------------------------------------------------------
(* The data the service decides on and records is stale at worst, never    *)
(* made up: what a handler holds is an answer, or a row put together from  *)
(* one (its type from another, perhaps), and a balance in the ledger is    *)
(* one the account had.                                                    *)

\* A row of account_cache: an answer with its defaults, the type of another.
IsRow(past, row) == \E s, t \in past : /\ Cacheable(s) /\ Cacheable(t)
                                       /\ row = Upserted(CacheRow(t), s)

\* What a getAccount call may resolve with.
IsOneOf(a, s) == s \in history[a] \/ IsRow(Source(a), s)

\* One of the records past allowed a debit of amount, the type apart.
Allowed(past, amount) ==
  \E s, typed \in past :
    /\ "body" \notin s.lacks
    /\ s.status \in {"ACTIVE", "UNSET"} /\ s.kyc \in {"VERIFIED", "UNSET"}
    /\ typed.type \in {"SAVINGS", "NRE"} =>
         s.balance >= amount \/ "balance" \in s.lacks

AccountInv == \A a \in Account : accounts[a] \in history[a]

CacheInv == \A a \in Account :
              /\ cache[a] # None => IsRow(Source(a), cache[a])
              /\ SeedRow(a) # None => cache[a] # None /\ cache[a].type = SeedRow(a).type

GetInv == \A r \in Request, a \in Account :
            /\ gets[r][a].st = "read" => gets[r][a].snap \in history[a]
            /\ gets[r][a].st = "done" => IsOneOf(a, gets[r][a].snap)

ReplyInv == \A r \in Request, op \in Op : replies[r][op] # None =>
              pc[r] # "idle" /\ replies[r][op] \in history[Target(r, op)]

BalanceInv == \A row \in ledger : row.balanceAfter # None =>
                \E h \in history[row.account] : h.balance = row.balanceAfter

DebitInv == \A r \in Request : calls[r]["debit"].st # "none" =>
              Allowed(Source(req[r].from), req[r].amount)

HistInv == AccountInv /\ CacheInv /\ GetInv /\ ReplyInv /\ BalanceInv /\ DebitInv

-----------------------------------------------------------------------------

LEMMA SourceFacts ==
  ASSUME IInv, NEW a \in Account
  PROVE  Source(a) \subseteq AccountRecord /\ history[a] \subseteq Source(a)
BY ServiceAssumption DEF Source, IInv, TypeOK

LEMMA RowFields ==
  ASSUME NEW s \in AccountRecord, NEW t \in AccountRecord
  PROVE  LET row == Upserted(CacheRow(t), s)
         IN /\ row.type = CacheRow(t).type /\ row.balance = CacheRow(s).balance
            /\ row.status = CacheRow(s).status /\ row.kyc = CacheRow(s).kyc
            /\ row.lacks = {}
BY CacheFacts DEF Upserted, CacheRow, AccountRecord

LEMMA RowOfOne ==
  ASSUME NEW s \in AccountRecord
  PROVE  Upserted(CacheRow(s), s) = CacheRow(s)
BY CacheFacts DEF Upserted, AccountRecord

\* The type of a row that is upserted again is that of the row.
LEMMA RowOfRow ==
  ASSUME NEW s \in AccountRecord, NEW t \in AccountRecord, NEW u \in AccountRecord
  PROVE  Upserted(Upserted(CacheRow(t), u), s) = Upserted(CacheRow(t), s)
BY RowFields DEF Upserted

\* The checks let a debit pass only on data that allowed it.
LEMMA PassedIsAllowed ==
  ASSUME IInv, NEW a \in Account, NEW f, IsOneOf(a, f), NEW amount \in Int,
         ValidateAccount(f) = "OK", ~Overdrawn(f, amount)
  PROVE  Allowed(Source(a), amount)
<1>0. history[a] \subseteq Source(a) /\ Source(a) \subseteq AccountRecord
  BY SourceFacts
<1>1. CASE f \in history[a]
  <2>1. /\ f.balance \in Int /\ "body" \notin f.lacks
        /\ f.status = "ACTIVE" /\ f.kyc \in {"VERIFIED", "UNSET"}
    BY <1>0, <1>1 DEF AccountRecord, ValidateAccount
  <2>2. f.type \in {"SAVINGS", "NRE"} => f.balance >= amount \/ "balance" \in f.lacks
    BY <2>1 DEF Overdrawn, ShowsBalance, NoOverdraftTypes
  <2> QED
    BY <1>0, <1>1, <2>1, <2>2 DEF Allowed
<1>2. CASE IsRow(Source(a), f)
  <2>1. PICK s \in Source(a), t \in Source(a) : Cacheable(s) /\ f = Upserted(CacheRow(t), s)
    BY <1>2 DEF IsRow
  <2>2. s \in AccountRecord /\ t \in AccountRecord
    BY <1>0
  <2>3. /\ f.type = CacheRow(t).type /\ f.balance = CacheRow(s).balance
        /\ f.status = CacheRow(s).status /\ f.kyc = CacheRow(s).kyc /\ f.lacks = {}
    BY <2>1, <2>2, RowFields
  <2>4. f.status = "ACTIVE" /\ f.kyc \in {"VERIFIED", "UNSET"}
    BY <2>3 DEF ValidateAccount
  <2>5. /\ "body" \notin s.lacks /\ s.status \in {"ACTIVE", "UNSET"}
        /\ s.kyc \in {"VERIFIED", "UNSET"}
    BY <2>1, <2>3, <2>4 DEF Cacheable, CacheRow, Default
  <2>6. t.type \in {"SAVINGS", "NRE"} => s.balance >= amount \/ "balance" \in s.lacks
    <3>1. t.type \in {"SAVINGS", "NRE"} => f.type \in NoOverdraftTypes
      BY <2>3 DEF CacheRow, Default, NoOverdraftTypes
    <3>2. f.type \in NoOverdraftTypes => ~(f.balance < amount)
      BY <2>3 DEF Overdrawn, ShowsBalance
    <3>3. "balance" \notin s.lacks => f.balance = s.balance
      BY <2>3, <2>5 DEF CacheRow, ShowsBalance
    <3>4. s.balance \in Int
      BY <2>2 DEF AccountRecord
    <3> QED
      BY <3>1, <3>2, <3>3, <3>4
  <2> QED
    BY <2>5, <2>6 DEF Allowed
<1> QED
  BY <1>1, <1>2 DEF IsOneOf

LEMMA InitHist == Init => HistInv
<1> SUFFICES ASSUME Init PROVE HistInv
  OBVIOUS
<1>1. CacheInv
  <2>1. ASSUME NEW a \in Account, SeedRow(a) # None
        PROVE  IsRow(Source(a), SeedRow(a))
    <3>1. Csv[a] \in Source(a) /\ Cacheable(Csv[a]) /\ SeedRow(a) = CacheRow(Csv[a])
      BY <2>1 DEF SeedRow, Source
    <3>2. Csv[a] \in AccountRecord
      BY <2>1, ServiceAssumption DEF SeedRow
    <3> QED
      BY <3>1, <3>2, RowOfOne DEF IsRow
  <2> QED
    BY <2>1 DEF Init, CacheInv
<1>2. AccountInv /\ GetInv /\ ReplyInv /\ BalanceInv /\ DebitInv
  BY DEF Init, AccountInv, GetInv, ReplyInv, BalanceInv, DebitInv, NoGet, NoCall, Op
<1> QED
  BY <1>1, <1>2 DEF HistInv

\* An answer that reaches the cache keeps its balance, status and KYC together.
LEMMA RefreshHist ==
  ASSUME IInv, HistInv, NEW a \in Account, NEW s \in history[a],
         RefreshCache(a, s), UNCHANGED history
  PROVE  CacheInv'
<1>1. /\ cache \in [Account -> OptRecord] /\ s \in Source(a) /\ s \in AccountRecord
      /\ \A x \in Account : Source(x)' = Source(x)
  BY SourceFacts DEF IInv, TypeOK, Source
<1>2. ASSUME cache[a] # None, Cacheable(s)
      PROVE  /\ IsRow(Source(a), Upserted(cache[a], s))
             /\ Upserted(cache[a], s).type = cache[a].type
             /\ Upserted(cache[a], s) # None
  <2>1. PICK u \in Source(a), t \in Source(a) :
          Cacheable(t) /\ cache[a] = Upserted(CacheRow(t), u)
    BY <1>2 DEF HistInv, CacheInv, IsRow
  <2>2. u \in AccountRecord /\ t \in AccountRecord
    BY SourceFacts
  <2>3. Upserted(cache[a], s) = Upserted(CacheRow(t), s)
    BY <1>1, <2>1, <2>2, RowOfRow
  <2>4. Upserted(cache[a], s).type = cache[a].type
    BY <1>1, <2>1, <2>2, <2>3, RowFields
  <2>5. Upserted(cache[a], s) # None
    BY <1>1, <2>2, <2>3, CacheFacts, ServiceAssumption
  <2> QED
    BY <1>1, <1>2, <2>1, <2>3, <2>4, <2>5 DEF IsRow
<1>3. Cacheable(s) => IsRow(Source(a), CacheRow(s)) /\ CacheRow(s) # None
  BY <1>1, RowOfOne, CacheFacts, ServiceAssumption DEF IsRow
<1>4. CASE UNCHANGED cache
  BY <1>1, <1>4 DEF HistInv, CacheInv
<1>5. CASE /\ Cacheable(s)
           /\ cache' = [cache EXCEPT ![a] = IF @ = None THEN CacheRow(s)
                                            ELSE Upserted(@, s)]
  <2>1. /\ \A x \in Account \ {a} : cache'[x] = cache[x]
        /\ cache'[a] = IF cache[a] = None THEN CacheRow(s) ELSE Upserted(cache[a], s)
    BY <1>1, <1>5
  <2>2. \A x \in Account : SeedRow(x)' = SeedRow(x)
    BY DEF SeedRow
  <2> QED
    BY <1>1, <1>2, <1>3, <1>5, <2>1, <2>2 DEF HistInv, CacheInv
<1> QED
  BY <1>4, <1>5 DEF RefreshCache

Grows == \A a \in Account : history[a] \subseteq history'[a]

\* A request that has arrived keeps its body.
BodiesKept == \A r \in Request : pc[r] # "idle" => pc'[r] # "idle" /\ req'[r] = req[r]

\* A debit that starts was allowed once.
DebitsAllowed ==
  \A r \in Request :
    calls'[r]["debit"].st # "none" =>
      \/ calls[r]["debit"].st # "none"
      \/ Allowed(Source(req[r].from), req[r].amount) /\ pc[r] # "idle"

\* What was once true stays so.
LEMMA StaysTrue ==
  ASSUME IInv, HistInv, Grows, BodiesKept
  PROVE  /\ UNCHANGED cache => CacheInv'
         /\ UNCHANGED gets => GetInv'
         /\ UNCHANGED replies => ReplyInv'
         /\ UNCHANGED ledger => BalanceInv'
         /\ DebitsAllowed => DebitInv'
<1>1. \A r \in Request : pc[r] # "idle" => req[r].from \in Account /\ req[r].to \in Account
  BY BodyFacts DEF IInv, ReqInv
<1>2. \A r \in Request : pc[r] = "idle" => calls[r]["debit"].st = "none"
  BY DEF IInv, ControlInv, CallsAt, Sts
<1>0. \A a \in Account : Source(a) \subseteq Source(a)'
  BY DEF Source, Grows
<1>3. UNCHANGED cache => CacheInv'
  BY <1>0 DEF HistInv, CacheInv, IsRow, SeedRow
<1>4. UNCHANGED gets => GetInv'
  <2>1. \A a \in Account : \A s : IsOneOf(a, s) => IsOneOf(a, s)'
    BY <1>0 DEF IsOneOf, IsRow, Grows
  <2> QED
    BY <2>1 DEF HistInv, GetInv, Grows
<1>5. UNCHANGED replies => ReplyInv'
  BY <1>1 DEF HistInv, ReplyInv, Target, BodiesKept, Grows
<1>6. UNCHANGED ledger => BalanceInv'
  <2>1. \A row \in ledger : row.account \in Account
    BY DEF IInv, TypeOK, Row
  <2> QED
    BY <2>1 DEF HistInv, BalanceInv, Grows
<1>7. DebitsAllowed => DebitInv'
  <2>1. ASSUME DebitsAllowed, NEW r \in Request, calls'[r]["debit"].st # "none"
        PROVE  Allowed(Source(req[r].from), req[r].amount)'
    <3>1. Allowed(Source(req[r].from), req[r].amount) /\ pc[r] # "idle"
      BY <1>2, <2>1 DEF HistInv, DebitInv, DebitsAllowed
    <3>2. req'[r] = req[r] /\ Source(req[r].from) \subseteq Source(req[r].from)'
      BY <1>0, <1>1, <3>1 DEF BodiesKept
    <3> QED
      BY <3>1, <3>2 DEF Allowed, Source
  <2> QED
    BY <2>1 DEF DebitInv
<1> QED
  BY <1>3, <1>4, <1>5, <1>6, <1>7

\* Steps that leave the accounts, the answers and the ledger as they are.
LEMMA HistFrame ==
  ASSUME IInv, HistInv, UNCHANGED <<accounts, history, replies, ledger>>,
         CacheInv', GetInv', BodiesKept, DebitsAllowed
  PROVE  HistInv'
<1>1. AccountInv' /\ Grows
  BY DEF HistInv, AccountInv, Grows
<1> QED
  BY <1>1, StaysTrue DEF HistInv

-----------------------------------------------------------------------------
(* Arrivals, reads and checks.                                             *)

\* Reads alone: what a handler holds is new, or was true when it was read.
LEMMA GetFrame ==
  ASSUME HistInv, UNCHANGED history,
         \A q \in Request, x \in Account :
           \/ gets'[q][x] = gets[q][x]
           \/ gets'[q][x].st \notin {"read", "done"}
           \/ gets'[q][x].st = "read" /\ gets'[q][x].snap \in history[x]
           \/ gets'[q][x].st = "done" /\ IsOneOf(x, gets'[q][x].snap)
  PROVE  GetInv'
<1> SUFFICES ASSUME NEW q \in Request, NEW x \in Account
             PROVE  /\ gets'[q][x].st = "read" => gets'[q][x].snap \in history[x]
                    /\ gets'[q][x].st = "done" => IsOneOf(x, gets'[q][x].snap)
  <2>1. /\ \A y \in Account : \A s : IsOneOf(y, s)' = IsOneOf(y, s)
        /\ history' = history
    BY DEF IsOneOf, IsRow, Source
  <2> QED
    BY <2>1 DEF GetInv
<1>1. /\ gets[q][x].st = "read" => gets[q][x].snap \in history[x]
      /\ gets[q][x].st = "done" => IsOneOf(x, gets[q][x].snap)
  BY DEF HistInv, GetInv
<1> QED
  BY <1>1

LEMMA ArrivalHist ==
  ASSUME IInv, HistInv, NEW r \in Request, Arrival(r)
  PROVE  HistInv'
<1>1. PICK b \in Body :
        /\ Arrives(r, b)
        /\ \/ UNCHANGED gets
           \/ gets' = [gets EXCEPT ![r] = [a \in Account |->
                         IF a \in {b.from, b.to} THEN [st |-> "sent", snap |-> None]
                                                 ELSE NoGet]]
        /\ \E p \in {"reading", "done"} : pc' = [pc EXCEPT ![r] = p]
  BY DEF Arrival, Accept, RejectSameAccount, RejectKeyReuse, Replay, LookupFails,
         Goto, Respond
<1>2. /\ UNCHANGED <<accounts, history, replies, ledger>> /\ UNCHANGED cache
      /\ UNCHANGED history /\ UNCHANGED calls /\ BodiesKept
  BY <1>1 DEF BodiesKept, Arrives, tables, external, IInv, TypeOK
<1>3. CacheInv' /\ DebitsAllowed
  BY <1>2 DEF HistInv, CacheInv, DebitsAllowed, Source, SeedRow
<1>4. \A q \in Request, x \in Account :
        gets'[q][x] = gets[q][x] \/ gets'[q][x].st \notin {"read", "done"}
  <2>1. gets \in [Request -> [Account -> GetState]]
    BY DEF IInv, TypeOK
  <2> QED
    BY <1>1, <2>1 DEF NoGet
<1>5. GetInv'
  BY <1>2, <1>4, GetFrame
<1> QED
  BY <1>2, <1>3, <1>5, HistFrame

LEMMA ReadHist ==
  ASSUME IInv, HistInv, NEW r \in Request, NEW a \in Account, ServerReads(r, a)
  PROVE  HistInv'
<1>1. /\ accounts[a] \in history[a] /\ UNCHANGED history
      /\ UNCHANGED <<accounts, history, replies, ledger>>
      /\ UNCHANGED <<cache, calls, req, pc>>
  BY DEF HistInv, AccountInv, ServerReads, external, tables
<1>2. CacheInv' /\ DebitsAllowed /\ BodiesKept
  BY <1>1 DEF HistInv, CacheInv, DebitsAllowed, BodiesKept, Source, SeedRow
<1>3. \A q \in Request, x \in Account :
        \/ gets'[q][x] = gets[q][x]
        \/ gets'[q][x].st = "read" /\ gets'[q][x].snap \in history[x]
  BY <1>1 DEF ServerReads, IInv, TypeOK
<1>4. GetInv'
  BY <1>1, <1>3, GetFrame
<1> QED
  BY <1>1, <1>2, <1>4, HistFrame

\* A debit is sent when the checks have passed, on data that was true once.
LEMMA DecideHist ==
  ASSUME IInv, HistInv, NEW r \in Request, pc[r] = "reading", req[r] \in Body,
         NEW f, NEW t, IsOneOf(req[r].from, f), Decide(r, f, t)
  PROVE  DebitsAllowed
<1> USE DEF DebitsAllowed
<1>1. calls \in [Request -> [Op -> CallRecord]] /\ {"debit", "credit"} \subseteq Op
  BY DEF IInv, TypeOK, Op
<1>2. CASE UNCHANGED calls
  BY <1>2
<1>3. CASE StartCall(r, "credit")
  <2>1. calls' = [calls EXCEPT ![r]["credit"] = OpenCall]
    BY <1>3 DEF StartCall
  <2> QED
    BY <1>1, <2>1, CallUpdate
<1>4. CASE StartCall(r, "debit") /\ AccountVerdict(req[r], f, t) = "OK"
           /\ req[r].kind # "DEPOSIT"
  <2>1. ValidateAccount(f) = "OK" /\ ~Overdrawn(f, req[r].amount)
    BY <1>4 DEF AccountVerdict
  <2>2. Allowed(Source(req[r].from), req[r].amount)
    <3>1. req[r].from \in Account /\ req[r].amount \in Int
      BY BodyFacts
    <3> QED
      BY <2>1, <3>1, PassedIsAllowed
  <2>3. calls' = [calls EXCEPT ![r]["debit"] = OpenCall]
    BY <1>4 DEF StartCall
  <2>4. \A q \in Request, o \in Op :
          q # r \/ o # "debit" => calls'[q][o] = calls[q][o]
    BY <1>1, <2>3, CallUpdate
  <2> QED
    BY <1>1, <2>2, <2>4
<1> QED
  BY <1>2, <1>3, <1>4 DEF Decide

LEMMA SettleHist ==
  ASSUME IInv, HistInv, NEW r \in Request, NEW a \in Account, NEW s,
         IsOneOf(a, s), Settle(r, a, s), CacheInv',
         UNCHANGED <<accounts, history, replies, ledger>>, UNCHANGED req
  PROVE  HistInv'
<1> DEFINE g == [gets[r] EXCEPT ![a] = [st |-> "done", snap |-> s]]
<1>1. /\ gets \in [Request -> [Account -> GetState]] /\ UNCHANGED history
      /\ gets[r] \in [Account -> GetState]
  BY DEF IInv, TypeOK
<1>2. \A x \in Account : \/ g[x] = gets[r][x]
                         \/ g[x].st = "done" /\ IsOneOf(x, g[x].snap)
  BY <1>1
<1>3. \/ gets' = [gets EXCEPT ![r][a] = NoGet]
      \/ gets' = [gets EXCEPT ![r] = g]
      \/ gets' = [gets EXCEPT ![r] = [x \in Account |-> NoGet]]
  BY DEF Settle
<1>4. GetInv'
  <2> HIDE DEF g
  <2>1. \A q \in Request, x \in Account :
          \/ gets'[q][x] = gets[q][x]
          \/ gets'[q][x].st \notin {"read", "done"}
          \/ gets'[q][x].st = "done" /\ IsOneOf(x, gets'[q][x].snap)
    BY <1>1, <1>2, <1>3 DEF NoGet
  <2> QED
    BY <1>1, <2>1, GetFrame
<1>5. BodiesKept
  BY DEF BodiesKept, Settle, Decide, Goto, Respond, IInv, TypeOK
<1>6. DebitsAllowed
  <2>1. CASE UNCHANGED calls
    BY <2>1 DEF DebitsAllowed
  <2>2. CASE ~UNCHANGED calls
    <3>1. /\ pc[r] = "reading" /\ \A x \in Needed(r) : g[x].st = "done"
          /\ Decide(r, g[req[r].from].snap, g[req[r].to].snap)
      BY <2>2 DEF Settle
    <3>2. req[r] \in Body /\ req[r].from \in Account
      BY <3>1, BodyFacts DEF IInv, ReqInv
    <3> HIDE DEF g
    <3>3. g[req[r].from].st = "done"
      BY <3>1 DEF Needed
    <3>4. gets[r][req[r].from].st = "done" =>
            IsOneOf(req[r].from, gets[r][req[r].from].snap)
      BY <3>2 DEF HistInv, GetInv
    <3>5. IsOneOf(req[r].from, g[req[r].from].snap)
      BY <1>2, <3>2, <3>3, <3>4
    <3> QED
      BY <3>1, <3>2, <3>5, DecideHist
  <2> QED
    BY <2>1, <2>2
<1> QED
  BY <1>4, <1>5, <1>6, HistFrame

LEMMA GetHist ==
  ASSUME IInv, HistInv, NEW r \in Request, NEW a \in Account, Get(r, a)
  PROVE  HistInv'
<1>1. CASE GetReturns(r, a)
  <2>1. /\ gets[r][a].snap \in history[a] /\ IsOneOf(a, gets[r][a].snap)
        /\ UNCHANGED <<accounts, history, replies, ledger>> /\ UNCHANGED history
        /\ UNCHANGED req
        /\ RefreshCache(a, gets[r][a].snap) /\ Settle(r, a, gets[r][a].snap)
    BY <1>1, SourceFacts DEF GetReturns, HistInv, GetInv, IsOneOf, external
  <2>2. CacheInv'
    BY <2>1, RefreshHist
  <2> QED
    BY <2>1, <2>2, SettleHist
<1>2. CASE GetFallsBack(r, a)
  <2>1. /\ cache[a] # None /\ Settle(r, a, cache[a])
        /\ UNCHANGED <<accounts, history, replies, ledger>>
        /\ UNCHANGED req /\ UNCHANGED cache
    BY <1>2 DEF GetFallsBack, tables, external
  <2>2. IsOneOf(a, cache[a])
    BY <2>1 DEF HistInv, CacheInv, IsOneOf
  <2>3. CacheInv'
    BY <2>1 DEF HistInv, CacheInv, Source, SeedRow
  <2> QED
    BY <2>1, <2>2, <2>3, SettleHist
<1>3. CASE GetFails(r, a)
  <2>1. /\ UNCHANGED <<accounts, history, replies, ledger>> /\ UNCHANGED history
        /\ UNCHANGED <<cache, calls, req>>
    BY <1>3 DEF GetFails, tables, external
  <2>2. CacheInv' /\ DebitsAllowed
    BY <2>1 DEF HistInv, CacheInv, DebitsAllowed, Source, SeedRow
  <2>3. \A q \in Request, x \in Account :
          gets'[q][x] = gets[q][x] \/ gets'[q][x].st \notin {"read", "done"}
    BY <1>3 DEF GetFails, NoGet, IInv, TypeOK
  <2>4. GetInv'
    BY <2>1, <2>3, GetFrame
  <2>5. BodiesKept
    BY <1>3, <2>1 DEF GetFails, Respond, BodiesKept, IInv, TypeOK
  <2> QED
    BY <2>1, <2>2, <2>4, <2>5, HistFrame
<1> QED
  BY <1>1, <1>2, <1>3 DEF Get

-----------------------------------------------------------------------------
(* PATCH calls, the end of a transaction, the environment.                 *)

\* The Account Service puts a new record of an account in its history.
LEMMA NewRecord ==
  ASSUME IInv, HistInv, NEW a \in Account, NEW after,
         accounts' = [accounts EXCEPT ![a] = after],
         history' = [history EXCEPT ![a] = @ \cup {after}]
  PROVE  Grows /\ AccountInv'
<1>1. accounts \in [Account -> AccountRecord] /\ history \in [Account -> SUBSET AccountRecord]
  BY DEF IInv, TypeOK
<1>2. /\ accounts'[a] = after /\ history'[a] = history[a] \cup {after}
      /\ \A x \in Account \ {a} : accounts'[x] = accounts[x] /\ history'[x] = history[x]
  BY <1>1
<1> QED
  BY <1>2 DEF HistInv, AccountInv, Grows

LEMMA ExecuteHist ==
  ASSUME IInv, HistInv, NEW r \in Request, NEW op \in Op, ServerExecutes(r, op)
  PROVE  HistInv'
<1> DEFINE a     == Target(r, op)
           delta == IF op = "debit" THEN -req[r].amount ELSE req[r].amount
           after == [accounts[a] EXCEPT !.balance = @ + delta]
<1>1. /\ calls \in [Request -> [Op -> CallRecord]]
      /\ calls[r][op] \in CallRecord /\ CanExecute(calls[r][op])
      /\ accounts \in [Account -> AccountRecord]
      /\ replies \in [Request -> [Op -> OptRecord]]
  BY DEF IInv, TypeOK, ServerExecutes
<1>2. pc[r] # "idle"
  <2>1. calls[r][op].st # "none"
    BY <1>1 DEF IInv, CallInv, CanExecute, CallRecord
  <2> QED
    BY <2>1 DEF IInv, ControlInv, CallsAt, Sts, Op
<1>3. a \in Account
  BY <1>2, BodyFacts DEF IInv, ReqInv, Target
<1>4. /\ accounts' = [accounts EXCEPT ![a] = after]
      /\ history' = [history EXCEPT ![a] = @ \cup {after}]
      /\ EndCall(r, op, Executed(calls[r][op]))
      /\ replies' = [replies EXCEPT ![r][op] = after] \/ UNCHANGED replies
      /\ UNCHANGED <<tables, pc, req, gets>>
  BY DEF ServerExecutes
<1> HIDE DEF after, a
<1>5. Grows /\ AccountInv' /\ BodiesKept
  BY <1>3, <1>4, NewRecord DEF BodiesKept
<1>6. DebitsAllowed
  <2>1. calls' = [calls EXCEPT ![r][op] = Executed(calls[r][op])]
    BY <1>4 DEF EndCall
  <2>2. Executed(calls[r][op]).st = calls[r][op].st
    BY <1>1 DEF Executed, CallRecord
  <2>3. "debit" \in Op
    BY DEF Op
  <2> QED
    BY <1>1, <2>1, <2>2, <2>3 DEF DebitsAllowed
<1>7. ReplyInv'
  <2>1. CASE UNCHANGED replies
    BY <1>5, <2>1, StaysTrue
  <2>2. CASE replies' = [replies EXCEPT ![r][op] = after]
    <3>1. after \in history'[a] /\ a = Target(r, op)
      BY <1>3, <1>4 DEF IInv, TypeOK, a
    <3>2. replies'[r][op] = after
          /\ \A q \in Request, o \in Op : q # r \/ o # op => replies'[q][o] = replies[q][o]
      BY <1>1, <2>2
    <3>3. ASSUME NEW q \in Request, NEW o \in Op, replies[q][o] # None
          PROVE  pc[q] # "idle" /\ replies[q][o] \in history'[Target(q, o)]
      <4>1. pc[q] # "idle" /\ replies[q][o] \in history[Target(q, o)]
        BY <3>3 DEF HistInv, ReplyInv
      <4>2. Target(q, o) \in Account
        BY <4>1, BodyFacts DEF IInv, ReqInv, Target
      <4> QED
        BY <1>5, <4>1, <4>2 DEF Grows
    <3>4. \A q \in Request, o \in Op : Target(q, o)' = Target(q, o) /\ pc'[q] = pc[q]
      BY <1>4 DEF Target
    <3> QED
      BY <1>2, <3>1, <3>2, <3>3, <3>4 DEF ReplyInv
  <2> QED
    BY <1>4, <2>1, <2>2
<1>8. UNCHANGED <<cache, gets, ledger>>
  BY <1>4 DEF tables
<1> QED
  BY <1>5, <1>6, <1>7, <1>8, StaysTrue DEF HistInv

LEMMA ResendHist ==
  ASSUME IInv, HistInv, NEW r \in Request, NEW op \in Op, Resends(r, op)
  PROVE  HistInv'
<1>1. /\ UNCHANGED <<accounts, history, replies, ledger>>
      /\ UNCHANGED <<cache, gets, pc, req>>
  BY DEF Resends, external, tables
<1>2. BodiesKept /\ Grows
  BY <1>1 DEF BodiesKept, Grows
<1>3. DebitsAllowed
  <2>1. calls \in [Request -> [Op -> CallRecord]] /\ "debit" \in Op
    BY DEF IInv, TypeOK, Op
  <2>2. calls[r][op].st # "none"
    BY DEF Resends, CanResend
  <2>3. calls' = [calls EXCEPT ![r][op] = Resent(calls[r][op])]
    BY DEF Resends, EndCall
  <2>4. \A q \in Request, o \in Op :
          q # r \/ o # op => calls'[q][o] = calls[q][o]
    BY <2>1, <2>3, CallUpdate
  <2>5. calls[r]["debit"].st = "none" => op # "debit"
    BY <2>2
  <2>6. \A q \in Request : calls[q]["debit"].st = "none" => calls'[q]["debit"].st = "none"
    BY <2>1, <2>4, <2>5
  <2> QED
    BY <2>6 DEF DebitsAllowed
<1> QED
  BY <1>1, <1>2, <1>3, StaysTrue, HistFrame

\* A handler goes on after a PATCH call: no debit starts, and the answers of
\* debitAccount and creditAccount, but not that of rollbackDebit, are cached.
LEMMA PatchHist ==
  ASSUME IInv, HistInv, NEW r \in Request, Patch(r)
  PROVE  HistInv'
<1>1. TypeOK /\ {"debit", "credit", "rollback"} \subseteq Op /\ pc[r] # "idle"
  BY DEF IInv, TypeOK, Op, Patch, DebitReturns, DebitFails, CreditReturns, CreditFails,
         RollbackReturns, RollbackFails, RollbackEnds
<1>2. UNCHANGED <<accounts, history, replies, ledger>> /\ UNCHANGED gets /\ UNCHANGED req
  BY DEF Patch, DebitReturns, DebitFails, CreditReturns, CreditFails,
         RollbackReturns, RollbackFails, RollbackEnds, tables, external
<1>3. \E p \in InFlight \cup {"done"} : pc' = [pc EXCEPT ![r] = p]
  BY DEF Patch, DebitReturns, DebitFails, CreditReturns, CreditFails,
         RollbackReturns, RollbackFails, RollbackEnds, Goto, Respond,
         InFlight, AwaitPhase, SyncPhase
<1>4. BodiesKept /\ Grows
  BY <1>1, <1>2, <1>3 DEF BodiesKept, Grows, TypeOK, InFlight, AwaitPhase, SyncPhase
<1>5. DebitsAllowed
  <2>1. \A q \in Request : q # r => calls'[q]["debit"] = calls[q]["debit"]
    BY <1>1 DEF Patch, DebitReturns, DebitFails, CreditReturns, CreditFails,
           RollbackReturns, RollbackFails, RollbackEnds, EndCall, TypeOK
  <2>2. calls[r]["debit"].st # "none" \/ calls'[r]["debit"] = calls[r]["debit"]
    BY <1>1 DEF Patch, DebitReturns, DebitFails, CreditReturns, CreditFails,
           RollbackReturns, RollbackFails, RollbackEnds, EndCall, TypeOK,
           CanReturn, CanFail
  <2> QED
    BY <2>1, <2>2 DEF DebitsAllowed
<1>6. CacheInv'
  <2>1. CASE UNCHANGED cache
    BY <1>4, <2>1, StaysTrue
  <2>2. ASSUME NEW op \in Op, calls[r][op].st = "open", calls[r][op].executed > 0,
               RefreshCache(Target(r, op), replies[r][op])
        PROVE  CacheInv'
    <3>1. Target(r, op) \in Account
      BY <1>1, BodyFacts DEF IInv, ReqInv, Target
    <3>2. replies[r][op] \in history[Target(r, op)] /\ UNCHANGED history
      BY <1>2, <2>2, ServiceAssumption DEF HistInv, ReplyInv, IInv, CallInv
    <3> QED
      BY <2>2, <3>1, <3>2, RefreshHist
  <2>3. CASE DebitReturns(r)
    BY <1>1, <2>2, <2>3 DEF DebitReturns, CanReturn, Target
  <2>4. CASE CreditReturns(r)
    BY <1>1, <2>2, <2>4 DEF CreditReturns, CanReturn, Target
  <2> QED
    BY <2>1, <2>3, <2>4 DEF Patch, DebitFails, CreditFails, RollbackReturns,
       RollbackFails, RollbackEnds, tables
<1> QED
  BY <1>2, <1>4, <1>5, <1>6, StaysTrue, HistFrame

LEMMA CommitHist ==
  ASSUME IInv, HistInv, NEW r \in Request, Commit(r)
  PROVE  HistInv'
<1>1. TypeOK /\ {"debit", "credit"} \subseteq Op /\ pc[r] \in SyncPhase
  BY DEF IInv, TypeOK, Op, Commit, RecordSingle, InsertBoth, IncrementDailyTotal,
         StoreIdempotent, DbFails, SyncPhase
<1>2. UNCHANGED <<accounts, history, replies, cache, gets, req, calls>>
  BY DEF Commit, RecordSingle, InsertBoth, IncrementDailyTotal, StoreIdempotent,
         DbFails, tables, external
<1>3. AccountInv' /\ BodiesKept /\ Grows /\ DebitsAllowed
  BY <1>1, <1>2 DEF Commit, RecordSingle, InsertBoth, IncrementDailyTotal, StoreIdempotent,
         DbFails, Goto, Respond, TypeOK, HistInv, AccountInv, BodiesKept, Grows, DebitsAllowed
<1>4. BalanceInv'
  <2>1. CASE UNCHANGED ledger
    BY <1>3, <2>1, StaysTrue
  <2>2. ASSUME NEW type \in TxnType, calls[r][OpOf(type)].st = "ok"
        PROVE  Leg(r, type).balanceAfter # None =>
                 \E h \in history[Leg(r, type).account] : h.balance = Leg(r, type).balanceAfter
    <3>1. /\ Leg(r, type).account = Target(r, OpOf(type)) /\ OpOf(type) \in Op
          /\ Leg(r, type).balanceAfter # None =>
               Leg(r, type).balanceAfter = replies[r][OpOf(type)].balance
      BY <1>1 DEF Leg, OpOf
    <3>2. replies[r][OpOf(type)] \in AccountRecord
      BY <1>1, <2>2, <3>1, CommitFacts
    <3>3. replies[r][OpOf(type)] \in history[Target(r, OpOf(type))]
      BY <3>1, <3>2, ServiceAssumption DEF HistInv, ReplyInv
    <3> QED
      BY <3>1, <3>3
  <2>3. CASE RecordSingle(r)
    <3>1. /\ req[r].kind \in TxnType /\ calls[r][OpOf(req[r].kind)].st = "ok"
          /\ ledger' = ledger \cup {Leg(r, req[r].kind)}
      BY <1>1, <2>3, CommitFacts
      DEF RecordSingle, IInv, ControlInv, CallsAt, Sts, OpOf, TxnType, Kind
    <3>2. Leg(r, req[r].kind).balanceAfter # None =>
            \E h \in history[Leg(r, req[r].kind).account] :
              h.balance = Leg(r, req[r].kind).balanceAfter
      BY <2>2, <3>1
    <3> QED
      BY <1>2, <3>1, <3>2 DEF HistInv, BalanceInv
  <2>4. CASE InsertBoth(r)
    <3> DEFINE out == Leg(r, "TRANSFER_OUT")
               in  == Leg(r, "TRANSFER_IN")
    <3>1. /\ calls[r]["debit"].st = "ok" /\ calls[r]["credit"].st = "ok"
          /\ ledger' = ledger \cup {out, in}
      BY <2>4 DEF InsertBoth, IInv, ControlInv, CallsAt, Sts
    <3>2. /\ out.balanceAfter # None =>
               \E h \in history[out.account] : h.balance = out.balanceAfter
          /\ in.balanceAfter # None =>
               \E h \in history[in.account] : h.balance = in.balanceAfter
      <4>1. /\ OpOf("TRANSFER_OUT") = "debit" /\ OpOf("TRANSFER_IN") = "credit"
            /\ {"TRANSFER_OUT", "TRANSFER_IN"} \subseteq TxnType
        BY DEF OpOf, TxnType
      <4> QED
        BY <2>2, <3>1, <4>1
    <3> HIDE DEF out, in
    <3> QED
      BY <1>2, <3>1, <3>2 DEF HistInv, BalanceInv
  <2> QED
    BY <2>1, <2>3, <2>4 DEF Commit, IncrementDailyTotal, StoreIdempotent, DbFails, tables
<1> QED
  BY <1>2, <1>3, <1>4, StaysTrue DEF HistInv

LEMMA CrashHist ==
  ASSUME IInv, HistInv, Crash
  PROVE  HistInv'
<1>1. /\ UNCHANGED <<accounts, history, replies, ledger>> /\ UNCHANGED cache
      /\ UNCHANGED req /\ UNCHANGED history
  BY DEF Crash, external, tables
<1>2. BodiesKept /\ Grows
  BY <1>1 DEF Crash, IInv, TypeOK, BodiesKept, Grows
<1>3. GetInv'
  BY DEF Crash, GetInv, NoGet
<1>4. DebitsAllowed
  <2>1. ASSUME NEW r \in Request, calls[r]["debit"].st = "none"
        PROVE  calls'[r]["debit"].st = "none"
    <3>1. "debit" \in Op /\ calls[r]["debit"] \in CallRecord
      BY DEF Op, IInv, TypeOK
    <3>2. calls'[r]["debit"] = GivenUp(calls[r]["debit"])
      BY <3>1 DEF Crash
    <3> QED
      BY <2>1, <3>1, <3>2, CallFacts
  <2> QED
    BY <2>1 DEF DebitsAllowed
<1> QED
  BY <1>1, <1>2, <1>3, <1>4, StaysTrue, HistFrame

LEMMA ChangeHist ==
  ASSUME IInv, HistInv, NEW a \in Account, AccountChanges(a)
  PROVE  HistInv'
<1>1. PICK after : /\ accounts' = [accounts EXCEPT ![a] = after]
                   /\ history' = [history EXCEPT ![a] = @ \cup {after}]
  BY DEF AccountChanges
<1>3. Grows /\ AccountInv'
  BY <1>1, NewRecord
<1>4. UNCHANGED <<cache, gets, replies, ledger, calls, pc, req>>
  BY DEF AccountChanges, tables
<1>5. BodiesKept /\ DebitsAllowed
  BY <1>4 DEF BodiesKept, DebitsAllowed
<1> QED
  BY <1>3, <1>4, <1>5, StaysTrue DEF HistInv

LEMMA NextHist == IInv /\ HistInv /\ [Next]_vars => HistInv'
<1> SUFFICES ASSUME IInv, HistInv, [Next]_vars PROVE HistInv'
  OBVIOUS
<1>1. ASSUME NEW r \in Request, Server(r)
      PROVE  HistInv'
  BY <1>1, ReadHist, ExecuteHist, ResendHist DEF Server
<1>2. CASE Tick \/ UNCHANGED vars
  <2>1. /\ UNCHANGED <<accounts, history, replies, ledger>>
        /\ UNCHANGED <<cache, gets, pc, req, calls>>
    BY <1>2 DEF Tick, vars, external, tables
  <2>2. BodiesKept /\ DebitsAllowed /\ Grows
    BY <2>1 DEF BodiesKept, DebitsAllowed, Grows
  <2> QED
    BY <2>1, <2>2, StaysTrue, HistFrame
<1> QED
  BY <1>1, <1>2, ArrivalHist, PatchHist, CommitHist, GetHist, CrashHist, ChangeHist DEF Next

LEMMA HistInvariant == Spec => [](IInv /\ HistInv)
<1>1. Init => IInv /\ HistInv
  BY InitInv, InitHist
<1>2. IInv /\ HistInv /\ [Next]_vars => (IInv /\ HistInv)'
  BY NextInv, NextHist
<1> QED
  BY <1>1, <1>2, PTL DEF Spec

\* Whatever answers overtake one another, are lost or come late, and whatever
\* the CSV files hold, account_cache keeps balance, status and KYC of one source
\* together, and the type it was first given.
THEOREM CachedAsAnswered == Spec => []CachedFromOneAnswer
<1>1. IInv /\ HistInv => CachedFromOneAnswer
  <2> SUFFICES ASSUME IInv, HistInv, NEW a \in Account, cache[a] # None
               PROVE  /\ \E s \in Source(a) :
                           /\ cache[a].balance = IF "balance" \in s.lacks THEN 0 ELSE s.balance
                           /\ cache[a].status  = IF s.status = "UNSET" THEN "ACTIVE" ELSE s.status
                           /\ cache[a].kyc     = IF s.kyc = "UNSET" THEN "VERIFIED" ELSE s.kyc
                      /\ \E s \in Source(a) :
                           cache[a].type = IF s.type = "UNSET" THEN "SAVINGS" ELSE s.type
                      /\ SeedRow(a) # None => cache[a].type = SeedRow(a).type
    BY DEF CachedFromOneAnswer
  <2>1. PICK s \in Source(a), t \in Source(a) :
          Cacheable(s) /\ cache[a] = Upserted(CacheRow(t), s)
    BY DEF HistInv, CacheInv, IsRow
  <2>2. s \in AccountRecord /\ t \in AccountRecord
    BY SourceFacts
  <2>3. /\ cache[a].type = CacheRow(t).type /\ cache[a].balance = CacheRow(s).balance
        /\ cache[a].status = CacheRow(s).status /\ cache[a].kyc = CacheRow(s).kyc
    BY <2>1, <2>2, RowFields
  <2>4. /\ cache[a].balance = IF "balance" \in s.lacks THEN 0 ELSE s.balance
        /\ cache[a].status  = IF s.status = "UNSET" THEN "ACTIVE" ELSE s.status
        /\ cache[a].kyc     = IF s.kyc = "UNSET" THEN "VERIFIED" ELSE s.kyc
    BY <2>1, <2>3 DEF Cacheable, CacheRow, ShowsBalance, Default
  <2>5. cache[a].type = IF t.type = "UNSET" THEN "SAVINGS" ELSE t.type
    BY <2>3 DEF CacheRow, Default
  <2> QED
    BY <2>4, <2>5 DEF HistInv, CacheInv
<1> QED
  BY <1>1, HistInvariant, PTL

\* Every balance_after that was recorded is one the account had, late and
\* repeated answers included.
THEOREM BalanceAfterReal == Spec => []BalanceAfterWasReal
<1>1. HistInv => BalanceAfterWasReal
  BY DEF HistInv, BalanceInv, BalanceAfterWasReal
<1> QED
  BY <1>1, HistInvariant, PTL

\* No debit is sent that one source of its account did not allow, though the
\* checks may run on a cached row or on an answer that is out of date.
THEOREM DebitsWereAllowed == Spec => []EveryDebitWasOnceAllowed
<1>1. HistInv => EveryDebitWasOnceAllowed
  BY DEF HistInv, DebitInv, EveryDebitWasOnceAllowed, Issued, Allowed
<1> QED
  BY <1>1, HistInvariant, PTL
=============================================================================
