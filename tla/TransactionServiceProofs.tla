---------------------- MODULE TransactionServiceProofs ----------------------
(***************************************************************************)
(* Type correctness of the transaction service and its safety under every  *)
(* fault, for any requests, accounts, keys, bodies, bounds and faults.     *)
(***************************************************************************)
EXTENDS TransactionProperties, TLAPS

Sts(r, d, c, b) == /\ calls[r]["debit"].st = d
                   /\ calls[r]["credit"].st = c
                   /\ calls[r]["rollback"].st = b

\* The handler's position tells the state of its calls.
CallsAt(r) ==
  /\ pc[r] \in {"idle", "reading"} => Sts(r, "none", "none", "none")
  /\ pc[r] = "debiting" =>
       req[r].kind # "DEPOSIT" /\ Sts(r, "open", "none", "none")
  /\ pc[r] = "crediting" =>
       \/ req[r].kind = "TRANSFER" /\ Sts(r, "ok", "open", "none")
       \/ req[r].kind = "DEPOSIT" /\ Sts(r, "none", "open", "none")
  /\ pc[r] = "rolling" =>
       req[r].kind = "TRANSFER" /\ Sts(r, "ok", "failed", "open")
  /\ pc[r] = "recording" =>
       \/ req[r].kind = "TRANSFER" /\ Sts(r, "ok", "ok", "none")
       \/ req[r].kind = "DEPOSIT" /\ Sts(r, "none", "ok", "none")
       \/ req[r].kind = "WITHDRAWAL" /\ Sts(r, "ok", "none", "none")
  /\ pc[r] \in {"counting", "storing"} =>
       req[r].kind = "TRANSFER" /\ Sts(r, "ok", "ok", "none")
  /\ pc[r] = "done" => \A op \in Op : calls[r][op].st # "open"

ControlInv == \A r \in Request : CallsAt(r)

\* A request being served has a body.
ReqInv == \A r \in Request : pc[r] # "idle" => req[r] \in Body

\* A call was sent before it was executed, and answered before it resolved.
CallInv ==
  \A r \in Request, op \in Op :
    /\ calls[r][op].st = "none" => calls[r][op].sent = 0
    /\ calls[r][op].executed <= calls[r][op].sent
    /\ calls[r][op].st = "ok" => calls[r][op].executed > 0
    /\ calls[r][op].st \in {"open", "ok"} /\ calls[r][op].executed > 0 =>
         replies[r][op] \in AccountRecord

SnapInv ==
  \A r \in Request, a \in Account :
    gets[r][a].st \in {"read", "done"} => gets[r][a].snap \in AccountRecord

IInv == TypeOK /\ ControlInv /\ ReqInv /\ CallInv /\ SnapInv

-----------------------------------------------------------------------------
(* Facts about the operators the actions are built from.                   *)

LEMMA CallFacts ==
  ASSUME NEW c \in CallRecord
  PROVE  /\ CanExecute(c) => Executed(c) \in CallRecord
         /\ CanResend(c) => Resent(c) \in CallRecord
         /\ Returned(c) \in CallRecord /\ Returned(c).st = "ok"
         /\ GivenUp(c) \in CallRecord /\ GivenUp(c).st # "open"
         /\ c.st = "none" => GivenUp(c).st = "none"
         /\ c.executed \in Nat /\ c.sent \in Nat
BY MaxRetriesAssumption
   DEF CallRecord, CanExecute, Executed, CanResend, Resent, Returned, GivenUp

LEMMA OpenCallFacts == OpenCall \in CallRecord /\ NoCall \in CallRecord
BY MaxRetriesAssumption DEF OpenCall, NoCall, CallRecord

LEMMA CacheFacts ==
  ASSUME NEW s \in AccountRecord, NEW old \in AccountRecord
  PROVE  CacheRow(s) \in AccountRecord /\ Upserted(old, s) \in AccountRecord
<1>1. /\ s.type \in AccountType /\ s.status \in Status /\ s.kyc \in KycStatus
      /\ s.balance \in Int /\ old.type \in AccountType
  BY DEF AccountRecord
<1>2. /\ Default(s.type, "SAVINGS") \in AccountType
      /\ Default(s.status, "ACTIVE") \in Status
      /\ Default(s.kyc, "VERIFIED") \in KycStatus
  BY <1>1 DEF Default, AccountType, CachedType, Status, CachedStatus, KycStatus, CachedKyc
<1>3. /\ (IF ShowsBalance(s) THEN s.balance ELSE 0) \in Int
      /\ {} \in SUBSET {"body", "account_id", "balance"}
  BY <1>1
<1>4. CacheRow(s) \in AccountRecord
  BY <1>2, <1>3 DEF AccountRecord, CacheRow
<1> QED
  BY <1>1, <1>4 DEF AccountRecord, Upserted

LEMMA RefreshFacts ==
  ASSUME TypeOK, NEW a \in Account, NEW s \in AccountRecord, RefreshCache(a, s)
  PROVE  cache' \in [Account -> OptRecord]
<1>1. cache \in [Account -> OptRecord]
  BY DEF TypeOK
<1>2. cache[a] # None => cache[a] \in AccountRecord
  BY <1>1 DEF OptRecord
<1>3. CASE UNCHANGED cache
  BY <1>1, <1>3
<1>4. CASE cache' = IF ~Cacheable(s) THEN cache
                    ELSE [cache EXCEPT ![a] = IF @ = None THEN CacheRow(s)
                                              ELSE Upserted(@, s)]
  <2>1. CacheRow(s) \in OptRecord
    BY CacheFacts DEF OptRecord
  <2>2. cache[a] # None => Upserted(cache[a], s) \in OptRecord
    BY <1>2, CacheFacts DEF OptRecord
  <2> QED
    BY <1>1, <1>4, <2>1, <2>2
<1> QED
  BY <1>3, <1>4 DEF RefreshCache

LEMMA BumpFacts ==
  ASSUME TypeOK, NEW cs, Bump(cs)
  PROVE  metrics' \in [Counter -> Nat]
BY DEF TypeOK, Bump

LEMMA GotoFacts ==
  ASSUME TypeOK, NEW r \in Request, NEW phase \in InFlight, Goto(r, phase)
  PROVE  /\ pc' \in [Request -> InFlight \cup {"idle", "done"}]
         /\ result' \in [Request -> [code : Code, of : Request \cup {None}]]
BY DEF TypeOK, Goto

LEMMA RespondFacts ==
  ASSUME TypeOK, NEW r \in Request, NEW code \in Code,
         NEW of \in Request \cup {None}, Respond(r, code, of)
  PROVE  /\ pc' \in [Request -> InFlight \cup {"idle", "done"}]
         /\ result' \in [Request -> [code : Code, of : Request \cup {None}]]
BY DEF TypeOK, Respond

LEMMA CallTypes ==
  ASSUME TypeOK, NEW r \in Request, NEW op \in Op, NEW c \in CallRecord,
         EndCall(r, op, c)
  PROVE  calls' \in [Request -> [Op -> CallRecord]]
BY DEF TypeOK, EndCall

LEMMA StartTypes ==
  ASSUME TypeOK, NEW r \in Request, NEW op \in Op, StartCall(r, op)
  PROVE  calls' \in [Request -> [Op -> CallRecord]]
BY OpenCallFacts DEF TypeOK, StartCall

LEMMA BodyFacts ==
  ASSUME NEW b \in Body
  PROVE  /\ b.kind \in Kind /\ b.from \in Account /\ b.to \in Account
         /\ b.amount \in Nat \ {0} /\ b.key \in Key
         /\ HashOf(b) \in {Hash(x.from, x.to, x.amount) : x \in Body}
         /\ b.kind # "TRANSFER" => b.from = b.to
BY ServiceAssumption DEF BodyType, HashOf

LEMMA DayFacts ==
  ASSUME TypeOK
  PROVE  Day(now) \in Days
BY DEF TypeOK, Days

LEMMA LegFacts ==
  ASSUME IInv, NEW r \in Request, req[r] \in Body, NEW type \in TxnType,
         LET op == IF type \in {"WITHDRAWAL", "TRANSFER_OUT"}
                   THEN "debit" ELSE "credit"
         IN replies[r][op] \in AccountRecord
  PROVE  /\ Leg(r, type) \in Row
         /\ Leg(r, type).by = r /\ Leg(r, type).type = type
         /\ Leg(r, type).reference = IF type = "WITHDRAWAL" THEN None ELSE req[r].key
BY BodyFacts DEF Leg, Row, Target, AccountRecord, TxnType

-----------------------------------------------------------------------------
(* Every step keeps the invariant.                                         *)

LEMMA InitInv == Init => IInv
<1> SUFFICES ASSUME Init PROVE IInv
  OBVIOUS
<1>1. TypeOK
  <2>1. \A a \in Account : Opening[a] \in AccountRecord
    BY ServiceAssumption
  <2>2. cache \in [Account -> OptRecord]
    <3>1. \A a \in Account : Csv[a] # None => Csv[a] \in AccountRecord
      BY ServiceAssumption
    <3>2. \A a \in Account : SeedRow(a) \in OptRecord
      BY <3>1, CacheFacts DEF SeedRow, OptRecord
    <3> QED
      BY <3>2 DEF Init
  <2>3. 0 \in 0 .. MaxTime /\ 0 \in 0 .. MaxCrashes /\ 0 \in 0 .. MaxChanges
    BY ServiceAssumption
  <2>4. NoGet \in GetState
    BY DEF NoGet, GetState, OptRecord
  <2> QED
    BY <2>1, <2>2, <2>3, <2>4, OpenCallFacts, ServiceAssumption
    DEF Init, TypeOK, OptRecord, Code, Refusal
<1>2. ControlInv /\ CallInv
  BY DEF Init, ControlInv, CallsAt, Sts, CallInv, NoCall, Op
<1>3. ReqInv /\ SnapInv
  BY DEF Init, ReqInv, SnapInv, NoGet
<1> QED
  BY <1>1, <1>2, <1>3 DEF IInv

LEMMA AcceptKeeps ==
  ASSUME IInv, NEW r \in Request, NEW b \in Body, Accept(r, b)
  PROVE  IInv'
<1>1. pc[r] = "idle" /\ TypeOK
  BY DEF Accept, Arrives, IInv
<1>2. TypeOK'
  <2>1. gets' \in [Request -> [Account -> GetState]]
    BY <1>1 DEF Accept, TypeOK, NoGet, GetState, OptRecord
  <2>2. pc' \in [Request -> InFlight \cup {"idle", "done"}]
        /\ result' \in [Request -> [code : Code, of : Request \cup {None}]]
    BY <1>1, GotoFacts DEF Accept, InFlight, AwaitPhase
  <2> QED
    BY <1>1, <2>1, <2>2 DEF Accept, Arrives, TypeOK, external, tables, side, env
<1>3. ControlInv' /\ ReqInv' /\ CallInv'
  BY <1>1 DEF Accept, Arrives, Goto, IInv, TypeOK, ControlInv, CallsAt, Sts, ReqInv, CallInv
<1>4. SnapInv'
  BY <1>1 DEF Accept, IInv, TypeOK, SnapInv, NoGet
<1> QED
  BY <1>2, <1>3, <1>4 DEF IInv

\* The requests that are answered as they arrive.
LEMMA AnsweredAtOnce ==
  ASSUME IInv, NEW r \in Request, NEW b \in Body, Arrives(r, b),
         NEW code \in Code, NEW of \in Request \cup {None}, Respond(r, code, of),
         UNCHANGED gets, metrics' \in [Counter -> Nat]
  PROVE  IInv'
<1>1. pc[r] = "idle" /\ TypeOK
  BY DEF Arrives, IInv
<1>2. TypeOK'
  BY <1>1, RespondFacts DEF Arrives, TypeOK, external, tables, side, env
<1>3. ControlInv' /\ ReqInv' /\ CallInv' /\ SnapInv'
  BY <1>1 DEF Arrives, Respond, IInv, TypeOK, ControlInv, CallsAt, Sts, ReqInv,
              CallInv, SnapInv, Op
<1> QED
  BY <1>2, <1>3 DEF IInv

LEMMA ArrivalKeeps ==
  ASSUME IInv, NEW r \in Request, Arrival(r)
  PROVE  IInv'
<1>1. PICK b \in Body : \/ Accept(r, b) \/ RejectSameAccount(r, b)
                        \/ RejectKeyReuse(r, b) \/ Replay(r, b)
                        \/ LookupFails(r, b)
  BY DEF Arrival
<1>2. TypeOK /\ metrics \in [Counter -> Nat]
  BY DEF IInv, TypeOK
<1>3. CASE Accept(r, b)
  BY <1>3, AcceptKeeps
<1>4. CASE RejectSameAccount(r, b)
  BY <1>2, <1>4, AnsweredAtOnce DEF RejectSameAccount, Code, Refusal
<1>5. CASE RejectKeyReuse(r, b)
  BY <1>2, <1>5, AnsweredAtOnce DEF RejectKeyReuse, Code, Refusal
<1>6. CASE Replay(r, b)
  <2>1. idem[b.key].by \in Request
    <3>1. idem \in [Key -> IdemRow \cup {None}] /\ b.key \in Key
      BY <1>2, BodyFacts DEF TypeOK
    <3>2. idem[b.key] \in IdemRow
      BY <1>6, <3>1 DEF Replay, Stored
    <3> QED
      BY <3>2 DEF IdemRow
  <2>2. metrics' \in [Counter -> Nat]
    BY <1>2, <1>6, BumpFacts DEF Replay
  <2> QED
    BY <1>6, <2>1, <2>2, AnsweredAtOnce DEF Replay, Code
<1>7. CASE LookupFails(r, b)
  BY <1>2, <1>7, AnsweredAtOnce DEF LookupFails, Code
<1> QED
  BY <1>1, <1>3, <1>4, <1>5, <1>6, <1>7

LEMMA ServerReadsKeeps ==
  ASSUME IInv, NEW r \in Request, NEW a \in Account, ServerReads(r, a)
  PROVE  IInv'
<1>1. TypeOK /\ accounts[a] \in AccountRecord
  BY DEF IInv, TypeOK
<1>2. TypeOK'
  BY <1>1 DEF ServerReads, TypeOK, GetState, OptRecord, external, tables, side, env
<1>3. ControlInv' /\ ReqInv' /\ CallInv'
  BY DEF ServerReads, IInv, ControlInv, CallsAt, Sts, ReqInv, CallInv
<1>4. SnapInv'
  BY <1>1 DEF ServerReads, IInv, TypeOK, SnapInv
<1> QED
  BY <1>2, <1>3, <1>4 DEF IInv

\* The checks, and the first PATCH when they all pass.
LEMMA DecideTypes ==
  ASSUME IInv, NEW r \in Request, pc[r] = "reading",
         NEW f \in AccountRecord, NEW t \in AccountRecord, Decide(r, f, t)
  PROVE  /\ pc' \in [Request -> InFlight \cup {"idle", "done"}]
         /\ result' \in [Request -> [code : Code, of : Request \cup {None}]]
         /\ metrics' \in [Counter -> Nat]
         /\ calls' \in [Request -> [Op -> CallRecord]]
<1>1. /\ TypeOK /\ metrics \in [Counter -> Nat]
      /\ calls \in [Request -> [Op -> CallRecord]]
  BY DEF IInv, TypeOK
<1>2. AccountVerdict(req[r], f, t) # "OK" => AccountVerdict(req[r], f, t) \in Code
  BY DEF AccountVerdict, ValidateAccount, AccountRecord, Status, Code, Refusal
<1>3. {"DAILY_LIMIT_EXCEEDED", "INTERNAL_ERROR"} \subseteq Code
  BY DEF Code, Refusal
<1>4. {"debiting", "crediting"} \subseteq InFlight /\ {"debit", "credit"} \subseteq Op
  BY DEF InFlight, AwaitPhase, Op
<1> QED
  BY <1>1, <1>2, <1>3, <1>4, BumpFacts, GotoFacts, RespondFacts, StartTypes
  DEF Decide

\* A step on one call leaves the other calls alone.
LEMMA CallUpdate ==
  ASSUME calls \in [Request -> [Op -> CallRecord]],
         NEW r \in Request, NEW op \in Op, NEW c,
         calls' = [calls EXCEPT ![r][op] = c]
  PROVE  /\ calls'[r][op] = c
         /\ \A q \in Request, o \in Op :
              q # r \/ o # op => calls'[q][o] = calls[q][o]
OBVIOUS

\* Control depends on the state of the calls only.
LEMMA ControlFrame ==
  ASSUME ControlInv, UNCHANGED <<pc, req>>,
         \A q \in Request, o \in Op : calls'[q][o].st = calls[q][o].st
  PROVE  ControlInv'
BY DEF ControlInv, CallsAt, Sts, Op

\* What Decide may do to the request and its calls.
LEMMA DecideControl ==
  ASSUME IInv, NEW r \in Request, pc[r] = "reading", UNCHANGED <<req, replies>>,
         NEW f, NEW t, Decide(r, f, t)
  PROVE  ControlInv' /\ ReqInv' /\ CallInv'
<1>1. req[r] \in Body /\ req[r].kind \in Kind /\ TypeOK
  BY BodyFacts DEF IInv, ReqInv
<1>2. CASE UNCHANGED calls /\ pc' = [pc EXCEPT ![r] = "done"]
  BY <1>1, <1>2 DEF IInv, TypeOK, ControlInv, CallsAt, Sts, ReqInv, CallInv, Op
<1>3. CASE /\ req[r].kind = "DEPOSIT"
           /\ Goto(r, "crediting") /\ StartCall(r, "credit")
  <2>1. /\ pc' = [pc EXCEPT ![r] = "crediting"]
        /\ calls' = [calls EXCEPT ![r]["credit"] = OpenCall]
    BY <1>3 DEF Goto, StartCall
  <2>2. ControlInv' /\ ReqInv'
    BY <1>1, <1>3, <2>1 DEF OpenCall, IInv, TypeOK, ControlInv, CallsAt, Sts, ReqInv, Op
  <2>3. CallInv'
    BY <1>1, <2>1 DEF OpenCall, IInv, TypeOK, CallInv, Op
  <2> QED
    BY <2>2, <2>3
<1>4. CASE /\ req[r].kind # "DEPOSIT"
           /\ Goto(r, "debiting") /\ StartCall(r, "debit")
  <2>1. /\ pc' = [pc EXCEPT ![r] = "debiting"]
        /\ calls' = [calls EXCEPT ![r]["debit"] = OpenCall]
    BY <1>4 DEF Goto, StartCall
  <2>2. ControlInv' /\ ReqInv'
    BY <1>1, <1>4, <2>1 DEF OpenCall, IInv, TypeOK, ControlInv, CallsAt, Sts, ReqInv, Op
  <2>3. CallInv'
    BY <1>1, <2>1 DEF OpenCall, IInv, TypeOK, CallInv, Op
  <2> QED
    BY <2>2, <2>3
<1> QED
  BY <1>2, <1>3, <1>4 DEF Decide, Respond

LEMMA SettleKeeps ==
  ASSUME IInv, NEW r \in Request, NEW a \in Account, NEW s \in AccountRecord,
         Settle(r, a, s), cache' \in [Account -> OptRecord],
         UNCHANGED <<external, replies, ledger, idem, daily, req, side, env>>
  PROVE  IInv'
<1> DEFINE g == [gets[r] EXCEPT ![a] = [st |-> "done", snap |-> s]]
<1>1. TypeOK /\ NoGet \in GetState /\ g \in [Account -> GetState]
  BY DEF IInv, TypeOK, NoGet, GetState, OptRecord
<1>2. \A x \in Account : g[x].st \in {"read", "done"} => g[x].snap \in AccountRecord
  BY DEF IInv, TypeOK, SnapInv
<1>3. CASE /\ gets' \in [Request -> [Account -> GetState]]
           /\ UNCHANGED <<pc, result, calls, metrics>>
           /\ SnapInv'
  <2>1. TypeOK'
    BY <1>1, <1>3 DEF TypeOK, external, side, env
  <2>2. ControlInv' /\ ReqInv' /\ CallInv'
    BY <1>3 DEF IInv, ControlInv, CallsAt, Sts, ReqInv, CallInv
  <2> QED
    BY <1>3, <2>1, <2>2 DEF IInv
<1>4. CASE pc[r] # "reading"
  <2>1. gets' = [gets EXCEPT ![r][a] = NoGet] /\ UNCHANGED <<pc, result, calls, metrics>>
    BY <1>4 DEF Settle
  <2>2. gets' \in [Request -> [Account -> GetState]] /\ SnapInv'
    BY <1>1, <2>1 DEF IInv, TypeOK, SnapInv, NoGet
  <2> QED
    BY <1>3, <2>1, <2>2
<1>5. CASE pc[r] = "reading" /\ \E x \in Needed(r) : g[x].st # "done"
  <2>1. gets' = [gets EXCEPT ![r] = g] /\ UNCHANGED <<pc, result, calls, metrics>>
    BY <1>5 DEF Settle
  <2>2. gets' \in [Request -> [Account -> GetState]] /\ SnapInv'
    BY <1>1, <1>2, <2>1 DEF IInv, TypeOK, SnapInv
  <2> QED
    BY <1>3, <2>1, <2>2
<1>6. CASE pc[r] = "reading" /\ \A x \in Needed(r) : g[x].st = "done"
  <2>1. /\ gets' = [gets EXCEPT ![r] = [x \in Account |-> NoGet]]
        /\ Decide(r, g[req[r].from].snap, g[req[r].to].snap)
    BY <1>6 DEF Settle
  <2>2. req[r].from \in Account /\ req[r].to \in Account
    BY <1>6, BodyFacts DEF IInv, ReqInv
  <2>3. g[req[r].from].snap \in AccountRecord /\ g[req[r].to].snap \in AccountRecord
    BY <1>2, <1>6, <2>2 DEF Needed
  <2>4. gets' \in [Request -> [Account -> GetState]] /\ SnapInv'
    BY <1>1, <2>1 DEF IInv, TypeOK, SnapInv, NoGet
  <2>5. TypeOK'
    BY <1>1, <1>6, <2>1, <2>3, <2>4, DecideTypes DEF TypeOK, external, side, env
  <2>6. ControlInv' /\ ReqInv' /\ CallInv'
    BY <1>6, <2>1, DecideControl
  <2> QED
    BY <2>4, <2>5, <2>6 DEF IInv
<1> QED
  BY <1>4, <1>5, <1>6

LEMMA GetFailsKeeps ==
  ASSUME IInv, NEW r \in Request, NEW a \in Account, GetFails(r, a)
  PROVE  IInv'
<1>1. TypeOK /\ NoGet \in GetState
  BY DEF IInv, TypeOK, NoGet, GetState, OptRecord
<1>2. gets' \in [Request -> [Account -> GetState]] /\ SnapInv'
  BY <1>1 DEF GetFails, IInv, TypeOK, SnapInv, NoGet
<1>3. /\ pc' \in [Request -> InFlight \cup {"idle", "done"}]
      /\ result' \in [Request -> [code : Code, of : Request \cup {None}]]
  BY <1>1, RespondFacts DEF GetFails, TypeOK, Code, Refusal
<1>4. TypeOK'
  BY <1>1, <1>2, <1>3 DEF GetFails, TypeOK, external, tables, side, env
<1>5. ControlInv' /\ ReqInv' /\ CallInv'
  BY <1>1 DEF GetFails, Respond, IInv, TypeOK, ControlInv, CallsAt, Sts, ReqInv,
              CallInv, Op
<1> QED
  BY <1>2, <1>4, <1>5 DEF IInv

LEMMA GetKeeps ==
  ASSUME IInv, NEW r \in Request, NEW a \in Account, Get(r, a)
  PROVE  IInv'
<1>1. TypeOK /\ cache \in [Account -> OptRecord]
  BY DEF IInv, TypeOK
<1>2. CASE GetReturns(r, a)
  <2>1. gets[r][a].snap \in AccountRecord
    BY <1>2 DEF GetReturns, IInv, SnapInv
  <2> QED
    BY <1>1, <1>2, <2>1, RefreshFacts, SettleKeeps DEF GetReturns
<1>3. CASE GetFallsBack(r, a)
  <2>1. cache[a] \in AccountRecord
    BY <1>1, <1>3 DEF GetFallsBack, OptRecord
  <2> QED
    BY <1>1, <1>3, <2>1, SettleKeeps DEF GetFallsBack, tables
<1>4. CASE GetFails(r, a)
  BY <1>4, GetFailsKeeps
<1> QED
  BY <1>2, <1>3, <1>4 DEF Get

-----------------------------------------------------------------------------
(* PATCH calls.                                                            *)

LEMMA ServerExecutesKeeps ==
  ASSUME IInv, NEW r \in Request, NEW op \in Op, ServerExecutes(r, op)
  PROVE  IInv'
<1> DEFINE a     == Target(r, op)
           delta == IF op = "debit" THEN -req[r].amount ELSE req[r].amount
           after == [accounts[a] EXCEPT !.balance = @ + delta]
<1>1. TypeOK /\ calls[r][op] \in CallRecord /\ CanExecute(calls[r][op])
  BY DEF IInv, TypeOK, ServerExecutes
<1>2. calls[r][op].st # "none"
  BY <1>1 DEF IInv, CallInv, CanExecute, CallRecord
<1>3. req[r] \in Body
  <2>1. pc[r] # "idle"
    BY <1>2 DEF IInv, ControlInv, CallsAt, Sts, Op
  <2> QED
    BY <2>1 DEF IInv, ReqInv
<1>4. a \in Account /\ after \in AccountRecord
  <2>1. a \in Account /\ accounts[a] \in AccountRecord
    BY <1>1, <1>3, BodyFacts DEF Target, TypeOK
  <2>2. delta \in Int
    BY <1>3, BodyFacts
  <2> QED
    BY <2>1, <2>2 DEF AccountRecord
<1>5. /\ accounts' = [accounts EXCEPT ![a] = after]
      /\ history' = [history EXCEPT ![a] = @ \cup {after}]
      /\ EndCall(r, op, Executed(calls[r][op]))
      /\ \/ calls[r][op].st = "open" /\ replies' = [replies EXCEPT ![r][op] = after]
         \/ (calls[r][op].st = "open" => replies[r][op] # None) /\ UNCHANGED replies
      /\ UNCHANGED <<tables, pc, req, gets, result, metrics, side, env>>
  BY DEF ServerExecutes
<1> HIDE DEF after
<1>6. TypeOK'
  <2>1. accounts' \in [Account -> AccountRecord]
        /\ history' \in [Account -> SUBSET AccountRecord]
    BY <1>1, <1>4, <1>5 DEF TypeOK
  <2>2. calls' \in [Request -> [Op -> CallRecord]]
    BY <1>1, <1>5, CallFacts, CallTypes
  <2>3. replies' \in [Request -> [Op -> OptRecord]]
    <3>1. after \in OptRecord /\ replies \in [Request -> [Op -> OptRecord]]
      BY <1>1, <1>4 DEF TypeOK, OptRecord
    <3>2. replies' = [replies EXCEPT ![r][op] = after] \/ replies' = replies
      BY <1>5
    <3> QED
      BY <3>1, <3>2
  <2> QED
    BY <1>1, <1>5, <2>1, <2>2, <2>3 DEF TypeOK, tables, side, env
<1>7. calls' = [calls EXCEPT ![r][op] = Executed(@)]
  BY <1>1, <1>5 DEF EndCall, TypeOK
<1>8. ControlInv'
  <2>1. Executed(calls[r][op]).st = calls[r][op].st
    BY <1>1 DEF Executed, CallRecord
  <2>2. calls' = [calls EXCEPT ![r][op] = Executed(calls[r][op])]
    BY <1>1, <1>7 DEF TypeOK
  <2>3. \A q \in Request, o \in Op : calls'[q][o].st = calls[q][o].st
    BY <1>1, <2>1, <2>2, CallUpdate DEF TypeOK
  <2> QED
    BY <1>5, <2>3, ControlFrame DEF IInv
<1>9. CallInv'
  <2>1. Executed(calls[r][op]).st = calls[r][op].st
        /\ Executed(calls[r][op]).sent = calls[r][op].sent
        /\ Executed(calls[r][op]).executed = calls[r][op].executed + 1
    BY <1>1 DEF Executed, CallRecord
  <2>2. calls[r][op].st = "open" => replies'[r][op] \in AccountRecord
    BY <1>1, <1>4, <1>5 DEF TypeOK, OptRecord
  <2>3. calls[r][op].st = "ok" =>
          replies'[r][op] \in AccountRecord
    BY <1>1, <1>5 DEF IInv, CallInv, TypeOK
  <2>4. ASSUME NEW q \in Request, NEW o \in Op, q # r \/ o # op
        PROVE  calls'[q][o] = calls[q][o] /\ replies'[q][o] = replies[q][o]
    BY <1>1, <1>5, <1>7, <2>4 DEF TypeOK
  <2>5. calls'[r][op] = Executed(calls[r][op])
    BY <1>1, <1>7 DEF TypeOK
  <2>6. calls[r][op].executed + 1 <= calls[r][op].sent
        /\ calls[r][op].executed + 1 > 0
    BY <1>1, MaxRetriesAssumption DEF CanExecute, CallRecord
  <2> QED
    BY <1>2, <2>1, <2>2, <2>3, <2>4, <2>5, <2>6 DEF IInv, CallInv
<1>10. ReqInv' /\ SnapInv'
  BY <1>5 DEF IInv, ReqInv, SnapInv
<1> QED
  BY <1>6, <1>8, <1>9, <1>10 DEF IInv

LEMMA ResendsKeeps ==
  ASSUME IInv, NEW r \in Request, NEW op \in Op, Resends(r, op)
  PROVE  IInv'
<1>1. TypeOK /\ calls[r][op] \in CallRecord /\ CanResend(calls[r][op])
  BY DEF IInv, TypeOK, Resends
<1>2. TypeOK'
  <2>1. calls' \in [Request -> [Op -> CallRecord]]
    BY <1>1, CallFacts, CallTypes DEF Resends
  <2> QED
    BY <1>1, <2>1 DEF Resends, TypeOK, external, tables, side, env
<1>3. /\ calls' = [calls EXCEPT ![r][op] = Resent(@)]
      /\ UNCHANGED <<replies, pc, req, gets>>
  BY <1>1 DEF Resends, EndCall, TypeOK
<1>4. ControlInv' /\ CallInv'
  <2>1. /\ Resent(calls[r][op]).st = calls[r][op].st /\ calls[r][op].st = "open"
        /\ Resent(calls[r][op]).sent = calls[r][op].sent + 1
        /\ Resent(calls[r][op]).executed = calls[r][op].executed
    BY <1>1 DEF Resent, CanResend, CallRecord
  <2>2. calls' = [calls EXCEPT ![r][op] = Resent(calls[r][op])]
    BY <1>1, <1>3 DEF TypeOK
  <2>3. ASSUME NEW q \in Request, NEW o \in Op
        PROVE  /\ calls'[q][o].st = calls[q][o].st
               /\ \/ calls'[q][o] = calls[q][o]
                  \/ q = r /\ o = op /\ calls'[q][o] = Resent(calls[r][op])
    <3>1. /\ calls'[r][op] = Resent(calls[r][op])
          /\ q # r \/ o # op => calls'[q][o] = calls[q][o]
      BY <1>1, <2>2, CallUpdate DEF TypeOK
    <3>2. CASE q # r \/ o # op
      BY <3>1, <3>2
    <3>3. CASE q = r /\ o = op
      BY <2>1, <3>1, <3>3
    <3> QED
      BY <3>2, <3>3
  <2>4. ControlInv'
    BY <1>3, <2>3, ControlFrame DEF IInv
  <2>5. CallInv'
    <3> SUFFICES ASSUME NEW q \in Request, NEW o \in Op
                 PROVE  /\ calls'[q][o].st = "none" => calls'[q][o].sent = 0
                        /\ calls'[q][o].executed <= calls'[q][o].sent
                        /\ calls'[q][o].st = "ok" => calls'[q][o].executed > 0
                        /\ /\ calls'[q][o].st \in {"open", "ok"}
                           /\ calls'[q][o].executed > 0
                           => replies'[q][o] \in AccountRecord
      BY DEF CallInv
    <3>1. replies' = replies
      BY <1>3
    <3>2. CASE calls'[q][o] = calls[q][o]
      BY <3>1, <3>2 DEF IInv, CallInv
    <3>3. CASE q = r /\ o = op /\ calls'[q][o] = Resent(calls[r][op])
      BY <1>1, <2>1, <3>1, <3>3 DEF IInv, CallInv, CallRecord
    <3> QED
      BY <2>3, <3>2, <3>3
  <2> QED
    BY <2>4, <2>5
<1>5. ReqInv' /\ SnapInv'
  BY <1>3 DEF IInv, ReqInv, SnapInv
<1> QED
  BY <1>2, <1>4, <1>5 DEF IInv

\* The handler of r closes its open call op and goes on to next, or to
\* nothing when next is op.
Closes(r, op, c, next) ==
  /\ calls' \in [Request -> [Op -> CallRecord]]
  /\ calls'[r][op] = c
  /\ next # op => calls'[r][next] = OpenCall
  /\ \A o \in Op \ {op, next} : calls'[r][o] = calls[r][o]
  /\ \A q \in Request \ {r} : calls'[q] = calls[q]

LEMMA ClosesLast ==
  ASSUME TypeOK, NEW r \in Request, NEW op \in Op, NEW c \in CallRecord,
         EndCall(r, op, c)
  PROVE  Closes(r, op, c, op)
BY DEF TypeOK, EndCall, Closes

LEMMA ClosesAndOpens ==
  ASSUME TypeOK, NEW r \in Request, NEW op \in Op, NEW c \in CallRecord,
         NEW next \in Op, next # op,
         calls' = [calls EXCEPT ![r][op] = c, ![r][next] = OpenCall]
  PROVE  Closes(r, op, c, next)
BY OpenCallFacts DEF TypeOK, Closes

\* Closing an open call keeps the facts about calls, bodies and snapshots,
\* and disturbs no other request.
LEMMA CallOver ==
  ASSUME IInv, NEW r \in Request, pc[r] \in AwaitPhase,
         NEW op \in Op, calls[r][op].st = "open",
         NEW c, \/ c = Returned(calls[r][op]) /\ CanReturn(calls[r][op])
                \/ c = GivenUp(calls[r][op]),
         NEW next \in Op, Closes(r, op, c, next),
         UNCHANGED <<replies, req, gets>>,
         \A q \in Request \ {r} : pc'[q] = pc[q]
  PROVE  /\ CallInv' /\ ReqInv' /\ SnapInv'
         /\ \A q \in Request \ {r} : CallsAt(q)'
<1>1. calls[r][op] \in CallRecord
  BY DEF IInv, TypeOK
<1>2. /\ c.sent = calls[r][op].sent
      /\ c.executed = calls[r][op].executed /\ c.st \in {"ok", "failed"}
      /\ c.st = "ok" => c.executed > 0
  BY <1>1 DEF Returned, GivenUp, CallRecord, CanReturn
<1>3. CallInv'
  <2>1. ASSUME NEW q \in Request, NEW o \in Op
        PROVE  /\ calls'[q][o].st = "none" => calls'[q][o].sent = 0
               /\ calls'[q][o].executed <= calls'[q][o].sent
               /\ calls'[q][o].st = "ok" => calls'[q][o].executed > 0
               /\ calls'[q][o].st \in {"open", "ok"} /\ calls'[q][o].executed > 0 =>
                    replies'[q][o] \in AccountRecord
    <3>1. CASE q = r /\ o = op
      BY <1>2, <3>1 DEF Closes, IInv, CallInv
    <3>2. CASE q = r /\ o = next /\ next # op
      BY <3>2 DEF Closes, OpenCall
    <3>3. CASE q # r \/ o \notin {op, next}
      BY <3>3 DEF Closes, IInv, CallInv
    <3> QED
      BY <3>1, <3>2, <3>3
  <2> QED
    BY <2>1 DEF CallInv
<1>4. ReqInv' /\ SnapInv'
  BY DEF IInv, ReqInv, SnapInv, AwaitPhase
<1>5. \A q \in Request \ {r} : CallsAt(q)'
  BY DEF Closes, IInv, ControlInv, CallsAt, Sts, Op
<1> QED
  BY <1>3, <1>4, <1>5

\* Where each of the handlers that wait for a PATCH is left by an action.
LEMMA PatchFacts ==
  ASSUME IInv, NEW r \in Request, NEW op \in Op, calls[r][op].st = "open"
  PROVE  /\ pc[r] \in AwaitPhase /\ req[r] \in Body /\ req[r].kind \in Kind
         /\ calls[r][op] \in CallRecord
         /\ Returned(calls[r][op]) \in CallRecord /\ Returned(calls[r][op]).st = "ok"
         /\ GivenUp(calls[r][op]) \in CallRecord
         /\ GivenUp(calls[r][op]).st = "failed"
         /\ CanReturn(calls[r][op]) => replies[r][op] \in AccountRecord
<1>1. calls[r][op] \in CallRecord
  BY DEF IInv, TypeOK
<1>2. pc[r] \in AwaitPhase /\ pc[r] # "idle"
  BY DEF IInv, TypeOK, ControlInv, CallsAt, Sts, Op, AwaitPhase, InFlight, SyncPhase
<1>3. req[r] \in Body
  BY <1>2 DEF IInv, ReqInv
<1>4. req[r].kind \in Kind
  BY <1>3, BodyFacts
<1>5. CanReturn(calls[r][op]) => replies[r][op] \in AccountRecord
  BY DEF CanReturn, IInv, CallInv
<1>6. GivenUp(calls[r][op]).st = "failed"
  BY <1>1 DEF GivenUp, CallRecord
<1> QED
  BY <1>1, <1>2, <1>3, <1>4, <1>5, <1>6, CallFacts

LEMMA DebitReturnsKeeps ==
  ASSUME IInv, NEW r \in Request, DebitReturns(r)
  PROVE  IInv'
<1> DEFINE c == Returned(calls[r]["debit"])
<1>1. /\ TypeOK /\ pc[r] = "debiting" /\ CanReturn(calls[r]["debit"])
      /\ calls[r]["debit"].st = "open" /\ "debit" \in Op /\ "credit" \in Op
      /\ req[r].kind # "DEPOSIT"
      /\ calls[r]["credit"].st = "none" /\ calls[r]["rollback"].st = "none"
  BY DEF DebitReturns, IInv, ControlInv, CallsAt, Sts, CanReturn, Op
<1>2. /\ c \in CallRecord /\ c.st = "ok" /\ req[r].kind \in Kind
      /\ replies[r]["debit"] \in AccountRecord /\ req[r].from \in Account
      /\ pc[r] \in AwaitPhase
  BY <1>1, PatchFacts, BodyFacts
<1>3. cache' \in [Account -> OptRecord]
  BY <1>1, <1>2, RefreshFacts DEF DebitReturns
<1>4. PICK next \in Op :
        /\ Closes(r, "debit", c, next)
        /\ \/ next = "credit" /\ req[r].kind = "TRANSFER" /\ Goto(r, "crediting")
           \/ next = "debit" /\ req[r].kind = "WITHDRAWAL" /\ Goto(r, "recording")
  <2>1. CASE req[r].kind = "TRANSFER"
    BY <1>1, <1>2, <2>1, ClosesAndOpens DEF DebitReturns
  <2>2. CASE req[r].kind # "TRANSFER"
    BY <1>1, <1>2, <2>2, ClosesLast DEF DebitReturns, Kind
  <2> QED
    BY <2>1, <2>2
<1>5. /\ pc' \in [Request -> InFlight \cup {"idle", "done"}]
      /\ result' \in [Request -> [code : Code, of : Request \cup {None}]]
      /\ \A q \in Request \ {r} : pc'[q] = pc[q]
  BY <1>1, <1>4 DEF Goto, TypeOK, InFlight, SyncPhase, AwaitPhase
<1>6. TypeOK'
  BY <1>1, <1>3, <1>4, <1>5 DEF DebitReturns, Closes, TypeOK, external, side, env
<1>7. /\ CallInv' /\ ReqInv' /\ SnapInv'
      /\ \A q \in Request \ {r} : CallsAt(q)'
  BY <1>1, <1>2, <1>4, <1>5, CallOver DEF DebitReturns
<1>8. CallsAt(r)'
  BY <1>1, <1>2, <1>4 DEF DebitReturns, Goto, Closes, OpenCall, CallsAt, Sts, Op, TypeOK
<1> QED
  BY <1>6, <1>7, <1>8 DEF IInv, ControlInv

\* A handler that closes its last call and answers.
LEMMA AnswersKeeps ==
  ASSUME IInv, NEW r \in Request, NEW op \in Op, calls[r][op].st = "open",
         NEW c, \/ c = Returned(calls[r][op]) /\ CanReturn(calls[r][op])
                \/ c = GivenUp(calls[r][op]),
         EndCall(r, op, c),
         NEW code \in Code, Respond(r, code, None),
         metrics' \in [Counter -> Nat], alerts' \subseteq Request,
         UNCHANGED <<external, replies, tables, req, gets, outbox, env>>
  PROVE  IInv'
<1>1. TypeOK /\ pc[r] \in AwaitPhase /\ c \in CallRecord /\ c.st # "open"
  BY PatchFacts DEF IInv
<1>2. Closes(r, op, c, op)
  BY <1>1, ClosesLast
<1>3. \A q \in Request \ {r} : pc'[q] = pc[q]
  BY <1>1 DEF Respond, TypeOK
<1>4. TypeOK'
  BY <1>1, <1>2, RespondFacts DEF Closes, TypeOK, external, tables, env
<1>5. /\ CallInv' /\ ReqInv' /\ SnapInv'
      /\ \A q \in Request \ {r} : CallsAt(q)'
  BY <1>1, <1>2, <1>3, CallOver
<1>6. CallsAt(r)'
  <2>1. \A o \in Op \ {op} : calls[r][o].st # "open"
    BY DEF IInv, TypeOK, ControlInv, CallsAt, Sts, Op, InFlight, AwaitPhase, SyncPhase
  <2>2. pc'[r] = "done"
    BY <1>1 DEF Respond, TypeOK
  <2>3. \A o \in Op : calls'[r][o].st # "open"
    BY <1>1, <1>2, <2>1 DEF Closes
  <2> QED
    BY <2>2, <2>3 DEF CallsAt
<1> QED
  BY <1>4, <1>5, <1>6 DEF IInv, ControlInv

LEMMA DebitFailsKeeps ==
  ASSUME IInv, NEW r \in Request, DebitFails(r)
  PROVE  IInv'
<1>1. TypeOK /\ calls[r]["debit"].st = "open" /\ alerts \subseteq Request
  BY DEF DebitFails, CanFail, IInv, TypeOK
<1>2. metrics' \in [Counter -> Nat]
  BY <1>1, BumpFacts DEF DebitFails
<1>3. "debit" \in Op /\ "INTERNAL_ERROR" \in Code
  BY DEF Op, Code
<1> QED
  BY <1>1, <1>2, <1>3, AnswersKeeps DEF DebitFails, side

LEMMA CreditReturnsKeeps ==
  ASSUME IInv, NEW r \in Request, CreditReturns(r)
  PROVE  IInv'
<1> DEFINE c == Returned(calls[r]["credit"])
<1>1. /\ TypeOK /\ pc[r] = "crediting" /\ CanReturn(calls[r]["credit"])
      /\ calls[r]["credit"].st = "open" /\ "credit" \in Op
      /\ \/ req[r].kind = "TRANSFER" /\ calls[r]["debit"].st = "ok"
         \/ req[r].kind = "DEPOSIT" /\ calls[r]["debit"].st = "none"
      /\ calls[r]["rollback"].st = "none"
  BY DEF CreditReturns, IInv, ControlInv, CallsAt, Sts, CanReturn, Op
<1>2. /\ c \in CallRecord /\ c.st = "ok"
      /\ replies[r]["credit"] \in AccountRecord /\ req[r].to \in Account
      /\ pc[r] \in AwaitPhase
  BY <1>1, PatchFacts, BodyFacts
<1>3. cache' \in [Account -> OptRecord]
  BY <1>1, <1>2, RefreshFacts DEF CreditReturns
<1>4. Closes(r, "credit", c, "credit") /\ Goto(r, "recording")
  BY <1>1, <1>2, ClosesLast DEF CreditReturns
<1>5. /\ pc' \in [Request -> InFlight \cup {"idle", "done"}]
      /\ result' \in [Request -> [code : Code, of : Request \cup {None}]]
      /\ \A q \in Request \ {r} : pc'[q] = pc[q]
  BY <1>1, <1>4 DEF Goto, TypeOK, InFlight, SyncPhase
<1>6. TypeOK'
  BY <1>1, <1>3, <1>4, <1>5 DEF CreditReturns, Closes, TypeOK, external, side, env
<1>7. /\ CallInv' /\ ReqInv' /\ SnapInv'
      /\ \A q \in Request \ {r} : CallsAt(q)'
  BY <1>1, <1>2, <1>4, <1>5, CallOver DEF CreditReturns
<1>8. CallsAt(r)'
  BY <1>1, <1>2, <1>4 DEF CreditReturns, Goto, Closes, CallsAt, Sts, Op, TypeOK
<1> QED
  BY <1>6, <1>7, <1>8 DEF IInv, ControlInv

LEMMA CreditFailsKeeps ==
  ASSUME IInv, NEW r \in Request, CreditFails(r)
  PROVE  IInv'
<1> DEFINE c == GivenUp(calls[r]["credit"])
<1>1. /\ TypeOK /\ pc[r] = "crediting" /\ calls[r]["credit"].st = "open"
      /\ {"credit", "rollback"} \subseteq Op /\ metrics \in [Counter -> Nat]
      /\ alerts \subseteq Request /\ "INTERNAL_ERROR" \in Code
  BY DEF CreditFails, CanFail, IInv, TypeOK, Op, Code
<1>2. c \in CallRecord /\ c.st = "failed" /\ pc[r] \in AwaitPhase
  BY <1>1, PatchFacts
<1>3. CASE req[r].kind = "TRANSFER"
  <2>1. calls[r]["debit"].st = "ok" /\ calls[r]["rollback"].st = "none"
    BY <1>1, <1>3 DEF IInv, ControlInv, CallsAt, Sts
  <2>2. Closes(r, "credit", c, "rollback") /\ Goto(r, "rolling")
    BY <1>1, <1>2, <1>3, ClosesAndOpens DEF CreditFails
  <2>3. /\ pc' \in [Request -> InFlight \cup {"idle", "done"}]
        /\ result' \in [Request -> [code : Code, of : Request \cup {None}]]
        /\ \A q \in Request \ {r} : pc'[q] = pc[q]
    BY <1>1, <2>2 DEF Goto, TypeOK, InFlight, AwaitPhase
  <2>4. TypeOK'
    BY <1>1, <2>2, <2>3
    DEF CreditFails, Closes, TypeOK, external, tables, side, env
  <2>5. /\ CallInv' /\ ReqInv' /\ SnapInv'
        /\ \A q \in Request \ {r} : CallsAt(q)'
    BY <1>1, <1>2, <2>1, <2>2, <2>3, CallOver DEF CreditFails
  <2>6. CallsAt(r)'
    BY <1>1, <1>2, <1>3, <2>1, <2>2
    DEF CreditFails, Goto, Closes, OpenCall, CallsAt, Sts, Op, TypeOK
  <2> QED
    BY <2>4, <2>5, <2>6 DEF IInv, ControlInv
<1>4. CASE req[r].kind # "TRANSFER"
  BY <1>1, <1>4, AnswersKeeps DEF CreditFails, side
<1> QED
  BY <1>3, <1>4

LEMMA RollbackKeeps ==
  ASSUME IInv, NEW r \in Request, RollbackReturns(r) \/ RollbackFails(r)
  PROVE  IInv'
<1>1. PICK c : /\ \/ c = Returned(calls[r]["rollback"]) /\ CanReturn(calls[r]["rollback"])
                  \/ c = GivenUp(calls[r]["rollback"])
               /\ RollbackEnds(r, c)
  BY DEF RollbackReturns, RollbackFails
<1>2. alerts' \subseteq Request
  BY DEF RollbackReturns, RollbackFails, IInv, TypeOK
<1>3. calls[r]["rollback"].st = "open" /\ "rollback" \in Op
      /\ "TRANSFER_CREDIT_FAILED" \in Code
  BY <1>1 DEF RollbackEnds, IInv, ControlInv, CallsAt, Sts, Op, Code
<1>4. metrics' \in [Counter -> Nat]
  BY <1>1, BumpFacts DEF RollbackEnds, IInv
<1> QED
  BY <1>1, <1>2, <1>3, <1>4, AnswersKeeps DEF RollbackEnds

LEMMA PatchKeeps ==
  ASSUME IInv, NEW r \in Request, Patch(r)
  PROVE  IInv'
BY DebitReturnsKeeps, DebitFailsKeeps, CreditReturnsKeeps, CreditFailsKeeps,
   RollbackKeeps DEF Patch

-----------------------------------------------------------------------------
(* The end of a transaction, and the environment.                          *)

\* What the statements of the synchronous end have in common.
LEMMA CommitFacts ==
  ASSUME IInv, NEW r \in Request, pc[r] \in SyncPhase
  PROVE  /\ req[r] \in Body /\ req[r].kind \in Kind
         /\ \A op \in Op : calls[r][op].st # "open"
         /\ \A op \in Op : calls[r][op].st = "ok" => replies[r][op] \in AccountRecord
<1>1. req[r] \in Body
  BY DEF IInv, ReqInv, SyncPhase
<1>2. \A op \in Op : calls[r][op].st # "open"
  BY DEF IInv, ControlInv, CallsAt, Sts, Op, SyncPhase
<1>3. \A op \in Op : calls[r][op].st = "ok" => replies[r][op] \in AccountRecord
  BY DEF IInv, CallInv
<1> QED
  BY <1>1, <1>2, <1>3, BodyFacts

LEMMA CommitControl ==
  ASSUME IInv, NEW r \in Request, pc[r] \in SyncPhase,
         UNCHANGED <<calls, replies, req, gets>>,
         \/ pc' = [pc EXCEPT ![r] = "done"]
         \/ /\ pc[r] = "recording" /\ req[r].kind = "TRANSFER"
            /\ pc' = [pc EXCEPT ![r] = "counting"]
         \/ pc[r] = "counting" /\ pc' = [pc EXCEPT ![r] = "storing"]
  PROVE  ControlInv' /\ ReqInv' /\ CallInv' /\ SnapInv'
<1>1. \A op \in Op : calls[r][op].st # "open"
  BY CommitFacts
<1>2. ReqInv' /\ CallInv' /\ SnapInv'
  BY DEF IInv, TypeOK, ReqInv, CallInv, SnapInv, SyncPhase
<1>3. \A q \in Request : CallsAt(q)'
  <2> TAKE q \in Request
  <2>1. CASE q = r
    BY <1>1, <2>1 DEF IInv, TypeOK, ControlInv, CallsAt, Sts, Kind
  <2>2. CASE q # r
    BY <2>2 DEF IInv, TypeOK, ControlInv, CallsAt, Sts
  <2> QED
    BY <2>1, <2>2
<1> QED
  BY <1>2, <1>3 DEF ControlInv

LEMMA NotifyFacts ==
  ASSUME TypeOK, NEW r \in Request, NEW type \in TxnType, Notify(r, type)
  PROVE  outbox' \subseteq Notice
BY DEF TypeOK, Notify, Notice

LEMMA CommitKeeps ==
  ASSUME IInv, NEW r \in Request, Commit(r)
  PROVE  IInv'
<1>1. TypeOK /\ {"debit", "credit"} \subseteq Op /\ alerts \subseteq Request
  BY DEF IInv, TypeOK, Op
<1>2. CASE RecordSingle(r)
  <2>1. pc[r] = "recording" /\ pc[r] \in SyncPhase
    BY <1>2 DEF RecordSingle, SyncPhase
  <2>2. /\ req[r] \in Body
        /\ \/ req[r].kind = "DEPOSIT" /\ replies[r]["credit"] \in AccountRecord
           \/ req[r].kind = "WITHDRAWAL" /\ replies[r]["debit"] \in AccountRecord
    BY <1>1, <1>2, <2>1, CommitFacts DEF RecordSingle, IInv, ControlInv, CallsAt, Sts
  <2>3. req[r].kind \in TxnType /\ Leg(r, req[r].kind) \in Row
    BY <2>2, LegFacts DEF TxnType
  <2>4. /\ pc' \in [Request -> InFlight \cup {"idle", "done"}]
        /\ result' \in [Request -> [code : Code, of : Request \cup {None}]]
        /\ metrics' \in [Counter -> Nat] /\ outbox' \subseteq Notice
    <3>1. "CREATED" \in Code /\ "INTERNAL_ERROR" \in Code /\ r \in Request \cup {None}
          /\ None \in Request \cup {None}
      BY DEF Code
    <3>2. CASE UNCHANGED <<metrics, outbox>> /\ Respond(r, "INTERNAL_ERROR", None)
      <4>1. metrics' \in [Counter -> Nat] /\ outbox' \subseteq Notice
        BY <1>1, <3>2 DEF TypeOK
      <4> QED
        BY <1>1, <3>1, <3>2, <4>1, RespondFacts
    <3>3. CASE /\ \E cs : Bump(cs)
               /\ Notify(r, req[r].kind) /\ Respond(r, "CREATED", r)
      BY <1>1, <2>3, <3>1, <3>3, BumpFacts, NotifyFacts, RespondFacts
    <3> QED
      BY <1>2, <3>2, <3>3 DEF RecordSingle
  <2>5. TypeOK'
    BY <1>1, <1>2, <2>3, <2>4 DEF RecordSingle, TypeOK, external, env
  <2> QED
    BY <1>2, <2>1, <2>5, CommitControl DEF RecordSingle, Respond, IInv
<1>3. CASE InsertBoth(r)
  <2>1. pc[r] = "recording" /\ pc[r] \in SyncPhase
    BY <1>3 DEF InsertBoth, SyncPhase
  <2>2. /\ req[r] \in Body
        /\ replies[r]["credit"] \in AccountRecord /\ replies[r]["debit"] \in AccountRecord
    BY <1>1, <1>3, <2>1, CommitFacts DEF InsertBoth, IInv, ControlInv, CallsAt, Sts
  <2>3. Leg(r, "TRANSFER_OUT") \in Row /\ Leg(r, "TRANSFER_IN") \in Row
    BY <2>2, LegFacts DEF TxnType
  <2>4. /\ pc' \in [Request -> InFlight \cup {"idle", "done"}]
        /\ result' \in [Request -> [code : Code, of : Request \cup {None}]]
    BY <1>1, <1>3, GotoFacts DEF InsertBoth, InFlight, SyncPhase
  <2>5. TypeOK'
    BY <1>1, <1>3, <2>3, <2>4 DEF InsertBoth, TypeOK, external, side, env
  <2> QED
    BY <1>3, <2>1, <2>5, CommitControl DEF InsertBoth, Goto, IInv
<1>4. CASE IncrementDailyTotal(r)
  <2>1. pc[r] = "counting" /\ pc[r] \in SyncPhase
    BY <1>4 DEF IncrementDailyTotal, SyncPhase
  <2>2. req[r].from \in Account /\ req[r].amount \in Nat
    BY <2>1, CommitFacts, BodyFacts
  <2>3. daily' \in [Account -> [Days -> Nat]]
    BY <1>1, <1>4, <2>2, DayFacts DEF IncrementDailyTotal, TypeOK
  <2>4. /\ pc' \in [Request -> InFlight \cup {"idle", "done"}]
        /\ result' \in [Request -> [code : Code, of : Request \cup {None}]]
        /\ metrics' \in [Counter -> Nat]
    BY <1>1, <1>4, BumpFacts, GotoFacts DEF IncrementDailyTotal, InFlight, SyncPhase
  <2>5. TypeOK'
    BY <1>1, <1>4, <2>3, <2>4 DEF IncrementDailyTotal, TypeOK, external, side, env
  <2> QED
    BY <1>4, <2>1, <2>5, CommitControl DEF IncrementDailyTotal, Goto, IInv
<1>5. CASE StoreIdempotent(r)
  <2>1. pc[r] = "storing" /\ pc[r] \in SyncPhase
    BY <1>5 DEF StoreIdempotent, SyncPhase
  <2>2. req[r] \in Body /\ now \in Nat /\ TicksPerDay \in Nat
    BY <1>1, <2>1, CommitFacts, ServiceAssumption DEF TypeOK
  <2>3. [by |-> r, hash |-> HashOf(req[r]), expires |-> now + TicksPerDay] \in IdemRow
    BY <2>2, BodyFacts DEF IdemRow
  <2>4. idem' \in [Key -> IdemRow \cup {None}]
    BY <1>1, <1>5, <2>3 DEF StoreIdempotent, TypeOK
  <2>5. /\ pc' \in [Request -> InFlight \cup {"idle", "done"}]
        /\ result' \in [Request -> [code : Code, of : Request \cup {None}]]
        /\ outbox' \subseteq Notice
    BY <1>1, <1>5, NotifyFacts, RespondFacts DEF StoreIdempotent, Code, TxnType
  <2>6. TypeOK'
    BY <1>1, <1>5, <2>4, <2>5 DEF StoreIdempotent, TypeOK, external, env
  <2> QED
    BY <1>5, <2>1, <2>6, CommitControl DEF StoreIdempotent, Respond, IInv
<1>6. CASE DbFails(r)
  <2>1. /\ pc' \in [Request -> InFlight \cup {"idle", "done"}]
        /\ result' \in [Request -> [code : Code, of : Request \cup {None}]]
        /\ metrics' \in [Counter -> Nat]
    BY <1>1, <1>6, BumpFacts, RespondFacts DEF DbFails, Code
  <2>2. TypeOK'
    BY <1>1, <1>6, <2>1 DEF DbFails, TypeOK, external, tables, side, env
  <2> QED
    BY <1>6, <2>2, CommitControl DEF DbFails, Respond, IInv
<1> QED
  BY <1>2, <1>3, <1>4, <1>5, <1>6 DEF Commit

LEMMA TickKeeps == IInv /\ Tick => IInv'
<1> SUFFICES ASSUME IInv, Tick PROVE IInv'
  OBVIOUS
<1>1. now' \in 0 .. MaxTime
  BY ServiceAssumption DEF Tick, IInv, TypeOK
<1>2. TypeOK'
  BY <1>1 DEF Tick, IInv, TypeOK, external, tables, side
<1>3. ControlInv' /\ ReqInv' /\ CallInv' /\ SnapInv'
  BY DEF Tick, IInv, ControlInv, CallsAt, Sts, ReqInv, CallInv, SnapInv
<1> QED
  BY <1>2, <1>3 DEF IInv

LEMMA AccountChangesKeeps ==
  ASSUME IInv, NEW a \in Account, AccountChanges(a)
  PROVE  IInv'
<1>1. PICK c \in Revision :
        /\ accounts' = [accounts EXCEPT ![a] = [c EXCEPT !.balance = accounts[a].balance]]
        /\ history' = [history EXCEPT ![a] = @ \cup
                          {[c EXCEPT !.balance = accounts[a].balance]}]
  BY DEF AccountChanges
<1>2. TypeOK /\ [c EXCEPT !.balance = accounts[a].balance] \in AccountRecord
  <2>1. TypeOK /\ accounts[a] \in AccountRecord /\ c \in AccountRecord
    BY ServiceAssumption DEF IInv, TypeOK
  <2> QED
    BY <2>1 DEF AccountRecord
<1>3. accounts' \in [Account -> AccountRecord]
      /\ history' \in [Account -> SUBSET AccountRecord]
  BY <1>1, <1>2 DEF TypeOK
<1>4. changes' \in 0 .. MaxChanges
  BY <1>2, ServiceAssumption DEF AccountChanges, TypeOK
<1>5. TypeOK'
  BY <1>2, <1>3, <1>4 DEF AccountChanges, TypeOK, tables, side
<1>6. ControlInv' /\ ReqInv' /\ CallInv' /\ SnapInv'
  BY DEF AccountChanges, IInv, ControlInv, CallsAt, Sts, ReqInv, CallInv, SnapInv
<1> QED
  BY <1>5, <1>6 DEF IInv

LEMMA CrashKeeps == IInv /\ Crash => IInv'
<1> SUFFICES ASSUME IInv, Crash PROVE IInv'
  OBVIOUS
<1>1. TypeOK /\ NoGet \in GetState /\ "LOST" \in Code
  BY DEF IInv, TypeOK, NoGet, GetState, OptRecord, Code
<1>2. \A r \in Request, op \in Op :
        /\ calls[r][op] \in CallRecord
        /\ calls'[r][op] = GivenUp(calls[r][op])
  BY <1>1 DEF Crash, TypeOK
<1>3. calls' \in [Request -> [Op -> CallRecord]]
  BY <1>1, <1>2, CallFacts DEF Crash
<1>4. crashes' \in 0 .. MaxCrashes
  BY <1>1, ServiceAssumption DEF Crash, TypeOK
<1>5. TypeOK'
  BY <1>1, <1>3, <1>4 DEF Crash, TypeOK, external, tables, side
<1>6. CallInv'
  <2>1. \A r \in Request, op \in Op :
          /\ calls'[r][op].sent = calls[r][op].sent
          /\ calls'[r][op].executed = calls[r][op].executed
          /\ calls'[r][op].st = IF calls[r][op].st = "open" THEN "failed"
                                ELSE calls[r][op].st
          /\ replies'[r][op] = replies[r][op]
    <3>1. \A c \in CallRecord :
            /\ GivenUp(c).sent = c.sent /\ GivenUp(c).executed = c.executed
            /\ GivenUp(c).st = IF c.st = "open" THEN "failed" ELSE c.st
      BY DEF GivenUp, CallRecord
    <3>2. replies' = replies
      BY DEF Crash
    <3>3. ASSUME NEW r \in Request, NEW op \in Op
          PROVE  /\ calls'[r][op].sent = calls[r][op].sent
                 /\ calls'[r][op].executed = calls[r][op].executed
                 /\ calls'[r][op].st = IF calls[r][op].st = "open" THEN "failed"
                                       ELSE calls[r][op].st
      <4>1. calls[r][op] \in CallRecord /\ calls'[r][op] = GivenUp(calls[r][op])
        BY <1>2
      <4> QED
        BY <3>1, <4>1
    <3> QED
      BY <3>2, <3>3
  <2> QED
    BY <2>1 DEF IInv, CallInv
<1>7. ControlInv'
  <2>0. \A r \in Request, op \in Op :
          calls[r][op].st = "none" => calls'[r][op].st = "none"
    BY <1>2, CallFacts
  <2>1. ASSUME NEW r \in Request
        PROVE  CallsAt(r)'
    <3>1. \A op \in Op : calls'[r][op].st # "open"
      BY <1>2, CallFacts
    <3>2. pc'[r] \in {"idle", "done"} /\ (pc'[r] = "idle" => pc[r] = "idle")
      BY <1>1 DEF Crash, TypeOK
    <3>3. CASE pc[r] = "idle"
      <4>1. \A op \in Op : calls'[r][op].st = "none"
        <5>1. \A op \in Op : calls[r][op].st = "none"
          BY <3>3 DEF IInv, ControlInv, CallsAt, Sts, Op
        <5> QED
          BY <5>1, <2>0
      <4>2. pc'[r] \in {"idle", "done"} /\ req' = req
        BY <3>2 DEF Crash
      <4> QED
        BY <4>1, <4>2 DEF CallsAt, Sts, Op
    <3>4. CASE pc[r] # "idle"
      BY <3>1, <3>2, <3>4 DEF CallsAt
    <3> QED
      BY <3>3, <3>4
  <2> QED
    BY <2>1 DEF ControlInv
<1>8. ReqInv' /\ SnapInv'
  BY <1>1 DEF Crash, IInv, TypeOK, ReqInv, SnapInv, NoGet, InFlight, AwaitPhase, SyncPhase
<1> QED
  BY <1>5, <1>6, <1>7, <1>8 DEF IInv

LEMMA NextInv == IInv /\ [Next]_vars => IInv'
<1> SUFFICES ASSUME IInv, [Next]_vars PROVE IInv'
  OBVIOUS
<1>1. ASSUME NEW r \in Request, Server(r)
      PROVE  IInv'
  BY <1>1, ServerReadsKeeps, ServerExecutesKeeps, ResendsKeeps DEF Server
<1>2. CASE UNCHANGED vars
  BY <1>2 DEF vars, IInv, TypeOK, ControlInv, CallsAt, Sts, ReqInv, CallInv, SnapInv
<1> QED
  BY <1>1, <1>2, ArrivalKeeps, PatchKeeps, CommitKeeps, GetKeeps, TickKeeps,
     CrashKeeps, AccountChangesKeeps DEF Next

\* The inductive invariant of the service.
THEOREM Invariant == Spec => []IInv
BY InitInv, NextInv, PTL DEF Spec

\* Every variable keeps its type, for any requests, accounts, keys, bodies,
\* cap, number of attempts, bounds and faults.
THEOREM TypeCorrect == Spec => []TypeOK
<1>1. IInv => TypeOK
  BY DEF IInv
<1> QED
  BY <1>1, Invariant, PTL
=============================================================================
