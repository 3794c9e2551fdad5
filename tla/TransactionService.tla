------------------------- MODULE TransactionService -------------------------
(***************************************************************************)
(* The transaction service: deposit, withdraw and transfer of              *)
(* services/transactionService.js over the calls of accountService.js, the *)
(* SQLite tables of db/init.js, and the Account Service at the other end   *)
(* of the network.                                                         *)
(*                                                                         *)
(* One action is what the event loop runs between two awaits, except the   *)
(* end of a transaction: its SQLite statements commit one by one, so each  *)
(* is a step of its own, a crash or an SQLite error may come between them, *)
(* and LoopFree keeps other handlers out.                                  *)
(***************************************************************************)
EXTENDS AccountRules, CallContract, FiniteSets

CONSTANTS
  Request,               \* handler runs; a client's retry is another one
  Account, Key,          \* account ids, idempotency keys
  Body,                  \* the validated request bodies clients may send
  Hash(_, _, _),         \* _hashRequest(from, to, amount)
  Opening,               \* the accounts as the Account Service first has them
  Csv,                   \* the records of the CSV files that the seed loads
  DAILY_LIMIT,           \* DAILY_TRANSFER_LIMIT
  HIGH_VALUE_THRESHOLD,
  TicksPerDay,           \* clock ticks from one UTC midnight to the next
  None                   \* an absent row, snapshot or request

CONSTANTS                \* bounds on clients and environment
  MaxInFlight,           \* requests handled at the same time
  MaxTime,               \* last clock tick
  MaxCrashes,            \* process deaths
  MaxChanges,            \* changes made at the Account Service
  Revision,              \*   and what they may turn an account into
  Faults                 \* subset of {"net", "db"}

Kind     == {"DEPOSIT", "WITHDRAWAL", "TRANSFER"}
\* For a deposit, key is the client's reference; a withdrawal has no use of it.
BodyType == [kind : Kind, from : Account, to : Account,
             amount : Nat \ {0}, key : Key]

\* A deposit or a withdrawal has one account: from and to are equal.
ASSUME ServiceAssumption ==
  /\ Body \subseteq BodyType
  /\ \A b \in Body : b.kind # "TRANSFER" => b.from = b.to
  /\ Opening \in [Account -> AccountRecord]
  /\ Csv \in [Account -> AccountRecord \cup {None}]
  /\ Revision \subseteq AccountRecord
  /\ DAILY_LIMIT \in Nat /\ HIGH_VALUE_THRESHOLD \in Nat
  /\ TicksPerDay \in Nat \ {0}
  /\ MaxTime \in Nat /\ MaxCrashes \in Nat /\ MaxChanges \in Nat
  /\ Faults \subseteq {"net", "db"}
  /\ None \notin AccountRecord /\ None \notin Request

VARIABLES
  accounts,  \* the Account Service: the accounts as they really are
  history,   \*   and every record an account has ever been
  calls,     \* the PATCH calls of each request, as the contract sees them
  replies,   \*   and the account carried by the answer on the wire
  cache,     \* table account_cache
  ledger,    \* table transactions
  idem,      \* table idempotency_keys
  daily,     \* table daily_transfer_totals
  now,       \* the clock
  pc,        \* where the handler of each request is
  req,       \* the body it serves
  gets,      \* its getAccount calls
  result,    \* the answer it gave
  metrics,   \* the Prometheus counters of utils/metrics.js
  outbox,    \* notifications handed to notificationService
  alerts,    \* requests that logged CRITICAL_ROLLBACK_FAILED
  crashes, changes

external == <<accounts, history>>
tables   == <<cache, ledger, idem, daily>>
side     == <<outbox, alerts>>
env      == <<now, crashes, changes>>
vars     == <<accounts, history, calls, replies, cache, ledger, idem, daily,
              now, pc, req, gets, result, metrics, outbox, alerts,
              crashes, changes>>

-----------------------------------------------------------------------------
(* Types.                                                                  *)

Op          == {"debit", "credit", "rollback"}
SyncPhase   == {"recording", "counting", "storing"}
AwaitPhase  == {"reading", "debiting", "crediting", "rolling"}
InFlight    == SyncPhase \cup AwaitPhase
TxnType     == {"DEPOSIT", "WITHDRAWAL", "TRANSFER_OUT", "TRANSFER_IN"}
Refusal     == {"SAME_ACCOUNT_TRANSFER", "IDEMPOTENCY_KEY_CONFLICT",
                "NOT_FOUND",
                "ACCOUNT_FROZEN", "ACCOUNT_CLOSED", "ACCOUNT_INACTIVE",
                "KYC_NOT_VERIFIED", "INSUFFICIENT_BALANCE",
                "DAILY_LIMIT_EXCEEDED", "UNAVAILABLE"}
Code        == Refusal \cup {"NONE", "CREATED", "REPLAY", "INTERNAL_ERROR",
                             "TRANSFER_CREDIT_FAILED", "LOST"}
Counter     == {"deposit_success", "withdrawal_success", "transfer_success",
                "transfer_failed",                   \* transactions_total
                "debit_failed", "credit_failed",     \* failed_transfers_total
                "limit_rejections", "replays"}

OptRecord   == AccountRecord \cup {None}
GetState    == [st : {"none", "sent", "read", "done"}, snap : OptRecord]
Row         == [by : Request, type : TxnType, account : Account,
                counterparty : Account \cup {None}, amount : Nat,
                reference : Key \cup {None}, balanceAfter : Int \cup {None}]
IdemRow     == [by : Request, hash : {Hash(b.from, b.to, b.amount) : b \in Body},
                expires : Nat]
Notice      == [by : Request, type : TxnType, path : {"plain", "high-value"}]

\* A key that is not stored has no row.
ASSUME NoneAssumption == None \notin IdemRow

Day(t)      == t \div TicksPerDay
Days        == {Day(t) : t \in 0 .. MaxTime}

\* The types of the tables, of the calls and of the handlers' state.
TypeOK ==
  /\ accounts \in [Account -> AccountRecord]
  /\ history \in [Account -> SUBSET AccountRecord]
  /\ calls \in [Request -> [Op -> CallRecord]]
  /\ replies \in [Request -> [Op -> OptRecord]]
  /\ cache \in [Account -> OptRecord]
  /\ ledger \subseteq Row
  /\ idem \in [Key -> IdemRow \cup {None}]
  /\ daily \in [Account -> [Days -> Nat]]
  /\ now \in 0 .. MaxTime
  /\ pc \in [Request -> InFlight \cup {"idle", "done"}]
  /\ req \in [Request -> Body \cup {None}]
  /\ gets \in [Request -> [Account -> GetState]]
  /\ result \in [Request -> [code : Code, of : Request \cup {None}]]
  /\ metrics \in [Counter -> Nat]
  /\ outbox \subseteq Notice
  /\ alerts \subseteq Request
  /\ crashes \in 0 .. MaxCrashes
  /\ changes \in 0 .. MaxChanges

NoGet == [st |-> "none", snap |-> None]

\* What the seed leaves in account_cache, whatever the Account Service has: a
\* row for each CSV record that keeps the CHECKs.
SeedRow(a) == IF Csv[a] # None /\ Cacheable(Csv[a]) THEN CacheRow(Csv[a]) ELSE None

Init ==
  /\ accounts = Opening
  /\ history = [a \in Account |-> {Opening[a]}]
  /\ calls = [r \in Request |-> [op \in Op |-> NoCall]]
  /\ replies = [r \in Request |-> [op \in Op |-> None]]
  /\ cache = [a \in Account |-> SeedRow(a)]
  /\ ledger = {}
  /\ idem = [k \in Key |-> None]
  /\ daily = [a \in Account |-> [d \in Days |-> 0]]
  /\ now = 0
  /\ pc = [r \in Request |-> "idle"]
  /\ req = [r \in Request |-> None]
  /\ gets = [r \in Request |-> [a \in Account |-> NoGet]]
  /\ result = [r \in Request |-> [code |-> "NONE", of |-> None]]
  /\ metrics = [c \in Counter |-> 0]
  /\ outbox = {}
  /\ alerts = {}
  /\ crashes = 0
  /\ changes = 0

-----------------------------------------------------------------------------
(* Shared pieces of the handlers.                                          *)

\* The event loop is not inside the synchronous end of some transaction.
LoopFree == \A q \in Request : pc[q] \notin SyncPhase

\* Mutant: rollbackDebit is given the receiver's account.
TargetReceiver(r, op) == IF op = "debit" THEN req[r].from ELSE req[r].to

Needed(r)  == {req[r].from, req[r].to}
Target(r, op) == IF op = "credit" THEN req[r].to ELSE req[r].from

Bump(cs) == metrics' = [c \in Counter |-> IF c \in cs THEN metrics[c] + 1
                                                      ELSE metrics[c]]

Goto(r, phase) == /\ pc' = [pc EXCEPT ![r] = phase]
                  /\ UNCHANGED result

Respond(r, code, of) == /\ pc' = [pc EXCEPT ![r] = "done"]
                        /\ result' = [result EXCEPT ![r] = [code |-> code, of |-> of]]

\* notifyTransaction, fire and forget.
Notify(r, type) ==
  outbox' = outbox \cup
    {[by |-> r, type |-> type,
      path |-> IF req[r].amount >= HIGH_VALUE_THRESHOLD
               THEN "high-value" ELSE "plain"]}

\* Mutant: ON CONFLICT DO NOTHING.
RefreshCacheOnce(a, s) ==
  cache' = IF cache[a] = None /\ Cacheable(s)
           THEN [cache EXCEPT ![a] = CacheRow(s)] ELSE cache

\* _upsertCache of an answer; its SQLite errors are logged and swallowed.
RefreshCache(a, s) ==
  \/ cache' = IF ~Cacheable(s) THEN cache
              ELSE [cache EXCEPT ![a] = IF @ = None THEN CacheRow(s)
                                        ELSE Upserted(@, s)]
  \/ "db" \in Faults /\ UNCHANGED cache

StartCall(r, op) == calls' = [calls EXCEPT ![r][op] = OpenCall]

EndCall(r, op, after) == calls' = [calls EXCEPT ![r][op] = after]

\* Mutant: a call that nobody answers never fails.
CanFailAnswered(r, op) == calls[r][op].st = "open" /\ calls[r][op].executed > 0

CanFail(r, op) == /\ calls[r][op].st = "open"
                  /\ calls[r][op].executed = 0 \/ "net" \in Faults

-----------------------------------------------------------------------------
(* A request arrives: the same-account guard and the idempotency check.    *)

Arrives(r, b) ==
  /\ pc[r] = "idle"
  /\ LoopFree
  /\ Cardinality({q \in Request : pc[q] \in InFlight}) < MaxInFlight
  /\ req' = [req EXCEPT ![r] = b]
  /\ UNCHANGED <<external, calls, replies, tables, side, env>>

SameAccount(b) == b.kind = "TRANSFER" /\ b.from = b.to
LooksUpKey(b)  == b.kind = "TRANSFER" /\ b.from # b.to

\* Mutant: expires_at compared with a clock that runs ahead.
StoredAhead(b) == idem[b.key] # None /\ idem[b.key].expires > now + 1

\* _getIdempotent: a row past its expires_at is not found.
Stored(b) == idem[b.key] # None /\ idem[b.key].expires > now

HashOf(b) == Hash(b.from, b.to, b.amount)

Accept(r, b) ==
  /\ Arrives(r, b)
  /\ ~SameAccount(b)
  /\ LooksUpKey(b) => ~Stored(b)
  /\ gets' = [gets EXCEPT ![r] = [a \in Account |->
                IF a \in {b.from, b.to} THEN [st |-> "sent", snap |-> None]
                                        ELSE NoGet]]
  /\ Goto(r, "reading")
  /\ UNCHANGED metrics

RejectSameAccount(r, b) ==
  /\ Arrives(r, b)
  /\ SameAccount(b)
  /\ Respond(r, "SAME_ACCOUNT_TRANSFER", None)
  /\ UNCHANGED <<gets, metrics>>

RejectKeyReuse(r, b) ==
  /\ Arrives(r, b)
  /\ LooksUpKey(b) /\ Stored(b)
  /\ idem[b.key].hash # HashOf(b)
  /\ Respond(r, "IDEMPOTENCY_KEY_CONFLICT", None)
  /\ UNCHANGED <<gets, metrics>>

Replay(r, b) ==
  /\ Arrives(r, b)
  /\ LooksUpKey(b) /\ Stored(b)
  /\ idem[b.key].hash = HashOf(b)
  /\ Respond(r, "REPLAY", idem[b.key].by)
  /\ Bump({"replays"})
  /\ UNCHANGED gets

\* The idempotency query itself throws.
LookupFails(r, b) ==
  /\ "db" \in Faults
  /\ Arrives(r, b)
  /\ LooksUpKey(b)
  /\ Respond(r, "INTERNAL_ERROR", None)
  /\ UNCHANGED <<gets, metrics>>

-----------------------------------------------------------------------------
(* getAccount, once or twice at the same time, then the checks.            *)

ServerReads(r, a) ==
  /\ gets[r][a].st = "sent"
  /\ gets' = [gets EXCEPT ![r][a] = [st |-> "read", snap |-> accounts[a]]]
  /\ UNCHANGED <<external, calls, replies, tables, pc, req, result, metrics,
                 side, env>>

\* The checks on the two records, in the order of the code.
AccountVerdict(b, f, t) ==
  IF ValidateAccount(f) # "OK" THEN ValidateAccount(f)
  ELSE IF ValidateAccount(t) # "OK" THEN ValidateAccount(t)
  ELSE IF b.kind # "DEPOSIT" /\ Overdrawn(f, b.amount)
       THEN "INSUFFICIENT_BALANCE" ELSE "OK"

\* Mutant: the amount asked for is not added to the total.
OverLimitAlready(b) == b.kind = "TRANSFER" /\ daily[b.from][Day(now)] > DAILY_LIMIT

OverLimit(b) == /\ b.kind = "TRANSFER"
                /\ daily[b.from][Day(now)] + b.amount > DAILY_LIMIT

\* Mutant: the cap is checked after the debit has been sent.
DecideDebitFirst(r, f, t) ==
  LET b == req[r]
      verdict == AccountVerdict(b, f, t)
  IN IF verdict # "OK"
     THEN Respond(r, verdict, None) /\ UNCHANGED <<calls, metrics>>
     ELSE /\ StartCall(r, "debit")
          /\ IF OverLimit(b)
             THEN Respond(r, "DAILY_LIMIT_EXCEEDED", None) /\ Bump({"limit_rejections"})
             ELSE Goto(r, "debiting") /\ UNCHANGED metrics

\* All getAccount calls have resolved: check, then send the first PATCH in
\* the same turn of the event loop.
Decide(r, f, t) ==
  LET b == req[r]
      verdict == AccountVerdict(b, f, t)
  IN \/ /\ verdict # "OK"
        /\ Respond(r, verdict, None)
        /\ UNCHANGED <<calls, metrics>>
     \/ /\ verdict = "OK" /\ OverLimit(b)
        /\ Respond(r, "DAILY_LIMIT_EXCEEDED", None)
        /\ Bump({"limit_rejections"})
        /\ UNCHANGED calls
     \/ /\ verdict = "OK" /\ ~OverLimit(b)
        /\ IF b.kind = "DEPOSIT" THEN Goto(r, "crediting") /\ StartCall(r, "credit")
                                 ELSE Goto(r, "debiting") /\ StartCall(r, "debit")
        /\ UNCHANGED metrics
     \/ /\ "db" \in Faults        \* the query of _checkDailyLimit throws
        /\ verdict = "OK" /\ b.kind = "TRANSFER"
        /\ Respond(r, "INTERNAL_ERROR", None)
        /\ UNCHANGED <<calls, metrics>>

\* getAccount(a) resolves with s.  Promise.all waits for the others; when the
\* request is already over (another getAccount rejected) nothing follows.
Settle(r, a, s) ==
  LET g == [gets[r] EXCEPT ![a] = [st |-> "done", snap |-> s]]
  IN IF pc[r] # "reading"
     THEN /\ gets' = [gets EXCEPT ![r][a] = NoGet]
          /\ UNCHANGED <<pc, result, calls, metrics>>
     ELSE IF \E x \in Needed(r) : g[x].st # "done"
     THEN /\ gets' = [gets EXCEPT ![r] = g]
          /\ UNCHANGED <<pc, result, calls, metrics>>
     ELSE /\ gets' = [gets EXCEPT ![r] = [x \in Account |-> NoGet]]
          /\ Decide(r, g[req[r].from].snap, g[req[r].to].snap)

GetReturns(r, a) ==
  /\ LoopFree
  /\ gets[r][a].st = "read"
  /\ RefreshCache(a, gets[r][a].snap)
  /\ Settle(r, a, gets[r][a].snap)
  /\ UNCHANGED <<external, replies, ledger, idem, daily, req, side, env>>

\* The call fails, with any error: a 404 as well as an outage falls back to
\* the cached row.
GetFallsBack(r, a) ==
  /\ LoopFree
  /\ gets[r][a].st \in {"sent", "read"}
  /\ cache[a] # None
  /\ Settle(r, a, cache[a])
  /\ UNCHANGED <<external, replies, tables, req, side, env>>

GetFails(r, a) ==
  /\ LoopFree
  /\ gets[r][a].st \in {"sent", "read"}
  /\ cache[a] = None \/ "db" \in Faults
  /\ gets' = [gets EXCEPT ![r] = [x \in Account |->
                IF x = a \/ @[x].st = "done" THEN NoGet ELSE @[x]]]
  /\ IF pc[r] = "reading" THEN Respond(r, "UNAVAILABLE", None)
                          ELSE UNCHANGED <<pc, result>>
  /\ UNCHANGED <<external, calls, replies, tables, req, metrics, side, env>>

-----------------------------------------------------------------------------
(* PATCH calls.  The Account Service and the network are outside src.      *)

\* The Account Service executes one of the requests of a call, perhaps when
\* nobody waits for it any more; the answer that ends the call may be this
\* one or that of an earlier execution.
ServerExecutes(r, op) ==
  LET a     == Target(r, op)
      delta == IF op = "debit" THEN -req[r].amount ELSE req[r].amount
      after == [accounts[a] EXCEPT !.balance = @ + delta]
  IN /\ CanExecute(calls[r][op])
     /\ calls[r][op].st = "open" \/ "net" \in Faults \/ result[r].code = "LOST"
     /\ accounts' = [accounts EXCEPT ![a] = after]
     /\ history' = [history EXCEPT ![a] = @ \cup {after}]
     /\ EndCall(r, op, Executed(calls[r][op]))
     /\ \/ /\ calls[r][op].st = "open"
           /\ replies' = [replies EXCEPT ![r][op] = after]
        \/ /\ calls[r][op].st = "open" => replies[r][op] # None
           /\ UNCHANGED replies
     /\ UNCHANGED <<tables, pc, req, gets, result, metrics, side, env>>

\* httpCall tries again after a timeout or a transient answer.
Resends(r, op) ==
  /\ "net" \in Faults
  /\ LoopFree
  /\ CanResend(calls[r][op])
  /\ EndCall(r, op, Resent(calls[r][op]))
  /\ UNCHANGED <<external, replies, tables, pc, req, gets, result, metrics,
                 side, env>>

\* Mutant: the daily total is taken when the sender has been debited.
DebitReturnsCounted(r) ==
  /\ LoopFree
  /\ pc[r] = "debiting" /\ CanReturn(calls[r]["debit"])
  /\ RefreshCache(req[r].from, replies[r]["debit"])
  /\ IF req[r].kind = "TRANSFER"
     THEN /\ Goto(r, "crediting")
          /\ calls' = [calls EXCEPT ![r]["debit"] = Returned(@),
                                    ![r]["credit"] = OpenCall]
          /\ daily' = [daily EXCEPT ![req[r].from][Day(now)] = @ + req[r].amount]
     ELSE /\ Goto(r, "recording")
          /\ EndCall(r, "debit", Returned(calls[r]["debit"]))
          /\ UNCHANGED daily
  /\ UNCHANGED <<external, replies, ledger, idem, req, gets, metrics, side, env>>

\* debitAccount resolves: the withdrawal is recorded, the transfer goes on.
DebitReturns(r) ==
  /\ LoopFree
  /\ pc[r] = "debiting" /\ CanReturn(calls[r]["debit"])
  /\ RefreshCache(req[r].from, replies[r]["debit"])
  /\ IF req[r].kind = "TRANSFER"
     THEN /\ Goto(r, "crediting")
          /\ calls' = [calls EXCEPT ![r]["debit"] = Returned(@),
                                    ![r]["credit"] = OpenCall]
     ELSE /\ Goto(r, "recording")
          /\ EndCall(r, "debit", Returned(calls[r]["debit"]))
  /\ UNCHANGED <<external, replies, ledger, idem, daily, req, gets, metrics,
                 side, env>>

\* Mutant: debitAccount swallows its failure, as rollbackDebit does.
DebitFailsSilently(r) ==
  /\ LoopFree
  /\ pc[r] = "debiting" /\ CanFail(r, "debit")
  /\ Goto(r, "crediting")
  /\ calls' = [calls EXCEPT ![r]["debit"] = GivenUp(@), ![r]["credit"] = OpenCall]
  /\ UNCHANGED <<external, replies, tables, req, gets, metrics, side, env>>

\* debitAccount rejects, with an error that has no statusCode of ours.
DebitFails(r) ==
  /\ LoopFree
  /\ pc[r] = "debiting" /\ CanFail(r, "debit")
  /\ EndCall(r, "debit", GivenUp(calls[r]["debit"]))
  /\ Respond(r, "INTERNAL_ERROR", None)
  /\ Bump(IF req[r].kind = "TRANSFER" THEN {"debit_failed"} ELSE {})
  /\ UNCHANGED <<external, replies, tables, req, gets, side, env>>

CreditReturns(r) ==
  /\ LoopFree
  /\ pc[r] = "crediting" /\ CanReturn(calls[r]["credit"])
  /\ RefreshCache(req[r].to, replies[r]["credit"])
  /\ EndCall(r, "credit", Returned(calls[r]["credit"]))
  /\ Goto(r, "recording")
  /\ UNCHANGED <<external, replies, ledger, idem, daily, req, gets, metrics,
                 side, env>>

\* Mutant: no rollback.
CreditFailsForGood(r) ==
  /\ LoopFree
  /\ pc[r] = "crediting" /\ CanFail(r, "credit")
  /\ Respond(r, "INTERNAL_ERROR", None)
  /\ EndCall(r, "credit", GivenUp(calls[r]["credit"]))
  /\ UNCHANGED <<external, replies, tables, req, gets, metrics, side, env>>

\* creditAccount rejects: a deposit ends, a transfer rolls its debit back.
CreditFails(r) ==
  /\ LoopFree
  /\ pc[r] = "crediting" /\ CanFail(r, "credit")
  /\ IF req[r].kind = "TRANSFER"
     THEN /\ Goto(r, "rolling")
          /\ calls' = [calls EXCEPT ![r]["credit"] = GivenUp(@),
                                    ![r]["rollback"] = OpenCall]
     ELSE /\ Respond(r, "INTERNAL_ERROR", None)
          /\ EndCall(r, "credit", GivenUp(calls[r]["credit"]))
  /\ UNCHANGED <<external, replies, tables, req, gets, metrics, side, env>>

\* Mutant: the outer catch counts TRANSFER_CREDIT_FAILED too.
RollbackEndsTwice(r, after) ==
  /\ LoopFree
  /\ pc[r] = "rolling"
  /\ EndCall(r, "rollback", after)
  /\ Bump({"credit_failed", "transfer_failed", "debit_failed"})
  /\ Respond(r, "TRANSFER_CREDIT_FAILED", None)
  /\ UNCHANGED <<external, replies, tables, req, gets, outbox, env>>

\* After rollbackDebit, which swallows its own failure and refreshes no
\* cache, the client is told that the debit has been reversed.
RollbackEnds(r, after) ==
  /\ LoopFree
  /\ pc[r] = "rolling"
  /\ EndCall(r, "rollback", after)
  /\ Bump({"credit_failed", "transfer_failed"})
  /\ Respond(r, "TRANSFER_CREDIT_FAILED", None)
  /\ UNCHANGED <<external, replies, tables, req, gets, outbox, env>>

RollbackReturns(r) ==
  /\ CanReturn(calls[r]["rollback"])
  /\ RollbackEnds(r, Returned(calls[r]["rollback"]))
  /\ UNCHANGED alerts

RollbackFails(r) ==
  /\ CanFail(r, "rollback")
  /\ RollbackEnds(r, GivenUp(calls[r]["rollback"]))
  /\ alerts' = alerts \cup {r}

-----------------------------------------------------------------------------
(* The synchronous end of a transaction.                                   *)

\* Mutant: withdraw, copied from deposit, keeps its transactionType.
LegOfDeposit(r, type) ==
  LET op == IF type \in {"WITHDRAWAL", "TRANSFER_OUT"} THEN "debit" ELSE "credit"
  IN [by |-> r, type |-> IF type = "WITHDRAWAL" THEN "DEPOSIT" ELSE type,
      account |-> Target(r, op), counterparty |-> None, amount |-> req[r].amount,
      reference |-> req[r].key, balanceAfter |-> replies[r][op].balance]
\* Mutant: balance_after computed from an answer that has the amount in it.
LegComputed(r, type) ==
  LET op == IF type \in {"WITHDRAWAL", "TRANSFER_OUT"} THEN "debit" ELSE "credit"
  IN [by |-> r, type |-> type, account |-> Target(r, op), counterparty |-> None,
      amount |-> req[r].amount, reference |-> req[r].key,
      balanceAfter |-> replies[r][op].balance
                       + (IF op = "debit" THEN -1 ELSE 1) * req[r].amount]

\* _insertTransaction of one leg; a balance that is missing is stored as NULL.
Leg(r, type) ==
  LET op == IF type \in {"WITHDRAWAL", "TRANSFER_OUT"} THEN "debit" ELSE "credit"
  IN [by           |-> r,
      type         |-> type,
      account      |-> Target(r, op),
      counterparty |-> CASE type = "TRANSFER_OUT" -> req[r].to
                         [] type = "TRANSFER_IN"  -> req[r].from
                         [] OTHER                 -> None,
      amount       |-> req[r].amount,
      reference    |-> IF type = "WITHDRAWAL" THEN None ELSE req[r].key,
      balanceAfter |-> IF ShowsBalance(replies[r][op])
                       THEN replies[r][op].balance ELSE None]

\* One row, counted and notified; the handler answers in the same turn.  When
\* the SELECT that reads the row back throws, the row is committed already.
RecordSingle(r) ==
  /\ pc[r] = "recording" /\ req[r].kind # "TRANSFER"
  /\ ledger' = ledger \cup {Leg(r, req[r].kind)}
  /\ \/ /\ Bump(IF req[r].kind = "DEPOSIT" THEN {"deposit_success"}
                                           ELSE {"withdrawal_success"})
        /\ Notify(r, req[r].kind)
        /\ Respond(r, "CREATED", r)
     \/ /\ "db" \in Faults
        /\ Respond(r, "INTERNAL_ERROR", None)
        /\ UNCHANGED <<metrics, outbox>>
  /\ UNCHANGED <<external, calls, replies, cache, idem, daily, req, gets,
                 alerts, env>>

\* Mutant: two inserts without db.transaction.
InsertBothApart(r) ==
  /\ pc[r] = "recording" /\ req[r].kind = "TRANSFER"
  /\ \/ /\ ledger' = ledger \cup {Leg(r, "TRANSFER_OUT"), Leg(r, "TRANSFER_IN")}
        /\ Goto(r, "counting")
     \/ /\ "db" \in Faults
        /\ ledger' = ledger \cup {Leg(r, "TRANSFER_OUT")}
        /\ Respond(r, "INTERNAL_ERROR", None)
  /\ UNCHANGED <<external, calls, replies, cache, idem, daily, req, gets,
                 metrics, side, env>>

\* insertBoth: both legs in one SQLite transaction.
InsertBoth(r) ==
  /\ pc[r] = "recording" /\ req[r].kind = "TRANSFER"
  /\ ledger' = ledger \cup {Leg(r, "TRANSFER_OUT"), Leg(r, "TRANSFER_IN")}
  /\ Goto(r, "counting")
  /\ UNCHANGED <<external, calls, replies, cache, idem, daily, req, gets,
                 metrics, side, env>>

\* _incrementDailyTotal, on the date it is by then.
IncrementDailyTotal(r) ==
  /\ pc[r] = "counting"
  /\ daily' = [daily EXCEPT ![req[r].from][Day(now)] = @ + req[r].amount]
  /\ Bump({"transfer_success"})
  /\ Goto(r, "storing")
  /\ UNCHANGED <<external, calls, replies, cache, ledger, idem, req, gets,
                 side, env>>

\* _storeIdempotent (INSERT OR REPLACE), notification, answer.
StoreIdempotent(r) ==
  /\ pc[r] = "storing"
  /\ idem' = [idem EXCEPT ![req[r].key] =
                [by |-> r, hash |-> HashOf(req[r]), expires |-> now + TicksPerDay]]
  /\ Notify(r, "TRANSFER_OUT")
  /\ Respond(r, "CREATED", r)
  /\ UNCHANGED <<external, calls, replies, cache, ledger, daily, req, gets,
                 metrics, alerts, env>>

\* Mutant: the failure is kept as the response of the key.
DbFailsStored(r) ==
  /\ "db" \in Faults
  /\ pc[r] \in SyncPhase
  /\ Respond(r, "INTERNAL_ERROR", None)
  /\ idem' = [idem EXCEPT ![req[r].key] =
                [by |-> r, hash |-> HashOf(req[r]), expires |-> now + TicksPerDay]]
  /\ UNCHANGED <<external, calls, replies, cache, ledger, daily, req, gets,
                 metrics, side, env>>

\* SQLite throws in one of these statements: whatever came before stays.
DbFails(r) ==
  /\ "db" \in Faults
  /\ pc[r] \in SyncPhase
  /\ Respond(r, "INTERNAL_ERROR", None)
  /\ Bump(IF req[r].kind = "TRANSFER" /\ pc[r] # "storing"
          THEN {"debit_failed"} ELSE {})
  /\ UNCHANGED <<external, calls, replies, tables, req, gets, side, env>>

-----------------------------------------------------------------------------
(* The environment.                                                        *)

Tick ==
  /\ now < MaxTime
  /\ now' = now + 1
  /\ UNCHANGED <<external, calls, replies, tables, pc, req, gets, result,
                 metrics, side, crashes, changes>>

\* At the Account Service an account gets another type, status or KYC status,
\* or answers about it another shape.
AccountChanges(a) ==
  /\ changes < MaxChanges
  /\ changes' = changes + 1
  /\ \E c \in Revision :
       LET after == [c EXCEPT !.balance = accounts[a].balance]
       IN /\ after # accounts[a]
          /\ accounts' = [accounts EXCEPT ![a] = after]
          /\ history' = [history EXCEPT ![a] = @ \cup {after}]
  /\ UNCHANGED <<calls, replies, tables, pc, req, gets, result, metrics,
                 side, now, crashes>>

\* The process dies and is started again: memory is gone, the tables stay,
\* requests on the wire are still executed, nobody waits for their answers.
Crash ==
  /\ crashes < MaxCrashes
  /\ crashes' = crashes + 1
  /\ pc' = [r \in Request |-> IF pc[r] \in InFlight THEN "done" ELSE pc[r]]
  /\ result' = [r \in Request |-> IF pc[r] \in InFlight
                                  THEN [code |-> "LOST", of |-> None] ELSE result[r]]
  /\ gets' = [r \in Request |-> [a \in Account |-> NoGet]]
  /\ calls' = [r \in Request |-> [op \in Op |-> GivenUp(calls[r][op])]]
  /\ metrics' = [c \in Counter |-> 0]
  /\ UNCHANGED <<external, replies, tables, req, side, now, changes>>

-----------------------------------------------------------------------------

Arrival(r) == \E b \in Body : \/ Accept(r, b) \/ RejectSameAccount(r, b)
                              \/ RejectKeyReuse(r, b) \/ Replay(r, b)
                              \/ LookupFails(r, b)

Get(r, a) == GetReturns(r, a) \/ GetFallsBack(r, a) \/ GetFails(r, a)

Patch(r) == \/ DebitReturns(r) \/ DebitFails(r)
            \/ CreditReturns(r) \/ CreditFails(r)
            \/ RollbackReturns(r) \/ RollbackFails(r)

Commit(r) == \/ RecordSingle(r) \/ InsertBoth(r) \/ IncrementDailyTotal(r)
             \/ StoreIdempotent(r) \/ DbFails(r)

Server(r) == \/ \E a \in Account : ServerReads(r, a)
             \/ \E op \in Op : ServerExecutes(r, op) \/ Resends(r, op)

Next == \/ \E r \in Request : \/ Arrival(r) \/ Patch(r) \/ Commit(r) \/ Server(r)
                              \/ \E a \in Account : Get(r, a)
        \/ Tick \/ Crash
        \/ \E a \in Account : AccountChanges(a)

Spec == Init /\ [][Next]_vars

\* Timeouts end every call, and the event loop runs what is ready; neither
\* clients nor the environment owe anything.
Fairness == \A r \in Request : /\ WF_vars(Patch(r))
                               /\ WF_vars(Commit(r))
                               /\ \A a \in Account : WF_vars(Get(r, a))

FairSpec == Spec /\ Fairness
=============================================================================
