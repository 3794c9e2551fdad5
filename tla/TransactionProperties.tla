----------------------- MODULE TransactionProperties -----------------------
(***************************************************************************)
(* What the transaction service promises.  The properties of the first     *)
(* part hold whatever the network, SQLite and the process do; those of the *)
(* second part need the circumstances that their comments name.            *)
(***************************************************************************)
EXTENDS TransactionService

Legs(r)     == {row \in ledger : row.by = r}
LegTypes(r) == {row.type : row \in Legs(r)}
OpOf(type)  == IF type \in {"WITHDRAWAL", "TRANSFER_OUT"} THEN "debit" ELSE "credit"
Moved(r, op)  == calls[r][op].executed > 0
Issued(r, op) == calls[r][op].st # "none"

BothLegs == {"TRANSFER_OUT", "TRANSFER_IN"}

-----------------------------------------------------------------------------
(* Under every fault.                                                      *)

\* The ledger never claims a movement that the Account Service has not made:
\* insertBoth and the single inserts come after the PATCH calls they record.
RecordedOnlyIfMoved == \A row \in ledger : Moved(row.by, OpOf(row.type))

\* A transfer is recorded with both legs or not at all, and one whose debit
\* was sent back leaves no leg, no idempotency row and no notification.
NeverRecordedAndReversed ==
  \A r \in Request :
    /\ LegTypes(r) \cap BothLegs \in {{}, BothLegs}
    /\ Issued(r, "rollback") =>
         /\ Legs(r) = {}
         /\ \A k \in Key : idem[k] = None \/ idem[k].by # r
         /\ \A n \in outbox : n.by # r

\* An idempotency row stands for a transfer that is in the ledger, under its
\* key and with its hash: a replay can never report a transfer that
\* was not recorded, whatever overwrote the row and whenever it was written.
StoredImpliesRecorded ==
  \A k \in Key : idem[k] # None =>
    LET q == idem[k].by
    IN /\ LegTypes(q) = BothLegs
       /\ \A row \in Legs(q) : row.reference = k
       /\ idem[k].hash = HashOf(req[q])

\* The answer tells the client what became of the money: nothing was sent
\* after a refusal or a replay, everything was done and recorded after a 201,
\* a replay names a recorded transfer of the same key and hash, and "debit has
\* been reversed" is said of a debit that was made.  An INTERNAL_ERROR says
\* nothing.
AnswersAreTruthful ==
  \A r \in Request :
    LET code == result[r].code
        q    == result[r].of
    IN /\ code \in Refusal \cup {"REPLAY"} => \A op \in Op : ~Issued(r, op)
       /\ code = "CREATED" =>
            /\ ~Issued(r, "rollback")
            /\ LegTypes(r) = IF req[r].kind = "TRANSFER" THEN BothLegs
                             ELSE {req[r].kind}
            /\ \E n \in outbox : n.by = r
       /\ code = "REPLAY" =>
            /\ q # r /\ LegTypes(q) = BothLegs
            /\ req[q].key = req[r].key /\ HashOf(req[q]) = HashOf(req[r])
       /\ code = "TRANSFER_CREDIT_FAILED" =>
            Moved(r, "debit") /\ Issued(r, "rollback") /\ Legs(r) = {}

\* The records that stand behind account_cache: what the account has been at
\* the Account Service, and its CSV record.
Source(a) == history[a] \cup {s \in {Csv[a]} : s # None}

\* No interleaving of answers mixes two records: balance, status and KYC of a
\* cached row are those of one source, a missing field as its default.  Only
\* the type may be of another one, as ON CONFLICT keeps the first, and for
\* ever that of the seed.
CachedFromOneAnswer ==
  \A a \in Account : cache[a] # None =>
    /\ \E s \in Source(a) :
         /\ cache[a].balance = IF "balance" \in s.lacks THEN 0 ELSE s.balance
         /\ cache[a].status  = IF s.status = "UNSET" THEN "ACTIVE" ELSE s.status
         /\ cache[a].kyc     = IF s.kyc = "UNSET" THEN "VERIFIED" ELSE s.kyc
    /\ \E s \in Source(a) :
         cache[a].type = IF s.type = "UNSET" THEN "SAVINGS" ELSE s.type
    /\ SeedRow(a) # None => cache[a].type = SeedRow(a).type

\* Every balance_after in the ledger, when the answer carried one, is a balance
\* the account had, though answers are late or those of an earlier attempt.
BalanceAfterWasReal ==
  \A row \in ledger : row.balanceAfter # None =>
    \E s \in history[row.account] : s.balance = row.balanceAfter

\* However stale the data it was decided on, no debit is sent that one source
\* did not allow: its status, its KYC and its balance at once, the status of
\* one record and the balance of another never.  The type may be an older
\* one, and a status or kyc_status that is missing counts as a good one
\* (README.md:34 has "must be VERIFIED"), as does a missing balance.
EveryDebitWasOnceAllowed ==
  \A r \in Request : Issued(r, "debit") =>
    \E s, typed \in Source(req[r].from) :
      /\ "body" \notin s.lacks
      /\ s.status \in {"ACTIVE", "UNSET"} /\ s.kyc \in {"VERIFIED", "UNSET"}
      /\ typed.type \in {"SAVINGS", "NRE"} =>
           s.balance >= req[r].amount \/ "balance" \in s.lacks

\* When a request has been answered or lost, nothing more is done for it:
\* an orphaned getAccount or a late answer starts no call and writes no row,
\* though what is on the wire may still be executed.
NothingDoneAfterAnswer ==
  [][\A r \in Request : pc[r] = "done" =>
       /\ pc'[r] = "done" /\ result'[r] = result[r]
       /\ \A op \in Op : calls'[r][op].sent = calls[r][op].sent
       /\ \A row \in ledger' \ ledger : row.by # r]_vars

-----------------------------------------------------------------------------
(* Without lost or late answers, SQLite errors and crashes.                *)

\* A transfer that is over has moved its amount from one account to the
\* other, or has put it back, or has never taken it, or has left the critical
\* alert that rollbackDebit logs.  swagger.js: "All transfers are atomic".
TransferAtomic ==
  \A r \in Request : pc[r] = "done" /\ req[r].kind = "TRANSFER" /\ r \notin alerts =>
    calls[r]["debit"].executed = calls[r]["credit"].executed
                                 + calls[r]["rollback"].executed

\* When TRANSFER_CREDIT_FAILED says that the debit has been reversed, the
\* Account Service has put the amount back.
ReversalTruthful ==
  \A r \in Request : result[r].code = "TRANSFER_CREDIT_FAILED" => Moved(r, "rollback")

\* No two recorded transfers carry the same idempotency key, within the
\* time a key is kept.  swagger.js: "Idempotency keys prevent duplicate
\* transfers".
OneTransferPerKey ==
  \A x, y \in ledger :
    x.type = "TRANSFER_OUT" /\ y.type = "TRANSFER_OUT" /\ x.reference = y.reference
      => x.by = y.by

\* When the legs of a transfer are inserted, its key is not taken by another
\* transfer whose row has not expired: of a stored key, only expiry frees it.
KeyFreeWhenRecorded ==
  [][\A r \in Request :
       pc[r] = "recording" /\ pc'[r] = "counting" =>
         LET row == idem[req[r].key]
         IN row = None \/ row.by = r \/ row.expires <= now]_vars

\* No SAVINGS or NRE account is overdrawn.  swagger.js: "Overdraft prevention
\* for SAVINGS accounts".
NoOverdraft ==
  \A a \in Account : accounts[a].type \in NoOverdraftTypes =>
    accounts[a].balance >= 0

\* Requests that come one at a time, on accounts that all have a cached row,
\* overdraw an account that always was SAVINGS or NRE, and always gave its
\* balance and id, by no more than the seed's row once overstated it: a row
\* refreshed later, or a fallback to it, never lets more go.
AlwaysLimited(a) ==
  /\ SeedRow(a).type \in NoOverdraftTypes
  /\ \A s \in history[a] :
       s.type \in NoOverdraftTypes /\ s.lacks = {} /\ Cacheable(s)

OverdraftBoundedBySeed ==
  (\A a \in Account : SeedRow(a) # None) =>
    \A a \in Account : AlwaysLimited(a) =>
      \/ accounts[a].balance >= 0
      \/ accounts[a].balance >= Opening[a].balance
      \/ accounts[a].balance >= Opening[a].balance - SeedRow(a).balance

\* _checkDailyLimit and _incrementDailyTotal are apart, so transfers in
\* flight together each fit under the cap: the total of an account on a day
\* stays below the cap times their number, and is held by it when transfers
\* come one at a time, midnight between check and increment included.
DailyOvershootBounded ==
  \A a \in Account, d \in Days : daily[a][d] <= MaxInFlight * DAILY_LIMIT

\* README: "2,00,000 per account per UTC day".
DailyCapHeld ==
  \A a \in Account, d \in Days : daily[a][d] <= DAILY_LIMIT

\* Every request is answered: timeouts and the end of the event loop's turn
\* leave no handler waiting for ever.
EveryRequestAnswered ==
  \A r \in Request : pc[r] \in InFlight ~> pc[r] = "done"
=============================================================================
