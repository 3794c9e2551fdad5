--------------------------- MODULE Reconciliation ---------------------------
(***************************************************************************)
(* The sums an operator would reconcile: balances at the Account Service   *)
(* against the ledger, daily totals against the ledger, and the Prometheus *)
(* counters against the ledger and the answers.                            *)
(***************************************************************************)
EXTENDS TransactionProperties, Functions

Signed(row) == IF OpOf(row.type) = "debit" THEN -row.amount ELSE row.amount

LedgerSum(a) == SumFunctionOnSet([row \in ledger |-> Signed(row)],
                                 {row \in ledger : row.account = a})
OutSum(a)    == SumFunctionOnSet([row \in ledger |-> row.amount],
                  {row \in ledger : row.account = a /\ row.type = "TRANSFER_OUT"})
DailySum(a)  == SumFunctionOnSet(daily[a], Days)

\* Debits taken and not put back, for which only the critical alert is left.
AlertSum(a)  == SumFunctionOnSet([r \in alerts |-> req[r].amount],
                                 {r \in alerts : req[r].from = a})

Quiescent == \A r \in Request : pc[r] \in {"idle", "done"}

\* With no lost answer, SQLite error or crash, and however transfers
\* interleave: between requests every balance is the opening one plus the
\* ledger, except for the debits whose rollback raised the critical alert.
Reconciled ==
  Quiescent => \A a \in Account :
    accounts[a].balance = Opening[a].balance + LedgerSum(a) - AlertSum(a)

\* Daily totals never run ahead of the ledger, and with no crash and no
\* SQLite error they agree with it whenever the event loop is free.
DailyTotalsMatchLedger ==
  \A a \in Account :
    /\ DailySum(a) <= OutSum(a)
    /\ LoopFree /\ crashes = 0 /\ "db" \notin Faults => DailySum(a) = OutSum(a)

Count(type)   == Cardinality({row \in ledger : row.type = type})
Answered(kind, codes) == Cardinality({r \in Request : /\ result[r].code \in codes
                                                      /\ req[r].kind = kind})

\* While the process lives and SQLite works, the counters tell what happened:
\* a success for each recorded operation, a failure with the right reason for
\* each transfer that was tried and failed, a replay and a rejection for each.
CountersMatchOutcomes ==
  LoopFree /\ crashes = 0 =>
    /\ metrics["deposit_success"]    = Count("DEPOSIT")
    /\ metrics["withdrawal_success"] = Count("WITHDRAWAL")
    /\ metrics["transfer_success"]   = Count("TRANSFER_OUT")
    /\ metrics["transfer_failed"]    = Answered("TRANSFER", {"TRANSFER_CREDIT_FAILED"})
    /\ metrics["credit_failed"]      = metrics["transfer_failed"]
    /\ metrics["debit_failed"]       = Answered("TRANSFER", {"INTERNAL_ERROR"})
    /\ metrics["limit_rejections"]   = Answered("TRANSFER", {"DAILY_LIMIT_EXCEEDED"})
    /\ metrics["replays"]            = Answered("TRANSFER", {"REPLAY"})
=============================================================================
