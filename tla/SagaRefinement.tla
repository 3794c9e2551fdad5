--------------------------- MODULE SagaRefinement ---------------------------
(***************************************************************************)
(* TransactionService implements MoneySaga: of its tables and accounts only *)
(* the place of each handler, the calls and the ledger are seen.            *)
(***************************************************************************)
EXTENDS TransactionProperties

StageOf(r) ==
  CASE pc[r] \in {"idle", "reading"} -> "waiting"
    [] pc[r] = "debiting"  -> "taking"
    [] pc[r] = "crediting" -> "giving"
    [] pc[r] = "rolling"   -> "restoring"
    [] pc[r] = "recording" -> "entering"
    [] OTHER               -> "over"

Asked(r) == {op \in Op : Issued(r, op)}

SagaOf(r) == [stage   |-> StageOf(r),
              kind    |-> IF Asked(r) = {} THEN "none" ELSE req[r].kind,
              asked   |-> Asked(r),
              done    |-> [op \in Op |-> calls[r][op].executed],
              entered |-> Legs(r) # {}]

Saga == INSTANCE MoneySaga WITH saga <- [r \in Request |-> SagaOf(r)],
                             deaths <- crashes, MaxDeaths <- MaxCrashes

\* Whatever the network, SQLite and the process do, the service moves money
\* only as MoneySaga allows: no path through retries, orphaned reads, late
\* answers and thrown statements makes a step out of its order or leaves a
\* handler between two, except by the death of the process.
ImplementsSaga == Saga!Spec

\* The Account Service is asked to credit a transfer only when it has taken
\* the money, to roll back only what has not been recorded, and a row stands
\* for calls that were all executed: transfer (transactionService.js:227)
\* issues its calls and inserts in this order on every path.
MoneyMovesInOrder == Saga!MoneyInOrder
=============================================================================
