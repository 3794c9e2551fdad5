-------------------------------- MODULE Seed --------------------------------
(***************************************************************************)
(* seed/seed.js, run by every start of the server (index.js) and by        *)
(* "npm run seed", on one database file.  Each db.transaction commits at   *)
(* once; between two of them the process may die, a statement may throw,   *)
(* and another process may be anywhere in the same code.                   *)
(***************************************************************************)
EXTENDS Naturals

CONSTANTS Server, Script,   \* processes
          Account, Txn,     \* ids; the two demonstration rows are in Txn
          Demo,
          LastVersion,      \* bound: SEED_VERSION of the last build
          AccountRows(_),   \* the rows of each build's CSV files that pass
          TxnRows(_),       \*   the CHECK constraints
          FirstFiles,       \* the sets of CSV files there may be at first
          MaxFaults         \* bound: processes that die, statements that throw

Process == Server \cup Script
Version == 1 .. LastVersion
File    == {"accounts", "transactions"}
None    == [from |-> "none", version |-> 0]
Live    == [from |-> "live", version |-> 0]
SeededBy(v) == [from |-> "seed", version |-> v]
CacheRow    == {None, Live} \cup {SeededBy(v) : v \in Version}

ASSUME SeedAssumption ==
  /\ LastVersion \in Nat \ {0} /\ MaxFaults \in Nat
  /\ Demo \subseteq Txn /\ FirstFiles \subseteq SUBSET File
  /\ \A v \in Version : AccountRows(v) \subseteq Account /\ TxnRows(v) \subseteq Txn

VARIABLES cache,   \* account_cache: where each row comes from
          ledger,  \* transactions: the build that inserted each seed row, or 0
          marker,  \* _seed_meta: the version, or 0
          files,   \* data/csv
          first,   \* and what it held before the first boot
          build,   \* SEED_VERSION in the code each process runs
          pc, faults
vars == <<cache, ledger, marker, files, first, build, pc, faults>>

Seeding == {"check", "accounts", "transactions", "demo", "mark"}

\* Each table holds rows of its kind.
TypeOK ==
  /\ cache \in [Account -> CacheRow]
  /\ ledger \in [Txn -> Version \cup {0}]
  /\ marker \in Version \cup {0}
  /\ files \subseteq File /\ first \subseteq files
  /\ build \in [Process -> Version]
  /\ pc \in [Process -> Seeding \cup {"down", "serving"}]
  /\ faults \in 0 .. MaxFaults

Init == /\ cache = [a \in Account |-> None]
        /\ ledger = [t \in Txn |-> 0]
        /\ marker = 0
        /\ first \in FirstFiles /\ files = first
        /\ build = [p \in Process |-> 1]
        /\ pc = [p \in Process |-> "down"]
        /\ faults = 0

-----------------------------------------------------------------------------

\* The process starts, on any build that has been deployed.
Boot(p) ==
  /\ pc[p] = "down"
  /\ \E v \in Version : build' = [build EXCEPT ![p] = v]
  /\ pc' = [pc EXCEPT ![p] = "check"]
  /\ UNCHANGED <<cache, ledger, marker, files, first, faults>>

\* After runSeed the server listens; the script exits.
Over(p) == IF p \in Server THEN "serving" ELSE "down"

\* Mutant: the marker is set before the rows are there.
CheckAndMark(p) ==
  /\ pc[p] = "check"
  /\ pc' = [pc EXCEPT ![p] = IF marker = build[p] THEN Over(p) ELSE "accounts"]
  /\ marker' = build[p]
  /\ UNCHANGED <<cache, ledger, files, first, build, faults>>

Check(p) ==
  /\ pc[p] = "check"
  /\ pc' = [pc EXCEPT ![p] = IF marker = build[p] THEN Over(p) ELSE "accounts"]
  /\ UNCHANGED <<cache, ledger, marker, files, first, build, faults>>

\* INSERT OR IGNORE.
Insert(old, absent, new) == IF old = absent THEN new ELSE old

SeedAccounts(p) ==
  /\ pc[p] = "accounts"
  /\ cache' = [a \in Account |->
       IF "accounts" \in files /\ a \in AccountRows(build[p])
       THEN Insert(cache[a], None, SeededBy(build[p])) ELSE cache[a]]
  /\ pc' = [pc EXCEPT ![p] = "transactions"]
  /\ UNCHANGED <<ledger, marker, files, first, build, faults>>

InsertRows(p, rows) ==
  ledger' = [t \in Txn |-> IF t \in rows THEN Insert(ledger[t], 0, build[p])
                                         ELSE ledger[t]]

SeedTransactions(p) ==
  /\ pc[p] = "transactions"
  /\ InsertRows(p, IF "transactions" \in files THEN TxnRows(build[p]) ELSE {})
  /\ pc' = [pc EXCEPT ![p] = "demo"]
  /\ UNCHANGED <<cache, marker, files, first, build, faults>>

SeedHighValue(p) ==
  /\ pc[p] = "demo"
  /\ InsertRows(p, Demo)
  /\ pc' = [pc EXCEPT ![p] = "mark"]
  /\ UNCHANGED <<cache, marker, files, first, build, faults>>

Mark(p) ==
  /\ pc[p] = "mark"
  /\ marker' = build[p]
  /\ pc' = [pc EXCEPT ![p] = Over(p)]
  /\ UNCHANGED <<cache, ledger, files, first, build, faults>>

\* Mutant: the exception ends start() before listen.
FailEscapes(p) ==
  /\ pc[p] \in Seeding /\ faults < MaxFaults
  /\ pc' = [pc EXCEPT ![p] = "stuck"]
  /\ faults' = faults + 1
  /\ UNCHANGED <<cache, ledger, marker, files, first, build>>

\* A statement throws (the disk, or SQLITE_BUSY) and its transaction is rolled
\* back.  start() logs the error and goes on to listen; the script exits.
Fail(p) ==
  /\ pc[p] \in Seeding /\ faults < MaxFaults
  /\ pc' = [pc EXCEPT ![p] = Over(p)]
  /\ faults' = faults + 1
  /\ UNCHANGED <<cache, ledger, marker, files, first, build>>

Die(p) ==
  /\ pc[p] # "down" /\ faults < MaxFaults
  /\ pc' = [pc EXCEPT ![p] = "down"]
  /\ faults' = faults + 1
  /\ UNCHANGED <<cache, ledger, marker, files, first, build>>

\* The server is stopped, perhaps to deploy a build.
Stop(p) ==
  /\ pc[p] = "serving"
  /\ pc' = [pc EXCEPT ![p] = "down"]
  /\ UNCHANGED <<cache, ledger, marker, files, first, build, faults>>

\* _upsertCache of a server that answers requests.
Refresh(a) ==
  /\ \E p \in Server : pc[p] = "serving"
  /\ cache' = [cache EXCEPT ![a] = Live]
  /\ UNCHANGED <<ledger, marker, files, first, build, pc, faults>>

\* Somebody puts a CSV file in place.
PlaceFile(f) ==
  /\ f \notin files
  /\ files' = files \cup {f}
  /\ UNCHANGED <<cache, ledger, marker, first, build, pc, faults>>

RunSeed(p) == Check(p) \/ SeedAccounts(p) \/ SeedTransactions(p) \/ SeedHighValue(p) \/ Mark(p)

Next == \/ \E p \in Process : Boot(p) \/ RunSeed(p) \/ Fail(p) \/ Die(p) \/ Stop(p)
        \/ \E a \in Account : Refresh(a)
        \/ \E f \in File : PlaceFile(f)

Spec == Init /\ [][Next]_vars

\* runSeed awaits nothing: a process that is in it goes on.
FairSpec == Spec /\ \A p \in Process : WF_vars(RunSeed(p))

-----------------------------------------------------------------------------

Loaded(v, present) ==
  /\ "accounts" \in present => \A a \in AccountRows(v) : cache[a] # None
  /\ "transactions" \in present => \A t \in TxnRows(v) : ledger[t] # 0
  /\ \A t \in Demo : ledger[t] # 0

\* A database that is marked with a version, and is skipped by the builds of
\* that version for ever, has every row of the files there were, whoever marked
\* it and wherever other seed runs died.
MarkedIsLoaded == marker # 0 => Loaded(marker, first)

\* Every boot ends: the server listens even when its seed has thrown, unless
\* the process dies, and then on what was committed before.
BootEnds == \A p \in Server : pc[p] = "check" ~> pc[p] \in {"serving", "down"}
=============================================================================
