-------------------------- MODULE SynchronousProofs --------------------------
(***************************************************************************)
(* Proofs about the parts that await nothing: the seed, validation and the *)
(* row it admits, the request hash, the lists.  Each is proved for every   *)
(* value of its constants, with its own specification; the one assumption  *)
(* beyond those of the modules is CodesFit, of one theorem on the hash.    *)
(***************************************************************************)
EXTENDS Seed, HashLoop, RequestBody, Listing, FiniteSetTheorems, SequenceTheorems, TLAPS

-----------------------------------------------------------------------------
(* The seed, for every number of processes, builds, rows and faults.  The  *)
(* invariant follows each process through its steps: what is behind it is  *)
(* loaded, and no step of another takes a row away.                        *)

AccountsLoaded(v) == "accounts" \in first => \A a \in AccountRows(v) : cache[a] # None
TxnsLoaded(v) == "transactions" \in first => \A t \in TxnRows(v) : ledger[t] # 0
DemoLoaded == \A t \in Demo : ledger[t] # 0

\* What the place of a process says of the tables.
Progress ==
  \A p \in Process :
    /\ pc[p] \in {"transactions", "demo", "mark"} => AccountsLoaded(build[p])
    /\ pc[p] \in {"demo", "mark"} => TxnsLoaded(build[p])
    /\ pc[p] = "mark" => DemoLoaded

SeedInv == TypeOK /\ Progress /\ MarkedIsLoaded

LEMMA InitSeedInv == Init => SeedInv
  <1>1. 1 \in Version
    BY SeedAssumption DEF Version
  <1>2. ASSUME Init PROVE first \in SUBSET File
    BY <1>2, SeedAssumption DEF Init
  <1> QED BY <1>1, <1>2, SeedAssumption DEF Init, SeedInv, TypeOK, Progress, MarkedIsLoaded, CacheRow

\* A row that is in a table stays in it.
RowsStay == /\ \A a \in Account : cache[a] # None => cache'[a] # None
            /\ \A t \in Txn : ledger[t] # 0 => ledger'[t] # 0
            /\ first' = first

LEMMA Distinct == None # Live /\ \A v \in Version : SeededBy(v) # None
  BY DEF None, Live, SeededBy

LEMMA InsertFacts ==
  ASSUME NEW old, NEW absent, NEW new
  PROVE  /\ old # absent => Insert(old, absent, new) = old
         /\ new # absent => Insert(old, absent, new) # absent
         /\ Insert(old, absent, new) \in {old, new}
  BY DEF Insert

LEMMA RowsOfBuild ==
  ASSUME TypeOK, NEW p \in Process
  PROVE  /\ build[p] \in Version /\ build[p] # 0
         /\ SeededBy(build[p]) \in CacheRow
         /\ AccountRows(build[p]) \subseteq Account
         /\ TxnRows(build[p]) \subseteq Txn
         /\ Demo \subseteq Txn
  <1>1. build[p] \in Version BY DEF TypeOK
  <1>2. build[p] # 0 BY <1>1, SeedAssumption DEF Version
  <1> QED BY <1>1, <1>2, SeedAssumption DEF CacheRow

\* A step that keeps the rows, and after which the process that moved has
\* loaded what its new place says, keeps the invariant.
LEMMA Keeps ==
  ASSUME SeedInv, TypeOK', RowsStay, NEW p \in Process,
         \A q \in Process : q # p => pc'[q] = pc[q] /\ build'[q] = build[q],
         pc'[p] \in {"transactions", "demo", "mark"} => AccountsLoaded(build[p])' ,
         pc'[p] \in {"demo", "mark"} => TxnsLoaded(build[p])' ,
         pc'[p] = "mark" => DemoLoaded' ,
         marker' = marker
  PROVE  SeedInv'
  <1>1. \A v \in Version : AccountRows(v) \subseteq Account /\ TxnRows(v) \subseteq Txn
    BY SeedAssumption
  <1>2. Demo \subseteq Txn
    BY SeedAssumption
  <1>3. MarkedIsLoaded'
    BY <1>1, <1>2 DEF SeedInv, TypeOK, MarkedIsLoaded, Loaded, RowsStay
  <1>4. ASSUME NEW q \in Process, q # p
        PROVE  /\ pc'[q] \in {"transactions", "demo", "mark"} => AccountsLoaded(build[q])'
               /\ pc'[q] \in {"demo", "mark"} => TxnsLoaded(build[q])'
               /\ pc'[q] = "mark" => DemoLoaded'
    <2>1. build[q] \in Version BY DEF SeedInv, TypeOK
    <2> QED BY <1>1, <1>2, <1>4, <2>1
            DEF SeedInv, Progress, AccountsLoaded, TxnsLoaded, DemoLoaded, RowsStay
  <1>5. Progress'
    BY <1>4 DEF Progress
  <1> QED BY <1>3, <1>5 DEF SeedInv

LEMMA NextSeedInv == SeedInv /\ [Next]_vars => SeedInv'
  <1> SUFFICES ASSUME SeedInv, [Next]_vars PROVE SeedInv'
    OBVIOUS
  <1> USE DEF SeedInv
  <1>0. /\ \A v \in Version : AccountRows(v) \subseteq Account /\ TxnRows(v) \subseteq Txn
        /\ Demo \subseteq Txn /\ Live \in CacheRow /\ MaxFaults \in Nat
    BY SeedAssumption DEF CacheRow
  <1>1. ASSUME NEW p \in Process, Boot(p) PROVE SeedInv'
    <2>1. TypeOK' BY <1>1 DEF Boot, TypeOK, Seeding
    <2>2. pc'[p] = "check" BY <1>1 DEF Boot, TypeOK
    <2>3. RowsStay BY <1>1 DEF Boot, RowsStay
    <2>4. \A q \in Process : q # p => pc'[q] = pc[q] /\ build'[q] = build[q]
      BY <1>1 DEF Boot, TypeOK
    <2> QED BY <1>1, <2>1, <2>2, <2>3, <2>4, Keeps DEF Boot
  <1>2. ASSUME NEW p \in Process, Check(p) PROVE SeedInv'
    <2>1. TypeOK' BY <1>2 DEF Check, TypeOK, Seeding, Over
    <2>2. pc'[p] \in {"serving", "down", "accounts"} BY <1>2 DEF Check, TypeOK, Over
    <2>3. RowsStay BY <1>2 DEF Check, RowsStay
    <2>4. \A q \in Process : q # p => pc'[q] = pc[q] /\ build'[q] = build[q]
      BY <1>2 DEF Check, TypeOK
    <2> QED BY <1>2, <2>1, <2>2, <2>3, <2>4, Keeps DEF Check
  <1>3. ASSUME NEW p \in Process, SeedAccounts(p) PROVE SeedInv'
    <2>1. \A a \in Account : cache'[a] \in CacheRow /\ (cache[a] # None => cache'[a] # None)
      BY <1>3, RowsOfBuild, InsertFacts DEF SeedAccounts, TypeOK
    <2>2. "accounts" \in first => \A a \in AccountRows(build[p]) : cache'[a] # None
      BY <1>3, RowsOfBuild, InsertFacts, Distinct DEF SeedAccounts, TypeOK
    <2>3. TypeOK' BY <1>3, <2>1 DEF SeedAccounts, TypeOK, Seeding
    <2>4. pc'[p] = "transactions" /\ AccountsLoaded(build[p])'
      BY <1>3, <2>2 DEF SeedAccounts, TypeOK, AccountsLoaded
    <2>5. RowsStay BY <1>3, <2>1 DEF SeedAccounts, RowsStay
    <2>6. \A q \in Process : q # p => pc'[q] = pc[q] /\ build'[q] = build[q]
      BY <1>3 DEF SeedAccounts, TypeOK
    <2> QED BY <1>3, <2>3, <2>4, <2>5, <2>6, Keeps DEF SeedAccounts
  <1>4. ASSUME NEW p \in Process, SeedTransactions(p) PROVE SeedInv'
    <2>1. \A t \in Txn : ledger'[t] \in Version \cup {0} /\ (ledger[t] # 0 => ledger'[t] # 0)
      BY <1>4, RowsOfBuild, InsertFacts DEF SeedTransactions, InsertRows, TypeOK
    <2>2. "transactions" \in first => \A t \in TxnRows(build[p]) : ledger'[t] # 0
      BY <1>4, RowsOfBuild, InsertFacts DEF SeedTransactions, InsertRows, TypeOK
    <2>3. TypeOK' BY <1>4, <2>1 DEF SeedTransactions, InsertRows, TypeOK, Seeding
    <2>4. pc'[p] = "demo" /\ TxnsLoaded(build[p])'
      BY <1>4, <2>2 DEF SeedTransactions, TypeOK, TxnsLoaded
    <2>5. RowsStay BY <1>4, <2>1 DEF SeedTransactions, RowsStay
    <2>6. \A q \in Process : q # p => pc'[q] = pc[q] /\ build'[q] = build[q]
      BY <1>4 DEF SeedTransactions, TypeOK
    <2>7. AccountsLoaded(build[p])'
      BY <1>4, <2>5, RowsOfBuild DEF SeedTransactions, Progress, AccountsLoaded
    <2> QED BY <1>4, <2>3, <2>4, <2>5, <2>6, <2>7, Keeps DEF SeedTransactions
  <1>5. ASSUME NEW p \in Process, SeedHighValue(p) PROVE SeedInv'
    <2>1. \A t \in Txn : ledger'[t] \in Version \cup {0} /\ (ledger[t] # 0 => ledger'[t] # 0)
      BY <1>5, RowsOfBuild, InsertFacts DEF SeedHighValue, InsertRows, TypeOK
    <2>2. DemoLoaded'
      BY <1>5, RowsOfBuild, InsertFacts DEF SeedHighValue, InsertRows, TypeOK, DemoLoaded
    <2>3. TypeOK' BY <1>5, <2>1 DEF SeedHighValue, InsertRows, TypeOK, Seeding
    <2>4. RowsStay BY <1>5, <2>1 DEF SeedHighValue, RowsStay
    <2>5. \A q \in Process : q # p => pc'[q] = pc[q] /\ build'[q] = build[q]
      BY <1>5 DEF SeedHighValue, TypeOK
    <2>6. AccountsLoaded(build[p])' /\ TxnsLoaded(build[p])'
      BY <1>5, <2>4, RowsOfBuild DEF SeedHighValue, Progress, AccountsLoaded, TxnsLoaded, RowsStay
    <2> QED BY <1>5, <2>2, <2>3, <2>4, <2>5, <2>6, Keeps DEF SeedHighValue
  <1>6. ASSUME NEW p \in Process, Mark(p) PROVE SeedInv'
    <2>1. TypeOK' BY <1>6 DEF Mark, TypeOK, Seeding, Over
    <2>2. Progress' BY <1>6 DEF Mark, TypeOK, Over, Progress, AccountsLoaded, TxnsLoaded, DemoLoaded
    <2>3. MarkedIsLoaded'
      BY <1>6 DEF Mark, Progress, AccountsLoaded, TxnsLoaded, DemoLoaded, MarkedIsLoaded, Loaded
    <2> QED BY <2>1, <2>2, <2>3
  <1>7. ASSUME NEW p \in Process, Fail(p) \/ Die(p) \/ Stop(p) PROVE SeedInv'
    <2>1. TypeOK' BY <1>0, <1>7 DEF Fail, Die, Stop, TypeOK, Over
    <2>2. pc'[p] \in {"serving", "down"} BY <1>7 DEF Fail, Die, Stop, TypeOK, Over
    <2>3. RowsStay BY <1>7 DEF Fail, Die, Stop, RowsStay
    <2>4. \A q \in Process : q # p => pc'[q] = pc[q] /\ build'[q] = build[q]
      BY <1>7 DEF Fail, Die, Stop, TypeOK
    <2> QED BY <1>7, <2>1, <2>2, <2>3, <2>4, Keeps DEF Fail, Die, Stop
  <1>8. ASSUME NEW a \in Account, Refresh(a) PROVE SeedInv'
    <2>1. TypeOK' BY <1>0, <1>8 DEF Refresh, TypeOK
    <2>2. RowsStay BY <1>8, Distinct DEF Refresh, RowsStay, TypeOK
    <2>3. PICK p \in Process : pc[p] = "serving" BY <1>8 DEF Refresh, Process
    <2> QED BY <1>8, <2>1, <2>2, <2>3, Keeps DEF Refresh
  <1>9. ASSUME NEW f \in File, PlaceFile(f) PROVE SeedInv'
    <2>1. TypeOK' BY <1>9 DEF PlaceFile, TypeOK
    <2>2. Progress' /\ MarkedIsLoaded'
      BY <1>9 DEF PlaceFile, Progress, AccountsLoaded, TxnsLoaded, DemoLoaded, MarkedIsLoaded, Loaded
    <2> QED BY <2>1, <2>2
  <1>10. CASE UNCHANGED vars
    BY <1>10 DEF vars, TypeOK, Progress, AccountsLoaded, TxnsLoaded, DemoLoaded, MarkedIsLoaded, Loaded
  <1> QED BY <1>1, <1>2, <1>3, <1>4, <1>5, <1>6, <1>7, <1>8, <1>9, <1>10 DEF Next, RunSeed

\* In every reachable state each process has loaded what it is past.
LEMMA SeedInvariant == Spec => []SeedInv
  BY InitSeedInv, NextSeedInv, PTL DEF Spec

\* The types of the tables hold for every number of processes and builds.
THEOREM SeedTypes == Spec => []TypeOK
  BY SeedInvariant, PTL DEF SeedInv

\* A marked database has all the rows of the version it is marked with.
THEOREM MarkedWasLoaded == Spec => []MarkedIsLoaded
  BY SeedInvariant, PTL DEF SeedInv

-----------------------------------------------------------------------------
(* Validation and the row it admits.  The invariant: a body whose money has *)
(* moved is one that was accepted.                                         *)

\* Only a free text can be true or an object where a column takes it.
FreeTextBinds(k, b) ==
  /\ b.description \notin {"true", "object"}
  /\ k = "DEPOSIT" => b.reference \notin {"true", "object"}

Bodies == [account : IdValue, to : IdValue, key : KeyValue,
           amount : Amount, channel : ChannelValue,
           description : FreeValue, reference : FreeValue]

BodyInv == \/ phase = "listening"
           \/ /\ kind \in {"DEPOSIT", "WITHDRAWAL", "TRANSFER"} /\ body \in Bodies
              /\ \/ phase \in {"received", "rejected", "recorded"}
                 \/ phase = "moved" /\ Accepted(kind, body)
                 \/ phase = "unrecorded" /\ ~ FreeTextBinds(kind, body)

LEMMA StoredBinds ==
  ASSUME NEW v \in Value, v \notin {"true", "object"}
  PROVE  Bindable(Stored(v))
BY DEF Bindable, Stored, Falsy, Value, Text

LEMMA NamedBinds ==
  ASSUME NEW v, Named(v)
  PROVE  Bindable(v) /\ v \in Value \ {"true", "object"} /\ Bindable(Stored(v))
BY DEF Bindable, Named, Stored, Falsy, Value, Text

\* What validation accepts, the table stores, if it can bind the free texts.
LEMMA AcceptedStores ==
  ASSUME NEW k \in {"DEPOSIT", "WITHDRAWAL", "TRANSFER"}, NEW b \in Bodies,
         Accepted(k, b), FreeTextBinds(k, b)
  PROVE  Storable(Row(k, b))
<1> DEFINE row == Row(k, b)
<1>0. FreeValue \subseteq Value /\ Bindable("null")
  BY BodyAssumption DEF Bindable
<1>1. Bindable(row.account) /\ Bindable(row.counterparty)
  <2>1. Named(b.account) /\ (k = "TRANSFER" => Named(b.to))
    BY DEF Accepted, BadIds
  <2> QED
    BY <1>0, <2>1, NamedBinds DEF Row
<1>2. Bindable(row.channel) /\ row.channel = "channel"
  BY DEF Accepted, BadChannel, Row, Bindable
<1>3. Bindable(row.description) /\ (k = "DEPOSIT" => Bindable(row.reference))
  <2>1. /\ b.description \in Value \ {"true", "object"}
        /\ k = "DEPOSIT" => b.reference \in Value \ {"true", "object"}
    BY <1>0 DEF Bodies, FreeTextBinds
  <2> QED
    BY <2>1, StoredBinds DEF Row
<1>4. k # "DEPOSIT" => Bindable(row.reference)
  <2>1. k = "TRANSFER" => Named(b.key)
    BY DEF Accepted, BadIds
  <2> QED
    BY <1>0, <2>1, NamedBinds DEF Row
<1>5. row.amount \in {"usual", "over maximum"}
  BY DEF Accepted, BadAmount, Row, Bodies, Amount
<1> QED
  BY <1>1, <1>2, <1>3, <1>4, <1>5 DEF Storable

LEMMA BodyStep == BodyInv /\ [BodyNext]_bodyVars => BodyInv'
<1> SUFFICES ASSUME BodyInv, [BodyNext]_bodyVars PROVE BodyInv'
  OBVIOUS
<1>1. CASE Receive
  BY <1>1 DEF Receive, BodyInv, Bodies
<1>2. CASE Validate
  BY <1>2 DEF Validate, BodyInv
<1>3. CASE InsertRow
  BY <1>3, AcceptedStores DEF InsertRow, BodyInv
<1>4. CASE UNCHANGED bodyVars
  BY <1>4 DEF bodyVars, BodyInv
<1> QED
  BY <1>1, <1>2, <1>3, <1>4 DEF BodyNext

\* Whatever ids, keys, amounts and channels clients send, the insert after the
\* PATCH calls throws on nothing but a free text, for every set of such values.
THEOREM OnlyFreeTextMatters == BodySpec => []OnlyFreeTextUnrecordable
<1>1. BodyInit => BodyInv
  BY DEF BodyInit, BodyInv
<1>2. BodyInv => OnlyFreeTextUnrecordable
  BY DEF BodyInv, FreeTextBinds, OnlyFreeTextUnrecordable
<1> QED
  BY <1>1, <1>2, BodyStep, PTL DEF BodySpec

-----------------------------------------------------------------------------
(* Numbers: the least of a set, quotients, powers of two.                  *)

LEMMA UpTo ==
  ASSUME NEW n \in Nat
  PROVE  IsFiniteSet(1 .. n) /\ Cardinality(1 .. n) = n
<1>1. \A a, b \in Int : IsFiniteSet(a .. b) /\ Cardinality(a .. b) = IF a > b THEN 0 ELSE b - a + 1
  BY FS_Interval
<1>2. IsFiniteSet(1 .. n) /\ Cardinality(1 .. n) = IF 1 > n THEN 0 ELSE n - 1 + 1
  BY <1>1
<1> QED
  BY <1>2

\* Any numbers have a least one.
LEMMA LeastNumber ==
  ASSUME NEW T \in SUBSET Nat, T # {}
  PROVE  \E m \in T : \A k \in T : m <= k
<1>1. PICK t \in T : TRUE
  OBVIOUS
<1> DEFINE S   == 1 .. t
           Bad == {U \in SUBSET S : \E k \in T : k <= t /\ U = 1 .. k}
           R   == StrictSubsetOrdering(S)
<1>2. IsWellFoundedOn(R, FiniteSubsetsOf(S))
  BY FS_StrictSubsetOrderingWellFounded
<1>3. IsFiniteSet(S)
  BY <1>1, UpTo
<1>4. Bad \subseteq FiniteSubsetsOf(S)
  <2>1. \A U \in SUBSET S : IsFiniteSet(U)
    BY <1>3, FS_Subset
  <2> QED
    BY <2>1 DEF FiniteSubsetsOf
<1>5. Bad # {}
  <2>1. S \in Bad
    BY <1>1
  <2> QED
    BY <2>1
<1>6. ASSUME NEW U \in Bad, NEW V \in Bad, V \subseteq U, V # U
      PROVE  <<V, U>> \in R
  BY <1>6 DEF StrictSubsetOrdering
<1>7. PICK U \in Bad : \A V \in Bad : <<V, U>> \notin R
  <2> HIDE DEF R, Bad, S
  <2> QED
    BY <1>2, <1>4, <1>5, WFMin
<1>8. PICK m \in T : m <= t /\ U = 1 .. m
  BY <1>7
<1>9. ASSUME NEW k \in T, k < m
      PROVE  FALSE
  <2>1. 1 .. k \in Bad
    <3>1. 1 .. k \subseteq S /\ k <= t
      BY <1>8, <1>9
    <3> QED
      BY <3>1
  <2>2. 1 .. k \subseteq 1 .. m /\ m \in 1 .. m /\ m \notin 1 .. k
    BY <1>9
  <2> HIDE DEF R, Bad, S
  <2> QED
    BY <1>6, <1>7, <1>8, <2>1, <2>2
<1> QED
  BY <1>9

LEMMA Monotone ==
  ASSUME NEW m \in Nat, NEW n \in Nat, m <= n, NEW t \in Nat
  PROVE  m * t <= n * t
<1>1. PICK d \in Nat : n = m + d
  <2>1. n - m \in Nat /\ n = m + (n - m)
    OBVIOUS
  <2> QED
    BY <2>1
<1>2. n * t = m * t + d * t /\ d * t \in Nat /\ m * t \in Nat
  BY <1>1
<1> QED
  BY <1>2

\* A multiple of a positive number smaller than it is none of it.
LEMMA NoneOfIt ==
  ASSUME NEW d \in Int, NEW p \in Nat \ {0}, - p < d * p, d * p < p
  PROVE  d = 0
<1>1. CASE d > 0
  <2>1. PICK e \in Nat : d = 1 + e
    <3>1. d - 1 \in Nat /\ d = 1 + (d - 1)
      BY <1>1
    <3> QED
      BY <3>1
  <2>2. d * p = p + e * p /\ e * p \in Nat
    BY <2>1
  <2> QED
    BY <2>2
<1>2. CASE d < 0
  <2>1. PICK e \in Nat : d = 0 - 1 - e
    <3>1. 0 - d - 1 \in Nat /\ d = 0 - 1 - (0 - d - 1)
      BY <1>2
    <3> QED
      BY <3>1
  <2>2. d * p = 0 - p - e * p /\ e * p \in Nat
    BY <2>1
  <2> QED
    BY <2>2
<1> QED
  BY <1>1, <1>2

LEMMA Cancel ==
  ASSUME NEW a \in Int, NEW b \in Int, NEW p \in Nat \ {0}, a * p = b * p
  PROVE  a = b
<1>1. PICK d \in Int : d = a - b
  OBVIOUS
<1>2. d * p = a * p - b * p /\ a * p \in Int /\ b * p \in Int
  BY <1>1
<1>3. d * p = 0
  BY <1>2
<1>4. d = 0
  BY <1>3, NoneOfIt
<1> QED
  BY <1>1, <1>4

\* Two factors cut apart: a number is a quotient and a rest in one way.
LEMMA OneQuotient ==
  ASSUME NEW a \in Int, NEW b \in Int, NEW p \in Nat \ {0},
         NEW r \in 0 .. p - 1, NEW s \in 0 .. p - 1, a * p + r = b * p + s
  PROVE  a = b /\ r = s
<1>1. PICK d \in Int : d = a - b
  OBVIOUS
<1>2. d * p = a * p - b * p /\ a * p \in Int /\ b * p \in Int
  BY <1>1
<1>3. d = 0
  BY <1>2, NoneOfIt
<1> QED
  BY <1>1, <1>2, <1>3

LEMMA QuotientAndRest ==
  ASSUME NEW x \in Nat, NEW p \in Nat \ {0}
  PROVE  /\ x \div p \in Nat /\ x % p \in 0 .. p - 1
         /\ x = (x \div p) * p + (x % p)
OBVIOUS

\* A counterexample that is not at 0 and has no neighbour below is none.
LEMMA Climb ==
  ASSUME NEW bad \in SUBSET Nat, 0 \notin bad,
         \A k \in Nat : k + 1 \in bad => k \in bad
  PROVE  bad = {}
<1> SUFFICES ASSUME bad # {} PROVE FALSE
  OBVIOUS
<1>1. PICK n \in bad : \A k \in bad : n <= k
  BY LeastNumber
<1>2. n - 1 \in Nat /\ n = n - 1 + 1
  BY <1>1
<1>3. n - 1 \in bad
  BY <1>2
<1> QED
  BY <1>1, <1>2, <1>3

LEMMA PowerCounts ==
  ASSUME NEW n \in Nat
  PROVE  /\ IsFiniteSet(SUBSET (1 .. n))
         /\ Cardinality(SUBSET (1 .. n)) = 2 ^ n
         /\ 2 ^ n \in Nat
<1>1. IsFiniteSet(1 .. n) /\ Cardinality(1 .. n) = n
  <2>1. CASE n = 0
    <3>1. 1 .. n = {}
      BY <2>1
    <3> QED
      BY <2>1, <3>1, FS_EmptySet
  <2>2. CASE n # 0
    BY <2>2, UpTo
  <2> QED
    BY <2>1, <2>2
<1>2. IsFiniteSet(SUBSET (1 .. n)) /\ Cardinality(SUBSET (1 .. n)) = 2 ^ Cardinality(1 .. n)
  BY <1>1, FS_SUBSET
<1>3. Cardinality(SUBSET (1 .. n)) \in Nat
  BY <1>2, FS_CardinalityType
<1> QED
  BY <1>1, <1>2, <1>3

LEMMA PowerZero == 2 ^ 0 = 1
<1>1. 1 .. 0 = {} /\ SUBSET {} = {{}}
  OBVIOUS
<1>2. Cardinality(SUBSET (1 .. 0)) = 1
  BY <1>1, FS_Singleton
<1> QED
  BY <1>2, PowerCounts

\* The subsets of 1 .. n + 1 are those without n + 1, and as many with it.
LEMMA PowerDoubles ==
  ASSUME NEW n \in Nat
  PROVE  2 ^ (n + 1) = 2 ^ n + 2 ^ n
<1> DEFINE without == SUBSET (1 .. n)
           with    == {s \in SUBSET (1 .. n + 1) : n + 1 \in s}
           f       == [s \in without |-> s \cup {n + 1}]
<1>1. n + 1 \notin 1 .. n /\ 1 .. n + 1 = (1 .. n) \cup {n + 1}
  OBVIOUS
<1>2. SUBSET (1 .. n + 1) = without \cup with /\ without \cap with = {}
  BY <1>1
<1>3. ExistsBijection(without, with)
  <2>1. \A s \in without : s \cup {n + 1} \in with
    BY <1>1
  <2>2. f \in [without -> with]
    BY <2>1
  <2>3. \A s, t \in without : f[s] = f[t] => s = t
    BY <1>1
  <2>4. \A t \in with : \E s \in without : f[s] = t
    <3> SUFFICES ASSUME NEW t \in with
                 PROVE  \E s \in without : f[s] = t
      OBVIOUS
    <3>1. t \ {n + 1} \in without
      BY <1>1
    <3>2. f[t \ {n + 1}] = t
      BY <3>1
    <3> QED
      BY <3>1, <3>2
  <2> HIDE DEF f, with, without
  <2>5. f \in Bijection(without, with)
    BY <2>2, <2>3, <2>4 DEF Bijection, Injection, Surjection, IsInjective
  <2> QED
    BY <2>5 DEF ExistsBijection
<1>4. IsFiniteSet(without) /\ Cardinality(without) = 2 ^ n
  BY PowerCounts
<1>5. IsFiniteSet(with) /\ Cardinality(with) = 2 ^ n
  <2> HIDE DEF without, with
  <2> QED
    BY <1>3, <1>4, FS_Bijection
<1>6. Cardinality(without \cup with) = Cardinality(without) + Cardinality(with) - Cardinality({})
  <2> HIDE DEF without, with
  <2> QED
    BY <1>2, <1>4, <1>5, FS_Union
<1>7. Cardinality(SUBSET (1 .. n + 1)) = 2 ^ n + 2 ^ n
  <2> HIDE DEF without, with
  <2>1. Cardinality(without \cup with) = 2 ^ n + 2 ^ n - 0
    BY <1>4, <1>5, <1>6, FS_EmptySet
  <2>2. SUBSET (1 .. n + 1) = without \cup with
    BY <1>2
  <2>3. PICK p \in Nat : p = 2 ^ n
    BY PowerCounts
  <2>4. p + p - 0 = p + p
    OBVIOUS
  <2> QED
    BY <2>1, <2>2, <2>3, <2>4
<1>8. n + 1 \in Nat
  OBVIOUS
<1> QED
  BY <1>7, <1>8, PowerCounts

-----------------------------------------------------------------------------
(* The request hash.  The invariant of one difference (TellInv): words are *)
(* equal while the texts are, and differ when one character does.  31 is odd, *)
(* so a multiplication by it loses no word.                                *)

Word == (0 .. HalfRange - 1) \X (0 .. HalfRange - 1)

LEMMA HalfRangeType == HalfRange \in Nat \ {0}
<1> DEFINE bad == {n \in Nat : 2 ^ n = 0}
<1>1. ASSUME bad # {} PROVE FALSE
  <2>1. PICK n \in bad : \A k \in bad : n <= k
    <3> HIDE DEF bad
    <3>1. bad \in SUBSET Nat
      BY DEF bad
    <3> QED
      BY <1>1, <3>1, LeastNumber
  <2>2. n # 0
    <3>1. 2 ^ n = 0 /\ 2 ^ 0 # 0
      BY <2>1, PowerZero
    <3> QED
      BY <3>1
  <2>3. PICK k \in Nat : n = k + 1
    <3>1. n \in Nat
      BY <2>1
    <3>2. n - 1 \in Nat /\ n = n - 1 + 1
      BY <2>2, <3>1
    <3> QED
      BY <3>2
  <2>4. PICK p \in Nat : p = 2 ^ k
    BY PowerCounts
  <2>5. p + p = 0
    BY <2>1, <2>3, <2>4, PowerDoubles
  <2>6. k \in bad
    BY <2>4, <2>5
  <2> QED
    BY <2>1, <2>3, <2>6
<1>2. 2 ^ HALF # 0 /\ 2 ^ HALF \in Nat
  BY <1>1, HashAssumption, PowerCounts
<1> QED
  BY <1>2 DEF HalfRange

Multiple(d, p) == \E q \in Int : d = q * p

\* 31 is odd: what 31 times a number has of powers of two, the number has.
LEMMA OddFactor ==
  ASSUME NEW n \in Nat, NEW d \in Int, Multiple(31 * d, 2 ^ n)
  PROVE  Multiple(d, 2 ^ n)
<1> DEFINE bad == {k \in Nat : \E e \in Int : Multiple(31 * e, 2 ^ k) /\ ~ Multiple(e, 2 ^ k)}
<1>1. ASSUME bad # {} PROVE FALSE
  <2>1. PICK m \in bad : \A k \in bad : m <= k
    <3> HIDE DEF bad
    <3>1. bad \in SUBSET Nat
      BY DEF bad
    <3> QED
      BY <1>1, <3>1, LeastNumber
  <2>2. PICK e \in Int : Multiple(31 * e, 2 ^ m) /\ ~ Multiple(e, 2 ^ m)
    BY <2>1
  <2>3. m # 0
    <3>1. e = e * 1
      OBVIOUS
    <3> QED
      BY <2>2, <3>1, PowerZero DEF Multiple
  <2>4. PICK k \in Nat : m = k + 1
    <3>1. m \in Nat
      BY <2>1
    <3>2. m - 1 \in Nat /\ m = m - 1 + 1
      BY <2>3, <3>1
    <3> QED
      BY <3>2
  <2>5. PICK p \in Nat : p = 2 ^ k /\ p + p = 2 ^ m
    BY <2>4, PowerCounts, PowerDoubles
  <2>6. PICK q \in Int : 31 * e = q * (p + p)
    BY <2>2, <2>5 DEF Multiple
  <2>7. Multiple(31 * e, p)
    <3>1. q + q \in Int /\ 31 * e = (q + q) * p
      BY <2>6
    <3> HIDE DEF bad
    <3> QED
      BY <3>1 DEF Multiple
  <2>8. k \notin bad
    BY <2>1, <2>4
  <2>9. PICK r \in Int : e = r * p
    BY <2>5, <2>7, <2>8 DEF Multiple
  <2>10. CASE p = 0
    <3>1. e = 0 * (p + p)
      BY <2>9, <2>10
    <3> QED
      BY <2>2, <2>5, <3>1 DEF Multiple
  <2>11. CASE p # 0
    <3>1. (31 * r) * p = (q + q) * p
      BY <2>6, <2>9
    <3>2. 31 * r = q + q
      BY <2>11, <3>1, Cancel
    <3>3. PICK s \in Int : r = s + s
      <4>1. q - 15 * r \in Int /\ r = (q - 15 * r) + (q - 15 * r)
        BY <3>2
      <4> QED
        BY <4>1
    <3>4. e = s * (p + p)
      BY <2>9, <3>3
    <3> QED
      BY <2>2, <2>5, <3>4 DEF Multiple
  <2> QED
    BY <2>10, <2>11
<1> QED
  BY <1>1

\* The number that a word stands for.
Number(w) == w[1] * HalfRange + w[2]
Words     == HalfRange * HalfRange

LEMMA RestOf ==
  ASSUME NEW p \in Nat \ {0}, NEW s \in Nat, NEW r \in 0 .. p - 1
  PROVE  (s * p + r) % p = r
<1>1. PICK x \in Nat : x = s * p + r
  <2>1. s * p \in Nat
    OBVIOUS
  <2>2. s * p + r \in Nat
    BY <2>1
  <2> QED
    BY <2>2
<1>2. PICK q \in Nat : q = x \div p
  BY <1>1, QuotientAndRest
<1>3. x % p \in 0 .. p - 1 /\ x = q * p + (x % p)
  BY <1>1, <1>2, QuotientAndRest
<1>4. x % p = r
  BY <1>1, <1>3, OneQuotient
<1> QED
  BY <1>1, <1>4

LEMMA Below ==
  ASSUME NEW p \in Nat \ {0}, NEW g \in 0 .. p - 1, NEW l \in 0 .. p - 1
  PROVE  g * p + l \in 0 .. p * p - 1
<1>1. g * p <= (p - 1) * p
  BY Monotone
<1>2. (p - 1) * p = p * p - p /\ g * p \in Nat /\ p * p \in Nat
  OBVIOUS
<1> QED
  BY <1>1, <1>2

\* One iteration multiplies by 31, adds the code and drops whole words.
LEMMA MixValue ==
  ASSUME NEW w \in Word, NEW c \in Nat
  PROVE  /\ Mix(w, c) \in Word
         /\ \E s \in Nat : 31 * Number(w) + c = s * Words + Number(Mix(w, c))
         /\ Number(w) \in 0 .. Words - 1
<1>1. PICK p \in Nat \ {0} : p = HalfRange
  BY HalfRangeType
<1>2. PICK hi \in 0 .. p - 1, lo \in 0 .. p - 1 : w = <<hi, lo>>
  BY <1>1 DEF Word
<1>3. PICK low \in Nat : low = 31 * lo + c
  OBVIOUS
<1>4. PICK q \in Nat, l \in 0 .. p - 1 : q = low \div p /\ l = low % p /\ low = q * p + l
  BY QuotientAndRest
<1>5. PICK up \in Nat : up = 31 * hi + q
  OBVIOUS
<1>6. PICK s \in Nat, g \in 0 .. p - 1 : g = up % p /\ up = s * p + g
  BY QuotientAndRest
<1>7. Mix(w, c) = <<g, l>>
  BY <1>1, <1>2, <1>3, <1>4, <1>5, <1>6 DEF Mix
<1>8. Mix(w, c) \in Word
  BY <1>1, <1>7 DEF Word
<1>9. 31 * (hi * p + lo) + c = s * (p * p) + (g * p + l)
  <2>1. 31 * (hi * p + lo) + c = (31 * hi) * p + low
    BY <1>3
  <2>2. (31 * hi) * p + q * p = (31 * hi + q) * p
    OBVIOUS
  <2>3. (s * p + g) * p = s * (p * p) + g * p
    OBVIOUS
  <2>4. /\ (31 * hi) * p \in Int /\ q * p \in Int /\ s * (p * p) \in Int /\ g * p \in Int
        /\ (31 * hi + q) * p = (s * p + g) * p
    BY <1>5, <1>6
  <2> QED
    BY <1>4, <2>1, <2>2, <2>3, <2>4
<1>10. Number(w) = hi * p + lo /\ Number(Mix(w, c)) = g * p + l /\ Words = p * p
  BY <1>1, <1>2, <1>7 DEF Number, Words
<1> QED
  BY <1>8, <1>9, <1>10, Below

LEMMA OneNumber ==
  ASSUME NEW v \in Word, NEW w \in Word, Number(v) = Number(w)
  PROVE  v = w
<1>1. PICK p \in Nat \ {0} : p = HalfRange
  BY HalfRangeType
<1>2. PICK hi \in 0 .. p - 1, lo \in 0 .. p - 1 : w = <<hi, lo>>
  BY <1>1 DEF Word
<1>3. PICK hj \in 0 .. p - 1, lp \in 0 .. p - 1 : v = <<hj, lp>>
  BY <1>1 DEF Word
<1>4. hi * p + lo = hj * p + lp
  BY <1>1, <1>2, <1>3 DEF Number
<1> QED
  BY <1>2, <1>3, <1>4, OneQuotient

LEMMA WordsType == Words \in Nat \ {0}
<1>1. PICK p \in Nat \ {0} : p = HalfRange
  BY HalfRangeType
<1>2. p * p \in Nat \ {0}
  OBVIOUS
<1> QED
  BY <1>1, <1>2 DEF Words

\* Words that agree after the same character agreed before it.
LEMMA SameAfterSame ==
  ASSUME NEW v \in Word, NEW w \in Word, NEW c \in Nat, Mix(v, c) = Mix(w, c)
  PROVE  v = w
<1>1. PICK p \in Nat \ {0} : p = HalfRange /\ Words = p * p
  BY HalfRangeType DEF Words
<1>2. PICK m \in Nat \ {0} : m = Words
  BY WordsType
<1>3. PICK x \in 0 .. m - 1, y \in 0 .. m - 1 : x = Number(v) /\ y = Number(w)
  BY <1>2, MixValue
<1>4. PICK z \in Int : z = Number(Mix(v, c)) /\ z = Number(Mix(w, c))
  <2>1. Number(Mix(v, c)) \in 0 .. Words - 1
    BY MixValue
  <2> QED
    BY <1>2, <2>1
<1>5. PICK s \in Nat : 31 * x + c = s * m + z
  <2>1. PICK k \in Nat : 31 * Number(v) + c = k * Words + Number(Mix(v, c))
    BY MixValue
  <2> QED
    BY <1>2, <1>3, <1>4, <2>1
<1>6. PICK t \in Nat : 31 * y + c = t * m + z
  <2>1. PICK k \in Nat : 31 * Number(w) + c = k * Words + Number(Mix(w, c))
    BY MixValue
  <2> QED
    BY <1>2, <1>3, <1>4, <2>1
<1>7. PICK d \in Int : d = x - y
  OBVIOUS
<1>8. PICK u \in Int : u = s - t
  OBVIOUS
<1>9. 31 * d = u * m
  <2>1. u * m = s * m - t * m /\ s * m \in Int /\ t * m \in Int
    BY <1>8
  <2> QED
    BY <1>5, <1>6, <1>7, <2>1
<1>10. PICK e \in Int : d = e * p
  <2>1. u * p \in Int /\ 31 * d = (u * p) * p
    BY <1>1, <1>2, <1>9
  <2>2. Multiple(31 * d, 2 ^ HALF)
    BY <1>1, <2>1 DEF Multiple, HalfRange
  <2> QED
    BY <1>1, <2>2, OddFactor, HashAssumption DEF Multiple, HalfRange
<1>11. PICK f \in Int : e = f * p
  <2>1. u * p \in Int /\ (31 * e) * p = (u * p) * p
    BY <1>1, <1>2, <1>9, <1>10
  <2>2. 31 * e = u * p
    BY <2>1, Cancel
  <2>3. Multiple(31 * e, 2 ^ HALF)
    BY <1>1, <2>2 DEF Multiple, HalfRange
  <2> QED
    BY <1>1, <2>3, OddFactor, HashAssumption DEF Multiple, HalfRange
<1>12. d = f * m
  BY <1>1, <1>2, <1>10, <1>11
<1>13. f = 0
  <2>1. - m < d /\ d < m
    BY <1>7
  <2> QED
    BY <1>12, <2>1, NoneOfIt
<1>14. x = y
  BY <1>7, <1>12, <1>13
<1> QED
  BY <1>3, <1>14, OneNumber

\* One word after two characters that differ becomes two words.
LEMMA DifferAfterDifferent ==
  ASSUME NEW w \in Word, NEW c \in 0 .. Words - 1, NEW d \in 0 .. Words - 1,
         Mix(w, c) = Mix(w, d)
  PROVE  c = d
<1>1. PICK m \in Nat \ {0} : m = Words
  BY WordsType
<1>2. PICK x \in 0 .. m - 1 : x = Number(w)
  BY <1>1, MixValue, HashAssumption
<1>3. c \in Nat /\ d \in Nat
  BY <1>1
<1>4. PICK z \in Int : z = Number(Mix(w, c)) /\ z = Number(Mix(w, d))
  <2>1. Mix(w, c) \in Word
    BY <1>3, MixValue
  <2>2. Number(Mix(w, c)) \in 0 .. Words - 1
    BY <1>3, <2>1, MixValue
  <2> QED
    BY <1>1, <2>2
<1>5. PICK s \in Nat : 31 * x + c = s * m + z
  <2>1. PICK k \in Nat : 31 * Number(w) + c = k * Words + Number(Mix(w, c))
    BY <1>3, MixValue
  <2> QED
    BY <1>1, <1>2, <1>3, <1>4, <2>1
<1>6. PICK t \in Nat : 31 * x + d = t * m + z
  <2>1. PICK k \in Nat : 31 * Number(w) + d = k * Words + Number(Mix(w, d))
    BY <1>3, MixValue
  <2> QED
    BY <1>1, <1>2, <1>3, <1>4, <2>1
<1>7. PICK u \in Int : u = s - t
  OBVIOUS
<1>8. c - d = u * m
  <2>1. u * m = s * m - t * m /\ s * m \in Int /\ t * m \in Int
    BY <1>7
  <2> QED
    BY <1>5, <1>6, <1>3, <2>1
<1>9. u = 0
  <2>1. - m < c - d /\ c - d < m
    BY <1>1
  <2>2. - m < u * m /\ u * m < m
    BY <1>8, <2>1
  <2> QED
    BY <2>2, NoneOfIt
<1> QED
  BY <1>3, <1>8, <1>9

\* The width of a word holds every character code, as 32 bits hold the 16 of
\* charCodeAt.
CodesFit == Char \subseteq 0 .. Words - 1

HashTypes == /\ text \in Seq(Char) /\ other \in Seq(Char) /\ Len(other) = Len(text)
             /\ h \in Word /\ otherH \in Word

TellInv == /\ HashTypes
           /\ Differing = {} => h = otherH
           /\ \A i : Differing = {i} => h # otherH

LEMMA InitHashTypes == HashInit => HashTypes /\ Differing = {} /\ h = otherH
<1>1. PICK p \in Nat \ {0} : p = HalfRange
  BY HalfRangeType
<1>2. <<0, 0>> \in Word
  BY <1>1 DEF Word
<1> QED
  BY <1>2 DEF HashInit, HashTypes, Differing

LEMMA ReadTypes ==
  ASSUME HashTypes, NEW c \in Char, NEW d \in Char, Read(c, d)
  PROVE  HashTypes'
<1>1. Mix(h, c) \in Word /\ Mix(otherH, d) \in Word
  BY MixValue, HashAssumption DEF HashTypes
<1> QED
  BY <1>1 DEF Read, HashTypes

LEMMA ReadDiffers ==
  ASSUME HashTypes, NEW c \in Char, NEW d \in Char, Read(c, d)
  PROVE  Differing' = IF c = d THEN Differing ELSE Differing \cup {Len(text) + 1}
<1>1. /\ Len(text') = Len(text) + 1 /\ Len(text) \in Nat
      /\ text'[Len(text) + 1] = c /\ other'[Len(text) + 1] = d
      /\ \A i \in 1 .. Len(text) : text'[i] = text[i] /\ other'[i] = other[i]
  BY DEF Read, HashTypes
<1>2. \A i : i \in 1 .. Len(text) + 1 <=> i \in 1 .. Len(text) \/ i = Len(text) + 1
  BY <1>1
<1>3. \A i : i \in Differing' <=> i \in 1 .. Len(text) + 1 /\ text'[i] # other'[i]
  BY <1>1 DEF Differing
<1>4. Len(text) + 1 \in 1 .. Len(text) + 1
  BY <1>1
<1>5. \A i : i \in Differing' <=> i \in Differing \/ (c # d /\ i = Len(text) + 1)
  BY <1>1, <1>2, <1>3, <1>4 DEF Differing
<1> QED
  BY <1>5

LEMMA ReadTells ==
  ASSUME CodesFit, TellInv, NEW c \in Char, NEW d \in Char, Read(c, d)
  PROVE  TellInv'
<1>0. HashTypes /\ HashTypes'
  BY ReadTypes DEF TellInv
<1>1. c \in Nat /\ d \in Nat /\ c \in 0 .. Words - 1 /\ d \in 0 .. Words - 1
  BY HashAssumption DEF CodesFit
<1>2. h' = Mix(h, c) /\ otherH' = Mix(otherH, d)
  BY DEF Read
<1>3. CASE c = d
  <2>1. Differing' = Differing
    BY <1>0, <1>3, ReadDiffers
  <2>2. h' = otherH' <=> h = otherH
    BY <1>0, <1>1, <1>2, <1>3, SameAfterSame DEF HashTypes
  <2> QED
    BY <1>0, <2>1, <2>2 DEF TellInv
<1>4. CASE c # d
  <2>1. Differing' = Differing \cup {Len(text) + 1} /\ Len(text) + 1 \notin Differing
    <3>1. Len(text) + 1 \notin 1 .. Len(text)
      BY <1>0 DEF HashTypes
    <3> QED
      BY <1>0, <1>4, <3>1, ReadDiffers DEF Differing
  <2>2. ASSUME NEW i, Differing' = {i} PROVE h' # otherH'
    <3>1. Differing = {}
      BY <2>1, <2>2
    <3>2. h = otherH
      BY <3>1 DEF TellInv
    <3> QED
      BY <1>0, <1>1, <1>2, <1>4, <3>2, DifferAfterDifferent DEF HashTypes
  <2> QED
    BY <1>0, <2>1, <2>2 DEF TellInv
<1> QED
  BY <1>3, <1>4

\* The loop of _hashRequest always tells a request from one with one character
\* changed, for every width of a word, every alphabet that fits it and texts of
\* any length.
THEOREM OneCharacterAlwaysTells == ASSUME CodesFit PROVE HashSpec => []OneCharacterTells
<1>1. HashInit => TellInv
  BY InitHashTypes DEF TellInv
<1>2. TellInv /\ [HashNext]_hashVars => TellInv'
  <2> SUFFICES ASSUME TellInv, [HashNext]_hashVars PROVE TellInv'
    OBVIOUS
  <2>1. CASE HashNext
    BY <2>1, ReadTells DEF HashNext
  <2>2. CASE UNCHANGED hashVars
    BY <2>2 DEF hashVars, TellInv, HashTypes, Differing
  <2> QED
    BY <2>1, <2>2
<1>3. TellInv => OneCharacterTells
  <2> SUFFICES ASSUME TellInv, Cardinality(Differing) = 1 PROVE h # otherH
    BY DEF OneCharacterTells, Differing
  <2>1. IsFiniteSet(Differing)
    <3>1. Len(text) \in Nat /\ Differing \in SUBSET (1 .. Len(text))
      BY DEF TellInv, HashTypes, Differing
    <3> QED
      BY <3>1, UpTo, FS_Subset
  <2>2. \E i : Differing = {i}
    BY <2>1, FS_Singleton
  <2> QED
    BY <2>2 DEF TellInv
<1> QED
  BY <1>1, <1>2, <1>3, PTL DEF HashSpec

-----------------------------------------------------------------------------
(* Changes of a number.  The invariant (GapInv): from the first difference on *)
(* the words are some number apart that is not 0 and that the characters   *)
(* since then can reach; one that a word can hold is none of its multiples. *)

ReachesUpTo(g, n) == g = [k \in 0 .. n |-> IF k = 0 THEN 0 ELSE 31 * g[k - 1] + Spread]

LEMMA ReachesExist == \A n \in Nat : \E g : ReachesUpTo(g, n)
<1> DEFINE bad == {n \in Nat : ~ \E g : ReachesUpTo(g, n)}
<1>1. 0 \notin bad
  <2> DEFINE g == [k \in 0 .. 0 |-> 0]
  <2>1. ReachesUpTo(g, 0)
    BY DEF ReachesUpTo
  <2> HIDE DEF g
  <2> QED
    BY <2>1
<1>2. ASSUME NEW n \in Nat, n \notin bad PROVE n + 1 \notin bad
  <2>1. PICK g : ReachesUpTo(g, n)
    BY <1>2
  <2> DEFINE f == [k \in 0 .. n + 1 |-> IF k = n + 1 THEN 31 * g[n] + Spread ELSE g[k]]
  <2>2. \A k \in 0 .. n : g[k] = IF k = 0 THEN 0 ELSE 31 * g[k - 1] + Spread
    BY <2>1 DEF ReachesUpTo
  <2>3. \A k \in 0 .. n + 1 : f[k] = IF k = 0 THEN 0 ELSE 31 * f[k - 1] + Spread
    BY <1>2, <2>2
  <2>4. ReachesUpTo(f, n + 1)
    <3>1. f = [k \in 0 .. n + 1 |-> f[k]]
      OBVIOUS
    <3> HIDE DEF f
    <3> QED
      BY <2>3, <3>1 DEF ReachesUpTo
  <2> HIDE DEF f
  <2> QED
    BY <2>4
<1>3. bad = {}
  <2>1. bad \in SUBSET Nat
    OBVIOUS
  <2> HIDE DEF bad
  <2> QED
    BY <1>1, <1>2, <2>1, Climb
<1> QED
  BY <1>3

LEMMA ReachDef ==
  /\ Reach[0] = 0
  /\ \A w \in 1 .. MaxLen : Reach[w] = 31 * Reach[w - 1] + Spread
<1> DEFINE P == CHOOSE g : ReachesUpTo(g, MaxLen)
<1>1. Reach = P
  BY DEF Reach, ReachesUpTo
<1>2. ReachesUpTo(P, MaxLen)
  BY ReachesExist, HashAssumption
<1>3. ReachesUpTo(Reach, MaxLen)
  BY <1>1, <1>2
<1> QED
  BY <1>3, HashAssumption DEF ReachesUpTo

LEMMA ReachType == \A w \in 0 .. MaxLen : Reach[w] \in Nat
<1> DEFINE bad == {w \in Nat : w <= MaxLen /\ Reach[w] \notin Nat}
<1>1. MaxLen \in Nat /\ Spread \in Nat
  BY HashAssumption
<1>2. 0 \notin bad
  BY ReachDef
<1>3. ASSUME NEW w \in Nat, w + 1 \in bad PROVE w \in bad
  <2>1. w + 1 \in 1 .. MaxLen /\ (w + 1) - 1 = w /\ Reach[w + 1] \notin Nat
    BY <1>1, <1>3
  <2>2. Reach[w + 1] = 31 * Reach[w] + Spread
    BY <2>1, ReachDef
  <2> QED
    BY <1>1, <2>1, <2>2
<1>4. bad = {}
  <2>1. bad \in SUBSET Nat
    OBVIOUS
  <2> HIDE DEF bad
  <2> QED
    BY <1>2, <1>3, <2>1, Climb
<1> QED
  BY <1>1, <1>4

LEMMA ReachGrows ==
  ASSUME NEW v \in 0 .. MaxLen, NEW w \in v .. MaxLen
  PROVE  Reach[v] <= Reach[w]
<1> DEFINE bad == {k \in Nat : v + k <= MaxLen /\ ~ (Reach[v] <= Reach[v + k])}
<1>1. MaxLen \in Nat /\ Spread \in Nat /\ v \in Nat
  BY HashAssumption
<1>2. 0 \notin bad
  <2>1. v + 0 = v /\ Reach[v] \in Nat
    BY <1>1, ReachType
  <2> QED
    BY <2>1
<1>3. ASSUME NEW k \in Nat, k + 1 \in bad PROVE k \in bad
  <2>1. v + (k + 1) \in 1 .. MaxLen /\ (v + (k + 1)) - 1 = v + k /\ v + k \in 0 .. MaxLen
    BY <1>1, <1>3
  <2>2. Reach[v + (k + 1)] = 31 * Reach[v + k] + Spread
    BY <2>1, ReachDef
  <2>3. Reach[v] \in Nat /\ Reach[v + k] \in Nat
    BY <2>1, ReachType
  <2>4. ~ (Reach[v] <= Reach[v + (k + 1)])
    BY <1>3
  <2>5. ~ (Reach[v] <= Reach[v + k])
    BY <1>1, <2>2, <2>3, <2>4
  <2> QED
    BY <2>1, <2>5
<1>4. bad = {}
  <2>1. bad \in SUBSET Nat
    OBVIOUS
  <2> HIDE DEF bad
  <2> QED
    BY <1>2, <1>3, <2>1, Climb
<1>5. PICK k \in Nat : w = v + k
  <2>1. w - v \in Nat /\ w = v + (w - v)
    BY <1>1
  <2> QED
    BY <2>1
<1>6. k \notin bad
  BY <1>4
<1>7. v + k <= MaxLen
  BY <1>1, <1>5
<1>8. Reach[v] <= Reach[v + k]
  BY <1>6, <1>7
<1> HIDE DEF bad
<1> QED
  BY <1>5, <1>8

\* Two words are as far apart as a number says, up to whole words.
ApartBy(v, w, d) == \E q \in Int : Number(v) = Number(w) + d + q * Words

LEMMA MixApart ==
  ASSUME NEW v \in Word, NEW w \in Word, NEW c \in Nat, NEW e \in Nat, NEW d \in Int,
         ApartBy(v, w, d)
  PROVE  ApartBy(Mix(v, c), Mix(w, e), 31 * d + (c - e))
<1>1. PICK m \in Nat \ {0} : m = Words
  BY WordsType
<1>2. PICK x \in Int, y \in Int, q \in Int : x = Number(v) /\ y = Number(w) /\ x = y + d + q * m
  <2>1. Number(v) \in Int /\ Number(w) \in Int
    <3>1. Number(v) \in 0 .. Words - 1 /\ Number(w) \in 0 .. Words - 1
      BY MixValue
    <3> QED
      BY <1>1, <3>1
  <2> QED
    BY <1>1, <2>1 DEF ApartBy
<1>3. PICK s \in Nat : 31 * x + c = s * m + Number(Mix(v, c))
  <2>1. PICK k \in Nat : 31 * Number(v) + c = k * Words + Number(Mix(v, c))
    BY MixValue
  <2> QED
    BY <1>1, <1>2, <2>1
<1>4. PICK t \in Nat : 31 * y + e = t * m + Number(Mix(w, e))
  <2>1. PICK k \in Nat : 31 * Number(w) + e = k * Words + Number(Mix(w, e))
    BY MixValue
  <2> QED
    BY <1>1, <1>2, <2>1
<1>5. Number(Mix(v, c)) \in Int /\ Number(Mix(w, e)) \in Int
  <2>1. Mix(v, c) \in Word /\ Mix(w, e) \in Word
    BY MixValue
  <2>2. Number(Mix(v, c)) \in 0 .. Words - 1 /\ Number(Mix(w, e)) \in 0 .. Words - 1
    BY <2>1, MixValue
  <2> QED
    BY <1>1, <2>2
<1>6. PICK a \in Int, b \in Int : a = Number(Mix(v, c)) /\ b = Number(Mix(w, e))
  BY <1>5
<1>7. PICK r \in Int : r = 31 * q - s + t
  OBVIOUS
<1>8. r * m = 31 * (q * m) - s * m + t * m /\ q * m \in Int /\ s * m \in Int /\ t * m \in Int
  BY <1>7
<1>9. a = b + (31 * d + (c - e)) + r * m
  <2>1. PICK qm \in Int, sm \in Int, tm \in Int, rm \in Int :
          qm = q * m /\ sm = s * m /\ tm = t * m /\ rm = r * m
    BY <1>8
  <2>2. /\ rm = 31 * qm - sm + tm /\ x = y + d + qm
        /\ 31 * x + c = sm + a /\ 31 * y + e = tm + b
    BY <1>2, <1>3, <1>4, <1>6, <1>8, <2>1
  <2>3. a = b + (31 * d + (c - e)) + rm
    BY <2>2
  <2> QED
    BY <2>1, <2>3
<1> QED
  BY <1>1, <1>6, <1>9 DEF ApartBy

LEMMA ApartDiffers ==
  ASSUME NEW v \in Word, NEW d \in Int, d # 0, - Words < d, d < Words
  PROVE  ~ ApartBy(v, v, d)
<1> SUFFICES ASSUME ApartBy(v, v, d) PROVE FALSE
  OBVIOUS
<1>1. PICK m \in Nat \ {0} : m = Words
  BY WordsType
<1>2. Number(v) \in Int
  <2>1. Number(v) \in 0 .. Words - 1
    BY MixValue
  <2> QED
    BY <1>1, <2>1
<1>3. PICK x \in Int, q \in Int : x = x + d + q * m
  BY <1>1, <1>2 DEF ApartBy
<1>4. PICK u \in Int : u = 0 - q
  OBVIOUS
<1>5. u * m = 0 - q * m /\ q * m \in Int
  BY <1>4
<1>6. d = u * m
  BY <1>3, <1>5
<1>7. u = 0
  BY <1>1, <1>6, NoneOfIt
<1> QED
  BY <1>6, <1>7

\* Where the texts differ, two characters of numbers stand.
Near == Spread <= 30 /\ \A i \in Differing : text[i] <= other[i] + Spread /\ other[i] <= text[i] + Spread

\* From the first difference on, the words are some number apart, not 0, that
\* the characters since then can reach.
GapInv ==
  \A f \in Differing, w \in 1 .. MaxLen :
    Near /\ (\A j \in Differing : f <= j) /\ w = Len(text) - f + 1
    => \E d \in Int : /\ d # 0 /\ 0 - Reach[w] <= d /\ d <= Reach[w]
                      /\ ApartBy(h, otherH, d)

ShortInv == /\ HashTypes /\ Len(text) <= MaxLen
            /\ Differing = {} => h = otherH
            /\ GapInv /\ ShortChangeTells

LEMMA ReadNear ==
  ASSUME HashTypes, NEW c \in Char, NEW e \in Char, Read(c, e), Near'
  PROVE  /\ Near
         /\ c # e => c <= e + Spread /\ e <= c + Spread
<1>1. /\ Len(text') = Len(text) + 1 /\ Len(text) \in Nat
      /\ text'[Len(text) + 1] = c /\ other'[Len(text) + 1] = e
      /\ \A i \in 1 .. Len(text) : text'[i] = text[i] /\ other'[i] = other[i]
  BY DEF Read, HashTypes
<1>2. Differing \subseteq Differing' /\ (c # e => Len(text) + 1 \in Differing')
  BY ReadDiffers
<1>3. Differing \subseteq 1 .. Len(text)
  BY DEF Differing
<1>4. Near
  BY <1>1, <1>2, <1>3 DEF Near
<1>5. c # e => c <= e + Spread /\ e <= c + Spread
  BY <1>1, <1>2 DEF Near
<1> QED
  BY <1>4, <1>5

LEMMA ReadGap ==
  ASSUME ShortInv, NEW c \in Char, NEW e \in Char, Read(c, e)
  PROVE  GapInv'
<1>0. HashTypes /\ HashTypes'
  BY ReadTypes DEF ShortInv
<1>1. PICK n \in Nat : n = Len(text) /\ n < MaxLen /\ Len(text') = n + 1
  BY <1>0 DEF Read, HashTypes
<1>2. /\ h \in Word /\ otherH \in Word /\ c \in Nat /\ e \in Nat /\ MaxLen \in Nat
      /\ h' = Mix(h, c) /\ otherH' = Mix(otherH, e) /\ Spread \in Nat
  BY <1>0, HashAssumption DEF HashTypes, Read
<1> SUFFICES ASSUME NEW f \in Differing', NEW w \in 1 .. MaxLen, Near',
                    \A j \in Differing' : f <= j, w = Len(text') - f + 1
             PROVE  \E d \in Int : /\ d # 0 /\ 0 - Reach[w] <= d /\ d <= Reach[w]
                                   /\ ApartBy(h', otherH', d)
  BY DEF GapInv
<1>3. Differing' = IF c = e THEN Differing ELSE Differing \cup {n + 1}
  BY <1>0, <1>1, ReadDiffers
<1>4. Near /\ (c # e => c <= e + Spread /\ e <= c + Spread)
  BY <1>0, ReadNear
<1>5. Spread <= 30
  BY <1>4 DEF Near
<1>6. Differing \subseteq 1 .. n
  BY <1>1 DEF Differing
<1>7. CASE f = n + 1
  <2>1. Differing = {} /\ c # e /\ w = 1
    <3>1. \A j \in Differing : FALSE
      BY <1>1, <1>3, <1>6, <1>7
    <3>2. Differing = {}
      BY <3>1
    <3>3. c # e
      BY <1>3, <3>2
    <3> QED
      BY <1>1, <1>7, <3>2, <3>3
  <2>2. h = otherH
    BY <2>1 DEF ShortInv
  <2>3. ApartBy(h, otherH, 0)
    <3>1. PICK m \in Nat \ {0} : m = Words
      BY WordsType
    <3>2. Number(h) \in 0 .. Words - 1
      BY <1>2, MixValue
    <3>3. PICK x \in Int : x = Number(h)
      BY <3>1, <3>2
    <3>4. x = x + 0 + 0 * m
      OBVIOUS
    <3> QED
      BY <2>2, <3>1, <3>3, <3>4 DEF ApartBy
  <2>4. ApartBy(h', otherH', 31 * 0 + (c - e))
    BY <1>2, <2>3, MixApart
  <2>5. 31 * 0 + (c - e) = c - e /\ c - e \in Int
    BY <1>2
  <2>6. Reach[1] = Spread
    BY <1>1, <1>2, ReachDef
  <2> QED
    BY <1>2, <1>4, <2>1, <2>4, <2>5, <2>6
<1>8. CASE f # n + 1
  <2>1. f \in Differing /\ f \in 1 .. n /\ \A j \in Differing : f <= j
    BY <1>3, <1>6, <1>8
  <2>2. PICK v \in 1 .. MaxLen : v = n - f + 1 /\ w = v + 1
    <3>1. n - f + 1 \in 1 .. MaxLen /\ w = (n - f + 1) + 1
      BY <1>1, <1>2, <2>1
    <3> QED
      BY <3>1
  <2>3. PICK d \in Int : /\ d # 0 /\ 0 - Reach[v] <= d /\ d <= Reach[v]
                         /\ ApartBy(h, otherH, d)
    BY <1>1, <1>4, <2>1, <2>2 DEF ShortInv, GapInv
  <2>4. ApartBy(h', otherH', 31 * d + (c - e))
    BY <1>2, <2>3, MixApart
  <2>5. Reach[w] = 31 * Reach[v] + Spread /\ Reach[v] \in Nat
    <3>1. w - 1 = v
      BY <2>2
    <3> QED
      BY <3>1, ReachDef, ReachType
  <2>6. 0 - Spread <= c - e /\ c - e <= Spread
    BY <1>2, <1>4
  <2>7. PICK r \in Nat : r = Reach[v]
    BY <2>5
  <2>8. PICK g \in Int : g = c - e /\ 0 - Spread <= g /\ g <= Spread
    BY <1>2, <2>6
  <2>9. PICK b \in Int : b = 31 * d + g
    OBVIOUS
  <2>10. b # 0 /\ 0 - (31 * r + Spread) <= b /\ b <= 31 * r + Spread
    <3>1. PICK s \in Nat : s = Spread /\ s <= 30 /\ 0 - s <= g /\ g <= s
      BY <1>2, <1>5, <2>8
    <3>2. d # 0 /\ 0 - r <= d /\ d <= r
      BY <2>3, <2>7
    <3>3. b # 0 /\ 0 - (31 * r + s) <= b /\ b <= 31 * r + s
      BY <2>9, <3>1, <3>2
    <3> QED
      BY <3>1, <3>3
  <2> QED
    BY <2>4, <2>5, <2>7, <2>8, <2>9, <2>10
<1> QED
  BY <1>7, <1>8

LEMMA ReadShort ==
  ASSUME ShortInv, NEW c \in Char, NEW e \in Char, Read(c, e)
  PROVE  ShortInv'
<1>0. HashTypes /\ HashTypes'
  BY ReadTypes DEF ShortInv
<1>1. PICK n \in Nat : n = Len(text) /\ n < MaxLen /\ Len(text') = n + 1
  BY <1>0 DEF Read, HashTypes
<1>2. /\ h \in Word /\ otherH \in Word /\ h' \in Word /\ otherH' \in Word
      /\ c \in Nat /\ e \in Nat /\ MaxLen \in Nat
      /\ h' = Mix(h, c) /\ otherH' = Mix(otherH, e)
  BY <1>0, HashAssumption DEF HashTypes, Read
<1>3. Differing' = IF c = e THEN Differing ELSE Differing \cup {n + 1}
  BY <1>0, <1>1, ReadDiffers
<1>4. GapInv'
  BY ReadGap
<1>5. Differing' = {} => h' = otherH'
  BY <1>2, <1>3 DEF ShortInv
<1>6. CASE c = e
  <2>1. h' = otherH' => h = otherH
    BY <1>2, <1>6, SameAfterSame
  <2>2. ASSUME Near' PROVE Near
    BY <1>0, <2>2, ReadNear
  <2>3. ShortChangeTells'
    BY <1>3, <1>6, <2>1, <2>2 DEF ShortChangeTells, ShortInv, Near
  <2> QED
    BY <1>0, <1>1, <1>2, <1>4, <1>5, <2>3 DEF ShortInv
<1>7. CASE c # e
  <2>1. ASSUME NEW w \in 1 .. MaxLen, Near', Reach[w] < Words,
               \A i, j \in Differing' : i < j + w
        PROVE  h' # otherH'
    <3>1. Differing' \in SUBSET Nat /\ n + 1 \in Differing' /\ Differing' \subseteq 1 .. n + 1
      <4>1. Differing \subseteq 1 .. n
        BY <1>1 DEF Differing
      <4> QED
        BY <1>3, <1>7, <4>1
    <3>2. PICK f \in Differing' : \A j \in Differing' : f <= j
      <4>1. PICK D \in SUBSET Nat : D = Differing' /\ D # {}
        BY <3>1
      <4>2. \E m \in D : \A k \in D : m <= k
        BY <4>1, LeastNumber
      <4> QED
        BY <4>1, <4>2
    <3>3. PICK v \in 1 .. MaxLen : v = (n + 1) - f + 1 /\ v <= w
      <4>1. f \in 1 .. n + 1 /\ n + 1 < f + w
        BY <2>1, <3>1, <3>2
      <4>2. (n + 1) - f + 1 \in 1 .. MaxLen /\ (n + 1) - f + 1 <= w
        BY <1>1, <1>2, <4>1
      <4> QED
        BY <4>2
    <3>4. PICK d \in Int : /\ d # 0 /\ 0 - Reach[v] <= d /\ d <= Reach[v]
                           /\ ApartBy(h', otherH', d)
      BY <1>1, <1>4, <2>1, <3>2, <3>3 DEF GapInv
    <3>5. Reach[v] <= Reach[w] /\ Reach[v] \in Nat /\ Reach[w] \in Nat
      <4>1. v \in 0 .. MaxLen /\ w \in v .. MaxLen /\ w \in 0 .. MaxLen
        BY <1>2, <3>3
      <4> QED
        BY <4>1, ReachGrows, ReachType
    <3>6. - Words < d /\ d < Words
      <4>1. PICK m \in Nat \ {0} : m = Words
        BY WordsType
      <4>2. PICK a \in Nat, b \in Nat : a = Reach[v] /\ b = Reach[w]
        BY <3>5
      <4> QED
        BY <2>1, <3>4, <3>5, <4>1, <4>2
    <3> QED
      BY <1>2, <3>4, <3>6, ApartDiffers
  <2>2. ShortChangeTells'
    BY <2>1 DEF ShortChangeTells, Near, Words
  <2> QED
    BY <1>0, <1>1, <1>2, <1>4, <1>5, <2>2 DEF ShortInv
<1> QED
  BY <1>6, <1>7

\* The loop of _hashRequest tells a request from one in which a number has become
\* another of as many characters, for every width of a word, alphabet and length
\* of text, as long as the word can hold that many characters apart.
THEOREM ShortChangesTell == HashSpec => []ShortChangeTells
<1>1. HashInit => ShortInv
  <2> SUFFICES ASSUME HashInit PROVE ShortInv
    OBVIOUS
  <2>1. HashTypes /\ Differing = {} /\ h = otherH
    BY InitHashTypes
  <2>2. Len(text) <= MaxLen
    BY HashAssumption DEF HashInit
  <2> QED
    BY <2>1, <2>2 DEF ShortInv, GapInv, ShortChangeTells
<1>2. ShortInv /\ [HashNext]_hashVars => ShortInv'
  <2> SUFFICES ASSUME ShortInv, [HashNext]_hashVars PROVE ShortInv'
    OBVIOUS
  <2>1. CASE HashNext
    BY <2>1, ReadShort DEF HashNext
  <2>2. CASE UNCHANGED hashVars
    BY <2>2 DEF hashVars, ShortInv, HashTypes, GapInv, Near, ShortChangeTells, Differing, ApartBy, Number
  <2> QED
    BY <2>1, <2>2
<1>3. ShortInv => ShortChangeTells
  BY DEF ShortInv
<1> QED
  BY <1>1, <1>2, <1>3, PTL DEF HashSpec

-----------------------------------------------------------------------------
(* The hash as a polynomial.  What FoldLeft computes follows from its      *)
(* definition: the functions that it and Power31 choose exist, by climbing *)
(* from 0, and so satisfy their equations.                                 *)

PowersUpTo(g, n) == g = [k \in 0 .. n |-> IF k = 0 THEN 1 ELSE 31 * g[k - 1]]

LEMMA PowersExist == \A n \in Nat : \E g : PowersUpTo(g, n)
<1> DEFINE bad == {n \in Nat : ~ \E g : PowersUpTo(g, n)}
<1>1. 0 \notin bad
  <2> DEFINE g == [k \in 0 .. 0 |-> 1]
  <2>1. PowersUpTo(g, 0)
    BY DEF PowersUpTo
  <2> HIDE DEF g
  <2> QED
    BY <2>1
<1>2. ASSUME NEW n \in Nat, n \notin bad PROVE n + 1 \notin bad
  <2>1. PICK g : PowersUpTo(g, n)
    BY <1>2
  <2> DEFINE f == [k \in 0 .. n + 1 |-> IF k = n + 1 THEN 31 * g[n] ELSE g[k]]
  <2>2. \A k \in 0 .. n : g[k] = IF k = 0 THEN 1 ELSE 31 * g[k - 1]
    BY <2>1 DEF PowersUpTo
  <2>3. \A k \in 0 .. n + 1 : f[k] = IF k = 0 THEN 1 ELSE 31 * f[k - 1]
    BY <1>2, <2>2
  <2>4. PowersUpTo(f, n + 1)
    <3>1. f = [k \in 0 .. n + 1 |-> f[k]]
      OBVIOUS
    <3> HIDE DEF f
    <3> QED
      BY <2>3, <3>1 DEF PowersUpTo
  <2> HIDE DEF f
  <2> QED
    BY <2>4
<1>3. bad = {}
  <2>1. bad \in SUBSET Nat
    OBVIOUS
  <2> HIDE DEF bad
  <2> QED
    BY <1>1, <1>2, <2>1, Climb
<1> QED
  BY <1>3

LEMMA Power31Def ==
  /\ Power31[0] = 1
  /\ \A n \in 1 .. MaxLen : Power31[n] = 31 * Power31[n - 1]
<1> DEFINE P == CHOOSE g : PowersUpTo(g, MaxLen)
<1>1. Power31 = P
  BY DEF Power31, PowersUpTo
<1>2. PowersUpTo(P, MaxLen)
  BY PowersExist, HashAssumption
<1>3. PowersUpTo(Power31, MaxLen)
  BY <1>1, <1>2
<1> QED
  BY <1>3, HashAssumption DEF PowersUpTo

\* The two folds of this module, as one function of what loop they are.
StartOf(loop) == IF loop = "hash" THEN <<0, 0>> ELSE 0
StepOf(loop, t, a, i) == IF loop = "hash" THEN Mix(a, t[i])
                                          ELSE a + t[i] * Power31[Len(t) - i]
FoldsUpTo(g, loop, t, n) ==
  g = [s \in SUBSET (1 .. n) |-> IF s = {} THEN StartOf(loop)
                                 ELSE StepOf(loop, t, g[s \ {Max(s)}], Max(s))]

LEMMA MaxOf ==
  ASSUME NEW n \in Nat, NEW s \in SUBSET (1 .. n), s # {}
  PROVE  Max(s) \in s /\ \A i \in s : Max(s) >= i
<1> DEFINE T == {k \in Nat : \E i \in s : k = n - i}
<1>1. T # {}
  <2>1. PICK i \in s : TRUE
    OBVIOUS
  <2>2. n - i \in T
    BY <2>1
  <2> QED
    BY <2>2
<1>2. PICK m \in T : \A k \in T : m <= k
  <2>1. T \in SUBSET Nat
    OBVIOUS
  <2> HIDE DEF T
  <2> QED
    BY <1>1, <2>1, LeastNumber
<1>3. PICK x \in s : m = n - x
  BY <1>2
<1>4. ASSUME NEW i \in s PROVE x >= i
  <2>1. n - i \in T
    OBVIOUS
  <2> HIDE DEF T
  <2> QED
    BY <1>2, <1>3, <2>1
<1> QED
  BY <1>3, <1>4 DEF Max

LEMMA MaxUpTo ==
  ASSUME NEW n \in Nat, NEW s \in SUBSET (1 .. n + 1), n + 1 \in s
  PROVE  Max(s) = n + 1
<1>1. PICK m \in Nat : m = n + 1
  OBVIOUS
<1>2. Max(s) \in s /\ Max(s) >= m
  BY <1>1, MaxOf
<1>3. Max(s) \in 1 .. m
  BY <1>1, <1>2
<1> QED
  BY <1>1, <1>2, <1>3

LEMMA FoldsExist == \A loop, t : \A n \in Nat : \E g : FoldsUpTo(g, loop, t, n)
<1> SUFFICES ASSUME NEW loop, NEW t
             PROVE  \A n \in Nat : \E g : FoldsUpTo(g, loop, t, n)
  OBVIOUS
<1> DEFINE bad == {n \in Nat : ~ \E g : FoldsUpTo(g, loop, t, n)}
<1>1. 0 \notin bad
  <2> DEFINE g == [s \in SUBSET (1 .. 0) |-> StartOf(loop)]
  <2>1. FoldsUpTo(g, loop, t, 0)
    <3>1. \A s \in SUBSET (1 .. 0) : s = {}
      OBVIOUS
    <3> QED
      BY <3>1 DEF FoldsUpTo
  <2> HIDE DEF g
  <2> QED
    BY <2>1
<1>2. ASSUME NEW n \in Nat, n \notin bad PROVE n + 1 \notin bad
  <2>1. PICK g : FoldsUpTo(g, loop, t, n)
    BY <1>2
  <2> DEFINE f == [s \in SUBSET (1 .. n + 1) |->
                     IF n + 1 \in s THEN StepOf(loop, t, g[s \ {n + 1}], n + 1) ELSE g[s]]
  <2>2. \A s \in SUBSET (1 .. n) :
          g[s] = IF s = {} THEN StartOf(loop) ELSE StepOf(loop, t, g[s \ {Max(s)}], Max(s))
    BY <2>1 DEF FoldsUpTo
  <2>3. \A s \in SUBSET (1 .. n) : s \in SUBSET (1 .. n + 1) /\ n + 1 \notin s /\ f[s] = g[s]
    OBVIOUS
  <2>4. \A s \in SUBSET (1 .. n + 1) : s \ {n + 1} \in SUBSET (1 .. n)
    OBVIOUS
  <2>5. ASSUME NEW s \in SUBSET (1 .. n + 1)
        PROVE  f[s] = IF s = {} THEN StartOf(loop) ELSE StepOf(loop, t, f[s \ {Max(s)}], Max(s))
    <3>1. CASE n + 1 \in s
      <4>1. Max(s) = n + 1
        BY <3>1, MaxUpTo
      <4>2. f[s \ {n + 1}] = g[s \ {n + 1}]
        BY <2>3, <2>4
      <4>3. f[s] = StepOf(loop, t, g[s \ {n + 1}], n + 1)
        BY <3>1
      <4> HIDE DEF f
      <4> QED
        BY <3>1, <4>1, <4>2, <4>3
    <3>2. CASE n + 1 \notin s
      <4>1. s \in SUBSET (1 .. n) /\ s \ {Max(s)} \in SUBSET (1 .. n)
        BY <2>4, <3>2
      <4> HIDE DEF f
      <4> QED
        BY <2>2, <2>3, <4>1
    <3> QED
      BY <3>1, <3>2
  <2>6. FoldsUpTo(f, loop, t, n + 1)
    <3>1. f = [s \in SUBSET (1 .. n + 1) |-> f[s]]
      OBVIOUS
    <3> HIDE DEF f
    <3> QED
      BY <2>5, <3>1 DEF FoldsUpTo
  <2> HIDE DEF f
  <2> QED
    BY <2>6
<1>3. bad = {}
  <2>1. bad \in SUBSET Nat
    OBVIOUS
  <2> HIDE DEF bad
  <2> QED
    BY <1>1, <1>2, <2>1, Climb
<1> QED
  BY <1>3

LEMMA FoldEquation ==
  ASSUME NEW loop, NEW t, NEW n \in Nat, NEW g, FoldsUpTo(g, loop, t, n)
  PROVE  /\ g[1 .. 0] = StartOf(loop)
         /\ \A k \in 1 .. n : g[1 .. k] = StepOf(loop, t, g[1 .. (k - 1)], k)
<1>1. \A s \in SUBSET (1 .. n) :
        g[s] = IF s = {} THEN StartOf(loop) ELSE StepOf(loop, t, g[s \ {Max(s)}], Max(s))
  BY DEF FoldsUpTo
<1>2. g[1 .. 0] = StartOf(loop)
  <2>1. 1 .. 0 = {} /\ {} \in SUBSET (1 .. n)
    OBVIOUS
  <2> QED
    BY <1>1, <2>1
<1>3. ASSUME NEW k \in 1 .. n
      PROVE  g[1 .. k] = StepOf(loop, t, g[1 .. (k - 1)], k)
  <2>1. 1 .. k \in SUBSET (1 .. n) /\ 1 .. k # {} /\ 1 .. (k - 1) = (1 .. k) \ {k}
    <3>1. \A i : i \in 1 .. k => i \in 1 .. n
      OBVIOUS
    <3>2. \A i : i \in 1 .. (k - 1) <=> i \in (1 .. k) \ {k}
      OBVIOUS
    <3>3. k \in 1 .. k
      OBVIOUS
    <3> QED
      BY <3>1, <3>2, <3>3
  <2>2. PICK j \in Nat : k = j + 1
    <3>1. k - 1 \in Nat /\ k = k - 1 + 1
      OBVIOUS
    <3> QED
      BY <3>1
  <2>3. Max(1 .. k) = k
    BY <2>2, MaxUpTo
  <2> QED
    BY <1>1, <2>1, <2>3
<1> QED
  BY <1>2, <1>3

\* FoldLeft, as the library defines it, of the two loops.
HashRecurs(g, t) == g = [s \in SUBSET (DOMAIN t) |->
  IF s = {} THEN <<0, 0>> ELSE Mix(g[s \ {Max(s)}], t[Max(s)])]
PolyRecurs(g, t) == g = [s \in SUBSET (DOMAIN [i \in DOMAIN t |-> i]) |->
  IF s = {} THEN 0
  ELSE g[s \ {Max(s)}] + t[[i \in DOMAIN t |-> i][Max(s)]]
                         * Power31[Len(t) - [i \in DOMAIN t |-> i][Max(s)]]]

LEMMA HashTextIs == \A t : HashText(t) = (CHOOSE g : HashRecurs(g, t))[DOMAIN t]
BY DEF HashText, FoldLeft, MapThenFoldSet, HashRecurs

LEMMA PolynomialIs ==
  \A t : Polynomial(t) = (CHOOSE g : PolyRecurs(g, t))[DOMAIN [i \in DOMAIN t |-> i]]
BY DEF Polynomial, FoldLeftDomain, FoldLeft, MapThenFoldSet, PolyRecurs

\* The values of the loop after each character.
LEMMA HashRuns ==
  ASSUME NEW t \in Seq(Nat)
  PROVE  \E r : /\ r[0] = <<0, 0>> /\ r[Len(t)] = HashText(t)
                /\ \A k \in 1 .. Len(t) : r[k] = Mix(r[k - 1], t[k])
<1>1. PICK n \in Nat : n = Len(t) /\ DOMAIN t = 1 .. n
  OBVIOUS
<1> DEFINE g == CHOOSE f : HashRecurs(f, t)
<1>2. \A f : HashRecurs(f, t) <=> FoldsUpTo(f, "hash", t, n)
  BY <1>1 DEF HashRecurs, FoldsUpTo, StartOf, StepOf
<1>3. HashRecurs(g, t)
  BY <1>2, FoldsExist
<1> HIDE DEF g
<1>4. FoldsUpTo(g, "hash", t, n)
  BY <1>2, <1>3
<1>5. /\ g[1 .. 0] = <<0, 0>>
      /\ \A k \in 1 .. n : g[1 .. k] = Mix(g[1 .. (k - 1)], t[k])
  BY <1>4, FoldEquation DEF StartOf, StepOf
<1> DEFINE r == [k \in 0 .. n |-> g[1 .. k]]
<1>6. r[n] = HashText(t)
  BY <1>1, HashTextIs DEF g
<1>7. r[0] = <<0, 0>>
  BY <1>5
<1>8. \A k \in 1 .. n : r[k] = Mix(r[k - 1], t[k])
  BY <1>5
<1> HIDE DEF r
<1> QED
  BY <1>1, <1>6, <1>7, <1>8

LEMMA PolynomialRuns ==
  ASSUME NEW t \in Seq(Nat)
  PROVE  \E r : /\ r[0] = 0 /\ r[Len(t)] = Polynomial(t)
                /\ \A k \in 1 .. Len(t) : r[k] = r[k - 1] + t[k] * Power31[Len(t) - k]
<1>1. PICK n \in Nat : n = Len(t) /\ DOMAIN t = 1 .. n
  OBVIOUS
<1> DEFINE e == [i \in DOMAIN t |-> i]
           g == CHOOSE f : PolyRecurs(f, t)
<1>2. DOMAIN e = 1 .. n /\ \A i \in 1 .. n : e[i] = i
  BY <1>1
<1>3. ASSUME NEW f
      PROVE  PolyRecurs(f, t) <=> FoldsUpTo(f, "polynomial", t, n)
  <2>1. \A s \in SUBSET (1 .. n) : s # {} => Max(s) \in 1 .. n
    BY MaxOf
  <2>2. \A s \in SUBSET (1 .. n) :
          s # {} => f[s \ {Max(s)}] + t[e[Max(s)]] * Power31[Len(t) - e[Max(s)]]
                    = StepOf("polynomial", t, f[s \ {Max(s)}], Max(s))
    BY <1>2, <2>1 DEF StepOf
  <2>3. PolyRecurs(f, t) <=> f = [s \in SUBSET (1 .. n) |->
            IF s = {} THEN 0 ELSE f[s \ {Max(s)}] + t[e[Max(s)]] * Power31[Len(t) - e[Max(s)]]]
    BY <1>2 DEF PolyRecurs
  <2> HIDE DEF e
  <2> QED
    BY <2>2, <2>3 DEF FoldsUpTo, StartOf
<1>4. PolyRecurs(g, t)
  BY <1>3, FoldsExist
<1>5. Polynomial(t) = g[1 .. n]
  BY <1>1, <1>2, PolynomialIs
<1> HIDE DEF g
<1>6. FoldsUpTo(g, "polynomial", t, n)
  BY <1>3, <1>4
<1>7. /\ g[1 .. 0] = 0
      /\ \A k \in 1 .. n : g[1 .. k] = g[1 .. (k - 1)] + t[k] * Power31[Len(t) - k]
  <2>1. /\ g[1 .. 0] = StartOf("polynomial")
        /\ \A k \in 1 .. n : g[1 .. k] = StepOf("polynomial", t, g[1 .. (k - 1)], k)
    BY <1>6, FoldEquation
  <2> QED
    BY <2>1 DEF StartOf, StepOf
<1> DEFINE r == [k \in 0 .. n |-> g[1 .. k]]
<1>8. r[n] = Polynomial(t)
  BY <1>1, <1>5
<1>9. r[0] = 0
  BY <1>7
<1>10. \A k \in 1 .. n : r[k] = r[k - 1] + t[k] * Power31[Len(t) - k]
  BY <1>7
<1> HIDE DEF r
<1> QED
  BY <1>1, <1>8, <1>9, <1>10

LEMMA Appended ==
  ASSUME NEW t \in Seq(Nat), NEW c \in Nat
  PROVE  /\ Append(t, c) \in Seq(Nat) /\ Len(Append(t, c)) = Len(t) + 1
         /\ Append(t, c)[Len(t) + 1] = c
         /\ \A k \in 1 .. Len(t) : Append(t, c)[k] = t[k]
OBVIOUS

\* The loop over a longer text goes on from where it was.
LEMMA HashAppend ==
  ASSUME NEW t \in Seq(Nat), NEW c \in Nat
  PROVE  HashText(Append(t, c)) = Mix(HashText(t), c)
<1>0. PICK n \in Nat : n = Len(t)
  OBVIOUS
<1>1. PICK u \in Seq(Nat) : u = Append(t, c)
  BY Appended
<1>2. Len(u) = n + 1 /\ u[n + 1] = c /\ \A k \in 1 .. n : u[k] = t[k]
  BY <1>0, <1>1, Appended
<1>3. PICK r : /\ r[0] = <<0, 0>> /\ r[n] = HashText(t)
               /\ \A k \in 1 .. n : r[k] = Mix(r[k - 1], t[k])
  BY <1>0, HashRuns
<1>4. PICK q : /\ q[0] = <<0, 0>> /\ q[n + 1] = HashText(u)
               /\ \A k \in 1 .. n + 1 : q[k] = Mix(q[k - 1], u[k])
  BY <1>2, HashRuns
<1> DEFINE bad == {k \in Nat : k <= n /\ q[k] # r[k]}
<1>5. ASSUME NEW k \in Nat, k + 1 \in bad PROVE k \in bad
  <2>1. k + 1 <= n /\ q[k + 1] # r[k + 1]
    BY <1>5
  <2>2. k + 1 \in 1 .. n /\ k + 1 \in 1 .. n + 1 /\ k <= n /\ (k + 1) - 1 = k
    BY <2>1
  <2>3. q[k + 1] = Mix(q[k], t[k + 1]) /\ r[k + 1] = Mix(r[k], t[k + 1])
    BY <1>2, <1>3, <1>4, <2>2
  <2> QED
    BY <2>1, <2>2, <2>3
<1>6. bad = {}
  <2>1. bad \in SUBSET Nat /\ 0 \notin bad
    BY <1>3, <1>4
  <2> HIDE DEF bad
  <2> QED
    BY <1>5, <2>1, Climb
<1>7. q[n] = r[n]
  BY <1>6
<1>8. q[n + 1] = Mix(q[n], c)
  <2>1. n + 1 \in 1 .. n + 1 /\ (n + 1) - 1 = n
    OBVIOUS
  <2> QED
    BY <1>2, <1>4, <2>1
<1> QED
  BY <1>1, <1>3, <1>4, <1>7, <1>8

LEMMA Power31Type == \A n \in 0 .. MaxLen : Power31[n] \in Nat
<1> DEFINE bad == {n \in Nat : n <= MaxLen /\ Power31[n] \notin Nat}
<1>1. ASSUME NEW k \in Nat, k + 1 \in bad PROVE k \in bad
  <2>1. k + 1 \in 1 .. MaxLen /\ (k + 1) - 1 = k /\ k <= MaxLen
    BY <1>1, HashAssumption
  <2>2. Power31[k + 1] = 31 * Power31[k]
    BY <2>1, Power31Def
  <2> QED
    BY <1>1, <2>1, <2>2
<1>2. bad = {}
  <2>1. bad \in SUBSET Nat /\ 0 \notin bad
    BY Power31Def
  <2> HIDE DEF bad
  <2> QED
    BY <1>1, <2>1, Climb
<1> QED
  BY <1>2, HashAssumption

\* One more character is one more factor and its code.
LEMMA PolynomialAppend ==
  ASSUME NEW t \in Seq(Nat), NEW c \in Nat, Len(t) < MaxLen
  PROVE  Polynomial(t) \in Nat /\ Polynomial(Append(t, c)) = 31 * Polynomial(t) + c
<1>0. PICK n \in Nat : n = Len(t) /\ n + 1 <= MaxLen
  <2>1. Len(t) \in Nat
    OBVIOUS
  <2> QED
    BY <2>1, HashAssumption
<1>1. PICK u \in Seq(Nat) : u = Append(t, c)
  BY Appended
<1>2. Len(u) = n + 1 /\ u[n + 1] = c /\ \A k \in 1 .. n : u[k] = t[k]
  BY <1>0, <1>1, Appended
<1>3. PICK r : /\ r[0] = 0 /\ r[n] = Polynomial(t)
               /\ \A k \in 1 .. n : r[k] = r[k - 1] + t[k] * Power31[n - k]
  BY <1>0, PolynomialRuns
<1>4. PICK q : /\ q[0] = 0 /\ q[Len(u)] = Polynomial(u)
               /\ \A k \in 1 .. Len(u) : q[k] = q[k - 1] + u[k] * Power31[Len(u) - k]
  BY PolynomialRuns
<1> DEFINE bad == {k \in Nat : k <= n /\ ~ (r[k] \in Nat /\ q[k] = 31 * r[k])}
<1>5. ASSUME NEW k \in Nat, k + 1 \in bad PROVE k \in bad
  <2> SUFFICES ASSUME r[k] \in Nat, q[k] = 31 * r[k]
               PROVE  r[k + 1] \in Nat /\ q[k + 1] = 31 * r[k + 1]
    BY <1>5
  <2>1. k + 1 \in 1 .. n /\ k + 1 \in 1 .. n + 1 /\ (k + 1) - 1 = k
    BY <1>5
  <2>2. PICK m \in Nat : m = n - (k + 1) /\ m + 1 \in 1 .. MaxLen /\ m \in 0 .. MaxLen
    <3>1. n - (k + 1) \in Nat /\ n - (k + 1) + 1 <= n
      BY <2>1
    <3>2. n - (k + 1) + 1 \in 1 .. MaxLen /\ n - (k + 1) \in 0 .. MaxLen
      BY <1>0, <3>1, HashAssumption
    <3> QED
      BY <3>1, <3>2
  <2>3. (n + 1) - (k + 1) = m + 1 /\ (m + 1) - 1 = m
    BY <2>2
  <2>4. PICK p \in Nat : p = Power31[m] /\ Power31[m + 1] = 31 * p
    BY <2>2, <2>3, Power31Def, Power31Type
  <2>5. PICK x \in Nat : x = t[k + 1] /\ x = u[k + 1]
    <3>1. t[k + 1] \in Nat
      BY <1>0, <2>1
    <3> QED
      BY <1>2, <2>1, <3>1
  <2>6. r[k + 1] = r[k] + x * p
    BY <1>3, <2>1, <2>2, <2>4, <2>5
  <2>7. q[k + 1] = q[k] + x * (31 * p)
    <3>1. q[k + 1] = q[k] + u[k + 1] * Power31[m + 1]
      BY <1>2, <1>4, <2>1, <2>3
    <3> QED
      BY <2>4, <2>5, <3>1
  <2>8. x * (31 * p) = 31 * (x * p) /\ x * p \in Nat
    OBVIOUS
  <2>9. PICK a \in Nat : a = r[k]
    OBVIOUS
  <2>10. PICK y \in Nat : y = x * p
    BY <2>8
  <2>11. r[k + 1] = a + y /\ q[k + 1] = 31 * a + 31 * y
    BY <2>6, <2>7, <2>8, <2>9, <2>10
  <2>12. 31 * (a + y) = 31 * a + 31 * y /\ a + y \in Nat
    OBVIOUS
  <2> QED
    BY <2>11, <2>12
<1>6. bad = {}
  <2>1. bad \in SUBSET Nat /\ 0 \notin bad
    BY <1>3, <1>4
  <2> HIDE DEF bad
  <2> QED
    BY <1>5, <2>1, Climb
<1>7. r[n] \in Nat /\ q[n] = 31 * r[n]
  BY <1>6
<1>8. q[n + 1] = q[n] + c
  <2>1. n + 1 \in 1 .. n + 1 /\ (n + 1) - 1 = n /\ (n + 1) - (n + 1) = 0
    OBVIOUS
  <2>2. q[n + 1] = q[n] + c * Power31[0]
    BY <1>2, <1>4, <2>1
  <2> QED
    BY <2>2, Power31Def
<1> QED
  BY <1>1, <1>2, <1>3, <1>4, <1>7, <1>8

LEMMA CodesAreNumbers == \A t \in Seq(Char) : t \in Seq(Nat)
<1> SUFFICES ASSUME NEW t \in Seq(Char) PROVE t \in Seq(Nat)
  OBVIOUS
<1>1. PICK n \in Nat : t \in [1 .. n -> Char]
  BY SeqDef
<1>2. t \in [1 .. n -> Nat]
  BY <1>1, HashAssumption
<1> QED
  BY <1>2, SeqDef

LEMMA EmptyHashes == HashText(<<>>) = <<0, 0>> /\ Polynomial(<<>>) = 0
<1>1. <<>> \in Seq(Nat) /\ Len(<<>>) = 0
  OBVIOUS
<1> QED
  BY <1>1, HashRuns, PolynomialRuns

PolynomialInv == /\ HashTypes /\ Len(text) <= MaxLen
                 /\ h = HashText(text) /\ Polynomial(text) \in Nat
                 /\ Number(h) = Polynomial(text) % Words

LEMMA ReadPolynomial ==
  ASSUME PolynomialInv, NEW c \in Char, NEW d \in Char, Read(c, d)
  PROVE  PolynomialInv'
<1>0. HashTypes /\ HashTypes' /\ Len(text) < MaxLen /\ c \in Nat
  BY ReadTypes, HashAssumption DEF PolynomialInv, Read
<1>1. PICK t \in Seq(Nat) : t = text
  <2>1. text \in Seq(Nat)
    BY <1>0, CodesAreNumbers DEF HashTypes
  <2> QED
    BY <2>1
<1>2. text' = Append(t, c) /\ h' = Mix(h, c) /\ Len(text') <= MaxLen
  BY <1>0, <1>1, HashAssumption DEF Read
<1>3. h' = HashText(text')
  BY <1>0, <1>1, <1>2, HashAppend DEF PolynomialInv
<1>4. PICK x \in Nat : x = Polynomial(text) /\ Polynomial(text') = 31 * x + c
  BY <1>0, <1>1, <1>2, PolynomialAppend
<1>5. PICK m \in Nat \ {0} : m = Words /\ Words' = Words
  BY WordsType
<1>6. PICK z \in Nat : z = x % m /\ z = Number(h)
  BY <1>4, <1>5, QuotientAndRest DEF PolynomialInv
<1>7. PICK a \in Nat : x = a * m + z
  <2>1. x \div m \in Nat /\ x = (x \div m) * m + (x % m)
    BY QuotientAndRest
  <2> QED
    BY <1>6, <2>1
<1>8. PICK y \in 0 .. m - 1 : y = Number(Mix(h, c))
  <2>1. Mix(h, c) \in Word
    BY <1>0, MixValue DEF HashTypes
  <2> QED
    BY <1>0, <1>5, <2>1, MixValue
<1>9. PICK s \in Nat : 31 * z + c = s * m + y
  <2>1. PICK k \in Nat : 31 * Number(h) + c = k * Words + Number(Mix(h, c))
    BY <1>0, MixValue DEF HashTypes
  <2> QED
    BY <1>5, <1>6, <1>8, <2>1
<1>10. 31 * x + c = (31 * a + s) * m + y
  <2>1. (31 * a + s) * m = 31 * (a * m) + s * m /\ a * m \in Nat /\ s * m \in Nat
    OBVIOUS
  <2> QED
    BY <1>0, <1>7, <1>9, <2>1
<1>11. (31 * x + c) % m = y
  BY <1>10, RestOf
<1>12. Number(h') = Polynomial(text') % Words
  BY <1>2, <1>4, <1>5, <1>8, <1>11
<1>13. 31 * x + c \in Nat
  BY <1>0
<1> QED
  BY <1>0, <1>2, <1>3, <1>4, <1>12, <1>13 DEF PolynomialInv, Number, Words

\* Math.imul and | 0 at every character of _hashRequest lose nothing of the hash,
\* for every width of a word, every alphabet and texts of any length.
THEOREM HashIsAlwaysPolynomial == HashSpec => []HashIsPolynomial
<1>1. HashInit => PolynomialInv
  <2> SUFFICES ASSUME HashInit PROVE PolynomialInv
    OBVIOUS
  <2>1. HashTypes /\ text = <<>> /\ h = <<0, 0>>
    BY InitHashTypes DEF HashInit
  <2>2. Number(h) = 0
    <3>1. PICK p \in Nat : p = HalfRange
      BY HalfRangeType
    <3> QED
      BY <2>1, <3>1 DEF Number
  <2>3. PICK m \in Nat \ {0} : m = Words
    BY WordsType
  <2>4. (0 * m + 0) % m = 0
    BY RestOf
  <2>5. 0 % m = 0
    BY <2>4
  <2> QED
    BY <2>1, <2>2, <2>3, <2>5, EmptyHashes, HashAssumption DEF PolynomialInv
<1>2. PolynomialInv /\ [HashNext]_hashVars => PolynomialInv'
  <2> SUFFICES ASSUME PolynomialInv, [HashNext]_hashVars PROVE PolynomialInv'
    OBVIOUS
  <2>1. CASE HashNext
    BY <2>1, ReadPolynomial DEF HashNext
  <2>2. CASE UNCHANGED hashVars
    BY <2>2 DEF hashVars, PolynomialInv, HashTypes, Number
  <2> QED
    BY <2>1, <2>2
<1>3. PolynomialInv => HashIsPolynomial
  BY DEF PolynomialInv, HashIsPolynomial, Number, Words
<1> QED
  BY <1>1, <1>2, <1>3, PTL DEF HashSpec

-----------------------------------------------------------------------------
(* The lists.  Rows have places in the order of the query, 1 to the number *)
(* of selected rows; the invariant (WalkInv): the rows that were there when *)
(* the walk began and have a place up to the offset have been served, each *)
(* after those that precede it, for an insert only moves a row to a later  *)
(* place.                                                                  *)

Stamp == [sep : {"space"}, day : Nat, sec : 0 .. SecondsPerDay - 1]
TableRow   == [kind : Kind, at : Stamp]

NoLimit == [form |-> "absent", n |-> 0]

ListTypes ==
  /\ table \in Seq(TableRow) /\ now \in Nat
  /\ query.limit \in LimitQuery \cup {NoLimit}
  /\ query.from \in FromQuery \cup {Absent}
  /\ query.to \in ToQuery \cup {Absent}
  /\ seen \in Seq(Nat) /\ page \in Seq(Nat) /\ offset \in Nat /\ before \in Nat

Earlier(x, y) == x.day < y.day \/ (x.day = y.day /\ x.sec < y.sec)

LEMMA StampOrder ==
  /\ \A x, y \in Stamp : TextLess(x, y) <=> Earlier(x, y)
  /\ \A x, y \in Stamp : x # y => Earlier(x, y) \/ Earlier(y, x)
  /\ \A x, y, z \in Stamp : Earlier(x, y) /\ Earlier(y, z) => Earlier(x, z)
  /\ \A x \in Stamp : ~ Earlier(x, x)
<1>0. ASSUME NEW x \in Stamp
      PROVE  x.sep = "space" /\ x.day \in Int /\ x.sec \in Int
  BY ListingAssumption DEF Stamp
<1>1. ASSUME NEW x \in Stamp, NEW y \in Stamp
      PROVE  TextLess(x, y) <=> Earlier(x, y)
  <2>1. x.sep = "space" /\ y.sep = "space"
    BY <1>0
  <2>2. Rank("space") = 1
    BY DEF Rank
  <2>3. ~ (1 < 1)
    OBVIOUS
  <2> QED
    BY <2>1, <2>2, <2>3 DEF TextLess, Earlier
<1>2. ASSUME NEW x \in Stamp, NEW y \in Stamp, x # y
      PROVE  Earlier(x, y) \/ Earlier(y, x)
  <2>1. x = [sep |-> x.sep, day |-> x.day, sec |-> x.sec]
    BY DEF Stamp
  <2>2. y = [sep |-> y.sep, day |-> y.day, sec |-> y.sec]
    BY DEF Stamp
  <2>3. /\ x.day \in Int /\ x.sec \in Int /\ y.day \in Int /\ y.sec \in Int
        /\ x.sep = y.sep
    BY <1>0
  <2>4. x.day # y.day \/ x.sec # y.sec
    BY <1>2, <2>1, <2>2, <2>3
  <2> QED
    BY <2>3, <2>4 DEF Earlier
<1>3. ASSUME NEW x \in Stamp, NEW y \in Stamp, NEW z \in Stamp, Earlier(x, y), Earlier(y, z)
      PROVE  Earlier(x, z)
  <2>1. /\ x.day \in Int /\ x.sec \in Int /\ y.day \in Int /\ y.sec \in Int
        /\ z.day \in Int /\ z.sec \in Int
    BY <1>0
  <2> QED
    BY <1>3, <2>1 DEF Earlier
<1>4. ASSUME NEW x \in Stamp PROVE ~ Earlier(x, x)
  <2>1. x.day \in Int /\ x.sec \in Int
    BY <1>0
  <2> QED
    BY <2>1 DEF Earlier
<1> QED
  BY <1>1, <1>2, <1>3, <1>4

LEMMA RowTypes ==
  ASSUME ListTypes
  PROVE  /\ Len(table) \in Nat /\ DOMAIN table = 1 .. Len(table)
         /\ \A i \in DOMAIN table : table[i] \in TableRow /\ table[i].at \in Stamp /\ i \in Nat
<1>1. \A i \in DOMAIN table : table[i] \in TableRow /\ i \in Nat
  BY DEF ListTypes
<1>2. \A r \in TableRow : r.at \in Stamp
  BY DEF TableRow
<1> QED
  BY <1>1, <1>2 DEF ListTypes

LEMMA TotalOrder ==
  ASSUME ListTypes
  PROVE  /\ \A i \in DOMAIN table : ~ Precedes(i, i)
         /\ \A i, j \in DOMAIN table : i # j => Precedes(i, j) \/ Precedes(j, i)
         /\ \A i, j, k \in DOMAIN table : Precedes(i, j) /\ Precedes(j, k) => Precedes(i, k)
<1> DEFINE At(i) == table[i].at
           Before(i, j) == \/ Earlier(At(j), At(i))
                           \/ At(i) = At(j) /\ (IF newestFirst THEN i > j ELSE i < j)
<1>1. \A i \in DOMAIN table : At(i) \in Stamp /\ i \in Nat
  BY RowTypes
<1>2. \A i, j \in DOMAIN table : Precedes(i, j) <=> Before(i, j)
  BY <1>1, StampOrder DEF Precedes
<1> HIDE DEF At
<1>3. \A i \in DOMAIN table : ~ Before(i, i)
  BY <1>1, StampOrder
<1>4. \A i, j \in DOMAIN table : i # j => Before(i, j) \/ Before(j, i)
  BY <1>1, StampOrder
<1>5. ASSUME NEW i \in DOMAIN table, NEW j \in DOMAIN table, NEW k \in DOMAIN table,
             Before(i, j), Before(j, k)
      PROVE  Before(i, k)
  <2>1. CASE At(i) = At(j) /\ At(j) = At(k)
    BY <1>1, <1>5, <2>1, StampOrder
  <2>2. CASE At(i) # At(j) \/ At(j) # At(k)
    BY <1>1, <1>5, <2>2, StampOrder
  <2> QED
    BY <2>1, <2>2
<1> HIDE DEF Before
<1> QED
  BY <1>2, <1>3, <1>4, <1>5

UpToRow(S, i) == {j \in S : j = i \/ Precedes(j, i)}

LEMMA PlaceFacts ==
  ASSUME ListTypes, NEW S \in SUBSET (DOMAIN table)
  PROVE  /\ IsFiniteSet(S) /\ Cardinality(S) \in Nat
         /\ \A i \in S : Place(S, i) \in 1 .. Cardinality(S)
         /\ \A i, j \in S : Precedes(i, j) => Place(S, i) < Place(S, j)
<1>1. IsFiniteSet(S) /\ Cardinality(S) \in Nat
  <2>1. PICK n \in Nat : DOMAIN table = 1 .. n
    BY DEF ListTypes
  <2>2. IsFiniteSet(S)
    BY <2>1, UpTo, FS_Subset
  <2> QED
    BY <2>2, FS_CardinalityType
<1>2. \A i : /\ IsFiniteSet(UpToRow(S, i))
             /\ Cardinality(UpToRow(S, i)) \in Nat
             /\ Cardinality(UpToRow(S, i)) <= Cardinality(S)
  <2> SUFFICES ASSUME NEW i PROVE /\ IsFiniteSet(UpToRow(S, i))
                                  /\ Cardinality(UpToRow(S, i)) \in Nat
                                  /\ Cardinality(UpToRow(S, i)) <= Cardinality(S)
    OBVIOUS
  <2>1. PICK T \in SUBSET S : T = UpToRow(S, i)
    BY DEF UpToRow
  <2> QED
    BY <1>1, <2>1, FS_Subset, FS_CardinalityType
<1>3. \A i : Place(S, i) = Cardinality(UpToRow(S, i))
  BY DEF Place, UpToRow
<1>4. ASSUME NEW i \in S PROVE Place(S, i) \in 1 .. Cardinality(S)
  <2>1. UpToRow(S, i) # {}
    BY DEF UpToRow
  <2>2. PICK T : T = UpToRow(S, i)
    OBVIOUS
  <2>3. Cardinality(T) # 0
    BY <1>2, <2>1, <2>2, FS_EmptySet
  <2> QED
    BY <1>1, <1>2, <1>3, <2>2, <2>3
<1>5. ASSUME NEW i \in S, NEW j \in S, Precedes(i, j) PROVE Place(S, i) < Place(S, j)
  <2>1. PICK T, U : T = UpToRow(S, i) /\ U = UpToRow(S, j)
    OBVIOUS
  <2>2. T \subseteq U
    BY <1>5, <2>1, TotalOrder DEF UpToRow
  <2>3. j \in U /\ j \notin T
    BY <1>5, <2>1, TotalOrder DEF UpToRow
  <2>4. IsFiniteSet(U) /\ Cardinality(T) <= Cardinality(U) /\ Cardinality(T) # Cardinality(U)
    BY <1>2, <2>1, <2>2, <2>3, FS_Subset
  <2>5. Cardinality(T) \in Nat /\ Cardinality(U) \in Nat
    BY <1>2, <2>1
  <2> QED
    BY <1>3, <2>1, <2>4, <2>5
<1> QED
  BY <1>1, <1>4, <1>5

\* Every place is taken, by one row.
LEMMA PlacesTaken ==
  ASSUME ListTypes, NEW S \in SUBSET (DOMAIN table)
  PROVE  /\ \A i, j \in S : Place(S, i) = Place(S, j) => i = j
         /\ \A n \in 1 .. Cardinality(S) : \E i \in S : Place(S, i) = n
<1>1. \A i, j \in S : Place(S, i) = Place(S, j) => i = j
  <2> SUFFICES ASSUME NEW i \in S, NEW j \in S, i # j PROVE Place(S, i) # Place(S, j)
    OBVIOUS
  <2>1. Precedes(i, j) \/ Precedes(j, i)
    BY TotalOrder
  <2>2. Place(S, i) \in Nat /\ Place(S, j) \in Nat
    BY PlaceFacts
  <2>3. Place(S, i) < Place(S, j) \/ Place(S, j) < Place(S, i)
    BY <2>1, PlaceFacts
  <2> QED
    BY <2>2, <2>3
<1>2. PICK c \in Nat : c = Cardinality(S)
  BY PlaceFacts
<1>3. PICK T : T = 1 .. c /\ IsFiniteSet(T) /\ Cardinality(T) = c
  BY UpTo
<1>4. PICK p : p = [i \in S |-> Place(S, i)]
  OBVIOUS
<1>5. p \in [S -> T] /\ \A i, j \in S : p[i] = p[j] => i = j
  BY <1>1, <1>2, <1>3, <1>4, PlaceFacts
<1>6. p \in Injection(S, T)
  BY <1>5 DEF Injection, IsInjective
<1>7. p \in Surjection(S, T)
  BY <1>2, <1>3, <1>6, FS_Injection
<1>8. \A n \in T : \E i \in S : p[i] = n
  BY <1>7 DEF Surjection
<1> QED
  BY <1>1, <1>2, <1>3, <1>4, <1>8

LEMMA InOrderFacts ==
  ASSUME ListTypes, NEW S \in SUBSET (DOMAIN table)
  PROVE  /\ InOrder(S) \in [1 .. Cardinality(S) -> S]
         /\ \A n \in 1 .. Cardinality(S) : Place(S, InOrder(S)[n]) = n
         /\ \A i \in S : InOrder(S)[Place(S, i)] = i
<1>1. \A n \in 1 .. Cardinality(S) :
        InOrder(S)[n] \in S /\ Place(S, InOrder(S)[n]) = n
  BY PlacesTaken DEF InOrder
<1>2. InOrder(S) \in [1 .. Cardinality(S) -> S]
  BY <1>1 DEF InOrder
<1>3. \A i \in S : InOrder(S)[Place(S, i)] = i
  BY <1>1, PlaceFacts, PlacesTaken
<1> QED
  BY <1>1, <1>2, <1>3

Old(i) == i \in Selected /\ i <= before

\* Of the rows there were, those up to the offset are served: inserts only
\* move a row to a later place.
FirstPlacesServed ==
  offset > 0 => \A i \in Selected : Old(i) /\ Place(Selected, i) <= offset => i \in Range(seen)

\* No row that was there is served before one that precedes it.
ServedInTurn ==
  \A n \in DOMAIN seen : seen[n] <= before =>
    \A i \in Selected : Old(i) /\ Precedes(i, seen[n]) => \E m \in 1 .. n - 1 : seen[m] = i

EndedServed ==
  walk = "ended" /\ Limit(query.limit) # 0 => \A i \in Selected : Old(i) => i \in Range(seen)

OffsetInRows ==
  /\ offset = Len(seen) /\ offset <= Cardinality(Selected) /\ before <= Len(table)
  /\ walk = "none" => offset = 0

ServedSelected == \A n \in DOMAIN seen : seen[n] \in Selected

PageCapped == /\ query.limit.n >= 0 => Len(page) <= Cap
              /\ walk = "none" => Len(page) = 0

WalkInv == /\ ListTypes /\ OffsetInRows /\ ServedSelected /\ FirstPlacesServed
           /\ ServedInTurn /\ EndedServed /\ PageCapped

LEMMA LimitFacts ==
  ASSUME ListTypes, query.limit.form # "NaN"
  PROVE  /\ Limit(query.limit) \in Int /\ Limit(query.limit) <= Cap
         /\ query.limit.n >= 0 => Limit(query.limit) >= 0
<1>1. PICK l : l = query.limit /\ l \in LimitQuery \cup {NoLimit}
  BY DEF ListTypes
<1>2. CASE l.form = "absent"
  BY <1>1, <1>2, ListingAssumption DEF Limit
<1>3. CASE l.form # "absent"
  <2>1. l \in LimitQuery /\ l.n \in Int
    BY <1>1, <1>3, ListingAssumption DEF NoLimit, Limits
  <2> QED
    BY <1>1, <1>3, <2>1, ListingAssumption DEF Limit
<1> QED
  BY <1>2, <1>3

\* A page is the next places of the order, as many as the limit or the rows
\* that are left allow.
NextPlaces(cut, S, c, rows, k, limit) ==
  \E m \in k .. c :
    /\ cut \in Seq(S) /\ Len(cut) = m - k
    /\ \A j \in 1 .. m - k : cut[j] = rows[k + j]
    /\ m = k => limit = 0 \/ k = c
    /\ limit >= 0 => m - k <= limit

LEMMA CutFacts ==
  ASSUME NEW S, NEW c \in Nat, NEW rows \in [1 .. c -> S], NEW k \in 0 .. c, NEW limit \in Int
  PROVE  NextPlaces(Cut(rows, limit, k), S, c, rows, k, limit)
<1> DEFINE m == IF limit < 0 \/ k + limit > c THEN c ELSE k + limit
<1>1. rows \in Seq(S) /\ Len(rows) = c
  BY SeqDef
<1>2. Cut(rows, limit, k) = SubSeq(rows, k + 1, m)
  BY <1>1 DEF Cut, CutAt
<1>3. /\ m \in k .. c
      /\ m = k => limit = 0 \/ k = c
      /\ limit >= 0 => m - k <= limit
  OBVIOUS
<1> HIDE DEF m
<1>4. /\ SubSeq(rows, k + 1, m) \in Seq(S) /\ Len(SubSeq(rows, k + 1, m)) = m - k
      /\ \A j \in 1 .. m - k : SubSeq(rows, k + 1, m)[j] = rows[k + j]
  BY <1>1, <1>3
<1> QED
  BY <1>2, <1>3, <1>4 DEF NextPlaces

LEMMA SelectedRows == Selected \in SUBSET (DOMAIN table)
BY DEF Selected

(* Two sequences in a row: the first keeps its places, the second comes after. *)
LEMMA AppendedPlaces ==
  \A s, p \in Seq(Nat), k \in Nat :
    Len(s) = k => /\ s \o p \in Seq(Nat) /\ Len(s \o p) = k + Len(p)
                  /\ \A j \in 1 .. k : (s \o p)[j] = s[j]
                  /\ \A j \in k + 1 .. k + Len(p) : (s \o p)[j] = p[j - k]
<1> SUFFICES ASSUME NEW s \in Seq(Nat), NEW p \in Seq(Nat), NEW k \in Nat, Len(s) = k
             PROVE  /\ s \o p \in Seq(Nat) /\ Len(s \o p) = k + Len(p)
                    /\ \A j \in 1 .. k : (s \o p)[j] = s[j]
                    /\ \A j \in k + 1 .. k + Len(p) : (s \o p)[j] = p[j - k]
  OBVIOUS
<1>1. Len(s) \in Nat /\ Len(p) \in Nat
  OBVIOUS
<1>2. /\ s \o p \in Seq(Nat) /\ Len(s \o p) = k + Len(p)
      /\ \A j \in 1 .. k + Len(p) : (s \o p)[j] = IF j <= k THEN s[j] ELSE p[j - k]
  BY ConcatProperties
<1>3. ASSUME NEW j \in 1 .. k PROVE (s \o p)[j] = s[j]
  <2>1. j \in 1 .. k + Len(p) /\ j <= k
    BY <1>1
  <2> QED
    BY <1>2, <2>1
<1>4. ASSUME NEW j \in k + 1 .. k + Len(p) PROVE (s \o p)[j] = p[j - k]
  <2>1. j \in 1 .. k + Len(p) /\ ~(j <= k)
    BY <1>1
  <2> QED
    BY <1>2, <2>1
<1> QED
  BY <1>2, <1>3, <1>4

LEMMA ReadKeeps == WalkInv /\ ReadPage => WalkInv'
<1> SUFFICES ASSUME WalkInv, ReadPage PROVE WalkInv'
  OBVIOUS
<1>0. ListTypes /\ query.limit.form # "NaN"
  BY DEF WalkInv, ReadPage
<1>1. PICK S \in SUBSET (DOMAIN table) : S = Selected
  BY SelectedRows
<1>2. PICK c \in Nat : c = Cardinality(S)
  BY <1>0, PlaceFacts
<1>3. PICK k \in 0 .. c : k = offset /\ k = Len(seen)
  BY <1>0, <1>1, <1>2 DEF WalkInv, OffsetInRows, ListTypes
<1>4. PICK limit \in Int : /\ limit = Limit(query.limit) /\ limit <= Cap
                           /\ query.limit.n >= 0 => limit >= 0
  BY <1>0, LimitFacts
<1>5. PICK rows : rows = InOrder(S)
  OBVIOUS
<1>6. /\ rows \in [1 .. c -> S]
      /\ \A n \in 1 .. c : Place(S, rows[n]) = n
      /\ \A i \in S : rows[Place(S, i)] = i /\ Place(S, i) \in 1 .. c
      /\ \A i, j \in S : Precedes(i, j) => Place(S, i) < Place(S, j)
  BY <1>0, <1>2, <1>5, InOrderFacts, PlaceFacts
<1>7. PICK m \in k .. c :
        /\ page' \in Seq(S) /\ Len(page') = m - k
        /\ \A j \in 1 .. m - k : page'[j] = rows[k + j]
        /\ m = k => limit = 0 \/ k = c
        /\ limit >= 0 => m - k <= limit
  <2>1. page' = Cut(rows, limit, k)
    BY <1>1, <1>3, <1>4, <1>5 DEF ReadPage
  <2>2. NextPlaces(Cut(rows, limit, k), S, c, rows, k, limit)
    BY <1>6, CutFacts
  <2> QED
    BY <2>1, <2>2 DEF NextPlaces
<1>8. /\ seen' = seen \o page' /\ offset' = m
      /\ walk' = "ended" => m = k \/ m >= c
      /\ UNCHANGED <<table, now, query, before, newestFirst>>
  <2>1. /\ seen' = seen \o page' /\ offset' = offset + Len(page')
        /\ walk' = IF page' = <<>> \/ offset' >= Cardinality(Selected) THEN "ended" ELSE "on"
        /\ UNCHANGED <<table, now, query, before, newestFirst>>
    BY DEF ReadPage
  <2>2. offset' = m
    <3>1. offset' = k + (m - k)
      BY <1>3, <1>7, <2>1
    <3> QED
      BY <3>1
  <2>3. walk' = "ended" => page' = <<>> \/ m >= c
    BY <1>1, <1>2, <2>1, <2>2
  <2>4. page' = <<>> => m = k
    BY <1>7
  <2> QED
    BY <2>1, <2>2, <2>3, <2>4
<1>9. /\ seen' \in Seq(Nat) /\ page' \in Seq(Nat) /\ Len(seen') = m
      /\ \A j \in 1 .. k : seen'[j] = seen[j]
      /\ \A j \in k + 1 .. m : seen'[j] = rows[j]
  <2>1. seen \in Seq(Nat) /\ page' \in Seq(Nat)
    <3>1. S \subseteq Nat
      BY <1>0, RowTypes
    <3> QED
      BY <1>0, <1>7, <3>1, SeqMonotonic DEF ListTypes
  <2>2. PICK p \in Seq(Nat) : p = page'
    BY <2>1
  <2>3. PICK s \in Seq(Nat) : s = seen /\ Len(s) = k
    BY <1>3, <2>1
  <2>4. /\ s \o p \in Seq(Nat) /\ Len(s \o p) = k + Len(p)
        /\ \A j \in 1 .. k : (s \o p)[j] = s[j]
        /\ \A j \in k + 1 .. k + Len(p) : (s \o p)[j] = p[j - k]
    <3>1. k \in Nat /\ s \in Seq(Nat) /\ p \in Seq(Nat) /\ Len(s) = k
      BY <2>3
    <3> QED
      BY <3>1, AppendedPlaces, Zenon
  <2>5. ASSUME NEW j \in k + 1 .. m PROVE (s \o p)[j] = rows[j]
    <3>1. j - k \in 1 .. m - k /\ k + (j - k) = j /\ j \in k + 1 .. k + Len(p)
      <4>1. Len(p) = m - k
        BY <1>7, <2>2
      <4>2. j - k \in 1 .. m - k /\ k + (j - k) = j /\ k + (m - k) = m
        OBVIOUS
      <4> QED
        BY <4>1, <4>2
    <3>2. p[j - k] = rows[k + (j - k)]
      BY <1>7, <2>2, <3>1
    <3> QED
      BY <2>4, <3>1, <3>2
  <2>6. k + Len(p) = m
    BY <1>7, <2>2
  <2> QED
    BY <1>8, <2>1, <2>2, <2>3, <2>4, <2>5, <2>6
<1>10. /\ Selected' = S /\ ListTypes'
       /\ \A i : Place(S, i)' = Place(S, i)
       /\ \A i, j : Precedes(i, j)' <=> Precedes(i, j)
       /\ \A i : Old(i)' <=> Old(i)
  <2>1. Selected' = S
    BY <1>1, <1>8 DEF Selected, Matches
  <2>2. ListTypes'
    BY <1>0, <1>3, <1>8, <1>9 DEF ListTypes
  <2>3. \A i, j : Precedes(i, j)' <=> Precedes(i, j)
    BY <1>8 DEF Precedes
  <2>4. \A i : Place(S, i)' = Place(S, i)
    BY <1>8 DEF Place, Precedes
  <2> QED
    BY <1>1, <1>8, <2>1, <2>2, <2>3, <2>4 DEF Old
<1>11. ASSUME NEW i \in S, Old(i), Place(S, i) <= m
       PROVE  \E j \in 1 .. Place(S, i) \cup 1 .. k : j \in 1 .. m /\ seen'[j] = i
  <2>1. CASE Place(S, i) <= k
    <3>1. k > 0
      BY <1>6, <2>1
    <3>2. i \in Range(seen)
      BY <1>1, <1>3, <1>11, <2>1, <3>1 DEF WalkInv, FirstPlacesServed
    <3>3. PICK j \in 1 .. k : seen[j] = i
      BY <1>0, <1>3, <3>2 DEF Range, ListTypes
    <3> QED
      BY <1>9, <3>3
  <2>2. CASE Place(S, i) > k
    <3>1. Place(S, i) \in k + 1 .. m /\ Place(S, i) \in 1 .. m
      BY <1>6, <1>11, <2>2
    <3>2. seen'[Place(S, i)] = i
      BY <1>6, <1>9, <3>1
    <3> QED
      BY <3>1, <3>2
  <2> QED
    BY <1>6, <2>1, <2>2
<1>12. ASSUME NEW i \in S, Old(i), Place(S, i) <= m
       PROVE  i \in Range(seen')
  <2>1. PICK j \in 1 .. m : seen'[j] = i
    BY <1>11, <1>12
  <2>2. j \in DOMAIN seen'
    BY <1>9, <2>1
  <2> QED
    BY <2>1, <2>2 DEF Range
<1>13. ASSUME NEW n \in DOMAIN seen' PROVE seen'[n] \in S
  <2>1. n \in 1 .. k \/ n \in k + 1 .. m
    BY <1>9
  <2>2. n \in 1 .. k => seen[n] \in S
    BY <1>0, <1>1, <1>3 DEF WalkInv, ServedSelected, ListTypes
  <2>3. n \in k + 1 .. m => rows[n] \in S
    BY <1>6
  <2> QED
    BY <1>9, <2>1, <2>2, <2>3
<1>14. ASSUME NEW n \in DOMAIN seen', seen'[n] <= before, NEW i \in S, Old(i), Precedes(i, seen'[n])
       PROVE  \E j \in 1 .. n - 1 : seen'[j] = i
  <2>1. n \in 1 .. k \/ n \in k + 1 .. m
    BY <1>9
  <2>2. CASE n \in 1 .. k
    <3>1. seen'[n] = seen[n] /\ n \in DOMAIN seen
      BY <1>0, <1>3, <1>9, <2>2 DEF ListTypes
    <3>2. PICK j \in 1 .. n - 1 : seen[j] = i
      BY <1>1, <1>14, <3>1 DEF WalkInv, ServedInTurn
    <3>3. j \in 1 .. k
      BY <2>2, <3>2
    <3> QED
      BY <1>9, <3>2, <3>3
  <2>3. CASE n \in k + 1 .. m
    <3>1. seen'[n] = rows[n] /\ rows[n] \in S /\ Place(S, rows[n]) = n
      BY <1>6, <1>9, <2>3
    <3>2. Place(S, i) < n /\ Place(S, i) \in Nat
      BY <1>6, <1>14, <3>1
    <3>3. PICK j \in 1 .. Place(S, i) \cup 1 .. k : j \in 1 .. m /\ seen'[j] = i
      BY <1>11, <1>14, <2>3, <3>2
    <3>4. j \in 1 .. n - 1
      BY <2>3, <3>2, <3>3
    <3> QED
      BY <3>3, <3>4
  <2> QED
    BY <2>1, <2>2, <2>3
<1>15. limit # 0 /\ walk' = "ended" => \A i \in S : Old(i) => i \in Range(seen')
  <2>1. limit # 0 /\ walk' = "ended" => m = c
    BY <1>4, <1>7, <1>8
  <2> QED
    BY <1>6, <1>12, <2>1
<1>16. query.limit.n >= 0 => Len(page') <= Cap
  BY <1>4, <1>7, ListingAssumption
<1>17. walk' # "none"
  BY DEF ReadPage
<1>18. OffsetInRows'
  <2>1. before <= Len(table) /\ before' = before /\ table' = table
    BY <1>8 DEF WalkInv, OffsetInRows
  <2> QED
    BY <1>2, <1>8, <1>9, <1>10, <1>17, <2>1 DEF OffsetInRows
<1>19. FirstPlacesServed'
  BY <1>8, <1>10, <1>12 DEF FirstPlacesServed
<1>20. ServedInTurn'
  <2> SUFFICES ASSUME NEW n \in DOMAIN seen', seen'[n] <= before', NEW i \in S,
                      Old(i)', Precedes(i, seen[n])'
               PROVE  \E j \in 1 .. n - 1 : seen'[j] = i
    BY <1>10 DEF ServedInTurn
  <2>1. before' = before
    BY <1>8
  <2>2. Old(i)
    BY <1>10
  <2>3. Precedes(i, seen'[n])
    BY <1>8 DEF Precedes
  <2> QED
    BY <1>14, <2>1, <2>2, <2>3
<1>21. EndedServed'
  BY <1>4, <1>8, <1>10, <1>15 DEF EndedServed, Limit
<1>22. ServedSelected' /\ PageCapped'
  BY <1>8, <1>10, <1>13, <1>16, <1>17 DEF ServedSelected, PageCapped
<1> QED
  BY <1>10, <1>18, <1>19, <1>20, <1>21, <1>22 DEF WalkInv

LEMMA StampNow ==
  ASSUME NEW t \in Nat
  PROVE  Written("space", t) \in Stamp
<1>1. t \div SecondsPerDay \in Nat /\ t % SecondsPerDay \in 0 .. SecondsPerDay - 1
  BY QuotientAndRest, ListingAssumption
<1>2. Written("space", t)
        = [sep |-> "space", day |-> t \div SecondsPerDay, sec |-> t % SecondsPerDay]
  BY DEF Written
<1> QED
  BY <1>1, <1>2 DEF Stamp

LEMMA RecordKeeps == ASSUME WalkInv, NEW kd \in Kind, Record(kd) PROVE WalkInv'
<1>0. ListTypes /\ now \in Nat
  BY DEF WalkInv, ListTypes
<1>1. PICK S \in SUBSET (DOMAIN table) : S = Selected
  BY SelectedRows
<1>2. PICK len \in Nat : len = Len(table) /\ DOMAIN table = 1 .. len /\ before <= len
  BY <1>0, RowTypes DEF WalkInv, OffsetInRows
<1>3. PICK row \in TableRow : table' = Append(table, row)
  <2>1. [kind |-> kd, at |-> Written("space", now)] \in TableRow
    BY <1>0, StampNow DEF TableRow
  <2> QED
    BY <2>1 DEF Record
<1>4. /\ table' \in Seq(TableRow) /\ Len(table') = len + 1 /\ DOMAIN table' = 1 .. len + 1
      /\ \A i \in 1 .. len : table'[i] = table[i]
  <2>1. table \in Seq(TableRow)
    BY <1>0 DEF ListTypes
  <2> QED
    BY <1>2, <1>3, <2>1
<1>5. UNCHANGED <<now, query, walk, offset, page, seen, before, newestFirst>>
  BY DEF Record
<1>6. ListTypes'
  BY <1>0, <1>4, <1>5 DEF ListTypes
<1>7. PICK T : T = Selected' /\ T \subseteq 1 .. len + 1
  BY <1>4 DEF Selected
<1>8. \A i : i \in S <=> i \in T /\ i \in 1 .. len
  <2>1. \A i : i \in S <=> i \in 1 .. len /\ Matches(table[i])
    BY <1>1, <1>2 DEF Selected
  <2>2. \A i : i \in T <=> i \in 1 .. len + 1 /\ Matches(table[i])'
    BY <1>4, <1>7 DEF Selected
  <2>3. \A i \in 1 .. len : Matches(table[i])' <=> Matches(table[i])
    BY <1>4, <1>5 DEF Matches
  <2>4. \A i \in 1 .. len : i \in 1 .. len + 1
    OBVIOUS
  <2> QED
    BY <2>1, <2>2, <2>3, <2>4
<1>9. \A i, j \in 1 .. len : Precedes(i, j)' <=> Precedes(i, j)
  BY <1>4, <1>5 DEF Precedes
<1>10. IsFiniteSet(T) /\ \A U \in SUBSET T : IsFiniteSet(U) /\ Cardinality(U) \in Nat
  <2>1. PICK m \in Nat : m = len + 1
    OBVIOUS
  <2>2. IsFiniteSet(1 .. m)
    BY UpTo
  <2>3. IsFiniteSet(T)
    BY <1>7, <2>1, <2>2, FS_Subset
  <2> QED
    BY <2>3, FS_Subset, FS_CardinalityType
<1>11. Cardinality(S) <= Cardinality(T) /\ Cardinality(S) \in Nat /\ Cardinality(T) \in Nat
  <2>1. S \in SUBSET T
    BY <1>8, <1>1, <1>2
  <2> QED
    BY <1>10, <2>1, FS_Subset
<1>12. ASSUME NEW i \in S
       PROVE  /\ Place(T, i)' \in Nat /\ Place(S, i) \in Nat
              /\ Place(S, i) <= Place(T, i)'
  <2>1. PICK U : U = {j \in T : j = i \/ Precedes(j, i)'}
    OBVIOUS
  <2>2. PICK V : V = {j \in S : j = i \/ Precedes(j, i)}
    OBVIOUS
  <2>3. U \in SUBSET T /\ V \in SUBSET U
    BY <1>1, <1>2, <1>8, <1>9, <2>1, <2>2
  <2>4. Place(T, i)' = Cardinality(U)
    BY <2>1 DEF Place
  <2>5. Place(S, i) = Cardinality(V)
    BY <2>2 DEF Place
  <2>6. IsFiniteSet(U) /\ Cardinality(U) \in Nat /\ Cardinality(V) \in Nat
    BY <1>10, <2>3
  <2>7. Cardinality(V) <= Cardinality(U)
    BY <2>3, <2>6, FS_Subset
  <2> QED
    BY <2>4, <2>5, <2>6, <2>7
<1>13. ASSUME NEW i, Old(i)'
       PROVE  i \in S /\ Old(i)
  <2>1. i \in T /\ i <= before
    BY <1>5, <1>7, <1>13 DEF Old
  <2>2. before \in Nat
    BY <1>0 DEF ListTypes
  <2>3. i \in 1 .. len
    BY <1>2, <1>7, <2>1, <2>2
  <2> QED
    BY <1>1, <1>8, <2>1, <2>3 DEF Old
<1>14. FirstPlacesServed'
  <2> SUFFICES ASSUME offset' > 0, NEW i \in Selected', Old(i)', Place(Selected, i)' <= offset'
               PROVE  i \in Range(seen')
    BY DEF FirstPlacesServed
  <2>1. i \in S /\ Old(i)
    BY <1>13
  <2>2. Place(T, i)' <= offset /\ offset > 0 /\ offset \in Nat
    BY <1>0, <1>5, <1>7 DEF ListTypes, Place
  <2>3. Place(S, i) <= offset
    BY <1>12, <2>1, <2>2
  <2> QED
    BY <1>1, <1>5, <2>1, <2>2, <2>3 DEF WalkInv, FirstPlacesServed
<1>15. ServedInTurn'
  <2> SUFFICES ASSUME NEW n \in DOMAIN seen', seen'[n] <= before', NEW i \in Selected',
                      Old(i)', Precedes(i, seen[n])'
               PROVE  \E j \in 1 .. n - 1 : seen'[j] = i
    BY DEF ServedInTurn
  <2>1. i \in S /\ Old(i)
    BY <1>13
  <2>2. n \in DOMAIN seen /\ seen[n] \in S /\ seen[n] <= before
    BY <1>1, <1>5 DEF WalkInv, ServedSelected
  <2>3. Precedes(i, seen[n])
    <3>1. PICK x : x = seen[n] /\ seen'[n] = x
      BY <1>5
    <3>2. Precedes(i, x)'
      BY <1>5, <3>1 DEF Precedes
    <3> QED
      BY <1>1, <1>2, <1>9, <2>1, <2>2, <3>1, <3>2
  <2> QED
    BY <1>1, <1>5, <2>1, <2>2, <2>3 DEF WalkInv, ServedInTurn
<1>16. EndedServed'
  BY <1>1, <1>5, <1>13 DEF WalkInv, EndedServed, Limit
<1>17. OffsetInRows' /\ ServedSelected' /\ PageCapped'
  <2>1. OffsetInRows'
    <3>1. offset <= Cardinality(S) /\ offset \in Nat /\ before \in Nat
      BY <1>0, <1>1 DEF WalkInv, OffsetInRows, ListTypes
    <3>2. offset <= Cardinality(T) /\ before <= len + 1
      BY <1>2, <1>11, <3>1
    <3> QED
      BY <1>4, <1>5, <1>7, <3>2 DEF WalkInv, OffsetInRows
  <2>2. ServedSelected'
    BY <1>1, <1>5, <1>7, <1>8 DEF WalkInv, ServedSelected
  <2>3. PageCapped'
    BY <1>5 DEF WalkInv, PageCapped
  <2> QED
    BY <2>1, <2>2, <2>3
<1> QED
  BY <1>6, <1>14, <1>15, <1>16, <1>17 DEF WalkInv

LEMMA StartKeeps == WalkInv /\ Start => WalkInv'
<1> SUFFICES ASSUME WalkInv, Start PROVE WalkInv'
  OBVIOUS
<1>1. offset = 0 /\ offset = Len(seen) /\ seen = <<>> /\ ListTypes
  BY DEF Start, WalkInv, OffsetInRows, ListTypes
<1>2. /\ query'.limit \in LimitQuery /\ query'.from \in FromQuery /\ query'.to \in ToQuery
      /\ walk' = "on" /\ before' = Len(table)
      /\ UNCHANGED <<table, now, offset, page, seen, newestFirst>>
  BY DEF Start
<1>3. Len(table) \in Nat
  BY <1>1, RowTypes
<1>4. ListTypes'
  BY <1>1, <1>2, <1>3 DEF ListTypes
<1>5. OffsetInRows'
  <2>1. Selected' \in SUBSET (DOMAIN table)
    BY <1>2 DEF Selected
  <2>2. PICK T \in SUBSET (DOMAIN table) : T = Selected'
    BY <2>1
  <2>3. Cardinality(T) \in Nat
    BY <1>1, PlaceFacts
  <2> QED
    BY <1>1, <1>2, <1>3, <2>2, <2>3 DEF OffsetInRows
<1>6. DOMAIN seen' = {} /\ ~ (offset' > 0)
  BY <1>1, <1>2
<1>7. ServedSelected' /\ FirstPlacesServed' /\ ServedInTurn'
  BY <1>6 DEF ServedSelected, FirstPlacesServed, ServedInTurn
<1>8. EndedServed' /\ PageCapped'
  <2>1. Len(page') = 0 /\ Cap >= 0
    BY <1>2, ListingAssumption DEF Start, WalkInv, PageCapped
  <2> QED
    BY <1>2, <2>1 DEF EndedServed, PageCapped
<1> QED
  BY <1>4, <1>5, <1>7, <1>8 DEF WalkInv

LEMMA OtherKeeps ==
  WalkInv /\ (Tick \/ RefusePage \/ UNCHANGED listVars) => WalkInv'
<1> SUFFICES ASSUME WalkInv, Tick \/ RefusePage \/ UNCHANGED listVars PROVE WalkInv'
  OBVIOUS
<1>1. /\ UNCHANGED <<table, query, offset, page, seen, before, newestFirst>>
      /\ now' \in {now, now + 1} /\ walk' \in {walk, "error"}
  BY DEF Tick, RefusePage, listVars
<1>2. ListTypes'
  BY <1>1 DEF WalkInv, ListTypes
<1>3. Selected' = Selected /\ \A i : Old(i)' <=> Old(i)
  BY <1>1 DEF Selected, Matches, Old
<1>4. \A S, i : Place(S, i)' = Place(S, i)
  BY <1>1 DEF Place, Precedes
<1>5. OffsetInRows' /\ ServedSelected' /\ FirstPlacesServed' /\ EndedServed' /\ PageCapped'
  BY <1>1, <1>3, <1>4 DEF WalkInv, OffsetInRows, ServedSelected, FirstPlacesServed,
     EndedServed, PageCapped, Limit
<1>6. ServedInTurn'
  BY <1>1, <1>3 DEF WalkInv, ServedInTurn, Precedes
<1> QED
  BY <1>2, <1>5, <1>6 DEF WalkInv

LEMMA InitWalk == ListInit => WalkInv
<1> SUFFICES ASSUME ListInit PROVE WalkInv
  OBVIOUS
<1>1. ListTypes /\ Selected = {} /\ DOMAIN seen = {} /\ Len(page) = 0 /\ Len(seen) = 0 /\ Len(table) = 0
  BY DEF ListInit, ListTypes, Selected, NoLimit
<1>2. Cardinality({}) = 0
  BY FS_EmptySet
<1> QED
  BY <1>1, <1>2, ListingAssumption
     DEF ListInit, WalkInv, OffsetInRows, ServedSelected, FirstPlacesServed, ServedInTurn,
         EndedServed, PageCapped

LEMMA WalkInvariant == ListSpec => []WalkInv
<1>1. WalkInv /\ [ListNext]_listVars => WalkInv'
  BY ReadKeeps, RecordKeeps, StartKeeps, OtherKeeps DEF ListNext
<1> QED
  BY <1>1, InitWalk, PTL DEF ListSpec

\* The other forms of a bound.
Day   == [sep : {"end"}, day : Nat, sec : {0}]
TForm == [sep : {"T"}, day : Nat, sec : 0 .. SecondsPerDay - 1]

LEMMA BoundForms == FromQuery \cup ToQuery \subseteq Stamp \cup Day \cup TForm \cup {Absent}
BY ListingAssumption DEF Bounds, Stamp, Day, TForm

LEMMA Lexicographic ==
  ASSUME NEW p \in Nat \ {0}, NEW a \in Nat, NEW b \in Nat, NEW s \in 0 .. p - 1, NEW t \in 0 .. p - 1
  PROVE  a * p + s < b * p + t <=> a < b \/ (a = b /\ s < t)
<1>1. \A c, d \in Nat : \A r, u \in 0 .. p - 1 : c < d => c * p + r < d * p + u
  <2> SUFFICES ASSUME NEW c \in Nat, NEW d \in Nat, NEW r \in 0 .. p - 1, NEW u \in 0 .. p - 1, c < d
               PROVE  c * p + r < d * p + u
    OBVIOUS
  <2>1. c + 1 \in Nat /\ c + 1 <= d
    OBVIOUS
  <2>2. (c + 1) * p <= d * p
    BY <2>1, Monotone
  <2>3. (c + 1) * p = c * p + p /\ c * p \in Nat /\ d * p \in Nat
    OBVIOUS
  <2> QED
    BY <2>2, <2>3
<1>2. a * p \in Nat /\ b * p \in Nat
  OBVIOUS
<1>3. CASE a < b
  BY <1>1, <1>3
<1>4. CASE b < a
  <2>1. b * p + t < a * p + s
    BY <1>1, <1>4
  <2> QED
    BY <1>2, <1>4, <2>1
<1>5. CASE a = b
  BY <1>2, <1>5
<1> QED
  BY <1>3, <1>4, <1>5

LEMMA SecondsOf ==
  ASSUME NEW x \in Stamp \cup Day \cup TForm
  PROVE  x.day \in Nat /\ x.sec \in 0 .. SecondsPerDay - 1 /\ FirstSecond(x) \in Nat
<1>1. SecondsPerDay \in Nat \ {0}
  BY ListingAssumption
<1>2. x.day \in Nat /\ x.sec \in 0 .. SecondsPerDay - 1
  BY <1>1 DEF Stamp, Day, TForm
<1>3. x.day * SecondsPerDay \in Nat
  BY <1>1, <1>2
<1> QED
  BY <1>1, <1>2, <1>3 DEF FirstSecond

LEMMA SecondsOrder ==
  ASSUME NEW x \in Stamp \cup Day \cup TForm, NEW y \in Stamp \cup Day \cup TForm
  PROVE  FirstSecond(x) < FirstSecond(y) <=> x.day < y.day \/ (x.day = y.day /\ x.sec < y.sec)
<1>1. PICK a \in Nat, s \in 0 .. SecondsPerDay - 1 : a = x.day /\ s = x.sec
  BY SecondsOf
<1>2. PICK b \in Nat, t \in 0 .. SecondsPerDay - 1 : b = y.day /\ t = y.sec
  BY SecondsOf
<1>3. PICK p \in Nat \ {0} : p = SecondsPerDay
  BY ListingAssumption
<1>4. s \in 0 .. p - 1 /\ t \in 0 .. p - 1
  BY <1>1, <1>2, <1>3
<1>5. FirstSecond(x) = a * p + s
  BY <1>1, <1>3 DEF FirstSecond
<1>6. FirstSecond(y) = b * p + t
  BY <1>2, <1>3 DEF FirstSecond
<1>7. a * p + s < b * p + t <=> a < b \/ (a = b /\ s < t)
  BY <1>4, Lexicographic
<1> QED
  BY <1>1, <1>2, <1>5, <1>6, <1>7

\* Between a row and a bound with a space or a day as the first one, text is
\* compared as time is.
LEMMA TextIsTime ==
  /\ \A x \in Stamp, y \in Stamp \cup Day : TextLess(x, y) <=> FirstSecond(x) < FirstSecond(y)
  /\ \A x \in Stamp : LastSecond(x) = FirstSecond(x)
<1>1. ASSUME NEW x \in Stamp, NEW y \in Stamp \cup Day
      PROVE  TextLess(x, y) <=> FirstSecond(x) < FirstSecond(y)
  <2>1. FirstSecond(x) < FirstSecond(y) <=> x.day < y.day \/ (x.day = y.day /\ x.sec < y.sec)
    BY SecondsOrder
  <2>2. CASE y \in Stamp
    BY <2>1, <2>2, StampOrder DEF Earlier
  <2>3. CASE y \in Day
    <3>1. x.sep = "space" /\ y.sep = "end" /\ y.sec = 0 /\ x.sec \in Nat
      BY <2>3, SecondsOf, ListingAssumption DEF Stamp, Day
    <3>2. Rank("space") = 1 /\ Rank("end") = 0 /\ ~ (1 < 0)
      BY DEF Rank
    <3> QED
      BY <2>1, <3>1, <3>2 DEF TextLess
  <2> QED
    BY <2>2, <2>3
<1>2. ASSUME NEW x \in Stamp PROVE LastSecond(x) = FirstSecond(x)
  <2>1. x.sep = "space"
    BY DEF Stamp
  <2> QED
    BY <2>1 DEF LastSecond
<1> QED
  BY <1>1, <1>2

\* With a T, or a day as the last one, the days are compared.
LEMMA TextIsDays ==
  /\ \A x \in Stamp, y \in TForm : /\ TextLess(x, y) <=> x.day <= y.day
                                   /\ TextLess(y, x) <=> y.day < x.day
  /\ \A x \in Stamp, y \in Day : TextLess(y, x) <=> y.day <= x.day
<1>1. ASSUME NEW x \in Stamp, NEW y \in TForm
      PROVE  /\ TextLess(x, y) <=> x.day <= y.day
             /\ TextLess(y, x) <=> y.day < x.day
  <2>1. x.sep = "space" /\ y.sep = "T" /\ x.day \in Nat /\ y.day \in Nat
    BY SecondsOf DEF Stamp, TForm
  <2>2. Rank("space") = 1 /\ Rank("T") = 2 /\ ~ (2 < 1) /\ 1 < 2
    BY DEF Rank
  <2> QED
    BY <2>1, <2>2 DEF TextLess
<1>2. ASSUME NEW x \in Stamp, NEW y \in Day
      PROVE  TextLess(y, x) <=> y.day <= x.day
  <2>1. x.sep = "space" /\ y.sep = "end" /\ x.day \in Nat /\ y.day \in Nat
    BY SecondsOf DEF Stamp, Day
  <2>2. Rank("space") = 1 /\ Rank("end") = 0 /\ 0 < 1
    BY DEF Rank
  <2> QED
    BY <2>1, <2>2 DEF TextLess
<1> QED
  BY <1>1, <1>2

\* A day alone ends with its last second.
LEMMA DayEnds ==
  ASSUME NEW x \in Stamp, NEW y \in Day
  PROVE  FirstSecond(x) <= LastSecond(y) <=> x.day <= y.day
<1>1. PICK a \in Nat, s \in 0 .. SecondsPerDay - 1 : a = x.day /\ s = x.sec
  BY SecondsOf
<1>2. PICK b \in Nat : b = y.day /\ y.sec = 0 /\ y.sep = "end"
  BY DEF Day
<1>3. PICK p \in Nat \ {0} : p = SecondsPerDay
  BY ListingAssumption
<1>4. s \in 0 .. p - 1 /\ p - 1 \in 0 .. p - 1 /\ 0 \in 0 .. p - 1
  BY <1>1, <1>3
<1>5. FirstSecond(x) = a * p + s
  BY <1>1, <1>3 DEF FirstSecond
<1>6. LastSecond(y) = b * p + (p - 1)
  <2>1. LastSecond(y) = b * p + 0 + p - 1
    BY <1>2, <1>3 DEF FirstSecond, LastSecond
  <2>2. PICK bp \in Nat : bp = b * p
    OBVIOUS
  <2> QED
    BY <2>1, <2>2
<1>7. b * p + (p - 1) < a * p + s <=> b < a \/ (b = a /\ p - 1 < s)
  BY <1>4, Lexicographic
<1>8. a * p \in Nat /\ b * p \in Nat
  OBVIOUS
<1> QED
  BY <1>1, <1>2, <1>4, <1>5, <1>6, <1>7, <1>8

\* What the comparison does to a lower bound.
LEMMA FromFacts ==
  ASSUME NEW x \in Stamp, NEW y \in Stamp \cup Day \cup TForm
  PROVE  /\ ~ TextLess(x, y) => FirstSecond(x) >= FirstSecond(y)
         /\ FirstSecond(x) >= FirstSecond(y) => ~ TextLess(x, y) \/ (y.sep = "T" /\ x.day = y.day)
<1>1. FirstSecond(x) \in Nat /\ FirstSecond(y) \in Nat /\ x.day \in Nat /\ y.day \in Nat
  BY SecondsOf
<1>2. CASE y \in Stamp \cup Day
  BY <1>1, <1>2, TextIsTime
<1>3. CASE y \in TForm
  <2>1. FirstSecond(x) < FirstSecond(y) <=> x.day < y.day \/ (x.day = y.day /\ x.sec < y.sec)
    BY SecondsOrder
  <2>2. y.sep = "T"
    BY <1>3 DEF TForm
  <2>3. TextLess(x, y) <=> x.day <= y.day
    BY <1>3, TextIsDays
  <2> QED
    BY <1>1, <2>1, <2>2, <2>3
<1> QED
  BY <1>2, <1>3

\* And to an upper one.
LEMMA ToFacts ==
  ASSUME NEW x \in Stamp, NEW y \in Stamp \cup Day \cup TForm
  PROVE  /\ ~ TextLess(y, x) => FirstSecond(x) <= LastSecond(y) \/ (y.sep = "T" /\ x.day = y.day)
         /\ FirstSecond(x) <= LastSecond(y) => ~ TextLess(y, x) \/ (y.sep = "end" /\ x.day = y.day)
<1>1. FirstSecond(x) \in Nat /\ FirstSecond(y) \in Nat /\ x.day \in Nat /\ y.day \in Nat
  BY SecondsOf
<1>2. FirstSecond(y) < FirstSecond(x) <=> y.day < x.day \/ (y.day = x.day /\ y.sec < x.sec)
  BY SecondsOrder
<1>3. CASE y \in Stamp
  BY <1>1, <1>3, TextIsTime
<1>4. CASE y \in Day
  <2>1. y.sep = "end"
    BY <1>4 DEF Day
  <2> QED
    BY <1>1, <1>4, <2>1, TextIsDays, DayEnds
<1>5. CASE y \in TForm
  <2>1. y.sep = "T" /\ LastSecond(y) = FirstSecond(y)
    BY <1>5 DEF TForm, LastSecond
  <2> QED
    <3>1. TextLess(y, x) <=> y.day < x.day
      BY <1>5, TextIsDays
    <3> QED
      BY <1>1, <1>2, <2>1, <3>1
<1> QED
  BY <1>3, <1>4, <1>5

LEMMA WantedIsSelected ==
  ASSUME ListTypes, NEW row \in TableRow
  PROVE  /\ Wanted(row) => Matches(row) \/ LostToText(row)
         /\ Matches(row) => Wanted(row) \/ (query.to.sep = "T" /\ row.at.day = query.to.day)
<1>1. PICK x : x = row.at /\ x \in Stamp
  BY DEF TableRow
<1>2. PICK from : from = query.from /\ from \in Stamp \cup Day \cup TForm \cup {Absent}
  BY BoundForms DEF ListTypes
<1>3. PICK to : to = query.to /\ to \in Stamp \cup Day \cup TForm \cup {Absent}
  BY BoundForms DEF ListTypes
<1>4. from # Absent =>
        /\ ~ TextLess(x, from) => FirstSecond(x) >= FirstSecond(from)
        /\ FirstSecond(x) >= FirstSecond(from) =>
             ~ TextLess(x, from) \/ (from.sep = "T" /\ x.day = from.day)
  BY <1>1, <1>2, FromFacts
<1>5. to # Absent =>
        /\ ~ TextLess(to, x) => FirstSecond(x) <= LastSecond(to) \/ (to.sep = "T" /\ x.day = to.day)
        /\ FirstSecond(x) <= LastSecond(to) =>
             ~ TextLess(to, x) \/ (to.sep = "end" /\ x.day = to.day)
  BY <1>1, <1>3, ToFacts
<1> QED
  BY <1>1, <1>2, <1>3, <1>4, <1>5 DEF Wanted, Matches, LostToText

\* Math.min of the route caps every page, for every cap, every list and every
\* limit that is not negative.
THEOREM PagesAreCapped == ListSpec => []PageBounded
<1>1. WalkInv => PageBounded
  BY DEF WalkInv, PageCapped, PageBounded
<1> QED
  BY <1>1, WalkInvariant, PTL

\* A client that walks the pages of listTransactions to the end misses no row of
\* its period that was there but those of the day that its bounds lose as text,
\* for every cap, default, form of the bounds and limit but 0, however long the
\* list, whatever is inserted meanwhile.
THEOREM WalkMissesNothing == ListSpec => []NothingMissed
<1>1. WalkInv => NothingMissed
  <2> SUFFICES ASSUME WalkInv, walk = "ended", Limit(query.limit) # 0,
                      NEW i \in 1 .. before, Wanted(table[i]), ~ LostToText(table[i])
               PROVE  i \in Range(seen)
    BY DEF NothingMissed
  <2>1. ListTypes /\ before \in Nat /\ before <= Len(table)
    BY DEF WalkInv, OffsetInRows, ListTypes
  <2>2. i \in DOMAIN table /\ i <= before
    BY <2>1, RowTypes
  <2>3. Matches(table[i])
    <3>1. table[i] \in TableRow
      BY <2>1, <2>2, RowTypes
    <3> QED
      BY <2>1, <3>1, WantedIsSelected
  <2> QED
    BY <2>2, <2>3 DEF WalkInv, EndedServed, Old, Selected
<1> QED
  BY <1>1, WalkInvariant, PTL

LEMMA FirstServedFacts ==
  ASSUME ListTypes, NEW i \in Range(seen)
  PROVE  /\ FirstServed(i) \in DOMAIN seen /\ seen[FirstServed(i)] = i
         /\ \A m \in DOMAIN seen : seen[m] = i => FirstServed(i) <= m
<1>1. PICK k \in Nat : DOMAIN seen = 1 .. k
  BY DEF ListTypes
<1>2. PICK T : T = {n \in 1 .. k : seen[n] = i}
  OBVIOUS
<1>3. T \in SUBSET Nat /\ T # {}
  BY <1>1, <1>2 DEF Range
<1>4. PICK f \in T : \A n \in T : f <= n
  BY <1>3, LeastNumber
<1>5. /\ f \in DOMAIN seen /\ seen[f] = i
      /\ \A m \in 1 .. f - 1 : seen[m] # i
  <2>1. f \in 1 .. k /\ seen[f] = i
    BY <1>1, <1>2
  <2>2. ASSUME NEW m \in 1 .. f - 1 PROVE seen[m] # i
    <3>1. m \in 1 .. k /\ m < f
      BY <2>1
    <3>2. m \in T => f <= m
      BY <1>4
    <3>3. m \notin T
      BY <2>1, <3>1, <3>2
    <3> QED
      BY <1>1, <1>2, <3>1, <3>3
  <2> QED
    BY <1>1, <2>1, <2>2
<1>6. PICK g : /\ g = FirstServed(i) /\ g \in DOMAIN seen /\ seen[g] = i
               /\ \A m \in 1 .. g - 1 : seen[m] # i
  BY <1>5 DEF FirstServed
<1>7. ASSUME NEW m \in DOMAIN seen, seen[m] = i PROVE g <= m
  <2>1. g \in Nat /\ m \in Nat /\ m >= 1
    BY <1>1, <1>6, <1>7
  <2>2. m < g => m \in 1 .. g - 1
    BY <2>1
  <2> QED
    BY <1>6, <1>7, <2>1, <2>2
<1> QED
  BY <1>6, <1>7

\* The rows at the places up to the offset are as many as the offset.
LEMMA OffsetCounts ==
  ASSUME ListTypes, NEW S \in SUBSET (DOMAIN table), NEW k \in Nat, k <= Cardinality(S)
  PROVE  k <= Cardinality({i \in S : Place(S, i) <= k})
<1>1. PICK c \in Nat : c = Cardinality(S) /\ IsFiniteSet(S)
  BY PlaceFacts
<1>2. PICK P \in SUBSET S : P = {i \in S : Place(S, i) <= k}
  OBVIOUS
<1>3. PICK T : T = 1 .. k /\ IsFiniteSet(T) /\ Cardinality(T) = k
  BY UpTo
<1>4. \A n \in T : InOrder(S)[n] \in S /\ Place(S, InOrder(S)[n]) = n /\ n <= k
  <2>1. \A n \in T : n \in 1 .. Cardinality(S) /\ n <= k
    BY <1>1, <1>3
  <2> QED
    BY <2>1, InOrderFacts
<1>5. PICK q : q = [n \in T |-> InOrder(S)[n]]
  OBVIOUS
<1>6. q \in [T -> P]
  BY <1>2, <1>4, <1>5
<1>7. \A m, n \in T : q[m] = q[n] => m = n
  BY <1>4, <1>5
<1>8. q \in Injection(T, P)
  BY <1>6, <1>7 DEF Injection, IsInjective
<1>9. IsFiniteSet(P)
  BY <1>1, <1>2, FS_Subset
<1>10. Cardinality(T) <= Cardinality(P)
  BY <1>8, <1>9, FS_Injection
<1> QED
  BY <1>2, <1>3, <1>10

\* A row is served again at most once for each row that came in.
LEMMA FewRepeats ==
  ASSUME WalkInv
  PROVE  Len(seen) <= Cardinality(Range(seen)) + Len(table) - before
<1>0. ListTypes
  BY DEF WalkInv
<1>1. PICK S \in SUBSET (DOMAIN table) : S = Selected
  BY SelectedRows
<1>2. PICK len \in Nat : len = Len(table) /\ DOMAIN table = 1 .. len
  BY <1>0, RowTypes
<1>3. PICK b \in Nat : b = before /\ b <= len
  BY <1>0, <1>2 DEF WalkInv, OffsetInRows, ListTypes
<1>4. PICK k \in Nat : k = offset /\ k = Len(seen) /\ k <= Cardinality(S)
  BY <1>0, <1>1 DEF WalkInv, OffsetInRows, ListTypes
<1>5. PICK R : R = Range(seen)
  OBVIOUS
<1>6. PICK P \in SUBSET S : P = {i \in S : Place(S, i) <= k} /\ k <= Cardinality(P)
  BY <1>0, <1>4, OffsetCounts
<1>7. PICK N : N = b + 1 .. len /\ IsFiniteSet(N) /\ Cardinality(N) = len - b
  <2>1. \A x, y \in Int : IsFiniteSet(x .. y) /\ Cardinality(x .. y) = IF x > y THEN 0 ELSE y - x + 1
    BY FS_Interval
  <2>2. b + 1 \in Int /\ len \in Int
    OBVIOUS
  <2>3. /\ IsFiniteSet(b + 1 .. len)
        /\ Cardinality(b + 1 .. len) = IF b + 1 > len THEN 0 ELSE len - (b + 1) + 1
    BY <2>1, <2>2
  <2> QED
    BY <1>3, <2>3
<1>8. IsFiniteSet(R)
  <2>1. R \in SUBSET (DOMAIN table)
    BY <1>1, <1>5 DEF WalkInv, ServedSelected, Range
  <2> QED
    BY <1>0, <2>1, PlaceFacts
<1>9. P \subseteq R \cup N
  <2> SUFFICES ASSUME NEW i \in P, i \notin N PROVE i \in R
    OBVIOUS
  <2>1. i \in S /\ i \in 1 .. len /\ Place(S, i) <= k
    BY <1>2, <1>6
  <2>2. i <= b
    BY <1>7, <2>1
  <2>3. Place(S, i) \in Nat /\ Place(S, i) >= 1
    <3>1. Place(S, i) \in 1 .. Cardinality(S) /\ Cardinality(S) \in Nat
      BY <1>0, <2>1, PlaceFacts
    <3> QED
      BY <3>1
  <2>4. k > 0
    BY <2>1, <2>3
  <2> QED
    BY <1>1, <1>3, <1>4, <1>5, <2>1, <2>2, <2>4 DEF WalkInv, FirstPlacesServed, Old
<1>10. /\ IsFiniteSet(R \cup N)
       /\ Cardinality(R \cup N) = Cardinality(R) + Cardinality(N) - Cardinality(R \cap N)
  BY <1>7, <1>8, FS_Union
<1>11. /\ Cardinality(R) \in Nat /\ Cardinality(R \cap N) \in Nat
       /\ Cardinality(R \cup N) \in Nat /\ Cardinality(P) \in Nat
  <2>1. IsFiniteSet(R \cap N) /\ IsFiniteSet(P)
    BY <1>8, <1>9, <1>10, FS_Subset
  <2> QED
    BY <1>8, <1>10, <2>1, FS_CardinalityType
<1>12. Cardinality(P) <= Cardinality(R \cup N)
  BY <1>9, <1>10, FS_Subset
<1>13. k <= Cardinality(R) + (len - b)
  BY <1>3, <1>6, <1>7, <1>10, <1>11, <1>12
<1>14. (Cardinality(R) + len) - b = Cardinality(R) + (len - b)
  BY <1>11
<1> QED
  BY <1>2, <1>3, <1>4, <1>5, <1>11, <1>13, <1>14

\* What listTransactions serves over all pages of a walk is of the period asked
\* for, or of the last day of an upper bound with a T, and newest first, and
\* repeats no more rows than handlers inserted between the pages, for every limit,
\* also 0 and negative ones, every form of the bounds and every order of ties.
THEOREM WalksAreOrderly == ListSpec => []WalkIsOrderly
<1>1. ASSUME WalkInv, NEW n \in DOMAIN seen
      PROVE  \/ Wanted(table[seen[n]])
             \/ query.to.sep = "T" /\ table[seen[n]].at.day = query.to.day
  <2>1. ListTypes /\ seen[n] \in Selected
    BY <1>1 DEF WalkInv, ServedSelected
  <2>2. seen[n] \in DOMAIN table /\ Matches(table[seen[n]])
    BY <2>1 DEF Selected
  <2>3. table[seen[n]] \in TableRow
    BY <2>1, <2>2, RowTypes
  <2> QED
    BY <2>1, <2>2, <2>3, WantedIsSelected
<1>2. ASSUME WalkInv, NEW i \in Range(seen) \cap 1 .. before, NEW j \in Range(seen) \cap 1 .. before,
             FirstSecond(table[i].at) > FirstSecond(table[j].at)
      PROVE  FirstServed(i) < FirstServed(j)
  <2>1. ListTypes /\ before \in Nat
    BY <1>2 DEF WalkInv, ListTypes
  <2>2. i \in Selected /\ j \in Selected /\ i <= before /\ j <= before
    BY <1>2, <2>1 DEF WalkInv, ServedSelected, Range
  <2>3. PICK x, y : x = table[i].at /\ x \in Stamp /\ y = table[j].at /\ y \in Stamp
    BY <2>1, <2>2, RowTypes, SelectedRows
  <2>4. FirstSecond(x) \in Nat /\ FirstSecond(y) \in Nat
    BY <2>3, SecondsOf
  <2>5. FirstSecond(y) < FirstSecond(x)
    BY <1>2, <2>3, <2>4
  <2>6. TextLess(y, x)
    BY <2>3, <2>5, TextIsTime
  <2>7. Precedes(i, j)
    BY <2>3, <2>6 DEF Precedes
  <2>8. PICK f \in DOMAIN seen : f = FirstServed(j) /\ seen[f] = j
    BY <1>2, <2>1, FirstServedFacts
  <2>9. PICK m \in 1 .. f - 1 : seen[m] = i
    BY <1>2, <2>2, <2>7, <2>8 DEF WalkInv, ServedInTurn, Old
  <2>10. m \in DOMAIN seen /\ m < f /\ m \in Nat /\ f \in Nat
    BY <2>1, <2>8, <2>9 DEF ListTypes
  <2>11. FirstServed(i) <= m /\ FirstServed(i) \in Nat
    <3>1. FirstServed(i) \in DOMAIN seen /\ FirstServed(i) <= m
      BY <1>2, <2>1, <2>9, <2>10, FirstServedFacts
    <3> QED
      BY <2>1, <3>1 DEF ListTypes
  <2> QED
    BY <2>8, <2>10, <2>11
<1>3. WalkInv => WalkIsOrderly
  BY <1>1, <1>2, FewRepeats DEF WalkIsOrderly
<1> QED
  BY <1>3, WalkInvariant, PTL
=============================================================================
