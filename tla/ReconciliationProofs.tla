------------------------ MODULE ReconciliationProofs ------------------------
(***************************************************************************)
(* What an operator adds up, and what is promised of one transfer or of    *)
(* one request at a time: the circumstances of each theorem are predicates *)
(* on the constants, and a theorem without them holds under every fault.   *)
(* A sum over a finite set is SumFunctionOnSet, a fold that takes elements *)
(* in an order nobody knows; the first section gives the equations that    *)
(* the other sections use of it.                                           *)
(***************************************************************************)
EXTENDS LedgerProofs, Reconciliation, FiniteSetTheorems, WellFoundedInduction

-----------------------------------------------------------------------------
(* Sums over finite sets.                                                 *)

Sum(f, S) == SumFunctionOnSet(f, S)

\* The element that the fold takes first, and what its recursive function g is.
First(s) == CHOOSE x \in s : TRUE

Recurs(g, f, T) ==
  g = [s \in SUBSET T |-> IF s = {} THEN 0 ELSE f[First(s)] + g[s \ {First(s)}]]

Fold(f, T) == CHOOSE g : Recurs(g, f, T)

\* Of some subsets of a finite set, one has none of the others inside.
LEMMA Smallest ==
  ASSUME NEW S, IsFiniteSet(S), NEW Bad \in SUBSET (SUBSET S), Bad # {}
  PROVE  \E T \in Bad : \A U \in Bad : U \subseteq T => U = T
<1> DEFINE R == StrictSubsetOrdering(S)
<1>1. IsWellFoundedOn(R, FiniteSubsetsOf(S))
  BY FS_StrictSubsetOrderingWellFounded
<1>2. Bad \subseteq FiniteSubsetsOf(S)
  BY FS_Subset DEF FiniteSubsetsOf
<1>3. ASSUME NEW T \in Bad, NEW U \in Bad, U \subseteq T, U # T
      PROVE  <<U, T>> \in R
  BY <1>3 DEF StrictSubsetOrdering
<1> HIDE DEF R
<1>4. PICK T \in Bad : \A U \in Bad : <<U, T>> \notin R
  BY <1>1, <1>2, WFMin
<1> QED
  BY <1>3, <1>4

\* The recursive functions of two sets agree on the subsets of both.
LEMMA FoldsAgree ==
  ASSUME NEW f, NEW T, NEW U, IsFiniteSet(T), NEW g, NEW h,
         Recurs(g, f, T), Recurs(h, f, U)
  PROVE  \A s : s \subseteq T /\ s \subseteq U => g[s] = h[s]
<1> DEFINE Bad == {x \in SUBSET T : x \subseteq U /\ g[x] # h[x]}
<1>1. ASSUME Bad # {} PROVE FALSE
  <2>1. Bad \in SUBSET (SUBSET T)
    OBVIOUS
  <2>2. PICK x \in Bad : \A y \in Bad : y \subseteq x => y = x
    <3> HIDE DEF Bad
    <3> QED
      BY <1>1, <2>1, Smallest
  <2>3. x \in SUBSET T /\ x \in SUBSET U /\ g[x] # h[x]
    BY <2>2
  <2>4. /\ g[x] = IF x = {} THEN 0 ELSE f[First(x)] + g[x \ {First(x)}]
        /\ h[x] = IF x = {} THEN 0 ELSE f[First(x)] + h[x \ {First(x)}]
    BY <2>3 DEF Recurs
  <2>5. x # {} /\ g[x \ {First(x)}] # h[x \ {First(x)}]
    BY <2>3, <2>4
  <2>6. First(x) \in x /\ x \ {First(x)} \in Bad
    BY <2>3, <2>5 DEF First
  <2> QED
    BY <2>2, <2>6
<1> QED
  BY <1>1

\* A finite set has such a function.
LEMMA FoldExists ==
  ASSUME NEW f, NEW S, IsFiniteSet(S)
  PROVE  \A T \in SUBSET S : Recurs(Fold(f, T), f, T)
<1> DEFINE Bad == {T \in SUBSET S : ~ Recurs(Fold(f, T), f, T)}
<1>1. ASSUME Bad # {} PROVE FALSE
  <2>1. Bad \in SUBSET (SUBSET S)
    OBVIOUS
  <2>2. PICK T \in Bad : \A U \in Bad : U \subseteq T => U = T
    <3> HIDE DEF Bad
    <3> QED
      BY <1>1, <2>1, Smallest
  <2>3. \A U \in SUBSET T : U # T => Recurs(Fold(f, U), f, U) /\ IsFiniteSet(U)
    BY <2>2, FS_Subset
  <2> DEFINE Below(s) == Fold(f, s)[s]
             g == [s \in SUBSET T |-> IF s = {} THEN 0
                                      ELSE f[First(s)] + Below(s \ {First(s)})]
  <2>4. ASSUME NEW s \in SUBSET T, s # {}
        PROVE  Below(s \ {First(s)}) = g[s \ {First(s)}]
    <3> DEFINE u == s \ {First(s)}
    <3>1. u \in SUBSET T /\ u # T
      BY <2>4 DEF First
    <3>2. Recurs(Fold(f, u), f, u) /\ IsFiniteSet(u)
      BY <2>3, <3>1
    <3>3. Fold(f, u)[u] = IF u = {} THEN 0 ELSE f[First(u)] + Fold(f, u)[u \ {First(u)}]
      BY <3>2 DEF Recurs
    <3>4. ASSUME u # {}
          PROVE  Fold(f, u)[u \ {First(u)}] = Below(u \ {First(u)})
      <4>1. u \ {First(u)} \in SUBSET u /\ u \ {First(u)} \in SUBSET T /\ u \ {First(u)} # T
        BY <3>1
      <4>2. Recurs(Fold(f, u \ {First(u)}), f, u \ {First(u)})
        BY <2>3, <4>1
      <4> HIDE DEF u
      <4> QED
        BY <3>2, <4>1, <4>2, FoldsAgree
    <3> HIDE DEF u
    <3> QED
      BY <3>1, <3>3, <3>4 DEF u
  <2>5. Recurs(g, f, T)
    <3> HIDE DEF Below
    <3> SUFFICES \A s \in SUBSET T : s # {} => g[s] = f[First(s)] + g[s \ {First(s)}]
      BY DEF Recurs
    <3> QED
      BY <2>4
  <2>6. Recurs(Fold(f, T), f, T)
    <3> HIDE DEF g
    <3> QED
      BY <2>5 DEF Fold
  <2> QED
    BY <2>2, <2>6
<1> QED
  BY <1>1

LEMMA SumEquation ==
  ASSUME NEW f, NEW S, IsFiniteSet(S)
  PROVE  /\ S = {} => Sum(f, S) = 0
         /\ S # {} => /\ First(S) \in S
                      /\ Sum(f, S) = f[First(S)] + Sum(f, S \ {First(S)})
<1>1. \A T : Sum(f, T) = Fold(f, T)[T]
  BY DEF Sum, SumFunctionOnSet, FoldFunctionOnSet, MapThenFoldSet, Recurs, First, Fold
<1>2. \A T \in SUBSET S : Recurs(Fold(f, T), f, T)
  BY FoldExists
<1>3. Sum(f, S) = IF S = {} THEN 0 ELSE f[First(S)] + Fold(f, S)[S \ {First(S)}]
  BY <1>1, <1>2 DEF Recurs
<1>4. Fold(f, S)[S \ {First(S)}] = Sum(f, S \ {First(S)})
  <2>1. PICK u \in SUBSET S : u = S \ {First(S)}
    OBVIOUS
  <2>2. Recurs(Fold(f, S), f, S) /\ Recurs(Fold(f, u), f, u)
    BY <1>2, <2>1
  <2>3. Fold(f, S)[u] = Fold(f, u)[u]
    BY <2>2, FoldsAgree
  <2> QED
    BY <1>1, <2>1, <2>3
<1> QED
  BY <1>3, <1>4 DEF First

LEMMA SumType ==
  ASSUME NEW S, IsFiniteSet(S), NEW f, NEW N, N \in {Nat, Int}, \A x \in S : f[x] \in N
  PROVE  Sum(f, S) \in N
<1> DEFINE Bad == {T \in SUBSET S : Sum(f, T) \notin N}
<1>1. ASSUME Bad # {} PROVE FALSE
  <2>1. Bad \in SUBSET (SUBSET S)
    OBVIOUS
  <2>2. PICK T \in Bad : \A U \in Bad : U \subseteq T => U = T
    <3> HIDE DEF Bad
    <3> QED
      BY <1>1, <2>1, Smallest
  <2>3. IsFiniteSet(T) /\ T \subseteq S
    BY <2>2, FS_Subset
  <2>4. T # {} /\ First(T) \in T /\ Sum(f, T) = f[First(T)] + Sum(f, T \ {First(T)})
    <3>1. T # {}
      <4>1. 0 \in N
        OBVIOUS
      <4>2. T = {} => Sum(f, T) = 0
        BY <2>3, SumEquation
      <4> QED
        BY <2>2, <4>1, <4>2
    <3> QED
      BY <2>3, <3>1, SumEquation
  <2>5. Sum(f, T \ {First(T)}) \in N
    BY <2>2, <2>3, <2>4
  <2> QED
    BY <2>2, <2>3, <2>4, <2>5
<1> QED
  BY <1>1

\* Any element may be taken first.
LEMMA SumSplit ==
  ASSUME NEW S, IsFiniteSet(S), NEW f, \A x \in S : f[x] \in Int
  PROVE  \A y \in S : Sum(f, S) = f[y] + Sum(f, S \ {y})
<1> DEFINE Bad == {T \in SUBSET S : \E y \in T : Sum(f, T) # f[y] + Sum(f, T \ {y})}
<1>1. ASSUME Bad # {} PROVE FALSE
  <2>1. Bad \in SUBSET (SUBSET S)
    OBVIOUS
  <2>2. PICK T \in Bad : \A U \in Bad : U \subseteq T => U = T
    <3> HIDE DEF Bad
    <3> QED
      BY <1>1, <2>1, Smallest
  <2>3. IsFiniteSet(T) /\ T \subseteq S
    BY <2>2, FS_Subset
  <2>4. PICK y \in T : Sum(f, T) # f[y] + Sum(f, T \ {y})
    BY <2>2
  <2>5. PICK x \in T : Sum(f, T) = f[x] + Sum(f, T \ {x})
    BY <2>3, <2>4, SumEquation
  <2>6. x # y /\ T \ {x} \notin Bad /\ T \ {y} \notin Bad
    BY <2>2, <2>4, <2>5
  <2> DEFINE rest == (T \ {x}) \ {y}
  <2>7. /\ Sum(f, T \ {x}) = f[y] + Sum(f, rest)
        /\ Sum(f, T \ {y}) = f[x] + Sum(f, rest)
    <3>1. (T \ {y}) \ {x} = rest
      OBVIOUS
    <3>2. Sum(f, T \ {y}) = f[x] + Sum(f, (T \ {y}) \ {x})
      BY <2>3, <2>6
    <3> QED
      BY <2>3, <2>6, <3>1, <3>2
  <2>8. f[x] \in Int /\ f[y] \in Int /\ Sum(f, rest) \in Int
    <3>1. IsFiniteSet(rest) /\ \A z \in rest : f[z] \in Int
      BY <2>3, FS_Subset
    <3> HIDE DEF rest
    <3>2. Sum(f, rest) \in Int
      BY <3>1, SumType
    <3> QED
      BY <2>3, <3>2
  <2> HIDE DEF rest
  <2>9. f[x] + (f[y] + Sum(f, rest)) = f[y] + (f[x] + Sum(f, rest))
    BY <2>8
  <2> QED
    BY <2>4, <2>5, <2>7, <2>9
<1> QED
  BY <1>1

\* What the proofs below use of sums.
LEMMA SumAdds ==
  ASSUME NEW S, IsFiniteSet(S), NEW f, \A x \in S : f[x] \in Int,
         NEW y, y \notin S, f[y] \in Int
  PROVE  Sum(f, S \cup {y}) = Sum(f, S) + f[y] /\ IsFiniteSet(S \cup {y})
<1>1. IsFiniteSet(S \cup {y}) /\ (S \cup {y}) \ {y} = S
  BY FS_AddElement
<1>2. Sum(f, S \cup {y}) = f[y] + Sum(f, S)
  <2>1. PICK T : T = S \cup {y}
    OBVIOUS
  <2>2. IsFiniteSet(T) /\ y \in T /\ (\A x \in T : f[x] \in Int) /\ T \ {y} = S
    BY <1>1, <2>1
  <2>3. Sum(f, T) = f[y] + Sum(f, T \ {y})
    BY <2>2, SumSplit
  <2> QED
    BY <2>1, <2>2, <2>3
<1>3. Sum(f, S) \in Int
  BY SumType
<1>4. \A i, j \in Int : i + j = j + i
  OBVIOUS
<1> QED
  BY <1>1, <1>2, <1>3, <1>4

LEMMA SumSame ==
  ASSUME NEW S, IsFiniteSet(S), NEW f, NEW g, \A x \in S : f[x] = g[x]
  PROVE  Sum(f, S) = Sum(g, S)
<1> DEFINE Bad == {T \in SUBSET S : Sum(f, T) # Sum(g, T)}
<1>1. ASSUME Bad # {} PROVE FALSE
  <2>1. Bad \in SUBSET (SUBSET S)
    OBVIOUS
  <2>2. PICK T \in Bad : \A U \in Bad : U \subseteq T => U = T
    <3> HIDE DEF Bad
    <3> QED
      BY <1>1, <2>1, Smallest
  <2>3. IsFiniteSet(T) /\ T \subseteq S
    BY <2>2, FS_Subset
  <2>4. /\ T # {} /\ First(T) \in T
        /\ Sum(f, T) = f[First(T)] + Sum(f, T \ {First(T)})
        /\ Sum(g, T) = g[First(T)] + Sum(g, T \ {First(T)})
    BY <2>2, <2>3, SumEquation
  <2>5. T \ {First(T)} \notin Bad
    BY <2>2, <2>4
  <2> QED
    BY <2>2, <2>3, <2>4, <2>5
<1> QED
  BY <1>1

\* A function that is extended, or changed at one element.
LEMMA SumGrows ==
  ASSUME NEW S, IsFiniteSet(S), NEW f, NEW g, NEW y, y \notin S, NEW T, T = S \cup {y},
         \A x \in S : f[x] \in Int /\ g[x] = f[x], g[y] \in Int
  PROVE  /\ Sum(g, T) = Sum(f, S) + g[y] /\ IsFiniteSet(T)
         /\ Sum(f, S) \in Int
<1>1. Sum(f, S) = Sum(g, S)
  BY SumSame
<1>2. Sum(f, S) \in Int
  BY SumType
<1>3. \A x \in S : g[x] \in Int
  OBVIOUS
<1>4. Sum(g, S \cup {y}) = Sum(g, S) + g[y] /\ IsFiniteSet(S \cup {y})
  BY <1>3, SumAdds
<1> QED
  BY <1>1, <1>2, <1>4

LEMMA SumChanges ==
  ASSUME NEW S, IsFiniteSet(S), NEW f, NEW g, NEW y \in S,
         \A x \in S : f[x] \in Int /\ g[x] \in Int,
         \A x \in S \ {y} : g[x] = f[x]
  PROVE  /\ Sum(g, S) = Sum(f, S) + (g[y] - f[y])
         /\ Sum(f, S) \in Int
<1>1. Sum(f, S) = f[y] + Sum(f, S \ {y}) /\ Sum(g, S) = g[y] + Sum(g, S \ {y})
  BY SumSplit
<1>2. IsFiniteSet(S \ {y})
  BY FS_RemoveElement
<1>3. Sum(f, S \ {y}) = Sum(g, S \ {y}) /\ Sum(f, S \ {y}) \in Int
  BY <1>2, SumSame, SumType
<1> QED
  BY <1>1, <1>3

-----------------------------------------------------------------------------
(* One call of the process is one execution, and a transfer is atomic.    *)

\* No answer is lost or late, and the process does not die.
AnswersArrive == "net" \notin Faults /\ MaxCrashes = 0

\* What the process may then do to a call in a step.
CallStep(c, d) ==
  \/ d = c
  \/ c.st = "none" /\ d = OpenCall
  \/ c.st = "open" /\ c.executed > 0 /\ d = Returned(c)
  \/ c.st = "open" /\ c.executed = 0 /\ d = GivenUp(c)

\* A call is one request, which was executed if and only if the call resolved.
OnceInv ==
  /\ \A r \in Request, op \in Op :
       /\ calls[r][op].sent <= 1
       /\ calls[r][op].st \in {"none", "failed"} => calls[r][op].executed = 0
       /\ calls[r][op].st = "ok" => calls[r][op].executed = 1
  /\ \A r \in Request : result[r].code # "LOST"

\* The calls of a transfer that is over.
Squared(r) == \/ Sts(r, "none", "none", "none") \/ Sts(r, "failed", "none", "none")
              \/ Sts(r, "ok", "ok", "none")     \/ Sts(r, "ok", "failed", "ok")

AtomicInv ==
  \A r \in Request : pc[r] = "done" /\ req[r].kind = "TRANSFER" =>
    r \in alerts \/ Squared(r)

LEMMA NoCrash == ASSUME TypeOK, MaxCrashes = 0 PROVE ~Crash
BY DEF TypeOK, Crash

LEMMA DecideCalls ==
  ASSUME IInv, NEW r \in Request, pc[r] = "reading", NEW f, NEW t, Decide(r, f, t)
  PROVE  \/ UNCHANGED calls
         \/ \E op \in Op : calls' = [calls EXCEPT ![r][op] = OpenCall]
BY DEF Decide, StartCall, Op

\* A call is executed while it is awaited, and once.
LEMMA ExecutedOnce ==
  ASSUME IInv, OnceInv, AnswersArrive, NEW r \in Request, NEW op \in Op,
         ServerExecutes(r, op)
  PROVE  /\ calls[r][op].st = "open" /\ calls[r][op].executed = 0
         /\ calls'[r][op].st = "open" /\ calls'[r][op].executed = 1
         /\ calls'[r][op].sent <= 1
         /\ \A q \in Request, o \in Op : q # r \/ o # op => calls'[q][o] = calls[q][o]
         /\ calls[r][op] \in CallRecord /\ UNCHANGED <<pc, req, ledger, alerts, cache>>
         /\ Target(r, op) \in Account /\ req[r] \in Body
<1>1. /\ calls[r][op].executed < calls[r][op].sent
      /\ calls[r][op].st = "open" \/ "net" \in Faults \/ result[r].code = "LOST"
      /\ calls' = [calls EXCEPT ![r][op] = Executed(calls[r][op])]
      /\ UNCHANGED <<pc, req, ledger, alerts, cache>>
  BY DEF ServerExecutes, CanExecute, EndCall, tables, side
<1>2. /\ calls \in [Request -> [Op -> CallRecord]] /\ calls[r][op] \in CallRecord
      /\ calls[r][op].executed \in Nat /\ calls[r][op].sent \in Nat
  BY CallFacts DEF IInv, TypeOK
<1>3. calls[r][op].st = "open" /\ calls[r][op].sent <= 1 /\ calls[r][op].executed = 0
  <2>1. calls[r][op].st = "open" /\ calls[r][op].sent <= 1
    BY <1>1 DEF AnswersArrive, OnceInv
  <2> QED
    BY <1>1, <1>2, <2>1
<1>4. /\ calls'[r][op] = Executed(calls[r][op])
      /\ \A q \in Request, o \in Op : q # r \/ o # op => calls'[q][o] = calls[q][o]
  BY <1>1, <1>2, CallUpdate
<1>5. /\ Executed(calls[r][op]).executed = 1 /\ Executed(calls[r][op]).st = "open"
      /\ Executed(calls[r][op]).sent <= 1
  BY <1>2, <1>3 DEF Executed, CallRecord
<1>6. Target(r, op) \in Account /\ req[r] \in Body
  BY <1>3, PatchFacts, BodyFacts DEF Target
<1> QED
  BY <1>1, <1>2, <1>3, <1>4, <1>5, <1>6

\* Every step but an execution, and but a crash of the caller.
LEMMA CallsMove ==
  ASSUME IInv, OnceInv, AnswersArrive, [Next]_vars,
         ~ \E r \in Request, op \in Op : ServerExecutes(r, op)
  PROVE  \A r \in Request, op \in Op : CallStep(calls[r][op], calls'[r][op])
<1> USE DEF CallStep
<1>1. TypeOK /\ calls \in [Request -> [Op -> CallRecord]] /\ ~Crash /\ "net" \notin Faults
  BY NoCrash DEF IInv, TypeOK, AnswersArrive
<1>2. CASE UNCHANGED calls
  BY <1>2
<1>3. ASSUME NEW r \in Request, NEW op \in Op, NEW c,
             calls' = [calls EXCEPT ![r][op] = c], CallStep(calls[r][op], c)
      PROVE  \A q \in Request, o \in Op : CallStep(calls[q][o], calls'[q][o])
  <2>1. calls'[r][op] = c /\ \A q \in Request, o \in Op : q # r \/ o # op => calls'[q][o] = calls[q][o]
    BY <1>1, <1>3, CallUpdate
  <2> QED
    BY <1>3, <2>1
<1>4. ASSUME NEW r \in Request, NEW a \in Account, Get(r, a)
      PROVE  \A q \in Request, o \in Op : CallStep(calls[q][o], calls'[q][o])
  <2>1. ASSUME NEW s, Settle(r, a, s)
        PROVE  \/ UNCHANGED calls
               \/ /\ \E op \in Op : calls' = [calls EXCEPT ![r][op] = OpenCall]
                  /\ \A op \in Op : calls[r][op].st = "none"
    <3>1. pc[r] = "reading" => \A op \in Op : calls[r][op].st = "none"
      BY DEF IInv, ControlInv, CallsAt, Sts, Op
    <3> QED
      BY <2>1, <3>1, DecideCalls DEF Settle
  <2>2. \/ UNCHANGED calls
        \/ /\ \E op \in Op : calls' = [calls EXCEPT ![r][op] = OpenCall]
           /\ \A op \in Op : calls[r][op].st = "none"
    BY <1>4, <2>1 DEF Get, GetReturns, GetFallsBack, GetFails
  <2> QED
    BY <1>2, <1>3, <2>2
<1>5. ASSUME NEW r \in Request, Server(r)
      PROVE  \A q \in Request, o \in Op : CallStep(calls[q][o], calls'[q][o])
  <2>1. UNCHANGED calls
    BY <1>1, <1>5 DEF Server, ServerReads, Resends
  <2> QED
    BY <1>2, <2>1
<1>6. ASSUME NEW r \in Request, Patch(r)
      PROVE  \A q \in Request, o \in Op : CallStep(calls[q][o], calls'[q][o])
  <2>1. ASSUME NEW op \in Op, NEW c, NEW next \in Op,
               CallStep(calls[r][op], c), Closes(r, op, c, next),
               next # op => calls[r][next].st = "none"
        PROVE  \A q \in Request, o \in Op : CallStep(calls[q][o], calls'[q][o])
    BY <2>1 DEF Closes
  <2>2. /\ {"debit", "credit", "rollback"} \subseteq Op
        /\ pc[r] = "debiting" => calls[r]["credit"].st = "none"
        /\ pc[r] = "crediting" => calls[r]["rollback"].st = "none"
    BY DEF IInv, ControlInv, CallsAt, Sts, Op
  <2>3. \A op \in Op : /\ calls[r][op] \in CallRecord
                       /\ Returned(calls[r][op]) \in CallRecord
                       /\ GivenUp(calls[r][op]) \in CallRecord
    BY <1>1, CallFacts
  <2>4. \A op \in Op : /\ CanReturn(calls[r][op]) => CallStep(calls[r][op], Returned(calls[r][op]))
                       /\ CanFail(r, op) => CallStep(calls[r][op], GivenUp(calls[r][op]))
    BY <1>1 DEF CanReturn, CanFail
  <2>5. CASE DebitReturns(r) \/ DebitFails(r)
    <3>1. PICK c \in CallRecord, next \in Op :
            /\ CallStep(calls[r]["debit"], c)
            /\ Closes(r, "debit", c, next) /\ next \in {"debit", "credit"}
      BY <1>1, <2>2, <2>3, <2>4, <2>5, ClosesLast, ClosesAndOpens DEF DebitReturns, DebitFails
    <3> QED
      BY <2>1, <2>2, <2>5, <3>1 DEF DebitReturns, DebitFails
  <2>6. CASE CreditReturns(r) \/ CreditFails(r)
    <3>1. PICK c \in CallRecord, next \in Op :
            /\ CallStep(calls[r]["credit"], c)
            /\ Closes(r, "credit", c, next) /\ next \in {"credit", "rollback"}
      BY <1>1, <2>2, <2>3, <2>4, <2>6, ClosesLast, ClosesAndOpens DEF CreditReturns, CreditFails
    <3> QED
      BY <2>1, <2>2, <2>6, <3>1 DEF CreditReturns, CreditFails
  <2>7. CASE RollbackReturns(r) \/ RollbackFails(r)
    <3>1. PICK c \in CallRecord :
            /\ CallStep(calls[r]["rollback"], c)
            /\ Closes(r, "rollback", c, "rollback")
      BY <1>1, <2>2, <2>3, <2>4, <2>7, ClosesLast DEF RollbackReturns, RollbackFails, RollbackEnds
    <3> QED
      BY <2>1, <2>2, <3>1
  <2> QED
    BY <1>6, <2>5, <2>6, <2>7 DEF Patch
<1>7. ASSUME NEW r \in Request, Arrival(r) \/ Commit(r)
      PROVE  UNCHANGED calls
  BY <1>7, ArrivalTouches, CommitTouches
<1>8. Tick \/ (\E a \in Account : AccountChanges(a)) \/ UNCHANGED vars => UNCHANGED calls
  BY DEF Tick, AccountChanges, vars
<1> QED
  BY <1>1, <1>2, <1>4, <1>5, <1>6, <1>7, <1>8 DEF Next

LEMMA AnswerGiven ==
  ASSUME TypeOK, NEW r \in Request, NEW code, NEW of, Respond(r, code, of)
  PROVE  pc'[r] = "done" /\ result'[r].code = code
BY DEF TypeOK, Respond

LEMMA GoesOn ==
  ASSUME TypeOK, NEW r \in Request, NEW phase \in InFlight, Goto(r, phase)
  PROVE  pc'[r] = phase /\ pc'[r] # "done"
BY DEF TypeOK, Goto, InFlight, AwaitPhase, SyncPhase

LEMMA PatchEnds ==
  ASSUME IInv, NEW r \in Request, Patch(r), pc'[r] = "done"
  PROVE  /\ result'[r].code # "LOST" /\ UNCHANGED <<req, ledger>>
         /\ \/ /\ Sts(r, "failed", "none", "none")' /\ UNCHANGED alerts
            \/ /\ Sts(r, "none", "failed", "none")' /\ UNCHANGED alerts
               /\ req[r].kind = "DEPOSIT"
            \/ /\ Sts(r, "ok", "failed", "ok")' /\ UNCHANGED alerts
               /\ req[r].kind = "TRANSFER"
            \/ /\ Sts(r, "ok", "failed", "failed")' /\ alerts' = alerts \cup {r}
               /\ req[r].kind = "TRANSFER"
<1>1. TypeOK /\ {"crediting", "recording", "rolling"} \subseteq InFlight
      /\ {"debit", "credit", "rollback"} \subseteq Op
      /\ calls \in [Request -> [Op -> CallRecord]]
  BY DEF IInv, TypeOK, InFlight, AwaitPhase, SyncPhase, Op
<1>2. \A op \in Op : /\ Returned(calls[r][op]).st = "ok"
                     /\ calls[r][op].st = "open" => GivenUp(calls[r][op]).st = "failed"
  BY <1>1, CallFacts, PatchFacts
<1>3. UNCHANGED <<req, ledger>>
  BY DEF Patch, DebitReturns, DebitFails, CreditReturns, CreditFails,
         RollbackReturns, RollbackFails, RollbackEnds, tables
<1>4. CASE DebitFails(r)
  <2>1. /\ Sts(r, "open", "none", "none") /\ Respond(r, "INTERNAL_ERROR", None)
        /\ calls' = [calls EXCEPT ![r]["debit"] = GivenUp(calls[r]["debit"])]
        /\ UNCHANGED alerts
    BY <1>4 DEF DebitFails, EndCall, IInv, ControlInv, CallsAt, side
  <2>2. Sts(r, "failed", "none", "none")'
    BY <1>1, <1>2, <2>1 DEF Sts
  <2> QED
    BY <1>1, <1>3, <2>1, <2>2, AnswerGiven
<1>5. CASE CreditFails(r)
  <2>1. /\ Sts(r, "none", "open", "none") /\ Respond(r, "INTERNAL_ERROR", None)
        /\ calls' = [calls EXCEPT ![r]["credit"] = GivenUp(calls[r]["credit"])]
        /\ UNCHANGED alerts /\ req[r].kind = "DEPOSIT"
    BY <1>1, <1>5, GoesOn DEF CreditFails, EndCall, IInv, ControlInv, CallsAt, side
  <2>2. Sts(r, "none", "failed", "none")'
    BY <1>1, <1>2, <2>1 DEF Sts
  <2> QED
    BY <1>1, <1>3, <2>1, <2>2, AnswerGiven
<1>6. CASE RollbackReturns(r) \/ RollbackFails(r)
  <2>1. PICK c : /\ Sts(r, "ok", "failed", "open") /\ Respond(r, "TRANSFER_CREDIT_FAILED", None)
                 /\ calls' = [calls EXCEPT ![r]["rollback"] = c]
                 /\ req[r].kind = "TRANSFER"
                 /\ \/ c = Returned(calls[r]["rollback"]) /\ UNCHANGED alerts
                    \/ c = GivenUp(calls[r]["rollback"]) /\ alerts' = alerts \cup {r}
    BY <1>6 DEF RollbackReturns, RollbackFails, RollbackEnds, EndCall,
                IInv, ControlInv, CallsAt
  <2>2. \/ c.st = "ok" /\ UNCHANGED alerts
        \/ c.st = "failed" /\ alerts' = alerts \cup {r}
    BY <1>1, <1>2, <2>1 DEF Sts
  <2>3. Sts(r, "ok", "failed", c.st)'
    BY <1>1, <2>1 DEF Sts
  <2> QED
    BY <1>1, <1>3, <2>1, <2>2, <2>3, AnswerGiven
<1>7. ~DebitReturns(r) /\ ~CreditReturns(r)
  BY <1>1, GoesOn DEF DebitReturns, CreditReturns
<1> QED
  BY <1>4, <1>5, <1>6, <1>7 DEF Patch

\* What a request that is over leaves behind, when it was just over.
LEMMA HowItEnds ==
  ASSUME IInv, [Next]_vars, ~Crash, NEW r \in Request, pc[r] # "done", pc'[r] = "done"
  PROVE  /\ result'[r].code # "LOST"
         /\ \/ Sts(r, "none", "none", "none")' /\ UNCHANGED <<alerts, ledger>>
            \/ Patch(r) /\ pc[r] \notin {"idle", "counting", "storing"}
            \/ /\ Commit(r) /\ pc[r] \in SyncPhase /\ UNCHANGED <<calls, req, alerts>>
               /\ DbFails(r) \/ RecordSingle(r) \/ StoreIdempotent(r)
<1>1. TypeOK /\ (pc[r] \in {"idle", "reading"} => Sts(r, "none", "none", "none"))
  BY DEF IInv, ControlInv, CallsAt
<1>2. ASSUME NEW q \in Request, q # r, StepOf(q)
      PROVE  FALSE
  BY <1>2 DEF StepOf
<1>3. UNCHANGED calls => (Sts(r, "none", "none", "none") <=> Sts(r, "none", "none", "none")')
  BY DEF Sts
<1>4. CASE Arrival(r)
  <2>1. \/ \E b \in Body : \E code, of : Respond(r, code, of) /\ code # "LOST" /\ Arrives(r, b)
        \/ Goto(r, "reading")
    BY <1>4 DEF Arrival, Accept, RejectSameAccount, RejectKeyReuse, Replay, LookupFails
  <2>2. "reading" \in InFlight
    BY DEF InFlight, AwaitPhase
  <2>3. \E b \in Body : \E code, of : Respond(r, code, of) /\ code # "LOST" /\ Arrives(r, b)
    BY <1>1, <2>1, <2>2, GoesOn
  <2>4. result'[r].code # "LOST"
    BY <1>1, <2>3, AnswerGiven
  <2>5. UNCHANGED <<calls, alerts, ledger>> /\ pc[r] = "idle"
    BY <2>3 DEF Arrives, side, tables
  <2> QED
    BY <1>1, <1>3, <2>4, <2>5
<1>5. ASSUME NEW a \in Account, Get(r, a)
      PROVE  /\ result'[r].code # "LOST"
             /\ Sts(r, "none", "none", "none")' /\ UNCHANGED <<alerts, ledger>>
  <2>1. UNCHANGED <<alerts, ledger>>
    BY <1>5 DEF Get, GetReturns, GetFallsBack, GetFails, side, tables
  <2>2. pc[r] = "reading"
    BY <1>5, GetTouches
  <2>3. ASSUME NEW f, NEW t, Decide(r, f, t)
        PROVE  \E code, of : Respond(r, code, of) /\ code # "LOST" /\ UNCHANGED calls
    <3>1. AccountVerdict(req[r], f, t) # "LOST"
      BY DEF AccountVerdict, ValidateAccount
    <3>2. ~Goto(r, "crediting") /\ ~Goto(r, "debiting")
      BY <1>1, GoesOn DEF InFlight, AwaitPhase
    <3> QED
      BY <2>3, <3>1, <3>2 DEF Decide
  <2>4. ASSUME NEW s, Settle(r, a, s)
        PROVE  \E f, t : Decide(r, f, t)
    BY <2>2, <2>4 DEF Settle
  <2>5. \E code, of : Respond(r, code, of) /\ code # "LOST" /\ UNCHANGED calls
    BY <1>5, <2>2, <2>3, <2>4 DEF Get, GetReturns, GetFallsBack, GetFails
  <2> QED
    BY <1>1, <1>3, <2>1, <2>2, <2>5, AnswerGiven
<1>6. CASE Patch(r)
  BY <1>6, PatchEnds
  DEF Patch, DebitReturns, DebitFails, CreditReturns, CreditFails,
      RollbackReturns, RollbackFails, RollbackEnds
<1>7. CASE Commit(r)
  <2>1. pc[r] \in SyncPhase /\ UNCHANGED <<calls, req, alerts>>
    BY <1>7 DEF Commit, RecordSingle, InsertBoth, IncrementDailyTotal,
                StoreIdempotent, DbFails, SyncPhase, side
  <2>2. DbFails(r) \/ RecordSingle(r) \/ StoreIdempotent(r)
    BY <1>1, <1>7, GoesOn DEF Commit, InsertBoth, IncrementDailyTotal, InFlight, SyncPhase
  <2>3. \E code, of : Respond(r, code, of) /\ code # "LOST"
    BY <2>2 DEF DbFails, RecordSingle, StoreIdempotent
  <2> QED
    BY <1>1, <1>7, <2>1, <2>2, <2>3, AnswerGiven
<1>8. \A q \in Request : Server(q) => UNCHANGED pc
  BY ServerTouches
<1>9. Tick \/ (\E a \in Account : AccountChanges(a)) \/ UNCHANGED vars => UNCHANGED pc
  BY DEF Tick, AccountChanges, vars
<1> QED
  BY <1>2, <1>4, <1>5, <1>6, <1>7, <1>8, <1>9, ArrivalTouches, GetTouches, PatchTouches,
     CommitTouches DEF Next

LEMMA InitAtomic == Init => OnceInv /\ AtomicInv
BY DEF Init, OnceInv, AtomicInv, NoCall

LEMMA AlertsGrow == ASSUME [Next]_vars PROVE alerts \subseteq alerts'
<1>1. ASSUME NEW r \in Request, Arrival(r) \/ Server(r) \/ Commit(r)
      PROVE  UNCHANGED alerts
  BY <1>1 DEF Arrival, Accept, RejectSameAccount, RejectKeyReuse, Replay, LookupFails,
              Arrives, Server, ServerReads, ServerExecutes, Resends,
              Commit, RecordSingle, InsertBoth, IncrementDailyTotal, StoreIdempotent,
              DbFails, side
<1>2. ASSUME NEW r \in Request, NEW a \in Account, Get(r, a)
      PROVE  UNCHANGED alerts
  BY <1>2 DEF Get, GetReturns, GetFallsBack, GetFails, side
<1>3. ASSUME NEW r \in Request, Patch(r)
      PROVE  alerts \subseteq alerts'
  BY <1>3 DEF Patch, DebitReturns, DebitFails, CreditReturns, CreditFails,
              RollbackReturns, RollbackFails, side
<1>4. Tick \/ Crash \/ (\E a \in Account : AccountChanges(a)) \/ UNCHANGED vars
      => UNCHANGED alerts
  BY DEF Tick, Crash, AccountChanges, side, vars
<1> QED
  BY <1>1, <1>2, <1>3, <1>4 DEF Next

LEMMA NextAtomic ==
  ASSUME AnswersArrive, IInv, AnswerInv', OnceInv, AtomicInv, [Next]_vars
  PROVE  OnceInv' /\ AtomicInv'
<1>1. TypeOK /\ ~Crash /\ calls \in [Request -> [Op -> CallRecord]]
  BY NoCrash DEF IInv, TypeOK, AnswersArrive
<1>2. AfterAnswer
  BY NextOver
<1>3. ASSUME NEW r \in Request, NEW op \in Op
      PROVE  /\ calls'[r][op].sent <= 1
             /\ calls'[r][op].st \in {"none", "failed"} => calls'[r][op].executed = 0
             /\ calls'[r][op].st = "ok" => calls'[r][op].executed = 1
  <2>1. /\ calls[r][op] \in CallRecord
        /\ calls[r][op].sent \in Nat /\ calls[r][op].executed \in Nat
        /\ calls[r][op].sent <= 1 /\ calls[r][op].executed <= calls[r][op].sent
        /\ calls[r][op].st \in {"none", "failed"} => calls[r][op].executed = 0
        /\ calls[r][op].st = "ok" => calls[r][op].executed = 1
    BY <1>1, CallFacts DEF OnceInv, IInv, CallInv
  <2>2. CASE \E q \in Request, o \in Op : ServerExecutes(q, o)
    <3>1. \/ calls'[r][op] = calls[r][op]
          \/ calls'[r][op].st = "open" /\ calls'[r][op].sent <= 1
      BY <2>2, ExecutedOnce
    <3> QED
      BY <2>1, <3>1
  <2>3. CASE CallStep(calls[r][op], calls'[r][op])
    BY <2>1, <2>3 DEF CallStep, OpenCall, Returned, GivenUp, CallRecord
  <2> QED
    BY <1>1, <2>2, <2>3, CallsMove
<1>4. ASSUME NEW r \in Request
      PROVE  result'[r].code # "LOST"
  <2>1. CASE pc'[r] # "done"
    BY <2>1 DEF AnswerInv, AnswerAt
  <2>2. CASE pc[r] = "done"
    BY <1>2, <2>2 DEF AfterAnswer, Over, OnceInv
  <2> QED
    BY <1>1, <2>1, <2>2, HowItEnds
<1>5. ASSUME NEW r \in Request, pc'[r] = "done", req'[r].kind = "TRANSFER"
      PROVE  r \in alerts' \/ Squared(r)'
  <2>1. CASE pc[r] = "done"
    <3>1. Over(r) /\ {"debit", "credit", "rollback"} \subseteq Op
      BY <1>2, <2>1 DEF AfterAnswer, Op
    <3>2. r \in alerts \/ Squared(r)
      BY <1>5, <2>1, <3>1 DEF AtomicInv, Over
    <3> QED
      BY <3>1, <3>2, AlertsGrow DEF Over, Squared, Sts
  <2>2. CASE pc[r] # "done" /\ Patch(r)
    BY <1>5, <2>2, PatchEnds DEF Squared
  <2>3. CASE /\ pc[r] \in SyncPhase /\ UNCHANGED <<calls, req, alerts>>
    <3>1. Sts(r, "ok", "ok", "none")
      BY <1>5, <2>3 DEF SyncPhase, IInv, ControlInv, CallsAt
    <3> QED
      BY <2>3, <3>1 DEF Squared, Sts
  <2> QED
    BY <1>1, <1>5, <2>1, <2>2, <2>3, HowItEnds DEF Squared
<1> QED
  BY <1>3, <1>4, <1>5 DEF OnceInv, AtomicInv

LEMMA AtomicInvariant ==
  ASSUME AnswersArrive
  PROVE  Spec => [](IInv /\ SafeInv /\ AnswerInv /\ OnceInv /\ AtomicInv)
<1>1. Init => OnceInv /\ AtomicInv
  BY InitAtomic
<1>2. IInv /\ AnswerInv' /\ OnceInv /\ AtomicInv /\ [Next]_vars => (OnceInv /\ AtomicInv)'
  BY NextAtomic
<1> QED
  BY <1>1, <1>2, AnswerInvariant, PTL DEF Spec

\* When no answer is lost or late and the process lives, a transfer that is
\* over has moved its amount, or rollbackDebit has put it back, or it has never
\* been taken, or CRITICAL_ROLLBACK_FAILED is logged, even when SQLite fails at
\* any statement.
THEOREM TransfersAreAtomic ==
  ASSUME AnswersArrive
  PROVE  Spec => []TransferAtomic
<1>1. IInv /\ OnceInv /\ AtomicInv => TransferAtomic
  <2> SUFFICES ASSUME IInv, OnceInv, AtomicInv, NEW r \in Request,
                      pc[r] = "done", req[r].kind = "TRANSFER", r \notin alerts
               PROVE  calls[r]["debit"].executed = calls[r]["credit"].executed
                                                   + calls[r]["rollback"].executed
    BY DEF TransferAtomic
  <2>1. Squared(r) /\ {"debit", "credit", "rollback"} \subseteq Op
    BY DEF AtomicInv, Op
  <2> QED
    BY <2>1 DEF OnceInv, Squared, Sts
<1> QED
  BY <1>1, AtomicInvariant, PTL

-----------------------------------------------------------------------------
(* Balances against what was executed.                                    *)

NoFaults == AnswersArrive /\ "db" \notin Faults

\* What the executions of a request have done to the balance of a.
Took(r, op)  == IF calls[r][op].executed > 0 THEN req[r].amount ELSE 0
Effect(r, a) == (IF req[r].from = a THEN Took(r, "rollback") - Took(r, "debit") ELSE 0)
                + (IF req[r].to = a THEN Took(r, "credit") ELSE 0)
EffectOn(a)  == [r \in Request |-> Effect(r, a)]

Arrived == {r \in Request : pc[r] # "idle"}
Ended   == {r \in Request : pc[r] \in Committed}

\* Balances follow from what was executed.
BalancesInv ==
  /\ IsFiniteSet(Arrived)
  /\ \A a \in Account : accounts[a].balance = Opening[a].balance + Sum(EffectOn(a), Arrived)

\* Ledger and alerts account for what was executed of the requests at their end.
BooksInv ==
  /\ IsFiniteSet(ledger) /\ \A r \in alerts : pc[r] = "done"
  /\ \A a \in Account : LedgerSum(a) - AlertSum(a) = Sum(EffectOn(a), Ended)

LEMMA EffectFacts ==
  ASSUME IInv, NEW r \in Request, pc[r] # "idle", NEW a \in Account
  PROVE  EffectOn(a)[r] = Effect(r, a) /\ Effect(r, a) \in Int /\ req[r] \in Body
<1>1. req[r] \in Body
  BY DEF IInv, ReqInv
<1>2. req[r].amount \in Int
  BY <1>1, BodyFacts
<1> QED
  BY <1>1, <1>2 DEF EffectOn, Effect, Took

LEMMA InitBooks == Init => BalancesInv /\ BooksInv
<1> SUFFICES ASSUME Init PROVE BalancesInv /\ BooksInv
  OBVIOUS
<1>1. Arrived = {} /\ Ended = {}
  BY DEF Init, Arrived, Ended, Committed, Committing
<1>2. IsFiniteSet({})
  BY FS_EmptySet
<1>3. \A f : Sum(f, {}) = 0
  BY <1>2, SumEquation
<1>4. \A a \in Account : LedgerSum(a) = 0 /\ AlertSum(a) = 0
  <2>1. \A a : {row \in ledger : row.account = a} = {} /\ {r \in alerts : req[r].from = a} = {}
    BY DEF Init
  <2> QED
    BY <1>3, <2>1 DEF LedgerSum, AlertSum, Sum
<1>5. \A a \in Account : accounts[a].balance \in Int /\ accounts[a] = Opening[a]
  BY ServiceAssumption DEF Init, AccountRecord
<1> QED
  BY <1>1, <1>2, <1>3, <1>4, <1>5 DEF BalancesInv, BooksInv, Init

\* What was executed changes at the Account Service only.
ExecutedKept == \A r \in Request, op \in Op : calls'[r][op].executed = calls[r][op].executed

LEMMA NothingExecuted ==
  ASSUME IInv, OnceInv, AnswersArrive, [Next]_vars,
         ~ \E r \in Request, op \in Op : ServerExecutes(r, op)
  PROVE  ExecutedKept
<1> SUFFICES ASSUME NEW r \in Request, NEW op \in Op
             PROVE  calls'[r][op].executed = calls[r][op].executed
  BY DEF ExecutedKept
<1>1. CallStep(calls[r][op], calls'[r][op]) /\ calls[r][op] \in CallRecord
  BY CallsMove DEF IInv, TypeOK
<1>2. calls[r][op].st = "none" => calls[r][op].executed = 0
  BY DEF OnceInv
<1> QED
  BY <1>1, <1>2 DEF CallStep, OpenCall, Returned, GivenUp, CallRecord

LEMMA EffectKept ==
  ASSUME NEW r \in Request, req'[r] = req[r],
         \A op \in Op : calls'[r][op].executed = calls[r][op].executed
  PROVE  \A a \in Account : Effect(r, a)' = Effect(r, a)
BY DEF Effect, Took, Op

\* The balances stay, and nothing is executed.
LEMMA BalancesFrame ==
  ASSUME IInv, IInv', BalancesInv, BodiesKept, ExecutedKept,
         \A a \in Account : accounts'[a].balance = accounts[a].balance,
         \/ Arrived' = Arrived
         \/ \E r \in Request : /\ pc[r] = "idle" /\ Arrived' = Arrived \cup {r}
                               /\ \A op \in Op : calls'[r][op].executed = 0
  PROVE  BalancesInv'
<1>1. ASSUME NEW r \in Arrived
      PROVE  /\ \A a \in Account : /\ EffectOn(a)[r] = Effect(r, a) /\ Effect(r, a) \in Int
                                   /\ EffectOn(a)'[r] = EffectOn(a)[r]
  <2>1. r \in Request /\ pc[r] # "idle" /\ req'[r] = req[r] /\ pc'[r] # "idle"
    BY DEF Arrived, BodiesKept
  <2>2. \A a \in Account : Effect(r, a)' = Effect(r, a)
    BY <2>1, EffectKept DEF ExecutedKept
  <2> QED
    BY <2>1, <2>2, EffectFacts DEF EffectOn
<1>2. IsFiniteSet(Arrived)
  BY DEF BalancesInv
<1>3. CASE Arrived' = Arrived
  BY <1>1, <1>2, <1>3, SumSame DEF BalancesInv
<1>4. ASSUME NEW r \in Request, pc[r] = "idle", Arrived' = Arrived \cup {r},
             \A op \in Op : calls'[r][op].executed = 0
      PROVE  BalancesInv'
  <2>1. r \notin Arrived /\ \A a \in Account : Effect(r, a)' = 0
    BY <1>4 DEF Arrived, Effect, Took, Op
  <2>2. \A a \in Account : EffectOn(a)'[r] = 0
    BY <2>1 DEF EffectOn
  <2>3. ASSUME NEW a \in Account
        PROVE  /\ Sum(EffectOn(a)', Arrived') = Sum(EffectOn(a), Arrived)
               /\ IsFiniteSet(Arrived')
    <3>1. PICK f : f = EffectOn(a)
      OBVIOUS
    <3>2. PICK g : g = EffectOn(a)'
      OBVIOUS
    <3>3. Sum(g, Arrived') = Sum(f, Arrived) + g[r] /\ IsFiniteSet(Arrived') /\ Sum(f, Arrived) \in Int
      BY <1>1, <1>2, <1>4, <2>1, <2>2, <3>1, <3>2, SumGrows
    <3> QED
      BY <2>2, <3>1, <3>2, <3>3
  <2>4. IsFiniteSet(Arrived')
    BY <1>2, <1>4, FS_AddElement
  <2> QED
    BY <1>4, <2>3, <2>4 DEF BalancesInv
<1> QED
  BY <1>3, <1>4

\* The Account Service executes a call that is open.
LEMMA BalancesExecute ==
  ASSUME AnswersArrive, IInv, IInv', OnceInv, BalancesInv,
         NEW r \in Request, NEW op \in Op, ServerExecutes(r, op)
  PROVE  BalancesInv'
<1>1. /\ calls[r][op].st = "open" /\ calls[r][op].executed = 0
      /\ calls[r][op] \in CallRecord /\ TypeOK /\ UNCHANGED <<pc, req>>
      /\ Target(r, op) \in Account /\ req[r] \in Body
  BY ExecutedOnce DEF IInv
<1>2. /\ pc[r] # "idle" /\ req[r].amount \in Nat /\ req[r].amount # 0
      /\ accounts[Target(r, op)] \in AccountRecord
  BY <1>1, PatchFacts, BodyFacts DEF AwaitPhase, TypeOK
<1> DEFINE delta == IF op = "debit" THEN -req[r].amount ELSE req[r].amount
<1>3. \A a \in Account :
        accounts'[a].balance = accounts[a].balance + (IF a = Target(r, op) THEN delta ELSE 0)
  <2>1. /\ accounts' = [accounts EXCEPT ![Target(r, op)] =
                          [accounts[Target(r, op)] EXCEPT !.balance = @ + delta]]
        /\ \A a \in Account : accounts[a] \in AccountRecord
    BY <1>1 DEF ServerExecutes, TypeOK
  <2> HIDE DEF delta
  <2>2. \A a \in Account : accounts[a].balance \in Int
    BY <2>1 DEF AccountRecord
  <2> QED
    BY <1>1, <1>2, <2>1, <2>2 DEF AccountRecord, TypeOK
<1>4. /\ calls'[r][op].executed = 1
      /\ \A q \in Request, o \in Op : q # r \/ o # op => calls'[q][o] = calls[q][o]
  BY ExecutedOnce
<1>5. \A a \in Account : Effect(r, a)' = Effect(r, a) + (IF a = Target(r, op) THEN delta ELSE 0)
  <2>1. \A o \in Op : /\ o # op => Took(r, o)' = Took(r, o)
                      /\ o = op => Took(r, o)' = req[r].amount /\ Took(r, o) = 0
                      /\ Took(r, o) \in Int
    BY <1>1, <1>2, <1>4 DEF Took
  <2>2. {"debit", "credit", "rollback"} \subseteq Op /\ Op = {"debit", "credit", "rollback"}
    BY DEF Op
  <2>3. CASE op = "debit"
    BY <1>1, <1>2, <2>1, <2>2, <2>3 DEF Effect, Target
  <2>4. CASE op = "credit"
    BY <1>1, <1>2, <2>1, <2>2, <2>4 DEF Effect, Target
  <2>5. CASE op = "rollback"
    BY <1>1, <1>2, <2>1, <2>2, <2>5 DEF Effect, Target
  <2> QED
    BY <2>2, <2>3, <2>4, <2>5
<1>6. \A q \in Request \ {r}, a \in Account : Effect(q, a)' = Effect(q, a)
  BY <1>1, <1>4, EffectKept
<1>7. delta \in Int
  BY <1>2
<1> HIDE DEF delta
<1>8. Arrived' = Arrived /\ r \in Arrived /\ IsFiniteSet(Arrived)
  BY <1>1, <1>2 DEF Arrived, BalancesInv
<1>9. ASSUME NEW a \in Account
      PROVE  accounts'[a].balance = Opening[a].balance + Sum(EffectOn(a)', Arrived')
  <2>1. PICK f : f = EffectOn(a)
    OBVIOUS
  <2>2. PICK g : g = EffectOn(a)'
    OBVIOUS
  <2>3. \A x \in Arrived : /\ f[x] = Effect(x, a) /\ f[x] \in Int
                           /\ g[x] = Effect(x, a)'
    BY <2>1, <2>2, EffectFacts DEF Arrived, EffectOn
  <2>4. /\ \A x \in Arrived \ {r} : g[x] = f[x]
        /\ g[r] = f[r] + (IF a = Target(r, op) THEN delta ELSE 0)
    BY <1>5, <1>6, <1>8, <2>3 DEF Arrived
  <2>5. \A x \in Arrived : f[x] \in Int /\ g[x] \in Int
    BY <1>7, <2>3, <2>4
  <2>6. Sum(g, Arrived) = Sum(f, Arrived) + (g[r] - f[r]) /\ Sum(f, Arrived) \in Int
    BY <1>8, <2>4, <2>5, SumChanges
  <2>7. /\ accounts[a].balance = Opening[a].balance + Sum(f, Arrived)
        /\ Opening[a].balance \in Int
    BY <2>1, ServiceAssumption DEF BalancesInv, AccountRecord
  <2> QED
    BY <1>3, <1>7, <1>8, <2>2, <2>4, <2>5, <2>6, <2>7
<1> QED
  BY <1>8, <1>9 DEF BalancesInv

\* What becomes of the handlers in a step.
LEMMA NextKeeps ==
  ASSUME IInv, [Next]_vars
  PROVE  /\ BodiesKept
         /\ \A r \in Request : pc[r] \in Committed => pc'[r] \in Committed
         /\ \/ Arrived' = Arrived
            \/ \E r \in Request : /\ pc[r] = "idle" /\ Arrived' = Arrived \cup {r}
                                  /\ UNCHANGED <<calls, accounts, ledger, alerts>>
<1>1. TypeOK
  BY DEF IInv
<1>2. CASE UNCHANGED <<pc, req>>
  BY <1>2 DEF BodiesKept, Arrived
<1>3. ASSUME NEW r \in Request, Arrival(r)
      PROVE  /\ \A q \in Request \ {r} : pc'[q] = pc[q] /\ req'[q] = req[q]
             /\ pc[r] = "idle" /\ pc'[r] # "idle"
             /\ UNCHANGED <<calls, accounts, ledger, alerts>>
  <2>1. \/ \E b \in Body : \E code, of : Respond(r, code, of) /\ Arrives(r, b)
        \/ \E b \in Body : Goto(r, "reading") /\ Arrives(r, b)
    BY <1>3 DEF Arrival, Accept, RejectSameAccount, RejectKeyReuse, Replay, LookupFails
  <2>2. pc'[r] # "idle"
    BY <1>1, <2>1 DEF Goto, Respond, TypeOK
  <2> QED
    BY <1>3, <2>1, <2>2, ArrivalTouches DEF StepOf, Arrives, external, tables, side
<1>4. ASSUME NEW r \in Request, StepOf(r), pc[r] # "idle", pc'[r] # "idle",
             pc[r] \in Committed => pc'[r] \in Committed, UNCHANGED req
      PROVE  /\ BodiesKept /\ Arrived' = Arrived
             /\ \A q \in Request : pc[q] \in Committed => pc'[q] \in Committed
  BY <1>4 DEF StepOf, BodiesKept, Arrived
<1>5. ASSUME NEW r \in Request, NEW a \in Account, Get(r, a), ~UNCHANGED <<pc, req>>
      PROVE  StepOf(r) /\ pc[r] = "reading" /\ pc'[r] # "idle" /\ UNCHANGED req
  <2>1. UNCHANGED req
    BY <1>5 DEF Get, GetReturns, GetFallsBack, GetFails
  <2>2. StepOf(r) /\ pc[r] = "reading"
    BY <1>5, GetTouches
  <2>3. ASSUME NEW s, Settle(r, a, s)
        PROVE  pc'[r] # "idle"
    BY <1>1, <2>2, <2>3 DEF Settle, Decide, Goto, Respond, TypeOK
  <2> QED
    BY <1>1, <1>5, <2>1, <2>2, <2>3 DEF Get, GetReturns, GetFallsBack, GetFails, Respond, TypeOK
<1>6. ASSUME NEW r \in Request, Patch(r)
      PROVE  StepOf(r) /\ pc[r] \in AwaitPhase /\ pc'[r] # "idle" /\ UNCHANGED req
  BY <1>1, <1>6, PatchTouches
  DEF Patch, DebitReturns, DebitFails, CreditReturns, CreditFails, RollbackReturns,
      RollbackFails, RollbackEnds, Goto, Respond, TypeOK, AwaitPhase
<1>7. ASSUME NEW r \in Request, Commit(r)
      PROVE  StepOf(r) /\ pc[r] \in SyncPhase /\ pc'[r] \in Committed /\ UNCHANGED req
  BY <1>1, <1>7, CommitTouches
  DEF Commit, RecordSingle, InsertBoth, IncrementDailyTotal, StoreIdempotent,
      DbFails, Goto, Respond, TypeOK, SyncPhase, Committed, Committing
<1>8. CASE Crash
  <2>1. /\ \A r \in Request : pc'[r] = IF pc[r] \in InFlight THEN "done" ELSE pc[r]
        /\ UNCHANGED req /\ "idle" \notin InFlight /\ "done" \in Committed
    BY <1>8 DEF Crash, InFlight, AwaitPhase, SyncPhase, Committed
  <2>2. \A r \in Request : (pc'[r] = "idle" <=> pc[r] = "idle")
                           /\ (pc[r] \in Committed => pc'[r] \in Committed)
    BY <2>1
  <2> QED
    BY <2>1, <2>2 DEF BodiesKept, Arrived
<1>9. \A r \in Request : Server(r) => UNCHANGED <<pc, req>>
  BY ServerTouches
<1>10. Tick \/ (\E a \in Account : AccountChanges(a)) \/ UNCHANGED vars => UNCHANGED <<pc, req>>
  BY DEF Tick, AccountChanges, vars
<1>11. {"reading"} \cup AwaitPhase \cup SyncPhase \subseteq InFlight
       /\ "idle" \notin InFlight /\ "idle" \notin Committed /\ AwaitPhase \cap Committed = {}
       /\ "reading" \notin Committed
  BY DEF InFlight, AwaitPhase, SyncPhase, Committed, Committing
<1>12. CASE \E r \in Request : Arrival(r)
  <2>1. PICK r \in Request :
             /\ \A q \in Request \ {r} : pc'[q] = pc[q] /\ req'[q] = req[q]
             /\ pc[r] = "idle" /\ pc'[r] # "idle"
             /\ UNCHANGED <<calls, accounts, ledger, alerts>>
    BY <1>3, <1>12
  <2> QED
    BY <1>11, <2>1 DEF BodiesKept, Arrived
<1>13. CASE \E r \in Request : Patch(r) \/ Commit(r) \/ \E a \in Account : Get(r, a)
  BY <1>2, <1>4, <1>5, <1>6, <1>7, <1>11, <1>13
<1> QED
  BY <1>2, <1>8, <1>9, <1>10, <1>12, <1>13 DEF Next

LEMMA NextBalances ==
  ASSUME AnswersArrive, IInv, IInv', OnceInv, OnceInv', BalancesInv, [Next]_vars
  PROVE  BalancesInv'
<1>1. TypeOK /\ calls \in [Request -> [Op -> CallRecord]]
  BY DEF IInv, TypeOK
<1>2. BodiesKept
  BY NextKeeps
<1>3. CASE \E r \in Request, op \in Op : ServerExecutes(r, op)
  BY <1>3, BalancesExecute
<1>4. CASE ~ \E r \in Request, op \in Op : ServerExecutes(r, op)
  <2>1. ExecutedKept
    BY <1>4, NothingExecuted
  <2>2. \A a \in Account : accounts'[a].balance = accounts[a].balance
    <3>1. ASSUME NEW x \in Account, AccountChanges(x)
          PROVE  \A a \in Account : accounts'[a].balance = accounts[a].balance
      BY <1>1, <3>1 DEF AccountChanges, TypeOK, AccountRecord
    <3>2. ASSUME NEW r \in Request, Arrival(r) \/ Patch(r) \/ Commit(r)
                                    \/ (\E a \in Account : Get(r, a))
          PROVE  UNCHANGED accounts
      <4>1. Arrival(r) => UNCHANGED accounts
        BY DEF Arrival, Accept, RejectSameAccount, RejectKeyReuse, Replay, LookupFails,
               Arrives, external
      <4>2. Patch(r) => UNCHANGED accounts
        BY DEF Patch, DebitReturns, DebitFails, CreditReturns, CreditFails,
               RollbackReturns, RollbackFails, RollbackEnds, external
      <4>3. Commit(r) => UNCHANGED accounts
        BY DEF Commit, RecordSingle, InsertBoth, IncrementDailyTotal, StoreIdempotent,
               DbFails, external
      <4>4. \A a \in Account : Get(r, a) => UNCHANGED accounts
        BY DEF Get, GetReturns, GetFallsBack, GetFails, external
      <4> QED
        BY <3>2, <4>1, <4>2, <4>3, <4>4
    <3>3. Tick \/ Crash \/ UNCHANGED vars \/ (\E r \in Request : Server(r)) => UNCHANGED accounts
      BY <1>4 DEF Tick, Crash, vars, Server, ServerReads, Resends, external
    <3> QED
      BY <3>1, <3>2, <3>3 DEF Next
  <2>3. \A r \in Request, op \in Op : pc[r] = "idle" => calls[r][op].executed = 0
    BY DEF OnceInv, IInv, ControlInv, CallsAt, Sts, Op
  <2> QED
    BY <1>2, <2>1, <2>2, <2>3, NextKeeps, BalancesFrame
<1> QED
  BY <1>3, <1>4

-----------------------------------------------------------------------------
(* The sums of the ledger and of the alerts, with one element more.       *)

\* The ledger's sum, of any set of rows.
SignedSum(rows, a) == Sum([row \in rows |-> Signed(row)], {row \in rows : row.account = a})

LEMMA SignedSumAdds ==
  ASSUME NEW rows \in SUBSET Row, IsFiniteSet(rows), NEW row \in Row, row \notin rows,
         NEW a
  PROVE  /\ SignedSum(rows \cup {row}, a)
              = SignedSum(rows, a) + (IF row.account = a THEN Signed(row) ELSE 0)
         /\ SignedSum(rows, a) \in Int
         /\ IsFiniteSet(rows \cup {row})
<1>1. \A x \in Row : Signed(x) \in Int
  BY DEF Signed, Row
<1> DEFINE S == {x \in rows : x.account = a}
           T == {x \in rows \cup {row} : x.account = a}
           f == [x \in rows |-> Signed(x)]
           g == [x \in rows \cup {row} |-> Signed(x)]
<1>2. IsFiniteSet(S) /\ IsFiniteSet(rows \cup {row})
  BY FS_Subset, FS_AddElement
<1>3. \A x \in S : f[x] \in Int /\ g[x] = f[x]
  BY <1>1
<1>4. g[row] = Signed(row) /\ g[row] \in Int /\ row \notin S
  BY <1>1
<1>5. T = IF row.account = a THEN S \cup {row} ELSE S
  OBVIOUS
<1>6. SignedSum(rows \cup {row}, a) = Sum(g, T) /\ SignedSum(rows, a) = Sum(f, S)
  BY DEF SignedSum
<1> HIDE DEF S, T, f, g
<1>7. Sum(f, S) \in Int
  BY <1>2, <1>3, SumType
<1>8. CASE row.account = a
  <2>1. Sum(g, T) = Sum(f, S) + g[row]
    BY <1>2, <1>3, <1>4, <1>5, <1>8, SumGrows
  <2> QED
    BY <1>2, <1>4, <1>6, <1>7, <1>8, <2>1
<1>9. CASE row.account # a
  <2>1. Sum(g, T) = Sum(f, S)
    BY <1>2, <1>3, <1>5, <1>9, SumSame
  <2> QED
    BY <1>2, <1>6, <1>7, <1>9, <2>1
<1> QED
  BY <1>8, <1>9

LEMMA LedgerSumIs == \A a : LedgerSum(a) = SignedSum(ledger, a)
BY DEF LedgerSum, SignedSum, Sum

\* The alerts' sum, of any requests and bodies.
AmountSum(rs, body, a) == Sum([q \in rs |-> body[q].amount], {q \in rs : body[q].from = a})

AmountAdds(old, was, new, is, r, a) ==
  AmountSum(new, is, a) = AmountSum(old, was, a) + (IF is[r].from = a THEN is[r].amount ELSE 0)

LEMMA AmountSumAdds ==
  ASSUME NEW old, IsFiniteSet(old), NEW r, r \notin old, NEW new, new = old \cup {r}, NEW a,
         NEW was, NEW is, \A q \in old : is[q] = was[q], \A q \in new : is[q].amount \in Int
  PROVE  AmountAdds(old, was, new, is, r, a)
<1> DEFINE S == {q \in old : was[q].from = a}
           T == {q \in new : is[q].from = a}
           f == [q \in old |-> was[q].amount]
           g == [q \in new |-> is[q].amount]
<1>1. IsFiniteSet(S)
  BY FS_Subset
<1>2. \A x \in S : f[x] \in Int /\ g[x] = f[x]
  OBVIOUS
<1>3. g[r] = is[r].amount /\ g[r] \in Int /\ r \notin S
  OBVIOUS
<1>4. T = IF is[r].from = a THEN S \cup {r} ELSE S
  OBVIOUS
<1> HIDE DEF S, T, f, g
<1>5. Sum(f, S) \in Int
  BY <1>1, <1>2, SumType
<1>6. Sum(g, T) = Sum(f, S) + (IF is[r].from = a THEN is[r].amount ELSE 0)
  <2>1. CASE is[r].from = a
    <3>1. Sum(g, T) = Sum(f, S) + g[r]
      BY <1>1, <1>2, <1>3, <1>4, <2>1, SumGrows
    <3> QED
      BY <1>3, <2>1, <3>1
  <2>2. CASE is[r].from # a
    <3>1. Sum(g, T) = Sum(f, S)
      BY <1>1, <1>2, <1>4, <2>2, SumSame
    <3> QED
      BY <1>5, <2>2, <3>1
  <2> QED
    BY <2>1, <2>2
<1> QED
  BY <1>5, <1>6 DEF S, T, f, g, AmountSum, AmountAdds

\* The effects of requests at their end are settled.
LEMMA EndedKept ==
  ASSUME AnswersArrive, IInv, OnceInv, [Next]_vars
  PROVE  \A r \in Ended : /\ r \in Ended' /\ req'[r] = req[r] /\ pc[r] # "idle"
                          /\ \A a \in Account :
                               /\ EffectOn(a)[r] = Effect(r, a) /\ Effect(r, a) \in Int
                               /\ EffectOn(a)'[r] = EffectOn(a)[r]
<1> SUFFICES ASSUME NEW r \in Request, pc[r] \in Committed
             PROVE  /\ r \in Ended' /\ req'[r] = req[r] /\ pc[r] # "idle"
                    /\ \A a \in Account :
                         /\ EffectOn(a)[r] = Effect(r, a) /\ Effect(r, a) \in Int
                         /\ EffectOn(a)'[r] = EffectOn(a)[r]
  BY DEF Ended
<1>1. pc[r] # "idle" /\ \A op \in Op : calls[r][op].st # "open"
  BY DEF IInv, ControlInv, CallsAt, Sts, Op, Committed, Committing
<1>2. pc'[r] \in Committed /\ req'[r] = req[r]
  BY <1>1, NextKeeps DEF BodiesKept
<1>3. \A op \in Op : calls'[r][op].executed = calls[r][op].executed
  <2>1. CASE \E q \in Request, o \in Op : ServerExecutes(q, o)
    BY <1>1, <2>1, ExecutedOnce
  <2> QED
    BY <2>1, NothingExecuted DEF ExecutedKept
<1>4. \A a \in Account : Effect(r, a)' = Effect(r, a)
  BY <1>2, <1>3, EffectKept
<1> QED
  BY <1>1, <1>2, <1>4, EffectFacts DEF Ended, EffectOn

\* Nobody comes to an end, and nothing is written.
LEMMA BooksFrame ==
  ASSUME AnswersArrive, IInv, OnceInv, BalancesInv, BooksInv, [Next]_vars,
         UNCHANGED <<ledger, alerts>>, Ended' = Ended
  PROVE  BooksInv'
<1>1. IsFiniteSet(Ended)
  <2>1. Ended \subseteq Arrived
    BY DEF Ended, Arrived, Committed, Committing
  <2> QED
    BY <2>1, FS_Subset DEF BalancesInv
<1>2. alerts \subseteq Ended /\ \A r \in alerts : req'[r] = req[r]
  <2>1. alerts \subseteq Ended
    BY DEF BooksInv, Ended, Committed, IInv, TypeOK
  <2> QED
    BY <2>1, EndedKept
<1>3. \A r \in alerts : pc'[r] = "done"
  <2>1. \A r \in alerts : r \in Request /\ pc[r] = "done"
    BY DEF BooksInv, IInv, TypeOK
  <2> QED
    BY <2>1, NextOver DEF AfterAnswer, Over
<1>4. \A a \in Account : LedgerSum(a)' = LedgerSum(a) /\ AlertSum(a)' = AlertSum(a)
  <2>1. \A a \in Account : /\ {r \in alerts' : req'[r].from = a} = {r \in alerts : req[r].from = a}
                           /\ [r \in alerts' |-> req'[r].amount] = [r \in alerts |-> req[r].amount]
    BY <1>2
  <2> QED
    BY <2>1 DEF LedgerSum, AlertSum
<1>5. ASSUME NEW a \in Account
      PROVE  Sum(EffectOn(a)', Ended') = Sum(EffectOn(a), Ended)
  <2>1. PICK f : f = EffectOn(a)
    OBVIOUS
  <2>2. PICK g : g = EffectOn(a)'
    OBVIOUS
  <2>3. \A r \in Ended : g[r] = f[r]
    BY <2>1, <2>2, EndedKept
  <2> QED
    BY <1>1, <2>1, <2>2, <2>3, SumSame
<1> QED
  BY <1>3, <1>4, <1>5 DEF BooksInv

\* A request comes to its end, and what was executed of it is accounted for.
LEMMA BooksAdd ==
  ASSUME AnswersArrive, IInv, IInv', OnceInv, BalancesInv, BooksInv, [Next]_vars,
         NEW r \in Request, r \notin Ended, Ended' = Ended \cup {r},
         IsFiniteSet(ledger'), alerts' \subseteq alerts \cup {r},
         r \in alerts' => pc'[r] = "done",
         \A a \in Account : LedgerSum(a)' - AlertSum(a)'
                              = (LedgerSum(a) - AlertSum(a)) + Effect(r, a)'
  PROVE  BooksInv'
<1>1. IsFiniteSet(Ended)
  <2>1. Ended \subseteq Arrived
    BY DEF Ended, Arrived, Committed, Committing
  <2> QED
    BY <2>1, FS_Subset DEF BalancesInv
<1>2. \A q \in alerts' : pc'[q] = "done"
  <2>1. \A q \in alerts : q \in Request /\ pc[q] = "done"
    BY DEF BooksInv, IInv, TypeOK
  <2> QED
    BY <2>1, NextOver DEF AfterAnswer, Over
<1>3. ASSUME NEW a \in Account
      PROVE  LedgerSum(a)' - AlertSum(a)' = Sum(EffectOn(a)', Ended')
  <2>1. PICK f : f = EffectOn(a)
    OBVIOUS
  <2>2. PICK g : g = EffectOn(a)'
    OBVIOUS
  <2>3. \A q \in Ended : f[q] \in Int /\ g[q] = f[q]
    BY <2>1, <2>2, EndedKept
  <2>4. g[r] = Effect(r, a)' /\ g[r] \in Int
    <3>1. g = [q \in Request |-> Effect(q, a)']
      BY <2>2 DEF EffectOn
    <3>2. pc'[r] # "idle" /\ req'[r] \in Body
      BY DEF Ended, Committed, Committing, IInv, ReqInv
    <3>3. req'[r].amount \in Int
      BY <3>2, BodyFacts
    <3> QED
      BY <3>1, <3>3 DEF Effect, Took
  <2>5. Sum(g, Ended') = Sum(f, Ended) + g[r]
    BY <1>1, <2>3, <2>4, SumGrows
  <2>6. LedgerSum(a) - AlertSum(a) = Sum(f, Ended)
    BY <2>1 DEF BooksInv
  <2> QED
    BY <2>2, <2>4, <2>5, <2>6
<1> QED
  BY <1>2, <1>3 DEF BooksInv

-----------------------------------------------------------------------------
(* Balances against the ledger and the alerts.                            *)

LEMMA SumsTyped ==
  ASSUME IInv, BalancesInv, BooksInv
  PROVE  /\ \A a \in Account : LedgerSum(a) \in Int /\ AlertSum(a) \in Int
         /\ IsFiniteSet(alerts) /\ alerts \subseteq Ended
         /\ \A q \in alerts : req[q].amount \in Int
<1>1. alerts \subseteq Ended /\ Ended \subseteq Arrived
  BY DEF BooksInv, Ended, Committed, Committing, IInv, TypeOK, Arrived
<1>2. IsFiniteSet(alerts) /\ IsFiniteSet(Ended) /\ IsFiniteSet(Arrived)
  BY <1>1, FS_Subset DEF BalancesInv
<1>3. \A r \in alerts : req[r].amount \in Int
  <2>1. \A r \in Ended : req[r] \in Body
    BY DEF Ended, IInv, ReqInv, Committed, Committing
  <2> QED
    BY <1>1, <2>1, BodyFacts
<1>4. ASSUME NEW a \in Account
      PROVE  LedgerSum(a) \in Int
  <2>1. {row \in ledger : row.account = a} \subseteq ledger /\ ledger \subseteq Row
    BY DEF IInv, TypeOK
  <2>2. IsFiniteSet({row \in ledger : row.account = a})
    BY <2>1, FS_Subset DEF BooksInv
  <2>3. \A row \in {x \in ledger : x.account = a} : [x \in ledger |-> Signed(x)][row] \in Int
    BY <2>1 DEF Signed, Row
  <2>4. Sum([x \in ledger |-> Signed(x)], {row \in ledger : row.account = a}) \in Int
    BY <2>2, <2>3, SumType
  <2> QED
    BY <2>4 DEF LedgerSum, Sum
<1>5. ASSUME NEW a \in Account
      PROVE  AlertSum(a) \in Int
  <2>1. IsFiniteSet({q \in alerts : req[q].from = a})
    BY <1>2, FS_Subset
  <2>2. \A r \in {q \in alerts : req[q].from = a} : [x \in alerts |-> req[x].amount][r] \in Int
    BY <1>3
  <2>3. Sum([x \in alerts |-> req[x].amount], {q \in alerts : req[q].from = a}) \in Int
    BY <2>1, <2>2, SumType
  <2> QED
    BY <2>3 DEF AlertSum, Sum
<1> QED
  BY <1>1, <1>2, <1>3, <1>4, <1>5

\* The sums of a step that writes no row, or raises no alert.
LEMMA SumsKept ==
  ASSUME AnswersArrive, IInv, OnceInv, BalancesInv, BooksInv, [Next]_vars
  PROVE  /\ UNCHANGED ledger => \A a \in Account : LedgerSum(a)' = LedgerSum(a)
         /\ UNCHANGED alerts => \A a \in Account : AlertSum(a)' = AlertSum(a)
         /\ \A a \in Account : LedgerSum(a) \in Int /\ AlertSum(a) \in Int
         /\ IsFiniteSet(alerts) /\ \A q \in alerts : req'[q] = req[q] /\ req[q].amount \in Int
<1>1. UNCHANGED ledger => \A a \in Account : LedgerSum(a)' = LedgerSum(a)
  BY DEF LedgerSum
<1>2. \A q \in alerts : req'[q] = req[q]
  BY SumsTyped, EndedKept
<1>3. ASSUME UNCHANGED alerts
      PROVE  \A a \in Account : AlertSum(a)' = AlertSum(a)
  <2>1. \A a \in Account : /\ {r \in alerts' : req'[r].from = a} = {r \in alerts : req[r].from = a}
                           /\ [r \in alerts' |-> req'[r].amount] = [r \in alerts |-> req[r].amount]
    BY <1>2, <1>3
  <2> QED
    BY <2>1 DEF AlertSum
<1> QED
  BY <1>1, <1>2, <1>3, SumsTyped

\* A request that ends without having moved money, or put it back.
LEMMA BooksNothing ==
  ASSUME AnswersArrive, IInv, IInv', OnceInv, OnceInv', BalancesInv, BooksInv, [Next]_vars,
         NEW r \in Request, r \notin Ended, Ended' = Ended \cup {r},
         UNCHANGED <<ledger, alerts>>,
         \/ \A op \in Op : calls'[r][op].st \in {"none", "failed"}
         \/ Sts(r, "ok", "failed", "ok")'
  PROVE  BooksInv'
<1>1. r \notin alerts'
  BY DEF BooksInv, Ended, Committed
<1>2. req'[r].amount \in Int
  BY BodyFacts DEF Ended, Committed, Committing, IInv, ReqInv
<1>3. \A a \in Account : Effect(r, a)' = 0
  <2>1. \/ \A op \in Op : Took(r, op)' = 0
        \/ /\ Took(r, "debit")' = req'[r].amount /\ Took(r, "credit")' = 0
           /\ Took(r, "rollback")' = req'[r].amount
    BY DEF Took, OnceInv, Sts, Op
  <2> QED
    BY <1>2, <2>1 DEF Effect, Op
<1>4. \A a \in Account : LedgerSum(a)' - AlertSum(a)' = (LedgerSum(a) - AlertSum(a)) + Effect(r, a)'
  <2> SUFFICES ASSUME NEW a \in Account
               PROVE  LedgerSum(a)' - AlertSum(a)' = (LedgerSum(a) - AlertSum(a)) + Effect(r, a)'
    OBVIOUS
  <2>1. /\ LedgerSum(a) \in Int /\ AlertSum(a) \in Int
        /\ LedgerSum(a)' = LedgerSum(a) /\ AlertSum(a)' = AlertSum(a)
    BY SumsKept
  <2> QED
    BY <1>3, <2>1
<1> QED
  BY <1>1, <1>4, BooksAdd DEF BooksInv

\* A rollback fails.
LEMMA BooksAlert ==
  ASSUME AnswersArrive, IInv, IInv', OnceInv, OnceInv', BalancesInv, BooksInv, [Next]_vars,
         NEW r \in Request, r \notin Ended, Ended' = Ended \cup {r},
         UNCHANGED ledger, alerts' = alerts \cup {r}, pc'[r] = "done",
         Sts(r, "ok", "failed", "failed")'
  PROVE  BooksInv'
<1>1. r \notin alerts
  BY DEF BooksInv, Ended, Committed
<1>2. req'[r].amount \in Int
  BY BodyFacts DEF Ended, Committed, Committing, IInv, ReqInv
<1>3. \A a \in Account :
        Effect(r, a)' = IF req'[r].from = a THEN -req'[r].amount ELSE 0
  <2>1. /\ Took(r, "debit")' = req'[r].amount /\ Took(r, "credit")' = 0
        /\ Took(r, "rollback")' = 0
    BY <1>2 DEF Took, OnceInv, Sts, Op
  <2> QED
    BY <1>2, <2>1 DEF Effect
<1>4. ASSUME NEW a \in Account
      PROVE  AlertSum(a)' = AlertSum(a) + (IF req'[r].from = a THEN req'[r].amount ELSE 0)
  <2>1. PICK is, new, was, old : is = req' /\ new = alerts' /\ was = req /\ old = alerts
    OBVIOUS
  <2>2. IsFiniteSet(old) /\ \A q \in old : is[q] = was[q] /\ was[q].amount \in Int
    BY <2>1, SumsKept
  <2>3. AmountSum(new, is, a) = AmountSum(old, was, a)
                                + (IF is[r].from = a THEN is[r].amount ELSE 0)
    <3>1. r \notin old /\ new = old \cup {r} /\ \A q \in new : is[q].amount \in Int
      BY <1>1, <1>2, <2>1, <2>2
    <3>2. IsFiniteSet(old) /\ (\A q \in old : is[q] = was[q])
      BY <2>2
    <3>3. \A q \in new : is[q].amount \in Int
      BY <3>1
    <3>4. r \notin old
      BY <3>1
    <3>5. new = old \cup {r}
      BY <3>1
    <3> HIDE <1>1, <1>2, <1>3
    <3>6. AmountAdds(old, was, new, is, r, a)
      BY <3>2, <3>3, <3>4, <3>5, AmountSumAdds
    <3> QED
      BY <3>6 DEF AmountAdds
  <2> QED
    BY <2>1, <2>3 DEF AlertSum, AmountSum, Sum
<1>5. \A a \in Account : LedgerSum(a)' - AlertSum(a)' = (LedgerSum(a) - AlertSum(a)) + Effect(r, a)'
  <2> SUFFICES ASSUME NEW a \in Account
               PROVE  LedgerSum(a)' - AlertSum(a)' = (LedgerSum(a) - AlertSum(a)) + Effect(r, a)'
    OBVIOUS
  <2>1. LedgerSum(a) \in Int /\ AlertSum(a) \in Int /\ LedgerSum(a)' = LedgerSum(a)
    BY SumsKept
  <2> QED
    BY <1>2, <1>3, <1>4, <2>1
<1> QED
  BY <1>5, BooksAdd DEF BooksInv

\* New rows of a request.
LEMMA BooksRecord ==
  ASSUME AnswersArrive, IInv, IInv', OnceInv, OnceInv', SafeInv, BalancesInv, BooksInv,
         [Next]_vars, NEW r \in Request, RecordSingle(r) \/ InsertBoth(r),
         Ended' = Ended \cup {r}
  PROVE  BooksInv'
<1>1. /\ pc[r] = "recording" /\ pc[r] \in SyncPhase /\ r \notin Ended
      /\ UNCHANGED <<req, calls, alerts>> /\ TypeOK
  BY DEF RecordSingle, InsertBoth, SyncPhase, Ended, Committed, Committing, side, IInv
<1>2. /\ req[r] \in Body /\ req[r].amount \in Int /\ req[r].from \in Account /\ req[r].to \in Account
      /\ req[r].kind \in Kind /\ req[r].amount # 0
      /\ \A op \in Op : calls[r][op].st = "ok" => replies[r][op] \in AccountRecord
  BY <1>1, CommitFacts, BodyFacts
<1>3. ledger \subseteq Row /\ IsFiniteSet(ledger) /\ \A row \in ledger : row.by # r
  BY <1>1 DEF TypeOK, BooksInv, SafeInv, RowInv, Committed, Committing
<1>4. r \notin alerts'
  BY <1>1 DEF BooksInv
<1>5. ASSUME NEW type \in TxnType, calls[r][OpOf(type)].st = "ok"
      PROVE  /\ Leg(r, type) \in Row /\ Leg(r, type).by = r /\ Leg(r, type).type = type
             /\ Leg(r, type).account = Target(r, OpOf(type))
             /\ Signed(Leg(r, type)) = IF OpOf(type) = "debit" THEN -req[r].amount
                                       ELSE req[r].amount
  <2>1. replies[r][OpOf(type)] \in AccountRecord
    BY <1>2, <1>5, OpOfFacts
  <2>2. Leg(r, type) \in Row /\ Leg(r, type).by = r /\ Leg(r, type).type = type
    BY <1>2, <2>1, LegFacts DEF OpOf
  <2>3. Leg(r, type).account = Target(r, OpOf(type)) /\ Leg(r, type).amount = req[r].amount
    BY DEF Leg, OpOf
  <2> QED
    BY <2>2, <2>3 DEF Signed
<1>6. ASSUME NEW a \in Account,
             SignedSum(ledger', a) = SignedSum(ledger, a) + Effect(r, a),
             SignedSum(ledger, a) \in Int
      PROVE  LedgerSum(a)' - AlertSum(a)' = (LedgerSum(a) - AlertSum(a)) + Effect(r, a)'
  <2>1. /\ LedgerSum(a)' = SignedSum(ledger', a) /\ LedgerSum(a) = SignedSum(ledger, a)
        /\ AlertSum(a)' = AlertSum(a) /\ AlertSum(a) \in Int
    BY <1>1, SumsKept DEF LedgerSum, SignedSum, Sum
  <2>2. Effect(r, a)' = Effect(r, a) /\ Effect(r, a) \in Int
    BY <1>1, <1>2, EffectKept, EffectFacts
  <2> QED
    BY <1>6, <2>1, <2>2
<1>7. CASE RecordSingle(r)
  <2> DEFINE leg == Leg(r, req[r].kind)
  <2>1. /\ req[r].kind \in TxnType /\ calls[r][OpOf(req[r].kind)].st = "ok"
        /\ \/ req[r].kind = "DEPOSIT" /\ Sts(r, "none", "ok", "none")
           \/ req[r].kind = "WITHDRAWAL" /\ Sts(r, "ok", "none", "none")
        /\ ledger' = ledger \cup {leg} /\ req[r].from = req[r].to
    BY <1>2, <1>7, BodyFacts DEF RecordSingle, IInv, ControlInv, CallsAt, Sts, OpOf, TxnType, Kind
  <2>2. /\ leg \in Row /\ leg.by = r /\ leg.account = req[r].to
        /\ Signed(leg) = IF req[r].kind = "DEPOSIT" THEN req[r].amount ELSE -req[r].amount
    BY <1>5, <2>1 DEF Target, OpOf
  <2>3. \A a \in Account : Effect(r, a) = IF req[r].to = a THEN Signed(leg) ELSE 0
    <3>1. /\ Took(r, "debit") = IF req[r].kind = "WITHDRAWAL" THEN req[r].amount ELSE 0
          /\ Took(r, "credit") = IF req[r].kind = "DEPOSIT" THEN req[r].amount ELSE 0
          /\ Took(r, "rollback") = 0
      BY <2>1 DEF Took, OnceInv, Sts, Op
    <3> QED
      BY <1>2, <2>1, <2>2, <3>1 DEF Effect
  <2> HIDE DEF leg
  <2>4. leg \notin ledger
    BY <1>3, <2>2
  <2>5. /\ \A a \in Account : /\ SignedSum(ledger', a) = SignedSum(ledger, a) + Effect(r, a)
                              /\ SignedSum(ledger, a) \in Int
        /\ IsFiniteSet(ledger')
    BY <1>3, <2>1, <2>2, <2>3, <2>4, SignedSumAdds
  <2>6. \A a \in Account : LedgerSum(a)' - AlertSum(a)' = (LedgerSum(a) - AlertSum(a)) + Effect(r, a)'
    BY <1>6, <2>5
  <2> QED
    BY <1>1, <1>4, <2>5, <2>6, BooksAdd
<1>8. CASE InsertBoth(r)
  <2> DEFINE out == Leg(r, "TRANSFER_OUT")
             in  == Leg(r, "TRANSFER_IN")
  <2>1. Sts(r, "ok", "ok", "none") /\ ledger' = (ledger \cup {out}) \cup {in}
    BY <1>8 DEF InsertBoth, IInv, ControlInv, CallsAt
  <2>2. /\ out \in Row /\ out.by = r /\ out.type = "TRANSFER_OUT"
        /\ out.account = req[r].from /\ Signed(out) = -req[r].amount
        /\ in \in Row /\ in.by = r /\ in.type = "TRANSFER_IN"
        /\ in.account = req[r].to /\ Signed(in) = req[r].amount
    <3>1. /\ OpOf("TRANSFER_OUT") = "debit" /\ OpOf("TRANSFER_IN") = "credit"
          /\ {"TRANSFER_OUT", "TRANSFER_IN"} \subseteq TxnType
      BY DEF OpOf, TxnType
    <3> QED
      BY <1>5, <2>1, <3>1 DEF Target, Sts
  <2>3. \A a \in Account :
          Effect(r, a) = (IF req[r].from = a THEN Signed(out) ELSE 0)
                         + (IF req[r].to = a THEN Signed(in) ELSE 0)
    <3>1. /\ Took(r, "debit") = req[r].amount /\ Took(r, "credit") = req[r].amount
          /\ Took(r, "rollback") = 0
      BY <2>1 DEF Took, OnceInv, Sts, Op
    <3> QED
      BY <1>2, <2>2, <3>1 DEF Effect
  <2> HIDE DEF out, in
  <2>4. out \notin ledger /\ in \notin ledger \cup {out} /\ ledger \cup {out} \in SUBSET Row
    BY <1>3, <2>2
  <2>5. /\ \A a \in Account :
             /\ SignedSum(ledger \cup {out}, a)
                  = SignedSum(ledger, a) + (IF req[r].from = a THEN Signed(out) ELSE 0)
             /\ SignedSum(ledger, a) \in Int
        /\ IsFiniteSet(ledger \cup {out})
    <3>1. PICK rows : rows = ledger
      OBVIOUS
    <3>2. rows \in SUBSET Row /\ IsFiniteSet(rows) /\ out \in Row /\ out \notin rows
      BY <1>3, <2>2, <2>4, <3>1
    <3>3. /\ \A a \in Account :
               /\ SignedSum(rows \cup {out}, a)
                    = SignedSum(rows, a) + (IF out.account = a THEN Signed(out) ELSE 0)
               /\ SignedSum(rows, a) \in Int
          /\ IsFiniteSet(rows \cup {out})
      BY <3>2, SignedSumAdds
    <3> QED
      BY <2>2, <3>1, <3>3
  <2>6. /\ \A a \in Account :
             SignedSum((ledger \cup {out}) \cup {in}, a)
               = SignedSum(ledger \cup {out}, a) + (IF req[r].to = a THEN Signed(in) ELSE 0)
        /\ IsFiniteSet((ledger \cup {out}) \cup {in})
    <3>1. PICK rows : rows = ledger \cup {out}
      OBVIOUS
    <3>2. rows \in SUBSET Row /\ IsFiniteSet(rows) /\ in \in Row /\ in \notin rows
      BY <2>2, <2>4, <2>5, <3>1
    <3>3. /\ \A a \in Account :
               SignedSum(rows \cup {in}, a)
                 = SignedSum(rows, a) + (IF in.account = a THEN Signed(in) ELSE 0)
          /\ IsFiniteSet(rows \cup {in})
      BY <3>2, SignedSumAdds
    <3> QED
      BY <2>2, <3>1, <3>3
  <2>7. ASSUME NEW a \in Account
        PROVE  SignedSum(ledger', a) = SignedSum(ledger, a) + Effect(r, a)
    <3>1. Signed(out) \in Int /\ Signed(in) \in Int
      BY <1>2, <2>2
    <3>2. /\ SignedSum(ledger', a) = SignedSum(ledger \cup {out}, a)
                                     + (IF req[r].to = a THEN Signed(in) ELSE 0)
          /\ SignedSum(ledger \cup {out}, a)
               = SignedSum(ledger, a) + (IF req[r].from = a THEN Signed(out) ELSE 0)
          /\ SignedSum(ledger, a) \in Int
      BY <2>1, <2>5, <2>6
    <3> QED
      BY <2>3, <3>1, <3>2
  <2>8. \A a \in Account : LedgerSum(a)' - AlertSum(a)' = (LedgerSum(a) - AlertSum(a)) + Effect(r, a)'
    BY <1>6, <2>5, <2>7
  <2>9. IsFiniteSet(ledger')
    BY <2>1, <2>6
  <2> QED
    BY <1>1, <1>4, <2>8, <2>9, BooksAdd
<1> QED
  BY <1>7, <1>8

LEMMA NextBooks ==
  ASSUME NoFaults, IInv, IInv', OnceInv, OnceInv', SafeInv, BalancesInv, BooksInv, [Next]_vars
  PROVE  BooksInv'
<1>1. TypeOK /\ ~Crash /\ AnswersArrive /\ "db" \notin Faults
  BY NoCrash DEF IInv, NoFaults, AnswersArrive
<1>2. CASE UNCHANGED <<pc, ledger, alerts>>
  BY <1>1, <1>2, BooksFrame DEF Ended
<1>3. ASSUME NEW r \in Request, StepOf(r),
             UNCHANGED <<ledger, alerts>>, pc[r] \in Committed <=> pc'[r] \in Committed
      PROVE  BooksInv'
  <2>1. Ended' = Ended
    BY <1>3 DEF StepOf, Ended
  <2> QED
    BY <1>1, <1>3, <2>1, BooksFrame
<1>4. ASSUME NEW r \in Request, StepOf(r), pc[r] \notin Committed, pc'[r] \in Committed
      PROVE  r \notin Ended /\ Ended' = Ended \cup {r}
  BY <1>4 DEF StepOf, Ended
<1>5. ASSUME NEW r \in Request, StepOf(r), pc[r] \notin Committed, pc'[r] = "done",
             Sts(r, "none", "none", "none")', UNCHANGED <<ledger, alerts>>
      PROVE  BooksInv'
  <2>1. \A op \in Op : calls'[r][op].st \in {"none", "failed"}
    BY <1>5 DEF Sts, Op
  <2> QED
    BY <1>1, <1>4, <1>5, <2>1, BooksNothing DEF Committed
<1>6. ASSUME NEW r \in Request, Arrival(r) \/ (\E a \in Account : Get(r, a))
      PROVE  BooksInv'
  <2>1. UNCHANGED <<ledger, alerts>>
    BY <1>6 DEF Arrival, Accept, RejectSameAccount, RejectKeyReuse, Replay, LookupFails,
                Arrives, Get, GetReturns, GetFallsBack, GetFails, tables, side
  <2>2. \/ UNCHANGED pc
        \/ StepOf(r) /\ pc[r] \in {"idle", "reading"}
    BY <1>6, ArrivalTouches, GetTouches
  <2>3. pc[r] \in {"idle", "reading"} => pc'[r] \notin Committing
    <3>1. Arrival(r) => pc'[r] \in {"done", "reading"}
      BY <1>1 DEF Arrival, Accept, RejectSameAccount, RejectKeyReuse, Replay, LookupFails,
                  Goto, Respond, TypeOK
    <3>2. ASSUME NEW a \in Account, NEW s, Settle(r, a, s)
          PROVE  pc'[r] \in {"done", "crediting", "debiting", pc[r]}
      BY <1>1, <3>2 DEF Settle, Decide, Goto, Respond, TypeOK
    <3>3. ASSUME NEW a \in Account, Get(r, a)
          PROVE  pc'[r] \in {"done", "crediting", "debiting", pc[r]}
      BY <1>1, <3>2, <3>3 DEF Get, GetReturns, GetFallsBack, GetFails, Respond, TypeOK
    <3> QED
      BY <1>6, <2>2, <3>1, <3>3 DEF Committing
  <2>4. CASE StepOf(r) /\ pc[r] \in {"idle", "reading"} /\ pc'[r] = "done"
    <3>1. Sts(r, "none", "none", "none")'
      <4>1. ~Patch(r) /\ pc[r] \notin SyncPhase
        BY <2>4 DEF SyncPhase, Patch, DebitReturns, DebitFails, CreditReturns,
           CreditFails, RollbackReturns, RollbackFails, RollbackEnds
      <4>2. pc[r] # "done"
        BY <2>4
      <4>3. pc'[r] = "done" /\ ~Crash
        BY <1>1, <2>4
      <4>4. \/ Sts(r, "none", "none", "none")'
            \/ Patch(r)
            \/ pc[r] \in SyncPhase
        BY <4>2, <4>3, HowItEnds, ZenonT(60)
      <4> QED
        BY <4>1, <4>4
    <3> QED
      BY <1>5, <2>1, <2>4, <3>1 DEF Committed, Committing
  <2> QED
    BY <1>2, <1>3, <2>1, <2>2, <2>3, <2>4 DEF Committed, Committing
<1>7. ASSUME NEW r \in Request, Patch(r)
      PROVE  BooksInv'
  <2>1. /\ StepOf(r) /\ pc[r] \notin Committed /\ UNCHANGED ledger
        /\ \/ pc'[r] = "done"
           \/ pc'[r] \notin Committed /\ UNCHANGED alerts
    <3>1. StepOf(r) /\ pc[r] \notin Committed /\ UNCHANGED ledger
      BY <1>7, PatchTouches
      DEF Patch, DebitReturns, DebitFails, CreditReturns, CreditFails, RollbackReturns,
          RollbackFails, RollbackEnds, tables, Committed, Committing
    <3>2. CASE \E code, of : Respond(r, code, of)
      BY <1>1, <3>1, <3>2, AnswerGiven
    <3>3. CASE ~ \E code, of : Respond(r, code, of)
      <4>1. UNCHANGED alerts /\ pc'[r] \in {"crediting", "recording", "rolling"}
        BY <1>1, <1>7, <3>3
        DEF Patch, DebitReturns, DebitFails, CreditReturns, CreditFails, RollbackReturns,
            RollbackFails, RollbackEnds, side, Goto, TypeOK
      <4> QED
        BY <3>1, <4>1 DEF Committed, Committing
    <3> QED
      BY <3>2, <3>3
  <2>2. CASE pc'[r] \notin Committed /\ UNCHANGED alerts
    BY <1>3, <2>1, <2>2
  <2>3. CASE pc'[r] = "done"
    <3>1. r \notin Ended /\ Ended' = Ended \cup {r}
      BY <1>4, <2>1, <2>3 DEF Committed
    <3>2. \/ UNCHANGED alerts /\ \A op \in Op : calls'[r][op].st \in {"none", "failed"}
          \/ UNCHANGED alerts /\ Sts(r, "ok", "failed", "ok")'
          \/ alerts' = alerts \cup {r} /\ Sts(r, "ok", "failed", "failed")'
      BY <1>7, <2>3, PatchEnds DEF Sts, Op
    <3> QED
      BY <1>1, <2>1, <2>3, <3>1, <3>2, BooksNothing, BooksAlert
  <2> QED
    BY <2>1, <2>2, <2>3
<1>8. ASSUME NEW r \in Request, Commit(r)
      PROVE  BooksInv'
  <2>1. StepOf(r) /\ ~DbFails(r)
    BY <1>1, <1>8, CommitTouches DEF DbFails
  <2>2. CASE RecordSingle(r) \/ InsertBoth(r)
    <3>1. pc[r] \notin Committed /\ pc'[r] \in Committed
      BY <1>1, <2>2 DEF RecordSingle, InsertBoth, Goto, Respond, TypeOK, Committed, Committing
    <3> QED
      BY <1>1, <1>4, <2>1, <2>2, <3>1, BooksRecord
  <2>3. CASE IncrementDailyTotal(r) \/ StoreIdempotent(r)
    <3>1. pc[r] \in Committed /\ pc'[r] \in Committed /\ UNCHANGED <<ledger, alerts>>
      BY <1>1, <2>3
      DEF IncrementDailyTotal, StoreIdempotent, Goto, Respond, TypeOK, Committed, Committing, side
    <3> QED
      BY <1>3, <2>1, <3>1
  <2> QED
    BY <1>8, <2>1, <2>2, <2>3 DEF Commit
<1>9. \A r \in Request : Server(r) => UNCHANGED <<pc, ledger, alerts>>
  BY DEF Server, ServerReads, ServerExecutes, Resends, tables, side
<1>10. Tick \/ (\E a \in Account : AccountChanges(a)) \/ UNCHANGED vars
        => UNCHANGED <<pc, ledger, alerts>>
  BY DEF Tick, AccountChanges, vars, tables, side
<1> QED
  BY <1>1, <1>2, <1>6, <1>7, <1>8, <1>9, <1>10 DEF Next

LEMMA BooksInvariant ==
  ASSUME NoFaults
  PROVE  Spec => [](IInv /\ BalancesInv /\ BooksInv)
<1>1. AnswersArrive
  BY DEF NoFaults
<1>2. Init => BalancesInv /\ BooksInv
  BY InitBooks
<1>3. /\ IInv /\ IInv' /\ OnceInv /\ OnceInv' /\ SafeInv /\ BalancesInv /\ BooksInv /\ [Next]_vars
      => (BalancesInv /\ BooksInv)'
  BY <1>1, NextBalances, NextBooks
<1>4. Spec => [](IInv /\ SafeInv /\ AnswerInv /\ OnceInv /\ AtomicInv)
  BY <1>1, AtomicInvariant
<1> QED
  BY <1>2, <1>3, <1>4, PTL DEF Spec

\* With nothing lost or late, no SQLite error and no crash, and however the
\* handlers interleave, what an operator adds up between requests agrees: every
\* balance at the Account Service is its opening one, plus the transactions
\* table, minus the debits that only CRITICAL_ROLLBACK_FAILED remembers.
THEOREM BooksReconcile ==
  ASSUME NoFaults
  PROVE  Spec => []Reconciled
<1>1. IInv /\ BalancesInv /\ BooksInv => Reconciled
  <2> SUFFICES ASSUME IInv, BalancesInv, BooksInv, Quiescent, NEW a \in Account
               PROVE  accounts[a].balance = Opening[a].balance + LedgerSum(a) - AlertSum(a)
    BY DEF Reconciled
  <2>1. Arrived = Ended
    BY DEF Quiescent, Arrived, Ended, Committed, Committing
  <2>2. /\ accounts[a].balance = Opening[a].balance + Sum(EffectOn(a), Ended)
        /\ LedgerSum(a) - AlertSum(a) = Sum(EffectOn(a), Ended)
    BY <2>1 DEF BalancesInv, BooksInv
  <2>3. Opening[a].balance \in Int /\ LedgerSum(a) \in Int /\ AlertSum(a) \in Int
    BY ServiceAssumption, SumsTyped DEF AccountRecord
  <2> QED
    BY <2>2, <2>3
<1> QED
  BY <1>1, BooksInvariant, PTL

-----------------------------------------------------------------------------
(* Daily totals against the ledger, under every fault.                    *)

\* One handler at a time is in the synchronous end of its transaction.
OneAtEnd == \A p, q \in Request : pc[p] \in SyncPhase /\ pc[q] \in SyncPhase => p = q

\* The transfers whose legs are in, and whose amount is not in the total yet.
Owing(a) == {r \in Request : pc[r] = "counting" /\ req[r].from = a}

Calm == crashes = 0 /\ "db" \notin Faults

TotalsInv ==
  /\ IsFiniteSet(ledger)
  /\ \A a \in Account :
       /\ DailySum(a) <= OutSum(a)
       /\ \A r \in Owing(a) : DailySum(a) + req[r].amount <= OutSum(a)
       /\ Calm => /\ Owing(a) = {} => DailySum(a) = OutSum(a)
                  /\ \A r \in Owing(a) : DailySum(a) + req[r].amount = OutSum(a)

\* The sum of the transfers out, of any set of rows.
OutAmount(rows, a) == Sum([row \in rows |-> row.amount],
                          {row \in rows : row.account = a /\ row.type = "TRANSFER_OUT"})

\* One more row in the sum.
OutAdds(old, row, a) ==
  OutAmount(old \cup {row}, a)
    = OutAmount(old, a) + (IF row.account = a /\ row.type = "TRANSFER_OUT"
                           THEN row.amount ELSE 0)

LEMMA OutAmountAdds ==
  ASSUME NEW rows \in SUBSET Row, IsFiniteSet(rows), NEW row \in Row, row \notin rows,
         NEW a
  PROVE  OutAdds(rows, row, a) /\ OutAmount(rows, a) \in Int /\ IsFiniteSet(rows \cup {row})
<1>1. \A x \in Row : x.amount \in Int
  BY DEF Row
<1> DEFINE In(x) == x.account = a /\ x.type = "TRANSFER_OUT"
           S == {x \in rows : In(x)}
           T == {x \in rows \cup {row} : In(x)}
           f == [x \in rows |-> x.amount]
           g == [x \in rows \cup {row} |-> x.amount]
<1>2. IsFiniteSet(S) /\ IsFiniteSet(rows \cup {row})
  BY FS_Subset, FS_AddElement
<1>3. \A x \in S : f[x] \in Int /\ g[x] = f[x]
  BY <1>1
<1>4. g[row] = row.amount /\ g[row] \in Int /\ row \notin S
  BY <1>1
<1>5. T = IF In(row) THEN S \cup {row} ELSE S
  OBVIOUS
<1>6. OutAmount(rows \cup {row}, a) = Sum(g, T) /\ OutAmount(rows, a) = Sum(f, S)
  BY DEF OutAmount
<1>7. OutAdds(rows, row, a) <=> Sum(g, T) = Sum(f, S) + (IF In(row) THEN row.amount ELSE 0)
  BY <1>6 DEF OutAdds
<1> HIDE DEF S, T, f, g, In
<1>8. Sum(f, S) \in Int
  BY <1>2, <1>3, SumType
<1>9. CASE In(row)
  <2>1. Sum(g, T) = Sum(f, S) + g[row]
    BY <1>2, <1>3, <1>4, <1>5, <1>9, SumGrows
  <2> QED
    BY <1>2, <1>4, <1>6, <1>7, <1>8, <1>9, <2>1
<1>10. CASE ~In(row)
  <2>1. Sum(g, T) = Sum(f, S)
    BY <1>2, <1>3, <1>5, <1>10, SumSame
  <2> QED
    BY <1>2, <1>6, <1>7, <1>8, <1>10, <2>1
<1> QED
  BY <1>9, <1>10

LEMMA OutSumIs == \A a : OutSum(a) = OutAmount(ledger, a)
BY DEF OutSum, OutAmount, Sum

LEMMA SumZero ==
  ASSUME NEW S, IsFiniteSet(S), NEW f, \A x \in S : f[x] = 0
  PROVE  Sum(f, S) = 0
<1> DEFINE Bad == {T \in SUBSET S : Sum(f, T) # 0}
<1>1. ASSUME Bad # {} PROVE FALSE
  <2>1. Bad \in SUBSET (SUBSET S)
    OBVIOUS
  <2>2. PICK T \in Bad : \A U \in Bad : U \subseteq T => U = T
    <3> HIDE DEF Bad
    <3> QED
      BY <1>1, <2>1, Smallest
  <2>3. /\ T # {} /\ First(T) \in T /\ T \subseteq S
        /\ Sum(f, T) = f[First(T)] + Sum(f, T \ {First(T)})
    BY <2>2, FS_Subset, SumEquation
  <2>4. T \ {First(T)} \notin Bad
    BY <2>2, <2>3
  <2> QED
    BY <2>2, <2>3, <2>4
<1> QED
  BY <1>1

LEMMA CrashesCount ==
  ASSUME [Next]_vars
  PROVE  crashes' \in {crashes, crashes + 1}
<1>1. ASSUME NEW r \in Request, Arrival(r) \/ Server(r)
      PROVE  UNCHANGED crashes
  BY <1>1 DEF Arrival, Accept, RejectSameAccount, RejectKeyReuse, Replay, LookupFails,
              Arrives, Server, ServerReads, ServerExecutes, Resends, env
<1>2. ASSUME NEW r \in Request, Patch(r)
      PROVE  UNCHANGED crashes
  BY <1>2 DEF Patch, DebitReturns, DebitFails, CreditReturns, CreditFails, RollbackReturns,
              RollbackFails, RollbackEnds, env
<1>3. ASSUME NEW r \in Request, Commit(r)
      PROVE  UNCHANGED crashes
  BY <1>3 DEF Commit, RecordSingle, InsertBoth, IncrementDailyTotal, StoreIdempotent,
              DbFails, env
<1>4. ASSUME NEW r \in Request, NEW a \in Account, Get(r, a)
      PROVE  UNCHANGED crashes
  BY <1>4 DEF Get, GetReturns, GetFallsBack, GetFails, env
<1>5. Tick \/ (\E a \in Account : AccountChanges(a)) \/ UNCHANGED vars => UNCHANGED crashes
  BY DEF Tick, AccountChanges, vars
<1> QED
  <2>1. Crash => crashes' = crashes + 1
    BY DEF Crash
  <2>2. Crash \/ UNCHANGED crashes
    BY <1>1, <1>2, <1>3, <1>4, <1>5 DEF Next
  <2> QED
    BY <2>1, <2>2

LEMMA DaysFinite == IsFiniteSet(Days)
<1>1. IsFiniteSet(0 .. MaxTime)
  <2>1. 0 \in Int /\ MaxTime \in Int
    BY ServiceAssumption
  <2>2. \A a, b \in Int : IsFiniteSet(a .. b)
    BY FS_Interval
  <2> QED
    BY <2>1, <2>2
<1>2. \A t \in 0 .. MaxTime : Day(t) \in 0 .. MaxTime
  BY ServiceAssumption, Z3 DEF Day
<1>3. Days \in SUBSET (0 .. MaxTime)
  BY <1>2 DEF Days
<1> QED
  BY <1>1, <1>3, FS_Subset

LEMMA DailyTyped ==
  ASSUME TypeOK, NEW a \in Account
  PROVE  DailySum(a) \in Nat /\ \A d \in Days : daily[a][d] \in Nat
<1>1. \A d \in Days : daily[a][d] \in Nat
  BY DEF TypeOK
<1>2. Sum(daily[a], Days) \in Nat
  BY <1>1, DaysFinite, SumType
<1> QED
  BY <1>1, <1>2 DEF DailySum, Sum

LEMMA OutTyped ==
  ASSUME TypeOK, IsFiniteSet(ledger), NEW a
  PROVE  OutSum(a) \in Int
<1>1. IsFiniteSet({row \in ledger : row.account = a /\ row.type = "TRANSFER_OUT"})
  BY FS_Subset
<1>2. \A row \in {x \in ledger : x.account = a /\ x.type = "TRANSFER_OUT"} :
        [x \in ledger |-> x.amount][row] \in Int
  BY DEF TypeOK, Row
<1>3. Sum([x \in ledger |-> x.amount],
          {row \in ledger : row.account = a /\ row.type = "TRANSFER_OUT"}) \in Int
  BY <1>1, <1>2, SumType
<1> QED
  BY <1>3 DEF OutSum, Sum

\* How a handler comes to the synchronous end, and to the counting.
LEMMA EndMoves ==
  ASSUME IInv, [Next]_vars
  PROVE  \/ /\ \A r \in Request : pc'[r] \in SyncPhase => pc'[r] = pc[r]
            /\ UNCHANGED <<ledger, daily>>
            /\ \/ \A r \in Request : pc[r] \in SyncPhase => pc'[r] = pc[r]
               \/ Crash \/ \E r \in Request : DbFails(r) \/ StoreIdempotent(r)
         \/ \E r \in Request : /\ LoopFree /\ pc'[r] = "recording" /\ StepOf(r)
                               /\ UNCHANGED <<ledger, daily>>
         \/ \E r \in Request : RecordSingle(r) \/ InsertBoth(r) \/ IncrementDailyTotal(r)
<1>1. TypeOK
  BY DEF IInv
<1>2. ASSUME NEW r \in Request, StepOf(r), pc[r] \notin SyncPhase, pc'[r] \notin SyncPhase
      PROVE  \A q \in Request : /\ pc'[q] \in SyncPhase => pc'[q] = pc[q]
                                /\ pc[q] \in SyncPhase => pc'[q] = pc[q]
  BY <1>2 DEF StepOf
<1>3. ASSUME NEW r \in Request, Arrival(r)
      PROVE  /\ StepOf(r) /\ pc[r] \notin SyncPhase /\ pc'[r] \notin SyncPhase
             /\ UNCHANGED <<ledger, daily>>
  <2>1. StepOf(r) /\ pc[r] \notin SyncPhase
    BY <1>3, ArrivalTouches DEF SyncPhase
  <2>2. pc'[r] \in {"done", "reading"} /\ UNCHANGED <<ledger, daily>>
    BY <1>1, <1>3 DEF Arrival, Accept, RejectSameAccount, RejectKeyReuse, Replay, LookupFails,
                      Arrives, Goto, Respond, TypeOK, tables
  <2> QED
    BY <2>1, <2>2 DEF SyncPhase
<1>4. ASSUME NEW r \in Request, NEW a \in Account, Get(r, a)
      PROVE  /\ UNCHANGED <<ledger, daily>>
             /\ \/ UNCHANGED pc
                \/ StepOf(r) /\ pc[r] \notin SyncPhase /\ pc'[r] \notin SyncPhase
  <2>1. UNCHANGED <<ledger, daily>>
    BY <1>4 DEF Get, GetReturns, GetFallsBack, GetFails, tables
  <2>2. UNCHANGED pc \/ (StepOf(r) /\ pc[r] = "reading")
    BY <1>4, GetTouches
  <2>3. ASSUME pc[r] = "reading", NEW s, Settle(r, a, s)
        PROVE  pc'[r] \in {"done", "crediting", "debiting", "reading"}
    BY <1>1, <2>3 DEF Settle, Decide, Goto, Respond, TypeOK
  <2>4. pc[r] = "reading" => pc'[r] \in {"done", "crediting", "debiting", "reading"}
    BY <1>1, <1>4, <2>3 DEF Get, GetReturns, GetFallsBack, GetFails, Respond, TypeOK
  <2> QED
    BY <2>1, <2>2, <2>4 DEF SyncPhase
<1>5. ASSUME NEW r \in Request, Patch(r)
      PROVE  /\ UNCHANGED <<ledger, daily>> /\ LoopFree /\ StepOf(r) /\ pc[r] \notin SyncPhase
             /\ pc'[r] \in SyncPhase => pc'[r] = "recording"
  <2>1. UNCHANGED <<ledger, daily>> /\ LoopFree
    BY <1>5 DEF Patch, DebitReturns, DebitFails, CreditReturns, CreditFails,
                RollbackReturns, RollbackFails, RollbackEnds, tables
  <2>2. pc'[r] \in {"done", "crediting", "recording", "rolling"}
    BY <1>1, <1>5 DEF Patch, DebitReturns, DebitFails, CreditReturns, CreditFails,
                RollbackReturns, RollbackFails, RollbackEnds, Goto, Respond, TypeOK
  <2>3. StepOf(r)
    BY <1>5, PatchTouches
  <2>4. pc[r] \notin SyncPhase
    BY <2>1 DEF LoopFree
  <2>5. pc'[r] \in SyncPhase => pc'[r] = "recording"
    BY <2>2 DEF SyncPhase
  <2> QED
    BY <2>1, <2>3, <2>4, <2>5
<1>6. ASSUME NEW r \in Request, DbFails(r) \/ StoreIdempotent(r)
      PROVE  /\ UNCHANGED <<ledger, daily>>
             /\ \A q \in Request : pc'[q] \in SyncPhase => pc'[q] = pc[q]
  BY <1>1, <1>6 DEF DbFails, StoreIdempotent, Respond, TypeOK, tables, SyncPhase
<1>7. \A r \in Request : Server(r) => UNCHANGED <<pc, ledger, daily>>
  BY DEF Server, ServerReads, ServerExecutes, Resends, tables
<1>8. Tick \/ (\E a \in Account : AccountChanges(a)) \/ UNCHANGED vars
       => UNCHANGED <<pc, ledger, daily>>
  BY DEF Tick, AccountChanges, vars, tables
<1>9. Crash => /\ UNCHANGED <<ledger, daily>>
               /\ \A q \in Request : pc'[q] \in SyncPhase => pc'[q] = pc[q]
  BY DEF Crash, tables, InFlight, SyncPhase
<1>10. ASSUME NEW r \in Request, Arrival(r) \/ Patch(r) \/ (\E a \in Account : Get(r, a))
       PROVE  \/ UNCHANGED <<pc, ledger, daily>>
              \/ /\ UNCHANGED <<ledger, daily>>
                 /\ \A q \in Request : /\ pc'[q] \in SyncPhase => pc'[q] = pc[q]
                                       /\ pc[q] \in SyncPhase => pc'[q] = pc[q]
              \/ /\ LoopFree /\ pc'[r] = "recording" /\ StepOf(r)
                 /\ UNCHANGED <<ledger, daily>>
  BY <1>2, <1>3, <1>4, <1>5, <1>10
<1>11. CASE \E r \in Request : Arrival(r) \/ Patch(r) \/ (\E a \in Account : Get(r, a))
  BY <1>10, <1>11
<1>12. CASE \E r \in Request : Commit(r)
  BY <1>6, <1>12 DEF Commit
<1> QED
  BY <1>7, <1>8, <1>9, <1>11, <1>12 DEF Next

LEMMA NextOneAtEnd ==
  ASSUME IInv, OneAtEnd, [Next]_vars
  PROVE  OneAtEnd'
<1>1. ASSUME NEW r \in Request, RecordSingle(r) \/ InsertBoth(r) \/ IncrementDailyTotal(r)
      PROVE  OneAtEnd'
  <2>1. Commit(r) /\ pc[r] \in SyncPhase
    BY <1>1 DEF RecordSingle, InsertBoth, IncrementDailyTotal, Commit, SyncPhase
  <2>2. StepOf(r)
    BY <2>1, CommitTouches
  <2> QED
    BY <2>1, <2>2 DEF OneAtEnd, StepOf
<1>2. ASSUME NEW r \in Request, LoopFree, StepOf(r)
      PROVE  OneAtEnd'
  BY <1>2 DEF OneAtEnd, StepOf, LoopFree
<1>3. CASE \A r \in Request : pc'[r] \in SyncPhase => pc'[r] = pc[r]
  BY <1>3 DEF OneAtEnd
<1> QED
  BY <1>1, <1>2, <1>3, EndMoves

\* The totals and the ledger stay, and nobody comes to the counting.
LEMMA TotalsFrame ==
  ASSUME IInv, TotalsInv, UNCHANGED <<ledger, daily>>,
         \A r \in Request : pc'[r] = "counting" => pc[r] = "counting" /\ req'[r] = req[r],
         Calm' => Calm /\ \A r \in Request : pc[r] = "counting" =>
                            pc'[r] = "counting" /\ req'[r] = req[r]
  PROVE  TotalsInv'
<1>1. \A a \in Account : DailySum(a)' = DailySum(a) /\ OutSum(a)' = OutSum(a)
  BY DEF DailySum, OutSum
<1>2. \A a \in Account : \A r \in Owing(a)' : r \in Owing(a) /\ req'[r] = req[r]
  BY DEF Owing
<1>3. Calm' => Calm /\ \A a \in Account : Owing(a)' = Owing(a)
  BY DEF Owing
<1>4. IsFiniteSet(ledger')
  BY DEF TotalsInv
<1> HIDE DEF TotalsInv
<1>5. ASSUME NEW a \in Account
      PROVE  /\ DailySum(a)' <= OutSum(a)'
             /\ \A r \in Owing(a)' : DailySum(a)' + req'[r].amount <= OutSum(a)'
             /\ Calm' => /\ Owing(a)' = {} => DailySum(a)' = OutSum(a)'
                         /\ \A r \in Owing(a)' : DailySum(a)' + req'[r].amount = OutSum(a)'
  <2>1. /\ DailySum(a) <= OutSum(a)
        /\ \A r \in Owing(a) : DailySum(a) + req[r].amount <= OutSum(a)
        /\ Calm => /\ Owing(a) = {} => DailySum(a) = OutSum(a)
                   /\ \A r \in Owing(a) : DailySum(a) + req[r].amount = OutSum(a)
    BY DEF TotalsInv
  <2> QED
    BY <1>1, <1>2, <1>3, <2>1
<1> QED
  BY <1>4, <1>5 DEF TotalsInv

\* A row that is no TRANSFER_OUT.
LEMMA TotalsRecord ==
  ASSUME IInv, SafeInv, OneAtEnd, TotalsInv, NEW r \in Request, RecordSingle(r)
  PROVE  TotalsInv'
<1>1. /\ pc[r] = "recording" /\ pc[r] \in SyncPhase /\ pc'[r] = "done" /\ TypeOK
      /\ \A q \in Request \ {r} : pc'[q] = pc[q]
      /\ UNCHANGED <<req, daily, crashes>>
  BY DEF RecordSingle, SyncPhase, Respond, IInv, TypeOK, env
<1> DEFINE leg == Leg(r, req[r].kind)
<1>2. /\ req[r] \in Body /\ req[r].kind \in TxnType /\ req[r].kind # "TRANSFER_OUT"
      /\ calls[r][OpOf(req[r].kind)].st = "ok"
  BY <1>1, CommitFacts DEF RecordSingle, IInv, ControlInv, CallsAt, Sts, OpOf, TxnType, Kind
<1>3. leg \in Row /\ leg.type # "TRANSFER_OUT" /\ leg.by = r
  <2>1. replies[r][OpOf(req[r].kind)] \in AccountRecord
    BY <1>1, <1>2, CommitFacts, OpOfFacts
  <2> QED
    BY <1>2, <2>1, LegFacts DEF OpOf
<1>4. ledger' = ledger \cup {leg}
  BY DEF RecordSingle
<1>5. leg \notin ledger
  BY <1>1, <1>3 DEF SafeInv, RowInv, Committed, Committing
<1> HIDE DEF leg
<1>6. IsFiniteSet(ledger') /\ \A a \in Account : OutSum(a)' = OutSum(a)
  <2>1. PICK old : old = ledger
    OBVIOUS
  <2>2. old \in SUBSET Row /\ IsFiniteSet(old) /\ leg \notin old
    BY <1>1, <1>5, <2>1 DEF TypeOK, TotalsInv
  <2>3. \A a \in Account : /\ OutAdds(old, leg, a) /\ OutAmount(old, a) \in Int
                           /\ IsFiniteSet(old \cup {leg})
    BY <1>3, <2>2, OutAmountAdds
  <2>4. ASSUME NEW a \in Account
        PROVE  OutAmount(old \cup {leg}, a) = OutAmount(old, a)
    <3>1. OutAmount(old \cup {leg}, a) = OutAmount(old, a) + 0
      BY <1>3, <2>3 DEF OutAdds
    <3> QED
      BY <2>3, <3>1
  <2>5. \A a \in Account : OutSum(a)' = OutAmount(ledger', a) /\ OutSum(a) = OutAmount(ledger, a)
    BY DEF OutSum, OutAmount, Sum
  <2>6. IsFiniteSet(old \cup {leg})
    BY <2>2, FS_AddElement
  <2> QED
    BY <1>4, <2>1, <2>4, <2>5, <2>6
<1>7. \A a \in Account : Owing(a)' = Owing(a) /\ DailySum(a)' = DailySum(a)
  BY <1>1 DEF Owing, DailySum
<1>8. Calm' <=> Calm
  BY <1>1 DEF Calm
<1> QED
  BY <1>1, <1>6, <1>7, <1>8 DEF TotalsInv

\* The legs of a transfer are in, and its amount is owed to the total.
LEMMA TotalsInsert ==
  ASSUME IInv, SafeInv, OneAtEnd, TotalsInv, NEW r \in Request, InsertBoth(r)
  PROVE  TotalsInv'
<1>1. /\ pc[r] = "recording" /\ pc[r] \in SyncPhase /\ pc'[r] = "counting" /\ TypeOK
      /\ \A q \in Request \ {r} : pc'[q] = pc[q]
      /\ UNCHANGED <<req, daily, crashes>>
  BY DEF InsertBoth, SyncPhase, Goto, IInv, TypeOK, env
<1>2. /\ req[r] \in Body /\ req[r].amount \in Nat /\ calls[r]["debit"].st = "ok"
      /\ calls[r]["credit"].st = "ok"
  BY <1>1, CommitFacts, BodyFacts DEF InsertBoth, IInv, ControlInv, CallsAt, Sts
<1> DEFINE out == Leg(r, "TRANSFER_OUT")
           in  == Leg(r, "TRANSFER_IN")
<1>3. /\ out \in Row /\ out.type = "TRANSFER_OUT" /\ out.by = r
      /\ in \in Row /\ in.type = "TRANSFER_IN" /\ in.by = r
      /\ out.account = req[r].from /\ out.amount = req[r].amount
  <2>1. replies[r]["debit"] \in AccountRecord /\ replies[r]["credit"] \in AccountRecord
    BY <1>1, <1>2, CommitFacts DEF Op
  <2>2. {"TRANSFER_OUT", "TRANSFER_IN"} \subseteq TxnType
    BY DEF TxnType
  <2>3. out.account = req[r].from /\ out.amount = req[r].amount
    BY DEF Leg, Target
  <2> QED
    BY <1>2, <2>1, <2>2, <2>3, LegFacts
<1>4. ledger' = (ledger \cup {out}) \cup {in}
  BY DEF InsertBoth
<1>5. out \notin ledger /\ in \notin ledger \cup {out}
  BY <1>1, <1>3 DEF SafeInv, RowInv, Committed, Committing
<1> HIDE DEF out, in
<1>6. /\ IsFiniteSet(ledger')
      /\ \A a \in Account :
           OutSum(a)' = OutSum(a) + (IF req[r].from = a THEN req[r].amount ELSE 0)
  <2>1. PICK old : old = ledger
    OBVIOUS
  <2>2. old \in SUBSET Row /\ IsFiniteSet(old) /\ out \notin old
    BY <1>1, <1>5, <2>1 DEF TypeOK, TotalsInv
  <2>3. PICK mid : mid = old \cup {out}
    OBVIOUS
  <2>4. /\ \A a \in Account : OutAdds(old, out, a) /\ OutAmount(old, a) \in Int
        /\ IsFiniteSet(mid) /\ mid \in SUBSET Row /\ in \notin mid
    BY <1>3, <1>5, <2>1, <2>2, <2>3, OutAmountAdds, FS_AddElement
  <2>5. /\ \A a \in Account : OutAdds(mid, in, a) /\ OutAmount(mid, a) \in Int
        /\ IsFiniteSet(mid \cup {in})
    BY <1>3, <2>4, OutAmountAdds, FS_AddElement
  <2>6. ASSUME NEW a \in Account
        PROVE  OutAmount(mid \cup {in}, a)
                 = OutAmount(old, a) + (IF req[r].from = a THEN req[r].amount ELSE 0)
    <3>1. OutAmount(mid \cup {in}, a) = OutAmount(mid, a)
      <4>1. OutAmount(mid \cup {in}, a) = OutAmount(mid, a) + 0
        BY <1>3, <2>5 DEF OutAdds
      <4> QED
        BY <2>5, <4>1
    <3>2. OutAmount(mid, a) = OutAmount(old, a)
                              + (IF req[r].from = a THEN req[r].amount ELSE 0)
      BY <1>3, <2>3, <2>4 DEF OutAdds
    <3> QED
      BY <3>1, <3>2
  <2>7. \A a \in Account : OutSum(a)' = OutAmount(ledger', a) /\ OutSum(a) = OutAmount(ledger, a)
    BY DEF OutSum, OutAmount, Sum
  <2> QED
    BY <1>4, <2>1, <2>3, <2>5, <2>6, <2>7
<1>7. \A a \in Account : /\ Owing(a) = {}
                         /\ Owing(a)' = IF req[r].from = a THEN {r} ELSE {}
                         /\ DailySum(a)' = DailySum(a)
  <2>1. \A q \in Request : pc[q] # "counting"
    BY <1>1 DEF OneAtEnd, SyncPhase
  <2> QED
    BY <1>1, <2>1 DEF Owing, DailySum
<1>8. Calm' <=> Calm
  BY <1>1 DEF Calm
<1>9. ASSUME NEW a \in Account
      PROVE  /\ DailySum(a)' <= OutSum(a)'
             /\ \A q \in Owing(a)' : DailySum(a)' + req'[q].amount <= OutSum(a)'
             /\ Calm' => /\ Owing(a)' = {} => DailySum(a)' = OutSum(a)'
                         /\ \A q \in Owing(a)' : DailySum(a)' + req'[q].amount = OutSum(a)'
  <2>1. DailySum(a) \in Nat /\ OutSum(a) \in Int
    BY <1>1, DailyTyped, OutTyped DEF TotalsInv
  <2>2. DailySum(a) <= OutSum(a) /\ (Calm => DailySum(a) = OutSum(a))
    BY <1>7 DEF TotalsInv
  <2>3. OutSum(a)' = OutSum(a) + (IF req[r].from = a THEN req[r].amount ELSE 0)
    BY <1>6
  <2>4. \A q \in Owing(a)' : q = r /\ req[r].from = a
    BY <1>7
  <2>5. Owing(a)' = {} => req[r].from # a
    BY <1>7
  <2> QED
    BY <1>1, <1>2, <1>7, <1>8, <2>1, <2>2, <2>3, <2>4, <2>5
<1> QED
  BY <1>6, <1>9 DEF TotalsInv

\* What was owed is counted, on the day it is.
LEMMA TotalsCount ==
  ASSUME IInv, OneAtEnd, TotalsInv, NEW r \in Request, IncrementDailyTotal(r)
  PROVE  TotalsInv'
<1>1. /\ pc[r] = "counting" /\ pc[r] \in SyncPhase /\ pc'[r] = "storing" /\ TypeOK
      /\ \A q \in Request \ {r} : pc'[q] = pc[q]
      /\ UNCHANGED <<req, ledger, crashes>>
  BY DEF IncrementDailyTotal, SyncPhase, Goto, IInv, TypeOK, env
<1>2. /\ req[r] \in Body /\ req[r].amount \in Nat /\ req[r].from \in Account
      /\ Day(now) \in Days
  BY <1>1, CommitFacts, BodyFacts, DayFacts
<1>3. /\ \A a \in Account \ {req[r].from} : daily'[a] = daily[a]
      /\ \A d \in Days \ {Day(now)} : daily'[req[r].from][d] = daily[req[r].from][d]
      /\ daily'[req[r].from][Day(now)] = daily[req[r].from][Day(now)] + req[r].amount
  BY <1>1, <1>2 DEF IncrementDailyTotal, TypeOK
<1>4. \A a \in Account : DailySum(a) \in Nat /\ OutSum(a) \in Int /\ OutSum(a)' = OutSum(a)
  BY <1>1, DailyTyped, OutTyped DEF TotalsInv, OutSum
<1>5. \A a \in Account : DailySum(a)' = DailySum(a)
                                        + (IF req[r].from = a THEN req[r].amount ELSE 0)
  <2>1. \A a \in Account \ {req[r].from} : DailySum(a)' = DailySum(a)
    BY <1>3 DEF DailySum
  <2>2. DailySum(req[r].from)' = DailySum(req[r].from) + req[r].amount
    <3>1. PICK f : f = daily[req[r].from]
      OBVIOUS
    <3>2. PICK g : g = daily'[req[r].from]
      OBVIOUS
    <3>3. PICK d \in Days : d = Day(now)
      BY <1>2
    <3>4. \A x \in Days : f[x] \in Nat
      BY <1>1, <1>2, <3>1, DailyTyped
    <3>5. /\ \A x \in Days \ {d} : g[x] = f[x]
          /\ g[d] = f[d] + req[r].amount
      BY <1>3, <3>1, <3>2, <3>3
    <3>6. \A x \in Days : f[x] \in Int /\ g[x] \in Int
      BY <1>2, <3>4, <3>5
    <3>7. Sum(g, Days) = Sum(f, Days) + (g[d] - f[d]) /\ Sum(f, Days) \in Int
      <4>1. PICK S : S = Days
        OBVIOUS
      <4>2. IsFiniteSet(S) /\ d \in S
        BY <4>1, DaysFinite
      <4>3. /\ \A x \in S : f[x] \in Int /\ g[x] \in Int
            /\ \A x \in S \ {d} : g[x] = f[x]
        BY <3>5, <3>6, <4>1
      <4> HIDE <1>1, <1>2, <1>3, <1>4, <3>3
      <4>4. Sum(g, S) = Sum(f, S) + (g[d] - f[d]) /\ Sum(f, S) \in Int
        BY <4>2, <4>3, SumChanges
      <4> QED
        BY <4>1, <4>4
    <3>8. DailySum(req[r].from)' = Sum(g, Days) /\ DailySum(req[r].from) = Sum(f, Days)
      BY <1>1, <3>1, <3>2 DEF DailySum, Sum
    <3> QED
      BY <1>2, <3>4, <3>5, <3>7, <3>8
  <2>3. ASSUME NEW a \in Account, a # req[r].from
        PROVE  DailySum(a)' = DailySum(a) + 0
    BY <1>4, <2>1, <2>3
  <2>4. ASSUME NEW a \in Account
        PROVE  DailySum(a)' = DailySum(a) + (IF req[r].from = a THEN req[r].amount ELSE 0)
    <3>1. CASE a = req[r].from
      <4>1. DailySum(a)' = DailySum(req[r].from)'
        BY <1>1, <3>1
      <4> QED
        BY <2>2, <3>1, <4>1
    <3>2. CASE a # req[r].from
      BY <2>3, <3>2
    <3> QED
      BY <3>1, <3>2
  <2> QED
    BY <2>4
<1>6. \A a \in Account : /\ Owing(a)' = {}
                         /\ Owing(a) = IF req[r].from = a THEN {r} ELSE {}
  <2>1. \A q \in Request \ {r} : pc[q] # "counting"
    BY <1>1 DEF OneAtEnd, SyncPhase
  <2> QED
    BY <1>1, <2>1 DEF Owing
<1>7. Calm' <=> Calm
  BY <1>1 DEF Calm
<1>8. ASSUME NEW a \in Account
      PROVE  DailySum(a)' <= OutSum(a)' /\ (Calm => DailySum(a)' = OutSum(a)')
  <2>1. CASE req[r].from = a
    BY <1>4, <1>5, <1>6, <2>1 DEF TotalsInv
  <2>2. CASE req[r].from # a
    <3>1. DailySum(a) <= OutSum(a) /\ (Calm => DailySum(a) = OutSum(a))
      BY <1>6, <2>2 DEF TotalsInv
    <3> QED
      BY <1>4, <1>5, <2>2, <3>1
  <2> QED
    BY <2>1, <2>2
<1> QED
  BY <1>1, <1>6, <1>7, <1>8 DEF TotalsInv

LEMMA InitTotals == Init => OneAtEnd /\ TotalsInv
<1> SUFFICES ASSUME Init PROVE OneAtEnd /\ TotalsInv
  OBVIOUS
<1>1. \A r \in Request : pc[r] = "idle"
  BY DEF Init
<1>2. \A f : Sum(f, {}) = 0
  BY FS_EmptySet, SumEquation
<1>3. ASSUME NEW a \in Account
      PROVE  DailySum(a) = 0 /\ OutSum(a) = 0
  <2>1. {row \in ledger : row.account = a /\ row.type = "TRANSFER_OUT"} = {}
    BY DEF Init
  <2>2. OutSum(a) = 0
    BY <1>2, <2>1 DEF OutSum, Sum
  <2>3. PICK f : f = daily[a]
    OBVIOUS
  <2>4. \A d \in Days : f[d] = 0
    BY <2>3 DEF Init
  <2>5. Sum(f, Days) = 0
    BY <2>4, DaysFinite, SumZero
  <2> QED
    BY <2>2, <2>3, <2>5 DEF DailySum, Sum
<1>4. IsFiniteSet(ledger)
  BY FS_EmptySet DEF Init
<1> QED
  BY <1>1, <1>3, <1>4 DEF OneAtEnd, TotalsInv, Owing, SyncPhase

LEMMA NextTotals ==
  ASSUME IInv, SafeInv, OneAtEnd, TotalsInv, [Next]_vars
  PROVE  TotalsInv'
<1>1. TypeOK /\ BodiesKept
  BY NextKeeps DEF IInv
<1>2. "counting" \in SyncPhase /\ "recording" \in SyncPhase
  BY DEF SyncPhase
<1>3. \A r \in Request : pc[r] = "counting" => req'[r] = req[r]
  BY <1>1 DEF BodiesKept
<1>4. crashes' = 0 => crashes = 0 /\ ~Crash
  <2>1. crashes \in Nat /\ crashes' \in {crashes, crashes + 1}
    BY <1>1, CrashesCount DEF TypeOK
  <2> QED
    BY <2>1 DEF Crash
<1>5. CASE /\ \A r \in Request : pc'[r] \in SyncPhase => pc'[r] = pc[r]
           /\ UNCHANGED <<ledger, daily>>
           /\ \/ \A r \in Request : pc[r] \in SyncPhase => pc'[r] = pc[r]
              \/ Crash \/ \E r \in Request : DbFails(r) \/ StoreIdempotent(r)
  <2>1. \A r \in Request : pc'[r] = "counting" => pc[r] = "counting" /\ req'[r] = req[r]
    BY <1>2, <1>3, <1>5
  <2>2. ASSUME Calm', NEW r \in Request, pc[r] = "counting"
        PROVE  pc'[r] = "counting"
    <3>1. ~Crash /\ \A q \in Request : ~DbFails(q)
      BY <1>4, <2>2 DEF Calm, DbFails
    <3>2. ASSUME NEW q \in Request, StoreIdempotent(q)
          PROVE  pc'[r] = "counting"
      BY <1>1, <2>2, <3>2 DEF StoreIdempotent, Respond, TypeOK
    <3> QED
      BY <1>2, <1>5, <2>2, <3>1, <3>2
  <2>3. Calm' => Calm
    BY <1>4 DEF Calm
  <2> QED
    BY <1>3, <1>5, <2>1, <2>2, <2>3, TotalsFrame
<1>6. ASSUME NEW r \in Request, LoopFree, pc'[r] = "recording", StepOf(r),
             UNCHANGED <<ledger, daily>>
      PROVE  TotalsInv'
  <2>1. \A q \in Request : pc[q] # "counting" /\ pc'[q] # "counting"
    BY <1>2, <1>6 DEF LoopFree, StepOf
  <2>2. Calm' => Calm
    BY <1>4 DEF Calm
  <2> QED
    BY <1>6, <2>1, <2>2, TotalsFrame
<1> QED
  BY <1>5, <1>6, EndMoves, TotalsRecord, TotalsInsert, TotalsCount

LEMMA TotalsInvariant == Spec => [](IInv /\ SafeInv /\ OneAtEnd /\ TotalsInv)
<1>1. Init => OneAtEnd /\ TotalsInv
  BY InitTotals
<1>2. IInv /\ SafeInv /\ OneAtEnd /\ TotalsInv /\ [Next]_vars => (OneAtEnd /\ TotalsInv)'
  BY NextOneAtEnd, NextTotals
<1> QED
  BY <1>1, <1>2, SafeInvariant, PTL DEF Spec

\* Whatever fails, the totals of _incrementDailyTotal never run ahead of the
\* ledger of insertBoth; with no crash and no SQLite error they agree with it
\* whenever no transaction is being ended.
THEOREM TotalsMatch == Spec => []DailyTotalsMatchLedger
<1>1. IInv /\ TotalsInv => DailyTotalsMatchLedger
  <2> SUFFICES ASSUME IInv, TotalsInv, NEW a \in Account
               PROVE  /\ DailySum(a) <= OutSum(a)
                      /\ LoopFree /\ crashes = 0 /\ "db" \notin Faults => DailySum(a) = OutSum(a)
    BY DEF DailyTotalsMatchLedger
  <2>1. LoopFree => Owing(a) = {}
    BY DEF LoopFree, Owing, SyncPhase
  <2> QED
    BY <2>1 DEF TotalsInv, Calm
<1> QED
  BY <1>1, TotalsInvariant, PTL

-----------------------------------------------------------------------------
(* The daily cap, under every fault.                                      *)

Cap == DAILY_LIMIT
Busy == {q \in Request : pc[q] \in InFlight}

BusyInv == IsFiniteSet(Busy) /\ Cardinality(Busy) <= MaxInFlight

\* The transfers from a that have passed the check, and are not counted yet.
Checked    == {"debiting", "crediting", "rolling", "recording", "counting"}
Pending(a) == {r \in Request : /\ pc[r] \in Checked
                               /\ req[r].kind = "TRANSFER" /\ req[r].from = a}

\* Room for the transfers P in a day's total: as many times the cap as requests
\* can still come, but the last of them to pass the check fitted with the rest.
Room(total, P, body) ==
  \/ total <= (MaxInFlight - Cardinality(P)) * Cap
  \/ \E r \in P : total + body[r].amount <= (MaxInFlight - Cardinality(P) + 1) * Cap

CapInv ==
  \A a \in Account :
    /\ \A r \in Pending(a) : req[r].amount <= Cap
    /\ \A d \in Days : /\ daily[a][d] <= MaxInFlight * Cap
                       /\ d > Day(now) => daily[a][d] = 0
    /\ Room(daily[a][Day(now)], Pending(a), req)

LEMMA DayNat ==
  /\ \A d \in Days : d \in Nat
  /\ TypeOK => Day(now) \in Nat
<1>1. \A t \in Nat : Day(t) \in Nat
  BY ServiceAssumption DEF Day
<1>2. \A t \in 0 .. MaxTime : t \in Nat
  BY ServiceAssumption
<1>3. TypeOK => now \in Nat
  BY <1>2 DEF TypeOK
<1> QED
  BY <1>1, <1>2, <1>3 DEF Days

LEMMA DayGrows ==
  ASSUME NEW t \in Nat
  PROVE  Day(t + 1) >= Day(t)
BY ServiceAssumption, Z3 DEF Day

LEMMA Times ==
  ASSUME NEW i \in Int, NEW j \in Int, NEW n \in Nat
  PROVE  /\ i * n \in Int /\ (i + 1) * n = i * n + n
         /\ i <= j => i * n <= j * n
<1>1. i * n \in Int /\ (i + 1) * n = i * n + n
  OBVIOUS
<1>2. ASSUME i <= j PROVE i * n <= j * n
  <2>1. PICK k \in Nat : j = i + k
    <3>1. j - i \in Nat /\ j = i + (j - i)
      BY <1>2
    <3> QED
      BY <3>1
  <2>2. (i + k) * n = i * n + k * n /\ k * n \in Nat
    BY Z3
  <2> QED
    BY <1>1, <2>1, <2>2
<1> QED
  BY <1>1, <1>2

LEMMA RoomShrinks ==
  ASSUME MaxInFlight \in Nat, NEW P, IsFiniteSet(P), NEW Q \in SUBSET P,
         NEW was, NEW is, \A r \in P : was[r].amount \in Nat, \A r \in Q : is[r] = was[r],
         NEW total \in Nat, Room(total, P, was)
  PROVE  Room(total, Q, is)
<1>1. PICK n \in Nat : n = Cardinality(P)
  BY FS_CardinalityType
<1>2. PICK m \in Nat : m = Cardinality(Q)
  BY FS_Subset, FS_CardinalityType
<1>3. m <= n /\ (Q # P => m < n)
  BY <1>1, <1>2, FS_Subset
<1>4. Cap \in Nat
  BY ServiceAssumption DEF Cap
<1>5. CASE total <= (MaxInFlight - n) * Cap
  <2>1. (MaxInFlight - n) * Cap <= (MaxInFlight - m) * Cap
    BY <1>3, <1>4, Times
  <2>2. (MaxInFlight - n) * Cap \in Int /\ (MaxInFlight - m) * Cap \in Int
    BY <1>4, Times
  <2>3. total <= (MaxInFlight - m) * Cap
    BY <1>5, <2>1, <2>2
  <2> QED
    BY <1>2, <2>3 DEF Room
<1>6. ASSUME NEW r \in P, total + was[r].amount <= (MaxInFlight - n + 1) * Cap
      PROVE  Room(total, Q, is)
  <2>1. was[r].amount \in Nat
    OBVIOUS
  <2>2. CASE r \in Q
    <3>1. (MaxInFlight - n + 1) * Cap <= (MaxInFlight - m + 1) * Cap
      BY <1>3, <1>4, Times
    <3>2. /\ (MaxInFlight - n + 1) * Cap \in Int /\ (MaxInFlight - m + 1) * Cap \in Int
      BY <1>4, Times
    <3>3. total + is[r].amount <= (MaxInFlight - m + 1) * Cap
      BY <1>6, <2>1, <2>2, <3>1, <3>2
    <3> QED
      BY <1>2, <2>2, <3>3 DEF Room
  <2>3. CASE r \notin Q
    <3>1. (MaxInFlight - n + 1) * Cap <= (MaxInFlight - m) * Cap
      BY <1>3, <1>4, <2>3, Times
    <3>2. /\ (MaxInFlight - n + 1) * Cap \in Int /\ (MaxInFlight - m) * Cap \in Int
      BY <1>4, Times
    <3>3. total <= (MaxInFlight - m) * Cap
      BY <1>6, <2>1, <3>1, <3>2
    <3> QED
      BY <1>2, <3>3 DEF Room
  <2> QED
    BY <2>2, <2>3
<1> QED
  BY <1>1, <1>5, <1>6 DEF Room

LEMMA RoomCounts ==
  ASSUME MaxInFlight \in Nat, NEW P, IsFiniteSet(P), NEW r \in P, NEW body,
         \A q \in P : body[q].amount \in Nat /\ body[q].amount <= Cap,
         NEW total \in Nat, Room(total, P, body)
  PROVE  Room(total + body[r].amount, P \ {r}, body)
<1>1. PICK n \in Nat : n = Cardinality(P)
  BY FS_CardinalityType
<1>2. Cardinality(P \ {r}) = n - 1
  BY <1>1, FS_RemoveElement
<1>3. Cap \in Nat
  BY ServiceAssumption DEF Cap
<1>4. PICK k \in Int : k = MaxInFlight - n
  OBVIOUS
<1>5. k * Cap \in Int /\ (k + 1) * Cap = k * Cap + Cap /\ ((k + 1) + 1) * Cap = (k * Cap + Cap) + Cap
  BY <1>3, <1>4, Times
<1>6. MaxInFlight - (n - 1) = k + 1
  BY <1>4
<1>7. PICK x \in Nat : x = body[r].amount /\ x <= Cap
  OBVIOUS
<1>8. CASE total <= k * Cap
  <2>1. total + x <= (k + 1) * Cap
    BY <1>3, <1>5, <1>7, <1>8
  <2> QED
    BY <1>2, <1>6, <1>7, <2>1 DEF Room
<1>9. ASSUME NEW q \in P, total + body[q].amount <= (k + 1) * Cap
      PROVE  Room(total + x, P \ {r}, body)
  <2>1. CASE q = r
    <3>1. total + x <= (k + 1) * Cap
      BY <1>7, <1>9, <2>1
    <3> QED
      BY <1>2, <1>6, <3>1 DEF Room
  <2>2. CASE q # r
    <3>1. PICK y \in Nat : y = body[q].amount
      OBVIOUS
    <3>2. (total + x) + y <= ((k + 1) + 1) * Cap
      BY <1>3, <1>5, <1>7, <1>9, <3>1
    <3> QED
      BY <1>2, <1>6, <2>2, <3>1, <3>2 DEF Room
  <2> QED
    BY <2>1, <2>2
<1> QED
  BY <1>1, <1>4, <1>7, <1>8, <1>9 DEF Room

LEMMA RoomJoins ==
  ASSUME MaxInFlight \in Nat, NEW P, IsFiniteSet(P), NEW r, r \notin P, NEW body,
         Cardinality(P \cup {r}) <= MaxInFlight,
         NEW total \in Nat, body[r].amount \in Nat, total + body[r].amount <= Cap
  PROVE  Room(total, P \cup {r}, body)
<1>1. PICK n \in Nat : n = Cardinality(P \cup {r})
  BY FS_AddElement, FS_CardinalityType
<1>2. Cap \in Nat
  BY ServiceAssumption DEF Cap
<1>3. PICK k \in Nat : k = MaxInFlight - n
  BY <1>1
<1>4. (k + 1) * Cap = k * Cap + Cap /\ 0 * Cap <= k * Cap /\ k * Cap \in Int /\ 0 * Cap = 0
  BY <1>2, Times
<1>5. total + body[r].amount <= (k + 1) * Cap
  BY <1>2, <1>4
<1> QED
  BY <1>1, <1>3, <1>5 DEF Room

LEMMA RoomNewDay ==
  ASSUME MaxInFlight \in Nat, NEW P, IsFiniteSet(P), Cardinality(P) <= MaxInFlight, NEW body
  PROVE  Room(0, P, body)
<1>1. PICK n \in Nat : n = Cardinality(P)
  BY FS_CardinalityType
<1>2. Cap \in Nat
  BY ServiceAssumption DEF Cap
<1>3. PICK k \in Nat : k = MaxInFlight - n
  BY <1>1
<1>4. 0 * Cap <= k * Cap /\ k * Cap \in Int /\ 0 * Cap = 0
  BY <1>2, Times
<1> QED
  BY <1>1, <1>3, <1>4 DEF Room

LEMMA RoomMeans ==
  ASSUME MaxInFlight \in Nat, NEW P, IsFiniteSet(P), NEW body,
         \A q \in P : body[q].amount \in Nat, NEW total \in Nat, Room(total, P, body)
  PROVE  total <= MaxInFlight * Cap
<1>1. PICK n \in Nat : n = Cardinality(P)
  BY FS_CardinalityType
<1>2. Cap \in Nat
  BY ServiceAssumption DEF Cap
<1>3. MaxInFlight * Cap \in Int /\ \A i \in Int : i * Cap \in Int
                                 /\ (i <= MaxInFlight => i * Cap <= MaxInFlight * Cap)
  BY <1>2, Times
<1>4. CASE total <= (MaxInFlight - n) * Cap
  <2>1. MaxInFlight - n \in Int /\ MaxInFlight - n <= MaxInFlight
    OBVIOUS
  <2> QED
    BY <1>3, <1>4, <2>1
<1>5. ASSUME NEW r \in P, total + body[r].amount <= (MaxInFlight - n + 1) * Cap
      PROVE  total <= MaxInFlight * Cap
  <2>1. n # 0
    BY <1>1, FS_EmptySet
  <2>2. MaxInFlight - n + 1 \in Int /\ MaxInFlight - n + 1 <= MaxInFlight
    BY <2>1
  <2>3. body[r].amount \in Nat
    OBVIOUS
  <2> QED
    BY <1>3, <1>5, <2>2, <2>3
<1> QED
  BY <1>1, <1>4, <1>5 DEF Room

\* A transfer from a passes the check of its day's total.
Passes(r) ==
  /\ pc[r] = "reading" /\ StepOf(r) /\ UNCHANGED <<daily, now, req>>
  /\ r \in Busy /\ Busy' = Busy
  /\ req[r].kind = "TRANSFER" => ~OverLimit(req[r])

LEMMA CapMoves ==
  ASSUME IInv, [Next]_vars
  PROVE  \/ /\ UNCHANGED <<daily, now>>
            /\ \A r \in Request : pc'[r] \in Checked => pc[r] \in Checked /\ req'[r] = req[r]
            /\ \/ Busy' \subseteq Busy
               \/ \E r \in Request : /\ Busy' = Busy \cup {r}
                                     /\ Cardinality(Busy) < MaxInFlight
         \/ \E r \in Request : Passes(r)
         \/ \E r \in Request : IncrementDailyTotal(r)
         \/ Tick
<1>1. TypeOK /\ BodiesKept
  BY NextKeeps DEF IInv
<1>2. /\ Checked \subseteq InFlight /\ "idle" \notin Checked /\ "done" \notin Checked
      /\ "reading" \notin Checked /\ "reading" \in InFlight /\ "done" \notin InFlight
      /\ "idle" \notin InFlight
      /\ InFlight = Checked \cup {"reading", "storing"}
  BY DEF Checked, InFlight, AwaitPhase, SyncPhase
<1>3. ASSUME UNCHANGED <<daily, now>>,
             \A r \in Request : pc'[r] \in Checked => pc[r] \in Checked
      PROVE  /\ UNCHANGED <<daily, now>>
             /\ \A r \in Request : pc'[r] \in Checked => pc[r] \in Checked /\ req'[r] = req[r]
  BY <1>1, <1>2, <1>3 DEF BodiesKept
<1>4. ASSUME NEW r \in Request, StepOf(r), pc[r] \in InFlight, pc'[r] \notin Checked,
             pc[r] \notin Checked => pc'[r] \in {pc[r], "done"}
      PROVE  /\ \A q \in Request : pc'[q] \in Checked => pc[q] \in Checked
             /\ Busy' \subseteq Busy
  BY <1>4 DEF StepOf, Busy
<1>5. ASSUME NEW r \in Request, Arrival(r)
      PROVE  /\ UNCHANGED <<daily, now>>
             /\ \A q \in Request : pc'[q] \in Checked => pc[q] \in Checked
             /\ \/ Busy' \subseteq Busy
                \/ Busy' = Busy \cup {r} /\ Cardinality(Busy) < MaxInFlight
  <2>1. StepOf(r) /\ pc[r] = "idle"
    BY <1>5, ArrivalTouches
  <2>2. pc'[r] \in {"done", "reading"} /\ UNCHANGED <<daily, now>>
        /\ Cardinality(Busy) < MaxInFlight
    BY <1>1, <1>5 DEF Arrival, Accept, RejectSameAccount, RejectKeyReuse, Replay, LookupFails,
                      Arrives, Goto, Respond, TypeOK, tables, env, Busy
  <2> QED
    BY <1>2, <2>1, <2>2 DEF StepOf, Busy
<1>6. ASSUME NEW r \in Request, NEW a \in Account, Get(r, a)
      PROVE  \/ UNCHANGED <<daily, now, pc>>
             \/ Passes(r)
             \/ /\ UNCHANGED <<daily, now>>
                /\ \A q \in Request : pc'[q] \in Checked => pc[q] \in Checked
                /\ Busy' \subseteq Busy
  <2>1. UNCHANGED <<daily, now, req>>
    BY <1>6 DEF Get, GetReturns, GetFallsBack, GetFails, tables, env
  <2>2. UNCHANGED pc \/ (StepOf(r) /\ pc[r] = "reading")
    BY <1>6, GetTouches
  <2>3. ASSUME pc[r] = "reading", NEW s, Settle(r, a, s)
        PROVE  \/ pc'[r] \in {"done", "reading"}
               \/ /\ pc'[r] \in {"crediting", "debiting"}
                  /\ req[r].kind = "TRANSFER" => ~OverLimit(req[r])
    BY <1>1, <2>3 DEF Settle, Decide, Goto, Respond, TypeOK
  <2>4. pc[r] = "reading" => \/ pc'[r] \in {"done", "reading"}
                             \/ /\ pc'[r] \in {"crediting", "debiting"}
                                /\ req[r].kind = "TRANSFER" => ~OverLimit(req[r])
    BY <1>1, <1>6, <2>3 DEF Get, GetReturns, GetFallsBack, GetFails, Respond, TypeOK
  <2>5. CASE StepOf(r) /\ pc[r] = "reading" /\ pc'[r] \in {"done", "reading"}
    BY <1>2, <1>4, <2>1, <2>5
  <2>6. CASE /\ StepOf(r) /\ pc[r] = "reading" /\ pc'[r] \in {"crediting", "debiting"}
             /\ req[r].kind = "TRANSFER" => ~OverLimit(req[r])
    <3>1. pc'[r] \in InFlight /\ pc[r] \in InFlight
      BY <1>2, <2>6 DEF Checked
    <3>2. Busy' = Busy /\ r \in Busy
      BY <2>6, <3>1 DEF Busy, StepOf
    <3> QED
      BY <2>1, <2>6, <3>2 DEF Passes
  <2> QED
    BY <2>1, <2>2, <2>4, <2>5, <2>6
<1>7. ASSUME NEW r \in Request, StepOf(r), pc[r] \in InFlight,
             pc'[r] \in Checked => pc[r] \in Checked
      PROVE  /\ \A q \in Request : pc'[q] \in Checked => pc[q] \in Checked
             /\ Busy' \subseteq Busy
  BY <1>7 DEF StepOf, Busy
<1>8. ASSUME NEW r \in Request, Patch(r)
      PROVE  /\ UNCHANGED <<daily, now>>
             /\ \A q \in Request : pc'[q] \in Checked => pc[q] \in Checked
             /\ Busy' \subseteq Busy
  <2>1. UNCHANGED <<daily, now>> /\ pc[r] \in Checked
    BY <1>8 DEF Patch, DebitReturns, DebitFails, CreditReturns, CreditFails,
                RollbackReturns, RollbackFails, RollbackEnds, tables, env, Checked
  <2> QED
    BY <1>2, <1>7, <1>8, <2>1, PatchTouches
<1>9. ASSUME NEW r \in Request, Commit(r), ~IncrementDailyTotal(r)
      PROVE  /\ UNCHANGED <<daily, now>>
             /\ \A q \in Request : pc'[q] \in Checked => pc[q] \in Checked
             /\ Busy' \subseteq Busy
  <2>1. UNCHANGED <<daily, now>>
    BY <1>9 DEF Commit, RecordSingle, InsertBoth, StoreIdempotent, DbFails, tables, env
  <2>2. pc[r] \in InFlight /\ (pc'[r] \in Checked => pc[r] \in Checked)
    BY <1>1, <1>2, <1>9 DEF Commit, RecordSingle, InsertBoth, StoreIdempotent, DbFails,
       Goto, Respond, TypeOK, Checked, InFlight, SyncPhase
  <2> QED
    BY <1>7, <1>9, <2>1, <2>2, CommitTouches
<1>10. CASE Crash
  <2>1. /\ UNCHANGED <<daily, now>>
        /\ \A r \in Request : pc'[r] = IF pc[r] \in InFlight THEN "done" ELSE pc[r]
    BY <1>10 DEF Crash, tables
  <2>2. /\ \A r \in Request : pc'[r] \in Checked => pc[r] \in Checked
        /\ Busy' \subseteq Busy
    BY <1>2, <2>1 DEF Busy
  <2> QED
    BY <1>3, <2>1, <2>2
<1>11. CASE UNCHANGED <<daily, now, pc>>
  <2>1. Busy' \subseteq Busy
    BY <1>11 DEF Busy
  <2> QED
    BY <1>3, <1>11, <2>1
<1>12. \A r \in Request : Server(r) => UNCHANGED <<daily, now, pc>>
  BY DEF Server, ServerReads, ServerExecutes, Resends, tables, env
<1>13. (\E a \in Account : AccountChanges(a)) \/ UNCHANGED vars => UNCHANGED <<daily, now, pc>>
  BY DEF AccountChanges, vars, tables
<1>14. CASE \E r \in Request : Arrival(r)
  BY <1>3, <1>5, <1>14
<1>15. CASE \E r \in Request, a \in Account : Get(r, a)
  BY <1>3, <1>6, <1>11, <1>15
<1>16. CASE \E r \in Request : Patch(r)
  BY <1>3, <1>8, <1>16
<1>17. CASE \E r \in Request : Commit(r)
  BY <1>3, <1>9, <1>17
<1> QED
  BY <1>10, <1>11, <1>12, <1>13, <1>14, <1>15, <1>16, <1>17 DEF Next

LEMMA CountFacts ==
  ASSUME IInv, NEW r \in Request, IncrementDailyTotal(r)
  PROVE  /\ StepOf(r) /\ r \in Busy /\ Busy' = Busy
         /\ UNCHANGED <<req, now>>
         /\ r \in Pending(req[r].from) /\ req[r] \in Body /\ Day(now) \in Days
         /\ \A a \in Account : Pending(a)' = Pending(a) \ {r}
         /\ \A a \in Account, d \in Days :
              daily'[a][d] = IF a = req[r].from /\ d = Day(now)
                             THEN daily[a][d] + req[r].amount ELSE daily[a][d]
<1>1. /\ pc[r] = "counting" /\ pc[r] \in SyncPhase /\ pc'[r] = "storing" /\ TypeOK /\ Commit(r)
      /\ \A q \in Request \ {r} : pc'[q] = pc[q]
      /\ UNCHANGED <<req, now>>
  BY DEF IncrementDailyTotal, SyncPhase, Goto, IInv, TypeOK, env, Commit
<1>2. StepOf(r) /\ req[r] \in Body /\ Day(now) \in Days /\ req[r].kind = "TRANSFER"
  BY <1>1, CommitTouches, CommitFacts, DayFacts DEF IInv, ControlInv, CallsAt
<1>3. \A a \in Account, d \in Days :
        daily'[a][d] = IF a = req[r].from /\ d = Day(now)
                       THEN daily[a][d] + req[r].amount ELSE daily[a][d]
  BY <1>1, <1>2, BodyFacts DEF IncrementDailyTotal, TypeOK
<1>4. Busy' = Busy /\ r \in Busy
  <2>1. pc[r] \in InFlight /\ pc'[r] \in InFlight
    BY <1>1 DEF InFlight, SyncPhase
  <2> QED
    BY <1>1, <2>1 DEF Busy
<1>5. \A a \in Account : Pending(a)' = Pending(a) \ {r}
  <2>1. pc'[r] \notin Checked
    BY <1>1 DEF Checked
  <2> QED
    BY <1>1, <2>1 DEF Pending
<1> QED
  BY <1>1, <1>2, <1>3, <1>4, <1>5 DEF Pending, Checked

LEMMA NextBusy ==
  ASSUME MaxInFlight \in Nat, IInv, BusyInv, [Next]_vars
  PROVE  BusyInv'
<1>1. Cardinality(Busy) \in Nat
  BY FS_CardinalityType DEF BusyInv
<1>2. CASE Busy' \subseteq Busy
  <2>1. PICK b : b = Busy'
    OBVIOUS
  <2>2. IsFiniteSet(b) /\ Cardinality(b) <= Cardinality(Busy) /\ Cardinality(b) \in Nat
    BY <1>2, <2>1, FS_Subset, FS_CardinalityType DEF BusyInv
  <2>3. Cardinality(b) <= MaxInFlight
    BY <1>1, <2>2 DEF BusyInv
  <2> QED
    BY <2>1, <2>2, <2>3 DEF BusyInv
<1>3. ASSUME NEW r \in Request, Busy' = Busy \cup {r}, Cardinality(Busy) < MaxInFlight
      PROVE  BusyInv'
  <2>1. PICK b : b = Busy'
    OBVIOUS
  <2>2. IsFiniteSet(b) /\ Cardinality(b) <= Cardinality(Busy) + 1 /\ Cardinality(b) \in Nat
    <3>1. IsFiniteSet(Busy \cup {r}) /\ (Cardinality(Busy \cup {r}) \in {Cardinality(Busy), Cardinality(Busy) + 1})
      BY FS_AddElement DEF BusyInv
    <3> QED
      BY <1>1, <1>3, <2>1, <3>1
  <2>3. Cardinality(b) <= MaxInFlight
    BY <1>1, <1>3, <2>2
  <2> QED
    BY <2>1, <2>2, <2>3 DEF BusyInv
<1>4. CASE Tick
  BY <1>2, <1>4 DEF Tick, Busy
<1> QED
  BY <1>2, <1>3, <1>4, CapMoves, CountFacts DEF Passes

\* Facts about the transfers that are pending.
LEMMA PendingFacts ==
  ASSUME MaxInFlight \in Nat, IInv, BusyInv, NEW a \in Account
  PROVE  /\ IsFiniteSet(Pending(a)) /\ Cardinality(Pending(a)) <= MaxInFlight
         /\ \A r \in Pending(a) : req[r] \in Body /\ req[r].amount \in Nat
         /\ daily[a][Day(now)] \in Nat /\ Day(now) \in Days
<1>1. Pending(a) \subseteq Busy
  BY DEF Pending, Busy, Checked, InFlight, AwaitPhase, SyncPhase
<1>2. /\ IsFiniteSet(Pending(a)) /\ Cardinality(Pending(a)) <= Cardinality(Busy)
      /\ Cardinality(Pending(a)) \in Nat /\ Cardinality(Busy) \in Nat
  BY <1>1, FS_Subset, FS_CardinalityType DEF BusyInv
<1>3. Cardinality(Pending(a)) <= MaxInFlight
  BY <1>2 DEF BusyInv
<1>4. \A r \in Pending(a) : req[r] \in Body
  BY DEF Pending, Checked, IInv, ReqInv
<1>5. Day(now) \in Days /\ daily[a][Day(now)] \in Nat
  BY DayFacts DEF IInv, TypeOK
<1> QED
  BY <1>2, <1>3, <1>4, <1>5, BodyFacts

\* Transfers may end, and requests may come.
LEMMA CapFrame ==
  ASSUME MaxInFlight \in Nat, IInv, BusyInv, CapInv, UNCHANGED <<daily, now>>,
         \A r \in Request : pc'[r] \in Checked => pc[r] \in Checked /\ req'[r] = req[r]
  PROVE  CapInv'
<1> SUFFICES ASSUME NEW a \in Account
             PROVE  /\ \A r \in Pending(a)' : req'[r].amount <= Cap
                    /\ \A d \in Days : /\ daily[a][d] <= MaxInFlight * Cap
                                       /\ d > Day(now) => daily[a][d] = 0
                    /\ Room(daily[a][Day(now)], Pending(a)', req')
  BY DEF CapInv
<1>1. PICK P : P = Pending(a)
  OBVIOUS
<1>2. PICK Q : Q = Pending(a)'
  OBVIOUS
<1>3. Q \subseteq P /\ \A r \in Q : req'[r] = req[r]
  BY <1>1, <1>2 DEF Pending
<1>4. PICK was, is, total : was = req /\ is = req' /\ total = daily[a][Day(now)]
  OBVIOUS
<1>5. IsFiniteSet(P) /\ (\A r \in P : was[r].amount \in Nat) /\ total \in Nat
  BY <1>1, <1>4, PendingFacts
<1>6. Room(total, P, was)
  BY <1>1, <1>4 DEF CapInv
<1>7. Q \in SUBSET P /\ \A r \in Q : is[r] = was[r]
  BY <1>3, <1>4
<1>8. Room(total, Q, is)
  BY <1>5, <1>6, <1>7, RoomShrinks
<1>9. \A r \in Q : req'[r].amount <= Cap
  BY <1>1, <1>3 DEF CapInv
<1> QED
  BY <1>2, <1>4, <1>8, <1>9 DEF CapInv

LEMMA CapPasses ==
  ASSUME MaxInFlight \in Nat, IInv, IInv', BusyInv, BusyInv', CapInv,
         NEW r \in Request, Passes(r)
  PROVE  CapInv'
<1>1. /\ pc[r] = "reading" /\ StepOf(r) /\ UNCHANGED <<daily, now, req>>
      /\ req[r].kind = "TRANSFER" => ~OverLimit(req[r])
  BY DEF Passes
<1>2. req[r] \in Body /\ req[r].amount \in Nat /\ req[r].from \in Account
  BY <1>1, BodyFacts DEF IInv, ReqInv
<1> SUFFICES ASSUME NEW a \in Account
             PROVE  /\ \A q \in Pending(a)' : req[q].amount <= Cap
                    /\ \A d \in Days : /\ daily[a][d] <= MaxInFlight * Cap
                                       /\ d > Day(now) => daily[a][d] = 0
                    /\ Room(daily[a][Day(now)], Pending(a)', req)
  BY <1>1 DEF CapInv
<1>3. r \notin Pending(a)
  BY <1>1 DEF Pending, Checked
<1>4. PICK P : P = Pending(a)
  OBVIOUS
<1>5. PICK Q : Q = Pending(a)'
  OBVIOUS
<1>6. \/ Q = P
      \/ Q = P \cup {r} /\ req[r].kind = "TRANSFER" /\ req[r].from = a
  <2>1. \A q \in Request \ {r} : q \in Q <=> q \in P
    BY <1>1, <1>4, <1>5 DEF Pending, StepOf
  <2>2. r \in Q => req[r].kind = "TRANSFER" /\ req[r].from = a
    BY <1>1, <1>5 DEF Pending
  <2>3. Q \subseteq Request /\ P \subseteq Request /\ r \notin P
    BY <1>3, <1>4, <1>5 DEF Pending
  <2> QED
    BY <2>1, <2>2, <2>3
<1>7. PICK body, total : body = req /\ total = daily[a][Day(now)]
  OBVIOUS
<1>8. IsFiniteSet(P) /\ total \in Nat /\ body[r].amount \in Nat /\ r \notin P
  BY <1>2, <1>3, <1>4, <1>7, PendingFacts
<1>9. Cardinality(Q) <= MaxInFlight
  <2>1. P \subseteq Busy /\ r \in Busy
    BY <1>4 DEF Passes, Pending, Busy, Checked, InFlight, AwaitPhase, SyncPhase
  <2>2. Q \in SUBSET Busy
    BY <1>6, <2>1
  <2>3. /\ Cardinality(Q) <= Cardinality(Busy) /\ Cardinality(Q) \in Nat
        /\ Cardinality(Busy) \in Nat /\ Cardinality(Busy) <= MaxInFlight
    BY <2>2, FS_Subset, FS_CardinalityType DEF BusyInv
  <2> QED
    BY <2>3
<1>10. CASE Q = P
  BY <1>4, <1>5, <1>10 DEF CapInv
<1>11. CASE Q = P \cup {r} /\ req[r].kind = "TRANSFER" /\ req[r].from = a
  <2>1. total + body[r].amount <= Cap
    <3>1. ~(daily[a][Day(now)] + req[r].amount > DAILY_LIMIT)
      BY <1>1, <1>11 DEF OverLimit
    <3>2. DAILY_LIMIT \in Nat
      BY ServiceAssumption
    <3> QED
      BY <1>7, <1>8, <3>1, <3>2 DEF Cap
  <2>2. Cardinality(P \cup {r}) <= MaxInFlight
    BY <1>9, <1>11
  <2>3. Room(total, P \cup {r}, body)
    BY <1>8, <2>1, <2>2, RoomJoins
  <2>4. body[r].amount <= Cap
    BY <1>8, <2>1, ServiceAssumption DEF Cap
  <2>5. \A q \in Q : req[q].amount <= Cap
    BY <1>4, <1>7, <1>11, <2>4 DEF CapInv
  <2> QED
    BY <1>5, <1>7, <1>11, <2>3, <2>5 DEF CapInv
<1> QED
  BY <1>6, <1>10, <1>11

LEMMA CapCounts ==
  ASSUME MaxInFlight \in Nat, IInv, IInv', BusyInv, BusyInv', CapInv,
         NEW r \in Request, IncrementDailyTotal(r)
  PROVE  CapInv'
<1>1. /\ UNCHANGED <<req, now>> /\ r \in Pending(req[r].from) /\ req[r] \in Body
      /\ Day(now) \in Days
      /\ \A a \in Account : Pending(a)' = Pending(a) \ {r}
      /\ \A a \in Account, d \in Days :
           daily'[a][d] = IF a = req[r].from /\ d = Day(now)
                          THEN daily[a][d] + req[r].amount ELSE daily[a][d]
  BY CountFacts
<1> SUFFICES ASSUME NEW a \in Account
             PROVE  /\ \A q \in Pending(a)' : req[q].amount <= Cap
                    /\ \A d \in Days : /\ daily'[a][d] <= MaxInFlight * Cap
                                       /\ d > Day(now) => daily'[a][d] = 0
                    /\ Room(daily'[a][Day(now)], Pending(a)', req)
  BY <1>1 DEF CapInv
<1>2. PICK P : P = Pending(a)
  OBVIOUS
<1>3. PICK body, total : body = req /\ total = daily[a][Day(now)]
  OBVIOUS
<1>4. /\ IsFiniteSet(P) /\ total \in Nat
      /\ \A q \in P : body[q].amount \in Nat /\ body[q].amount <= Cap
  BY <1>2, <1>3, PendingFacts DEF CapInv
<1>5. Room(total, P, body)
  BY <1>2, <1>3 DEF CapInv
<1>6. Pending(a)' = P \ {r} /\ \A q \in Pending(a)' : req[q].amount <= Cap
  BY <1>1, <1>2, <1>3, <1>4
<1>7. IsFiniteSet(P \ {r}) /\ \A q \in P \ {r} : body[q].amount \in Nat
  BY <1>4, FS_RemoveElement
<1>8. Room(daily'[a][Day(now)], P \ {r}, body) /\ daily'[a][Day(now)] \in Nat
  <2>1. CASE a = req[r].from
    <3>1. r \in P /\ daily'[a][Day(now)] = total + body[r].amount
      BY <1>1, <1>2, <1>3, <2>1
    <3>2. Room(total + body[r].amount, P \ {r}, body)
      BY <1>4, <1>5, <3>1, RoomCounts
    <3> QED
      BY <1>4, <3>1, <3>2
  <2>2. CASE a # req[r].from
    <3>1. daily'[a][Day(now)] = total
      BY <1>1, <1>3, <2>2
    <3>2. Room(total, P \ {r}, body)
      <4>1. PICK Q : Q = P \ {r}
        OBVIOUS
      <4>2. Q \in SUBSET P /\ \A q \in Q : body[q] = body[q]
        BY <4>1
      <4>3. Room(total, Q, body)
        BY <1>4, <1>5, <4>2, RoomShrinks
      <4> QED
        BY <4>1, <4>3
    <3> QED
      BY <1>4, <3>1, <3>2
  <2> QED
    BY <2>1, <2>2
<1>9. daily'[a][Day(now)] <= MaxInFlight * Cap
  <2>1. PICK Q, sum : Q = P \ {r} /\ sum = daily'[a][Day(now)]
    OBVIOUS
  <2>2. sum <= MaxInFlight * Cap
    BY <1>7, <1>8, <2>1, RoomMeans
  <2> QED
    BY <2>1, <2>2
<1>10. \A d \in Days : d # Day(now) => daily'[a][d] = daily[a][d]
  BY <1>1
<1>11. ~(Day(now) > Day(now))
  <2>1. Day(now) \in Int
    BY DayNat DEF IInv
  <2> QED
    BY <2>1
<1>12. ASSUME NEW d \in Days
       PROVE  /\ daily'[a][d] <= MaxInFlight * Cap
              /\ d > Day(now) => daily'[a][d] = 0
  <2>1. CASE d = Day(now)
    BY <1>9, <1>11, <2>1
  <2>2. CASE d # Day(now)
    BY <1>10, <2>2 DEF CapInv
  <2> QED
    BY <2>1, <2>2
<1> QED
  BY <1>3, <1>6, <1>8, <1>12

\* Midnight may come between the check and the increment.
LEMMA CapTick ==
  ASSUME MaxInFlight \in Nat, IInv, IInv', BusyInv, CapInv, Tick
  PROVE  CapInv'
<1>1. UNCHANGED <<daily, req, pc>> /\ now' = now + 1
  BY DEF Tick, tables
<1>2. /\ Day(now) \in Nat /\ Day(now)' \in Nat /\ Day(now)' >= Day(now)
      /\ Day(now)' \in Days
  <2>1. Day(now) \in Nat /\ Day(now)' \in Nat /\ Day(now)' \in Days
    <3>1. now \in 0 .. MaxTime /\ now' \in 0 .. MaxTime
      BY DEF IInv, TypeOK
    <3>2. Day(now) \in Days /\ Day(now)' \in Days
      BY <3>1 DEF Day, Days
    <3> QED
      BY <3>2, DayNat
  <2>2. now \in Nat
    BY DEF IInv, TypeOK
  <2>3. Day(now + 1) >= Day(now)
    BY <2>2, DayGrows
  <2> QED
    BY <1>1, <2>1, <2>3 DEF Day
<1> SUFFICES ASSUME NEW a \in Account
             PROVE  /\ \A d \in Days : d > Day(now)' => daily[a][d] = 0
                    /\ Room(daily[a][Day(now)'], Pending(a), req)
  <2>1. \A a \in Account : Pending(a)' = Pending(a)
    BY <1>1 DEF Pending
  <2> QED
    BY <1>1, <2>1 DEF CapInv
<1>3. \A d \in Days : d > Day(now)' => daily[a][d] = 0
  <2>1. \A d \in Days : d \in Int
    BY DayNat
  <2>2. \A d \in Days : d > Day(now)' => d > Day(now)
    BY <1>2, <2>1
  <2> QED
    BY <2>2 DEF CapInv
<1>4. Room(daily[a][Day(now)'], Pending(a), req)
  <2>1. CASE Day(now)' = Day(now)
    BY <2>1 DEF CapInv
  <2>2. CASE Day(now)' # Day(now)
    <3>1. Day(now)' > Day(now)
      BY <1>2, <2>2
    <3>2. daily[a][Day(now)'] = 0
      BY <1>2, <3>1 DEF CapInv
    <3>3. PICK P, body : P = Pending(a) /\ body = req
      OBVIOUS
    <3>4. IsFiniteSet(P) /\ Cardinality(P) <= MaxInFlight
      BY <3>3, PendingFacts
    <3>5. Room(0, P, body)
      BY <3>4, RoomNewDay
    <3> QED
      BY <3>2, <3>3, <3>5
  <2> QED
    BY <2>1, <2>2
<1> QED
  BY <1>3, <1>4

LEMMA InitCap ==
  ASSUME MaxInFlight \in Nat, Init
  PROVE  BusyInv /\ CapInv
<1>1. \A r \in Request : pc[r] = "idle"
  BY DEF Init
<1>2. Busy = {} /\ \A a \in Account : Pending(a) = {}
  BY <1>1 DEF Busy, Pending, Checked, InFlight, AwaitPhase, SyncPhase
<1>3. IsFiniteSet({}) /\ Cardinality({}) = 0
  BY FS_EmptySet
<1>4. \A body : Room(0, {}, body)
  BY <1>3, RoomNewDay
<1>5. MaxInFlight * Cap >= 0
  <2>1. 0 * Cap <= MaxInFlight * Cap /\ 0 * Cap = 0
    BY ServiceAssumption, Times DEF Cap
  <2>2. MaxInFlight * Cap \in Int
    BY ServiceAssumption, Times DEF Cap
  <2> QED
    BY <2>1, <2>2
<1>6. \A a \in Account, d \in Days : daily[a][d] = 0
  BY DEF Init
<1>7. Day(now) \in Days
  BY DayFacts, InitInv DEF IInv
<1>8. CapInv
  BY <1>2, <1>4, <1>5, <1>6, <1>7 DEF CapInv
<1> QED
  BY <1>2, <1>3, <1>8 DEF BusyInv

LEMMA CapInvariant ==
  ASSUME MaxInFlight \in Nat
  PROVE  Spec => [](IInv /\ BusyInv /\ CapInv)
<1>1. Init => BusyInv /\ CapInv
  BY InitCap
<1>2. IInv /\ IInv' /\ BusyInv /\ CapInv /\ [Next]_vars => (BusyInv /\ CapInv)'
  <2> SUFFICES ASSUME IInv, IInv', BusyInv, CapInv, [Next]_vars
               PROVE  BusyInv' /\ CapInv'
    OBVIOUS
  <2>1. BusyInv'
    BY NextBusy
  <2> QED
    BY <2>1, CapMoves, CapFrame, CapPasses, CapCounts, CapTick
<1> QED
  BY <1>1, <1>2, Invariant, PTL DEF Spec

\* The race of _checkDailyLimit and _incrementDailyTotal is bounded: whatever
\* the interleaving, the faults and the midnights between check and increment,
\* the total of an account on a day stays below the cap times the requests
\* that may be in flight.
THEOREM OvershootIsBounded ==
  ASSUME MaxInFlight \in Nat
  PROVE  Spec => []DailyOvershootBounded
<1>1. CapInv => DailyOvershootBounded
  BY DEF CapInv, DailyOvershootBounded, Cap
<1> QED
  BY <1>1, CapInvariant, PTL

\* When transfers come one at a time, _checkDailyLimit holds the total of an
\* account on a day to the cap, under every fault and across midnight.
THEOREM CapHeld ==
  ASSUME MaxInFlight = 1
  PROVE  Spec => []DailyCapHeld
<1>1. MaxInFlight \in Nat /\ 1 * DAILY_LIMIT = DAILY_LIMIT
  BY ServiceAssumption
<1>2. DailyOvershootBounded => DailyCapHeld
  BY <1>1 DEF DailyOvershootBounded, DailyCapHeld
<1> QED
  BY <1>1, <1>2, OvershootIsBounded, PTL

-----------------------------------------------------------------------------
(* Idempotency keys, of transfers that do not overlap.                     *)

\* No two transfers with the same key are in flight.
NoKeyOverlap ==
  \A p, q \in Busy : req[p].kind = "TRANSFER" /\ req[q].kind = "TRANSFER"
                     /\ req[p].key = req[q].key => p = q

\* SQLite works, the process lives, and no key expires before the clock stops.
KeysKept == "db" \notin Faults /\ MaxCrashes = 0 /\ MaxTime < TicksPerDay

Outs == {row \in ledger : row.type = "TRANSFER_OUT"}

\* The key of a recorded transfer is stored, or about to be, and is not the one
\* of another transfer in flight.
KeyInv ==
  /\ OneTransferPerKey
  /\ \A x \in Outs : \/ pc[x.by] \in Committing
                     \/ idem[x.reference] # None /\ idem[x.reference].expires > MaxTime
  /\ \A r \in Busy, x \in Outs :
       req[r].kind = "TRANSFER" /\ x.reference = req[r].key => x.by = r

LEMMA OneBusy ==
  ASSUME MaxInFlight = 1, BusyInv, NEW p \in Busy, NEW q \in Busy
  PROVE  p = q
<1>1. Cardinality(Busy) \in Nat /\ Cardinality(Busy) <= 1 /\ IsFiniteSet(Busy)
  BY FS_CardinalityType DEF BusyInv
<1>2. Cardinality(Busy) # 0
  BY <1>1, FS_EmptySet
<1>3. \E x : Busy = {x}
  BY <1>1, <1>2, FS_Singleton
<1> QED
  BY <1>3

\* A leg carries the key of its transfer, which is a key.
LEMMA OutFacts ==
  ASSUME IInv, SafeInv, NEW x \in Outs
  PROVE  /\ x \in ledger /\ x.type = "TRANSFER_OUT" /\ x.by \in Request
         /\ req[x.by].kind = "TRANSFER" /\ x.reference = req[x.by].key /\ x.reference \in Key
<1>1. x \in ledger /\ x.type = "TRANSFER_OUT" /\ x.by \in Request
  BY DEF Outs, IInv, TypeOK, Row
<1>2. /\ req[x.by].kind = "TRANSFER" /\ x.reference = req[x.by].key
      /\ pc[x.by] \in Committed
  BY <1>1 DEF SafeInv, RowInv, BothLegs
<1>3. req[x.by] \in Body
  BY <1>1, <1>2 DEF IInv, ReqInv, Committed, Committing
<1> QED
  BY <1>1, <1>2, <1>3, BodyFacts

\* A step that neither records nor stores, serves nobody new and lets nobody go
\* who is about to store.
LEMMA KeyFrame ==
  ASSUME KeyInv, UNCHANGED <<ledger, idem>>,
         Busy' \subseteq Busy, \A r \in Busy : req'[r] = req[r],
         \A x \in Outs : pc[x.by] \in Committing => pc'[x.by] \in Committing
  PROVE  KeyInv'
<1>1. Outs' = Outs
  BY DEF Outs
<1>2. OneTransferPerKey'
  BY DEF KeyInv, OneTransferPerKey
<1> QED
  BY <1>1, <1>2 DEF KeyInv

\* Who stores a key, and who comes and goes.
LEMMA KeyMoves ==
  ASSUME IInv, [Next]_vars
  PROVE  \/ \E r \in Request, b \in Body : Accept(r, b)
         \/ \E r \in Request : StoreIdempotent(r)
         \/ /\ UNCHANGED idem
            /\ Busy' \subseteq Busy /\ \A r \in Busy : req'[r] = req[r]
<1>1. TypeOK /\ BodiesKept
  BY NextKeeps DEF IInv
<1>2. \A r \in Busy : req'[r] = req[r]
  BY <1>1 DEF Busy, BodiesKept, InFlight, AwaitPhase, SyncPhase
<1>3. ASSUME NEW r \in Request, Arrival(r), ~ \E b \in Body : Accept(r, b)
      PROVE  UNCHANGED idem /\ Busy' \subseteq Busy
  <2>1. UNCHANGED idem /\ \E code, of : Respond(r, code, of)
    BY <1>3 DEF Arrival, RejectSameAccount, RejectKeyReuse, Replay, LookupFails, Arrives,
                tables, env
  <2> QED
    BY <1>1, <2>1 DEF Respond, TypeOK, Busy, InFlight, AwaitPhase, SyncPhase
<1>4. ASSUME NEW r \in Request, StepOf(r), pc[r] \in InFlight
      PROVE  Busy' \subseteq Busy
  BY <1>4 DEF StepOf, Busy
<1>5. ASSUME NEW r \in Request, NEW a \in Account, Get(r, a)
      PROVE  UNCHANGED idem /\ Busy' \subseteq Busy
  <2>1. UNCHANGED idem
    BY <1>5 DEF Get, GetReturns, GetFallsBack, GetFails, tables, env
  <2>2. UNCHANGED pc \/ (StepOf(r) /\ pc[r] = "reading")
    BY <1>5, GetTouches
  <2>3. UNCHANGED pc => Busy' \subseteq Busy
    BY DEF Busy
  <2> QED
    BY <1>4, <2>1, <2>2, <2>3 DEF InFlight, AwaitPhase
<1>6. ASSUME NEW r \in Request, Patch(r)
      PROVE  UNCHANGED idem /\ Busy' \subseteq Busy
  <2>1. UNCHANGED idem /\ pc[r] \in AwaitPhase
    BY <1>6 DEF Patch, DebitReturns, DebitFails, CreditReturns, CreditFails,
                RollbackReturns, RollbackFails, RollbackEnds, tables, env, AwaitPhase
  <2> QED
    BY <1>4, <1>6, <2>1, PatchTouches DEF InFlight
<1>7. ASSUME NEW r \in Request, Commit(r), ~StoreIdempotent(r)
      PROVE  UNCHANGED idem /\ Busy' \subseteq Busy
  <2>1. UNCHANGED idem /\ pc[r] \in SyncPhase
    BY <1>7 DEF Commit, RecordSingle, InsertBoth, IncrementDailyTotal, DbFails, tables, env,
                SyncPhase
  <2> QED
    BY <1>4, <1>7, <2>1, CommitTouches DEF InFlight
<1>8. CASE Crash
  <2>1. /\ UNCHANGED idem
        /\ \A r \in Request : pc'[r] = IF pc[r] \in InFlight THEN "done" ELSE pc[r]
    BY <1>8 DEF Crash, tables
  <2>2. Busy' \subseteq Busy
    BY <2>1 DEF Busy
  <2> QED
    BY <1>2, <2>1, <2>2
<1>9. \A r \in Request : Server(r) => UNCHANGED <<idem, pc>>
  BY DEF Server, ServerReads, ServerExecutes, Resends, tables, env
<1>10. \/ Tick \/ (\E a \in Account : AccountChanges(a)) \/ UNCHANGED vars
       => UNCHANGED <<idem, pc>>
  BY DEF Tick, AccountChanges, vars, tables
<1>11. UNCHANGED pc => Busy' \subseteq Busy
  BY DEF Busy
<1>12. CASE \E r \in Request : Arrival(r) \/ Patch(r) \/ Commit(r) \/ \E a \in Account : Get(r, a)
  BY <1>2, <1>3, <1>5, <1>6, <1>7, <1>12
<1> QED
  BY <1>2, <1>8, <1>9, <1>10, <1>11, <1>12 DEF Next

LEMMA NextKey ==
  ASSUME KeysKept, NoKeyOverlap, IInv, SafeInv, KeyInv, [Next]_vars
  PROVE  KeyInv'
<1>1. /\ TypeOK /\ ~Crash /\ \A r \in Request : ~DbFails(r)
      /\ now \in 0 .. MaxTime /\ MaxTime \in Nat /\ TicksPerDay \in Nat
  BY NoCrash, ServiceAssumption DEF IInv, TypeOK, KeysKept, DbFails
<1>2. ASSUME NEW r \in Request, NEW b \in Body, Accept(r, b)
      PROVE  KeyInv'
  <2>1. /\ pc'[r] = "reading" /\ req'[r] = b /\ UNCHANGED <<idem, ledger>>
        /\ \A q \in Request \ {r} : pc'[q] = pc[q] /\ req'[q] = req[q]
        /\ b.kind = "TRANSFER" => ~Stored(b)
        /\ LoopFree /\ pc[r] = "idle"
    BY <1>1, <1>2 DEF Accept, Arrives, Goto, TypeOK, tables, SameAccount, LooksUpKey
  <2>2. Outs' = Outs /\ OneTransferPerKey'
    BY <2>1 DEF Outs, KeyInv, OneTransferPerKey
  <2>3. \A x \in Outs : idem[x.reference] # None /\ idem[x.reference].expires > MaxTime
    BY <2>1, OutFacts DEF KeyInv, LoopFree, Committing, SyncPhase
  <2>4. ASSUME NEW x \in Outs, b.kind = "TRANSFER", x.reference = b.key
        PROVE  FALSE
    <3>1. PICK e \in Nat : e = idem[b.key].expires
      BY <1>1, <2>3, <2>4, OutFacts DEF TypeOK, IdemRow
    <3>2. e > MaxTime /\ idem[b.key] # None
      BY <2>3, <2>4, <3>1
    <3> QED
      BY <1>1, <2>1, <2>4, <3>1, <3>2 DEF Stored
  <2>5. \A q \in Busy' : q = r \/ (q \in Busy /\ req'[q] = req[q])
    BY <2>1 DEF Busy
  <2> QED
    BY <2>1, <2>2, <2>3, <2>4, <2>5 DEF KeyInv
<1>3. ASSUME NEW r \in Request, StoreIdempotent(r)
      PROVE  KeyInv'
  <2>1. /\ pc'[r] = "done" /\ \A q \in Request \ {r} : pc'[q] = pc[q]
        /\ UNCHANGED <<ledger, req>> /\ r \in Request /\ req[r] \in Body
        /\ idem' = [idem EXCEPT ![req[r].key] =
                     [by |-> r, hash |-> HashOf(req[r]), expires |-> now + TicksPerDay]]
    BY <1>1, <1>3 DEF StoreIdempotent, Respond, TypeOK, IInv, ReqInv
  <2>2. Outs' = Outs /\ OneTransferPerKey' /\ Busy' \subseteq Busy
    BY <2>1 DEF Outs, KeyInv, OneTransferPerKey, Busy, InFlight, AwaitPhase, SyncPhase
  <2>3. now + TicksPerDay > MaxTime /\ req[r].key \in Key
    BY <1>1, <2>1, BodyFacts DEF KeysKept
  <2>4. PICK e : e = [by |-> r, hash |-> HashOf(req[r]), expires |-> now + TicksPerDay]
    OBVIOUS
  <2>5. e # None /\ e.expires > MaxTime
    <3>1. e.by \in Request /\ e.expires > MaxTime
      BY <2>3, <2>4
    <3>2. e \in IdemRow
      BY <1>1, <2>1, <2>4, BodyFacts DEF IdemRow
    <3> QED
      BY <3>1, <3>2, NoneAssumption
  <2>6. ASSUME NEW x \in Outs
        PROVE  \/ pc'[x.by] \in Committing
               \/ idem'[x.reference] # None /\ idem'[x.reference].expires > MaxTime
    <3>1. x.reference \in Key /\ x.by \in Request /\ x.reference = req[x.by].key
      BY OutFacts
    <3>2. idem \in [Key -> IdemRow \cup {None}]
      BY <1>1 DEF TypeOK
    <3>3. CASE x.reference = req[r].key
      BY <2>1, <2>3, <2>4, <2>5, <3>2, <3>3
    <3>4. CASE x.reference # req[r].key
      <4>1. idem'[x.reference] = idem[x.reference] /\ x.by # r
        BY <2>1, <3>1, <3>2, <3>4
      <4> QED
        BY <2>1, <3>1, <4>1 DEF KeyInv
    <3> QED
      BY <3>3, <3>4
  <2> QED
    BY <2>1, <2>2, <2>6 DEF KeyInv
<1>4. ASSUME NEW r \in Request, InsertBoth(r)
      PROVE  KeyInv'
  <2> DEFINE out == Leg(r, "TRANSFER_OUT")
             in  == Leg(r, "TRANSFER_IN")
  <2>1. /\ pc[r] = "recording" /\ req[r].kind = "TRANSFER" /\ pc'[r] = "counting"
        /\ \A q \in Request \ {r} : pc'[q] = pc[q]
        /\ UNCHANGED <<idem, req>> /\ ledger' = ledger \cup {out, in}
    BY <1>1, <1>4 DEF InsertBoth, Goto, TypeOK
  <2>2. /\ out.by = r /\ out.type = "TRANSFER_OUT" /\ out.reference = req[r].key
        /\ in.type = "TRANSFER_IN"
    BY DEF Leg
  <2> HIDE DEF out, in
  <2>3. Outs' = Outs \cup {out} /\ Busy' = Busy /\ r \in Busy
    BY <2>1, <2>2 DEF Outs, Busy, InFlight, SyncPhase
  <2>4. \A x \in Outs : x.reference = req[r].key => x.by = r
    BY <2>1, <2>3 DEF KeyInv
  <2>5. \A x, y \in Outs' : x.reference = y.reference => x.by = y.by
    BY <2>2, <2>3, <2>4 DEF KeyInv, OneTransferPerKey, Outs
  <2>6. OneTransferPerKey'
    BY <2>5 DEF OneTransferPerKey, Outs
  <2>7. \A x \in Outs' : \/ pc'[x.by] \in Committing
                         \/ idem'[x.reference] # None /\ idem'[x.reference].expires > MaxTime
    <3>1. \A x \in Outs : x.by \in Request
      BY OutFacts
    <3> QED
      BY <2>1, <2>2, <2>3, <3>1 DEF KeyInv, Committing
  <2>8. \A q \in Busy, x \in Outs' :
          req[q].kind = "TRANSFER" /\ x.reference = req[q].key => x.by = q
    BY <2>1, <2>2, <2>3 DEF KeyInv, NoKeyOverlap
  <2> QED
    BY <2>1, <2>3, <2>6, <2>7, <2>8 DEF KeyInv
<1>5. ASSUME NEW r \in Request, RecordSingle(r)
      PROVE  KeyInv'
  <2> DEFINE row == Leg(r, req[r].kind)
  <2>1. /\ pc[r] = "recording" /\ req[r].kind # "TRANSFER" /\ pc'[r] = "done"
        /\ \A q \in Request \ {r} : pc'[q] = pc[q]
        /\ UNCHANGED <<idem, req>> /\ ledger' = ledger \cup {row} /\ req[r] \in Body
    BY <1>1, <1>5 DEF RecordSingle, Respond, TypeOK, IInv, ReqInv
  <2>2. row.type # "TRANSFER_OUT"
    BY <2>1, BodyFacts DEF Leg, Kind
  <2> HIDE DEF row
  <2>3. Outs' = Outs /\ Busy' \subseteq Busy
    BY <2>1, <2>2 DEF Outs, Busy, InFlight, SyncPhase
  <2>4. OneTransferPerKey'
    BY <2>1, <2>2 DEF KeyInv, OneTransferPerKey
  <2>5. \A x \in Outs : pc[x.by] \in Committing => pc'[x.by] \in Committing
    BY <2>1, OutFacts DEF Committing
  <2> QED
    BY <2>1, <2>3, <2>4, <2>5 DEF KeyInv
<1>6. CASE /\ UNCHANGED idem /\ Busy' \subseteq Busy /\ \A r \in Busy : req'[r] = req[r]
           /\ ~ \E r \in Request : StoreIdempotent(r) \/ InsertBoth(r) \/ RecordSingle(r)
  <2>1. /\ UNCHANGED ledger
        /\ \A q \in Request : pc[q] \in Committing => pc'[q] \in Committing
    <3>1. Committing \subseteq SyncPhase
      BY DEF Committing, SyncPhase
    <3>2. ASSUME NEW r \in Request, LoopFree, StepOf(r)
          PROVE  \A q \in Request : pc[q] \in Committing => pc'[q] \in Committing
      BY <3>1, <3>2 DEF LoopFree
    <3>3. ASSUME NEW r \in Request, IncrementDailyTotal(r)
          PROVE  /\ UNCHANGED ledger
                 /\ \A q \in Request : pc[q] \in Committing => pc'[q] \in Committing
      BY <1>1, <3>3 DEF IncrementDailyTotal, Goto, TypeOK, Committing
    <3> QED
      BY <1>1, <1>6, <3>1, <3>2, <3>3, EndMoves
  <2>2. \A x \in Outs : pc[x.by] \in Committing => pc'[x.by] \in Committing
    BY <2>1, OutFacts
  <2> QED
    BY <1>6, <2>1, <2>2, KeyFrame
<1> QED
  BY <1>2, <1>3, <1>4, <1>5, <1>6, KeyMoves

\* Of _getIdempotent and _storeIdempotent: transfers with one key are recorded
\* once, whatever answers are lost or late and whatever else is in flight, as
\* long as two of them do not overlap, the process does not die and SQLite does
\* not fail between the legs and the key, and the key does not expire.
THEOREM KeysAreUsedOnce ==
  ASSUME KeysKept
  PROVE  Spec /\ []NoKeyOverlap => []OneTransferPerKey
<1>1. Init => KeyInv
  BY DEF Init, KeyInv, OneTransferPerKey, Outs
<1>2. IInv /\ SafeInv /\ KeyInv /\ NoKeyOverlap /\ [Next]_vars => KeyInv'
  BY NextKey
<1>3. KeyInv => OneTransferPerKey
  BY DEF KeyInv
<1> QED
  BY <1>1, <1>2, <1>3, SafeInvariant, PTL DEF Spec

-----------------------------------------------------------------------------
(* Overdrafts, with one request at a time.                                *)

\* One request at a time, nothing fails, and the seed has cached every account.
Serial ==
  /\ MaxInFlight = 1 /\ Faults = {} /\ MaxCrashes = 0
  /\ \A a \in Account : SeedRow(a) # None

\* The accounts that the property speaks of; there are fewer of them as time goes.
Limited == {a \in Account : AlwaysLimited(a)}

\* As low as the Account Service, and the seed's row, let an account start.
Lower(x, y) == IF x <= y THEN x ELSE y
Floor(a) == Lower(0, Lower(Opening[a].balance, Opening[a].balance - SeedRow(a).balance))

\* What the account can give before it is at its floor.
Spare(a) == accounts[a].balance - Floor(a)

AboveFloor == \A a \in Limited : 0 <= Spare(a)

\* The debit of r has left the balance of a, and r has not heard of it.
Taking(r, a) == pc[r] = "debiting" /\ req[r].from = a /\ calls[r]["debit"].executed > 0

\* The cache is never above that, but for the debit being answered.
CacheLow == \A a \in Limited : \/ cache[a].balance <= Spare(a)
                               \/ \E r \in Request : Taking(r, a)

\* Nor is what a request reads before it decides.
GetsLow == \A r \in Request :
             /\ \A a \in Account : gets[r][a].st # "none" => pc[r] = "reading"
             /\ \A a \in Limited : gets[r][a].st \in {"read", "done"} =>
                                     gets[r][a].snap.balance <= Spare(a)

\* So the account still covers a debit that is on its way.
DebitCovered ==
  \A r \in Request :
    pc[r] = "debiting" /\ calls[r]["debit"].executed = 0 /\ req[r].from \in Limited =>
      req[r].amount <= Spare(req[r].from)

\* The answer under way carries the account as it is.
RepliesLow ==
  \A r \in Request, op \in Op :
    /\ calls[r][op].executed = 0 => replies[r][op] = None
    /\ calls[r][op].st = "open" /\ calls[r][op].executed > 0 =>
         replies[r][op].balance <= accounts[Target(r, op)].balance

SerialInv == AboveFloor /\ CacheLow /\ GetsLow /\ DebitCovered /\ RepliesLow

\* What is known in every state; the invariants proved so far.
Known == IInv /\ HistInv /\ OnceInv /\ BusyInv

LEMMA FloorFacts ==
  ASSUME Serial, NEW a \in Account
  PROVE  /\ Floor(a) \in Int /\ Floor(a) <= 0 /\ Floor(a) <= Opening[a].balance
         /\ Floor(a) <= Opening[a].balance - SeedRow(a).balance
         /\ Floor(a) \in {0, Opening[a].balance, Opening[a].balance - SeedRow(a).balance}
         /\ Opening[a].balance \in Int /\ SeedRow(a).balance \in Int
<1>1. Opening[a].balance \in Int
  BY ServiceAssumption DEF AccountRecord
<1>2. SeedRow(a) \in AccountRecord
  <2>1. SeedRow(a) = CacheRow(Csv[a]) /\ Csv[a] # None
    BY DEF Serial, SeedRow
  <2>2. Csv[a] \in AccountRecord
    BY <2>1, ServiceAssumption
  <2> QED
    BY <2>1, <2>2, CacheFacts
<1>3. SeedRow(a).balance \in Int
  BY <1>2 DEF AccountRecord
<1>4. PICK o \in Int, d \in Int : o = Opening[a].balance /\ d = o - SeedRow(a).balance
  BY <1>1, <1>3
<1>5. Lower(0, Lower(o, d)) \in {0, o, d} /\ Lower(0, Lower(o, d)) <= 0
      /\ Lower(0, Lower(o, d)) <= o /\ Lower(0, Lower(o, d)) <= d
  BY <1>4 DEF Lower
<1> QED
  BY <1>1, <1>3, <1>4, <1>5 DEF Floor

\* No account becomes Limited, and what is read of one that is, or cached, counts.
LEMMA LimitedFacts ==
  ASSUME Serial, Known, NEW a \in Limited
  PROVE  /\ a \in Account /\ Spare(a) \in Int
         /\ accounts[a].balance \in Int /\ accounts[a].balance <= Spare(a)
         /\ cache[a] \in AccountRecord /\ cache[a] # None
         /\ \A h \in history[a] : Cacheable(h) /\ CacheRow(h).balance = h.balance
         /\ \A s : IsOneOf(a, s) => s.type \in NoOverdraftTypes /\ ShowsBalance(s)
<1>1. a \in Account /\ AlwaysLimited(a) /\ TypeOK
  BY DEF Limited, Known, IInv
<1>2. accounts[a].balance \in Int /\ Floor(a) \in Int /\ Floor(a) <= 0
  BY <1>1, FloorFacts DEF TypeOK, AccountRecord
<1>3. cache[a] \in AccountRecord /\ cache[a] # None
  BY <1>1 DEF Known, HistInv, CacheInv, Serial, TypeOK, OptRecord
<1>4. \A h \in history[a] : Cacheable(h) /\ CacheRow(h).balance = h.balance
  BY <1>1 DEF AlwaysLimited, CacheRow, ShowsBalance
<1>5. ASSUME NEW s \in history[a]
      PROVE  s.type \in NoOverdraftTypes /\ ShowsBalance(s)
  BY <1>1 DEF AlwaysLimited, ShowsBalance
<1>6. ASSUME NEW s, IsRow(Source(a), s)
      PROVE  s.type \in NoOverdraftTypes /\ ShowsBalance(s)
  <2>1. PICK u \in Source(a), t \in Source(a) : Cacheable(t) /\ s = Upserted(CacheRow(t), u)
    BY <1>6 DEF IsRow
  <2>2. s.type = CacheRow(t).type /\ s.lacks = {}
    BY <1>1, <2>1, RowFields, SourceFacts DEF Known
  <2>3. CASE t \in history[a]
    <3>1. t.type \in NoOverdraftTypes
      BY <1>5, <2>3
    <3>2. CacheRow(t).type \in NoOverdraftTypes
      BY <3>1 DEF CacheRow, Default, NoOverdraftTypes
    <3> QED
      BY <2>2, <3>2 DEF ShowsBalance
  <2>4. CASE t = Csv[a] /\ Csv[a] # None
    <3>1. SeedRow(a) = CacheRow(t)
      BY <2>1, <2>4 DEF SeedRow
    <3> QED
      BY <1>1, <2>2, <3>1 DEF AlwaysLimited, ShowsBalance
  <2> QED
    BY <2>1, <2>3, <2>4 DEF Source
<1> QED
  BY <1>1, <1>2, <1>3, <1>4, <1>5, <1>6 DEF IsOneOf, Spare

LEMMA LimitedBefore ==
  ASSUME Grows
  PROVE  Limited' \subseteq Limited
<1>1. \A a \in Account : AlwaysLimited(a)' => AlwaysLimited(a)
  <2>1. \A a \in Account : SeedRow(a)' = SeedRow(a)
    BY DEF SeedRow
  <2> QED
    BY <2>1 DEF AlwaysLimited, Grows
<1> QED
  BY <1>1 DEF Limited

\* While no account moves, the same accounts count, with the same to spare.
LEMMA LimitedStays ==
  ASSUME UNCHANGED <<accounts, history>>
  PROVE  Limited' = Limited /\ \A a \in Account : Spare(a)' = Spare(a)
BY DEF Limited, AlwaysLimited, SeedRow, Spare, Floor, Lower

LEMMA SerialMeans == Serial => AnswersArrive /\ MaxInFlight = 1 /\ "db" \notin Faults
BY DEF Serial, AnswersArrive

LEMMA InitSerial == Serial /\ Init => SerialInv
<1> SUFFICES ASSUME Serial, Init PROVE SerialInv
  OBVIOUS
<1>1. \A a \in Account : cache[a] = SeedRow(a) /\ accounts[a] = Opening[a]
  BY DEF Init
<1>2. \A a \in Account : 0 <= Spare(a) /\ cache[a].balance <= Spare(a)
  BY <1>1, FloorFacts DEF Spare
<1>3. AboveFloor /\ CacheLow
  BY <1>2 DEF AboveFloor, CacheLow, Limited
<1>4. GetsLow /\ DebitCovered
  BY DEF Init, GetsLow, DebitCovered, NoGet, Limited
<1>5. RepliesLow
  BY DEF Init, RepliesLow, NoCall
<1> QED
  BY <1>3, <1>4, <1>5 DEF SerialInv

\* Whoever is served is alone.
LEMMA Alone ==
  ASSUME Serial, Known, NEW r \in Request, pc[r] \in InFlight
  PROVE  \A q \in Request : pc[q] \in InFlight => q = r
BY OneBusy, SerialMeans DEF Known, Busy

LEMMA NobodyTakes ==
  ASSUME Serial, Known, SerialInv,
         \A r \in Request : pc[r] = "debiting" => calls[r]["debit"].executed = 0
  PROVE  \A a \in Limited : cache[a].balance <= Spare(a)
BY DEF SerialInv, CacheLow, Taking

\* A step that no account moves in: what the calls and the answers say stands.
LEMMA SerialFrame ==
  ASSUME Known, SerialInv, UNCHANGED <<accounts, history, replies>>, BodiesKept,
         \A r \in Request, op \in Op : CallStep(calls[r][op], calls'[r][op]),
         CacheLow', GetsLow', DebitCovered'
  PROVE  SerialInv'
<1>1. AboveFloor'
  <2>1. Limited' = Limited /\ \A a \in Account : Spare(a)' = Spare(a)
    BY LimitedStays
  <2> QED
    BY <2>1 DEF SerialInv, AboveFloor, Limited
<1>2. RepliesLow'
  <2> SUFFICES ASSUME NEW r \in Request, NEW op \in Op
               PROVE  /\ calls'[r][op].executed = 0 => replies[r][op] = None
                      /\ calls'[r][op].st = "open" /\ calls'[r][op].executed > 0 =>
                           replies[r][op].balance <= accounts[Target(r, op)'].balance
    BY DEF RepliesLow
  <2>1. calls \in [Request -> [Op -> CallRecord]] /\ calls[r][op] \in CallRecord
    BY DEF Known, IInv, TypeOK
  <2>2. CallStep(calls[r][op], calls'[r][op])
    OBVIOUS
  <2>3. calls[r][op].st = "none" => calls[r][op].executed = 0
    BY DEF Known, OnceInv
  <2>4. /\ calls'[r][op].executed = calls[r][op].executed
        /\ \/ calls'[r][op].st = calls[r][op].st
           \/ calls'[r][op].st # "open"
           \/ calls'[r][op].executed = 0
    <3>1. PICK c \in CallRecord : c = calls[r][op]
      BY <2>1
    <3>2. PICK d : d = calls'[r][op]
      OBVIOUS
    <3>3. /\ Returned(c).executed = c.executed /\ Returned(c).st = "ok"
          /\ GivenUp(c).executed = c.executed /\ GivenUp(c).st # "open"
          /\ OpenCall.executed = 0
      BY DEF OpenCall, Returned, GivenUp, CallRecord
    <3>4. /\ d.executed = c.executed
          /\ d.st = c.st \/ d.st # "open" \/ d.executed = 0
      BY <2>2, <2>3, <3>1, <3>2, <3>3 DEF CallStep
    <3> QED
      BY <3>1, <3>2, <3>4
  <2>5. calls[r][op].st = "open" => Target(r, op)' = Target(r, op)
    <3>1. calls[r][op].st = "open" => pc[r] \in AwaitPhase
      BY PatchFacts DEF Known
    <3>2. calls[r][op].st = "open" => req'[r] = req[r]
      BY <3>1 DEF BodiesKept, AwaitPhase
    <3> QED
      BY <3>2 DEF Target
  <2>6. calls[r][op].executed \in Nat
    BY <2>1, CallFacts
  <2> QED
    BY <2>4, <2>5, <2>6 DEF SerialInv, RepliesLow
<1> QED
  BY <1>1, <1>2 DEF SerialInv

\* Nobody is served, or whoever is has taken nothing: the cache is low.
LEMMA LowStays ==
  ASSUME SerialInv, \A a \in Limited : cache[a].balance <= Spare(a),
         UNCHANGED <<cache, accounts, history>>
  PROVE  CacheLow'
<1>1. Limited' = Limited /\ \A a \in Account : Spare(a)' = Spare(a)
  BY LimitedStays
<1> QED
  BY <1>1 DEF CacheLow, Limited

\* A request arrives, and finds nobody.
LEMMA ArrivalSerial ==
  ASSUME Serial, Known, SerialInv, BodiesKept, NEW r \in Request, Arrival(r),
         \A q \in Request, op \in Op : CallStep(calls[q][op], calls'[q][op])
  PROVE  SerialInv'
<1>1. /\ StepOf(r) /\ pc[r] = "idle"
      /\ UNCHANGED <<accounts, history, calls, replies, cache>>
      /\ Cardinality(Busy) < MaxInFlight
      /\ pc'[r] \in {"reading", "done"}
      /\ UNCHANGED gets \/ /\ pc'[r] = "reading"
                           /\ \E b \in Body : gets' = [gets EXCEPT ![r] = [a \in Account |->
                                IF a \in {b.from, b.to} THEN [st |-> "sent", snap |-> None]
                                                        ELSE NoGet]]
  <2>1. StepOf(r) /\ pc[r] = "idle"
    BY ArrivalTouches DEF Known
  <2>2. TypeOK
    BY DEF Known, IInv
  <2> QED
    BY <2>1, <2>2 DEF Arrival, Accept, RejectSameAccount, RejectKeyReuse, Replay, LookupFails,
                      Arrives, Goto, Respond, TypeOK, tables, external, Busy
<1>2. \A q \in Request : pc[q] \notin InFlight
  <2>1. Cardinality(Busy) = 0 /\ IsFiniteSet(Busy)
    BY <1>1, FS_CardinalityType DEF Known, BusyInv, Serial
  <2> QED
    BY <2>1, FS_EmptySet DEF Busy
<1>3. CacheLow'
  BY <1>1, <1>2, NobodyTakes, LowStays DEF InFlight, AwaitPhase
<1>4. DebitCovered'
  <2>1. \A q \in Request : pc'[q] # "debiting"
    BY <1>1, <1>2 DEF StepOf, InFlight, AwaitPhase
  <2> QED
    BY <2>1 DEF DebitCovered
<1>5. GetsLow'
  <2>1. \A q \in Request, a \in Account : gets[q][a].st = "none"
    BY <1>2 DEF SerialInv, GetsLow, InFlight, AwaitPhase
  <2>2. CASE UNCHANGED gets
    BY <2>1, <2>2 DEF GetsLow, Limited
  <2>3. ASSUME pc'[r] = "reading", NEW b \in Body, gets' = [gets EXCEPT ![r] = [a \in Account |->
                 IF a \in {b.from, b.to} THEN [st |-> "sent", snap |-> None] ELSE NoGet]]
        PROVE  GetsLow'
    <3>1. \A a \in Account : /\ gets'[r][a].st \in {"sent", "none"}
                             /\ \A q \in Request \ {r} : gets'[q][a].st = "none"
      BY <2>1, <2>3 DEF Known, IInv, TypeOK, NoGet
    <3> QED
      BY <2>3, <3>1 DEF GetsLow, Limited
  <2> QED
    BY <1>1, <2>2, <2>3
<1> QED
  BY <1>1, <1>3, <1>4, <1>5, SerialFrame

\* The Account Service answers a GET: with the account as it is.
LEMMA ReadSerial ==
  ASSUME Serial, Known, SerialInv, BodiesKept, NEW r \in Request, NEW a \in Account,
         ServerReads(r, a),
         \A q \in Request, op \in Op : CallStep(calls[q][op], calls'[q][op])
  PROVE  SerialInv'
<1>1. /\ UNCHANGED <<accounts, history, calls, replies, cache, pc, req>>
      /\ gets[r][a].st = "sent"
      /\ gets' = [gets EXCEPT ![r][a] = [st |-> "read", snap |-> accounts[a]]]
  BY DEF ServerReads, external, tables
<1>2. pc[r] = "reading" /\ pc[r] \in InFlight
  BY <1>1 DEF SerialInv, GetsLow, InFlight, AwaitPhase
<1>3. CacheLow'
  BY <1>1, <1>2, Alone, NobodyTakes, LowStays DEF InFlight, AwaitPhase
<1>0. Limited' = Limited /\ \A x \in Account : Spare(x)' = Spare(x)
  BY <1>1, LimitedStays
<1>4. DebitCovered'
  BY <1>0, <1>1 DEF DebitCovered, SerialInv, Limited
<1>5. GetsLow'
  <2>1. /\ gets'[r][a].st = "read" /\ gets'[r][a].snap = accounts[a]
        /\ \A q \in Request, x \in Account : q # r \/ x # a => gets'[q][x] = gets[q][x]
    BY <1>1 DEF Known, IInv, TypeOK
  <2>2. a \in Limited => accounts[a].balance <= Spare(a)
    BY LimitedFacts
  <2>3. Limited \subseteq Account
    BY DEF Limited
  <2>4. ASSUME NEW q \in Request
        PROVE  /\ \A x \in Account : gets'[q][x].st # "none" => pc'[q] = "reading"
               /\ \A x \in Limited : gets'[q][x].st \in {"read", "done"} =>
                                       gets'[q][x].snap.balance <= Spare(x)
    BY <1>1, <1>2, <2>1, <2>2, <2>3 DEF GetsLow, SerialInv
  <2> QED
    BY <1>0, <2>3, <2>4 DEF GetsLow
<1> QED
  BY <1>1, <1>3, <1>4, <1>5, SerialFrame


\* _upsertCache takes an answer that carries the account as it is, or was lower.
LEMMA RefreshLow ==
  ASSUME Serial, Known, SerialInv, NEW a \in Account, NEW s \in AccountRecord,
         s \in history[a], a \in Limited => s.balance <= Spare(a), RefreshCache(a, s),
         \A x \in Limited \ {a} : cache[x].balance <= Spare(x),
         UNCHANGED <<accounts, history>>
  PROVE  CacheLow'
<1>1. /\ cache \in [Account -> OptRecord] /\ "db" \notin Faults
      /\ Limited' = Limited /\ Limited \subseteq Account
      /\ \A x \in Account : Spare(x)' = Spare(x)
  BY SerialMeans, LimitedStays DEF Known, IInv, TypeOK, Limited
<1>2. \A x \in Account \ {a} : cache'[x] = cache[x]
  BY <1>1 DEF RefreshCache
<1>3. ASSUME a \in Limited
      PROVE  cache'[a].balance = s.balance
  <2>1. /\ Cacheable(s) /\ CacheRow(s).balance = s.balance
        /\ cache[a] # None /\ cache[a] \in AccountRecord
    BY <1>3, LimitedFacts
  <2>2. cache'[a] = Upserted(cache[a], s)
    BY <1>1, <2>1 DEF RefreshCache
  <2>3. Upserted(cache[a], s).balance = CacheRow(s).balance
    BY <2>1, CacheFacts DEF Upserted, AccountRecord
  <2> QED
    BY <2>1, <2>2, <2>3
<1> QED
  BY <1>1, <1>2, <1>3 DEF CacheLow

\* A getAccount resolves with no more than the account has: what is decided on it
\* the account can cover.
LEMMA SettleSerial ==
  ASSUME Serial, Known, SerialInv, NEW r \in Request, NEW a \in Account,
         NEW s \in AccountRecord, IsOneOf(a, s), a \in Limited => s.balance <= Spare(a),
         pc[r] = "reading", Settle(r, a, s), UNCHANGED <<accounts, history, req>>
  PROVE  GetsLow' /\ DebitCovered'
<1> DEFINE g == [gets[r] EXCEPT ![a] = [st |-> "done", snap |-> s]]
<1>0. /\ Limited' = Limited /\ Limited \subseteq Account
      /\ \A x \in Account : Spare(x)' = Spare(x)
  BY LimitedStays DEF Limited
<1>1. /\ TypeOK /\ req[r] \in Body /\ GetInv
      /\ req[r].from \in Account /\ req[r].to \in Account /\ req[r].amount \in Nat
  <2>1. req[r] \in Body
    BY DEF Known, IInv, ReqInv
  <2> QED
    BY <2>1, BodyFacts DEF Known, IInv, HistInv
<1>2. /\ \A q \in Request \ {r} : pc[q] \notin InFlight
      /\ \A q \in Request \ {r}, x \in Account : gets[q][x].st = "none"
  <2>1. \A q \in Request : pc[q] \in InFlight => q = r
    BY Alone DEF InFlight, AwaitPhase
  <2> QED
    BY <2>1 DEF SerialInv, GetsLow, InFlight, AwaitPhase
<1>3. /\ \A x \in Account : g[x].st = "done" => IsOneOf(x, g[x].snap)
      /\ \A x \in Limited : g[x].st \in {"read", "done"} => g[x].snap.balance <= Spare(x)
  BY <1>0, <1>1 DEF TypeOK, GetInv, SerialInv, GetsLow
<1> HIDE DEF g
<1>4. CASE UNCHANGED <<pc, calls>> /\ gets' = [gets EXCEPT ![r] = g]
  <2>1. gets'[r] = g /\ \A q \in Request \ {r} : gets'[q] = gets[q]
    BY <1>1, <1>4 DEF TypeOK
  <2>2. ASSUME NEW q \in Request
        PROVE  /\ \A x \in Account : gets'[q][x].st # "none" => pc[q] = "reading"
               /\ \A x \in Limited : gets'[q][x].st \in {"read", "done"} =>
                                       gets'[q][x].snap.balance <= Spare(x)
    BY <1>0, <1>2, <1>3, <2>1
  <2>3. GetsLow'
    BY <1>0, <1>4, <2>2 DEF GetsLow
  <2>4. DebitCovered'
    BY <1>0, <1>4 DEF DebitCovered, SerialInv
  <2> QED
    BY <2>3, <2>4
<1>5. CASE /\ gets' = [gets EXCEPT ![r] = [x \in Account |-> NoGet]]
           /\ \A x \in Needed(r) : g[x].st = "done"
           /\ Decide(r, g[req[r].from].snap, g[req[r].to].snap)
  <2>1. /\ \A x \in Account : gets'[r][x].st = "none"
        /\ \A q \in Request \ {r} : gets'[q] = gets[q]
    BY <1>1, <1>5 DEF TypeOK, NoGet
  <2>2. GetsLow'
    BY <1>0, <1>2, <2>1 DEF GetsLow
  <2>3. PICK f : f = g[req[r].from].snap
    OBVIOUS
  <2>4. req[r].from \in Limited =>
          /\ f.balance <= Spare(req[r].from) /\ f.type \in NoOverdraftTypes /\ ShowsBalance(f)
    <3>1. PICK a1 \in Account : a1 = req[r].from
      BY <1>1
    <3>2. IsOneOf(a1, f) /\ (a1 \in Limited => f.balance <= Spare(a1))
      BY <1>3, <1>5, <2>3, <3>1 DEF Needed
    <3> QED
      BY <3>1, <3>2, LimitedFacts
  <2>7. req[r].from \in Limited => f.balance \in Int /\ Spare(req[r].from) \in Int
    <3>1. PICK a1 \in Account : a1 = req[r].from
      BY <1>1
    <3>2. IsOneOf(a1, f)
      BY <1>3, <1>5, <2>3, <3>1 DEF Needed
    <3>3. f \in AccountRecord
      <4>1. \A u \in Source(a1) : u \in AccountRecord
        BY SourceFacts DEF Known
      <4>2. history[a1] \subseteq Source(a1)
        BY SourceFacts DEF Known
      <4> QED
        BY <3>2, <4>1, <4>2, CacheFacts DEF IsOneOf, IsRow
    <3> QED
      BY <3>1, <3>3, LimitedFacts DEF AccountRecord
  <2>5. /\ \A q \in Request \ {r} : pc'[q] = pc[q]
        /\ pc'[r] = "debiting" => ~Overdrawn(f, req[r].amount)
    BY <1>1, <1>5, <2>3 DEF Decide, AccountVerdict, Goto, Respond, TypeOK
  <2>6. DebitCovered'
    <3>1. ASSUME pc'[r] = "debiting", req[r].from \in Limited
          PROVE  req[r].amount <= Spare(req[r].from)
      <4>1. ~(f.balance < req[r].amount)
        BY <2>4, <2>5, <3>1 DEF Overdrawn
      <4> QED
        BY <1>1, <2>4, <2>7, <3>1, <4>1
    <3>2. ASSUME NEW q \in Request, pc'[q] = "debiting"
          PROVE  q = r
      BY <1>2, <2>5, <3>2 DEF InFlight, AwaitPhase
    <3> QED
      BY <1>0, <1>1, <3>1, <3>2 DEF DebitCovered
  <2> QED
    BY <2>2, <2>6
<1>6. \/ UNCHANGED <<pc, calls>> /\ gets' = [gets EXCEPT ![r] = g]
      \/ /\ gets' = [gets EXCEPT ![r] = [x \in Account |-> NoGet]]
         /\ \A x \in Needed(r) : g[x].st = "done"
         /\ Decide(r, g[req[r].from].snap, g[req[r].to].snap)
  BY DEF Settle, g
<1> QED
  BY <1>4, <1>5, <1>6

LEMMA GetSerial ==
  ASSUME Serial, Known, SerialInv, BodiesKept, NEW r \in Request, NEW a \in Account, Get(r, a),
         \A q \in Request, op \in Op : CallStep(calls[q][op], calls'[q][op])
  PROVE  SerialInv'
<1>1. /\ UNCHANGED <<accounts, history, replies, req>>
      /\ gets[r][a].st \in {"sent", "read"}
  BY DEF Get, GetReturns, GetFallsBack, GetFails, external
<1>2. pc[r] = "reading" /\ pc[r] \in InFlight
  BY <1>1 DEF SerialInv, GetsLow, InFlight, AwaitPhase
<1>3. /\ \A x \in Limited : cache[x].balance <= Spare(x)
      /\ \A x \in Account : cache[x] # None
  <2>1. \A q \in Request : pc[q] # "debiting"
    BY <1>2, Alone DEF InFlight, AwaitPhase
  <2> QED
    BY <2>1, NobodyTakes DEF Known, HistInv, CacheInv, Serial
<1>4. cache[a] \in AccountRecord /\ IsOneOf(a, cache[a])
  BY <1>3 DEF Known, IInv, TypeOK, OptRecord, HistInv, CacheInv, IsOneOf
<1>5. CASE GetReturns(r, a)
  <2>1. PICK s : s = gets[r][a].snap
    OBVIOUS
  <2>2. /\ gets[r][a].st = "read" /\ RefreshCache(a, s) /\ Settle(r, a, s)
        /\ s \in AccountRecord /\ s \in history[a]
        /\ a \in Limited => s.balance <= Spare(a)
    BY <1>5, <2>1 DEF GetReturns, Known, IInv, SnapInv, HistInv, GetInv, SerialInv, GetsLow
  <2>3. CacheLow'
    BY <1>1, <1>3, <2>2, RefreshLow
  <2>4. GetsLow' /\ DebitCovered'
    BY <1>1, <1>2, <2>2, SettleSerial DEF IsOneOf
  <2> QED
    BY <1>1, <2>3, <2>4, SerialFrame
<1>6. CASE GetFallsBack(r, a)
  <2>1. UNCHANGED cache /\ Settle(r, a, cache[a])
    BY <1>6 DEF GetFallsBack, tables
  <2>2. CacheLow'
    BY <1>1, <1>3, <2>1, LowStays
  <2>3. GetsLow' /\ DebitCovered'
    BY <1>1, <1>2, <1>3, <1>4, <2>1, SettleSerial
  <2> QED
    BY <1>1, <2>2, <2>3, SerialFrame
<1>7. ~GetFails(r, a)
  BY <1>3, SerialMeans DEF GetFails
<1> QED
  BY <1>5, <1>6, <1>7 DEF Get


\* The Account Service executes a PATCH: a debit that the account covers.
LEMMA ExecuteSerial ==
  ASSUME Serial, Known, Known', SerialInv, NEW r \in Request, NEW op \in Op,
         ServerExecutes(r, op)
  PROVE  SerialInv'
<1>1. /\ calls[r][op].st = "open" /\ calls[r][op].executed = 0
      /\ calls'[r][op].st = "open" /\ calls'[r][op].executed = 1
      /\ \A q \in Request, o \in Op : q # r \/ o # op => calls'[q][o] = calls[q][o]
      /\ UNCHANGED <<pc, req, cache>>
      /\ Target(r, op) \in Account /\ req[r] \in Body
  BY ExecutedOnce, SerialMeans DEF Known
<1>2. PICK a \in Account : a = Target(r, op)
  BY <1>1
<1>3. PICK x \in Nat : x = req[r].amount
  BY <1>1, BodyFacts
<1>4. PICK delta \in Int : delta = IF op = "debit" THEN -x ELSE x
  BY <1>3
<1>5. PICK after : after = [accounts[a] EXCEPT !.balance = @ + delta]
  OBVIOUS
<1>6. /\ accounts' = [accounts EXCEPT ![a] = after]
      /\ history' = [history EXCEPT ![a] = @ \cup {after}]
      /\ \/ replies' = [replies EXCEPT ![r][op] = after]
         \/ replies[r][op] # None /\ UNCHANGED replies
      /\ UNCHANGED gets
  <2>1. IF op = "debit" THEN delta = -req[r].amount ELSE delta = req[r].amount
    BY <1>3, <1>4
  <2> QED
    BY <1>1, <1>2, <1>5, <2>1 DEF ServerExecutes
<1>7. TypeOK /\ accounts[a] \in AccountRecord /\ \A b \in Account : accounts[b].balance \in Int
  BY DEF Known, IInv, TypeOK, AccountRecord
<1>8. /\ after.type = accounts[a].type /\ after.status = accounts[a].status
      /\ after.balance = accounts[a].balance + delta /\ accounts[a].balance \in Int
  BY <1>5, <1>7 DEF AccountRecord
<1>9. /\ accounts'[a] = after /\ \A b \in Account \ {a} : accounts'[b] = accounts[b]
      /\ history'[a] = history[a] \cup {after}
      /\ \A b \in Account \ {a} : history'[b] = history[b]
      /\ replies'[r][op] = after
      /\ \A q \in Request, o \in Op : q # r \/ o # op => replies'[q][o] = replies[q][o]
  <2>1. replies[r][op] = None
    BY <1>1 DEF SerialInv, RepliesLow
  <2> QED
    BY <1>6, <1>7, <2>1 DEF TypeOK
<1>10. /\ pc[r] \in AwaitPhase /\ \A q \in Request : pc[q] \in InFlight => q = r
       /\ op = "debit" => pc[r] = "debiting" /\ req[r].from = a
       /\ op # "debit" => pc[r] # "debiting"
       /\ pc[r] # "reading"
  <2>1. pc[r] \in AwaitPhase
    BY <1>1, PatchFacts DEF Known
  <2>2. CallsAt(r)
    BY DEF Known, IInv, ControlInv
  <2> QED
    BY <1>1, <1>2, <2>1, <2>2, Alone DEF CallsAt, Sts, InFlight, AwaitPhase, Op, Target
<1>11. /\ \A b \in Limited : cache[b].balance <= Spare(b)
       /\ op = "debit" /\ a \in Limited => x <= Spare(a)
  <2>1. \A q \in Request : pc[q] = "debiting" => calls[q]["debit"].executed = 0
    BY <1>1, <1>10 DEF InFlight, AwaitPhase, Op
  <2> QED
    BY <1>1, <1>3, <1>10, <2>1, NobodyTakes DEF SerialInv, DebitCovered
<1>12. /\ Limited' \subseteq Limited /\ Limited \subseteq Account
       /\ \A b \in Account \ {a} : Spare(b)' = Spare(b)
       /\ a \in Limited => /\ Spare(a) \in Int /\ Spare(a)' = Spare(a) + delta
                           /\ cache[a].balance \in Int
  <2>1. Limited' \subseteq Limited
    <3>1. \A b \in Account : AlwaysLimited(b)' => AlwaysLimited(b)
      <4>1. \A b \in Account : history[b] \subseteq history'[b]
        BY <1>9
      <4> QED
        BY <4>1 DEF AlwaysLimited, SeedRow
    <3> QED
      BY <3>1 DEF Limited
  <2>2. \A b \in Account : Spare(b)' = accounts'[b].balance - Floor(b)
    BY DEF Spare, Floor, SeedRow, Lower
  <2>3. \A b \in Account \ {a} : Spare(b)' = Spare(b)
    BY <1>9, <2>2 DEF Spare
  <2>4. ASSUME a \in Limited
        PROVE  /\ Spare(a) \in Int /\ Spare(a)' = Spare(a) + delta
               /\ cache[a].balance \in Int
    <3>1. Spare(a) \in Int /\ cache[a] \in AccountRecord
      BY <2>4, LimitedFacts
    <3>2. PICK f \in Int : f = Floor(a)
      BY FloorFacts
    <3>3. Spare(a)' = (accounts[a].balance + delta) - f /\ Spare(a) = accounts[a].balance - f
      BY <1>8, <1>9, <2>2, <3>2 DEF Spare
    <3> QED
      BY <1>4, <1>8, <3>1, <3>2, <3>3 DEF AccountRecord
  <2> QED
    BY <2>1, <2>3, <2>4 DEF Limited
<1>13. AboveFloor'
  <2>1. ASSUME a \in Limited
        PROVE  0 <= Spare(a)'
    <3>1. 0 <= Spare(a)
      BY <2>1 DEF SerialInv, AboveFloor
    <3> QED
      BY <1>3, <1>4, <1>11, <1>12, <2>1, <3>1
  <2> QED
    BY <1>12, <2>1 DEF SerialInv, AboveFloor
<1>14. CacheLow'
  <2>1. \A b \in Limited \ {a} : cache'[b].balance <= Spare(b)'
    BY <1>1, <1>11, <1>12
  <2>2. CASE op = "debit"
    <3>1. Taking(r, a)'
      BY <1>1, <1>10, <2>2 DEF Taking
    <3> QED
      BY <1>12, <2>1, <3>1 DEF CacheLow
  <2>3. CASE op # "debit"
    <3>1. a \in Limited => cache'[a].balance <= Spare(a)'
      BY <1>1, <1>3, <1>4, <1>11, <1>12, <2>3
    <3> QED
      BY <1>12, <2>1, <3>1 DEF CacheLow
  <2> QED
    BY <2>2, <2>3
<1>15. GetsLow'
  <2>1. \A q \in Request, b \in Account : gets[q][b].st = "none"
    BY <1>10 DEF SerialInv, GetsLow, InFlight, AwaitPhase, CallsAt
  <2> QED
    BY <1>1, <1>6, <2>1 DEF GetsLow, Limited
<1>16. DebitCovered'
  <2>1. ASSUME NEW q \in Request, pc[q] = "debiting", calls'[q]["debit"].executed = 0
        PROVE  FALSE
    BY <1>1, <1>10, <2>1 DEF InFlight, AwaitPhase, Op
  <2> QED
    BY <1>1, <2>1 DEF DebitCovered
<1>17. RepliesLow'
  <2>1. \A q \in Request, o \in Op : calls'[q][o].st = "open" => q = r /\ o = op
    <3>1. \A q \in Request, o \in Op : calls'[q][o].st = "open" => calls[q][o].st = "open"
      BY <1>1
    <3>2. \A q \in Request, o \in Op : calls[q][o].st = "open" => q = r
      BY <1>10, PatchFacts DEF Known, InFlight
    <3>3. \A o \in Op : calls[r][o].st = "open" => o = op
      BY <1>1, <1>10 DEF Known, IInv, ControlInv, CallsAt, Sts, AwaitPhase, Op
    <3> QED
      BY <3>1, <3>2, <3>3
  <2>2. Target(r, op)' = a /\ after.balance \in Int
    BY <1>1, <1>2, <1>4, <1>8 DEF Target
  <2> QED
    BY <1>1, <1>9, <2>1, <2>2 DEF RepliesLow, SerialInv
<1> QED
  BY <1>13, <1>14, <1>15, <1>16, <1>17 DEF SerialInv

\* A PATCH that ends: its answer carries the account as it is.
LEMMA PatchSerial ==
  ASSUME Serial, Known, SerialInv, BodiesKept, NEW r \in Request, Patch(r),
         \A q \in Request, o \in Op : CallStep(calls[q][o], calls'[q][o])
  PROVE  SerialInv'
<1>1. /\ UNCHANGED <<accounts, history, replies, gets, req>>
      /\ pc[r] \in AwaitPhase /\ pc[r] # "reading" /\ pc'[r] \notin {"debiting", "reading"}
      /\ TypeOK /\ "db" \notin Faults /\ "net" \notin Faults
  <2>1. TypeOK /\ "db" \notin Faults /\ "net" \notin Faults
    BY SerialMeans DEF Known, IInv, AnswersArrive
  <2> QED
    BY <2>1 DEF Patch, DebitReturns, DebitFails, CreditReturns, CreditFails, RollbackReturns,
                RollbackFails, RollbackEnds, external, AwaitPhase, Goto, Respond, TypeOK
<1>2. /\ \A q \in Request : pc[q] \in InFlight => q = r
      /\ \A q \in Request \ {r} : pc'[q] = pc[q]
      /\ req[r] \in Body /\ req[r].from \in Account /\ req[r].to \in Account
  <2>1. req[r] \in Body
    BY <1>1 DEF Known, IInv, ReqInv, AwaitPhase
  <2> QED
    BY <1>1, <2>1, Alone, PatchTouches, BodyFacts DEF Known, InFlight, StepOf
<1>3. GetsLow' /\ DebitCovered'
  <2>1. \A q \in Request, b \in Account : gets[q][b].st = "none"
    BY <1>1, <1>2 DEF SerialInv, GetsLow, InFlight, AwaitPhase
  <2> QED
    BY <1>1, <1>2, <2>1 DEF GetsLow, DebitCovered, InFlight, AwaitPhase, Limited
<1>4. ASSUME NEW op \in Op, NEW a \in Account, a = Target(r, op), CanReturn(calls[r][op]),
             RefreshCache(a, replies[r][op]),
             \A b \in Limited \ {a} : cache[b].balance <= Spare(b)
      PROVE  CacheLow'
  <2>1. calls[r][op].st = "open" /\ calls[r][op].executed > 0
    BY <1>4 DEF CanReturn
  <2>2. replies[r][op] \in AccountRecord /\ replies[r][op].balance <= accounts[a].balance
    BY <1>4, <2>1 DEF Known, IInv, CallInv, SerialInv, RepliesLow
  <2>3. replies[r][op] \in history[a]
    <3>1. replies[r][op] # None
      BY <2>2, ServiceAssumption
    <3> QED
      BY <1>4, <3>1 DEF Known, HistInv, ReplyInv
  <2>4. a \in Limited => replies[r][op].balance <= Spare(a)
    <3>1. ASSUME a \in Limited
          PROVE  /\ accounts[a].balance \in Int /\ Spare(a) \in Int
                 /\ accounts[a].balance <= Spare(a)
      BY <3>1, LimitedFacts
    <3>2. PICK b \in Int : b = replies[r][op].balance
      BY <2>2 DEF AccountRecord
    <3>3. b <= accounts[a].balance
      BY <2>2, <3>2
    <3> QED
      BY <3>1, <3>2, <3>3
  <2> QED
    BY <1>1, <1>4, <2>2, <2>3, <2>4, RefreshLow
<1>5. CASE DebitReturns(r)
  <2>1. /\ RefreshCache(req[r].from, replies[r]["debit"]) /\ CanReturn(calls[r]["debit"])
        /\ Target(r, "debit") = req[r].from /\ "debit" \in Op
    BY <1>5 DEF DebitReturns, Target, Op
  <2>2. \A b \in Limited \ {req[r].from} : cache[b].balance <= Spare(b)
    BY <1>2 DEF SerialInv, CacheLow, Taking, InFlight, AwaitPhase
  <2>3. CacheLow'
    BY <1>2, <1>4, <2>1, <2>2
  <2> QED
    BY <1>1, <1>3, <2>3, SerialFrame
<1>6. CASE CreditReturns(r)
  <2>1. /\ RefreshCache(req[r].to, replies[r]["credit"]) /\ CanReturn(calls[r]["credit"])
        /\ Target(r, "credit") = req[r].to /\ "credit" \in Op /\ pc[r] = "crediting"
    BY <1>6 DEF CreditReturns, Target, Op
  <2>2. \A b \in Limited : cache[b].balance <= Spare(b)
    BY <1>2, <2>1, NobodyTakes DEF InFlight, AwaitPhase
  <2>3. CacheLow'
    BY <1>2, <1>4, <2>1, <2>2
  <2> QED
    BY <1>1, <1>3, <2>3, SerialFrame
<1>7. CASE DebitFails(r) \/ CreditFails(r) \/ RollbackReturns(r) \/ RollbackFails(r)
  <2>1. UNCHANGED cache /\ (pc[r] = "debiting" => calls[r]["debit"].executed = 0)
    BY <1>1, <1>7 DEF DebitFails, CreditFails, RollbackReturns, RollbackFails, RollbackEnds,
                      CanFail, tables
  <2>2. \A b \in Limited : cache[b].balance <= Spare(b)
    BY <1>2, <2>1, NobodyTakes DEF InFlight, AwaitPhase
  <2>3. CacheLow'
    BY <1>1, <2>1, <2>2, LowStays
  <2> QED
    BY <1>1, <1>3, <2>3, SerialFrame
<1> QED
  BY <1>5, <1>6, <1>7 DEF Patch

LEMMA CommitSerial ==
  ASSUME Serial, Known, SerialInv, BodiesKept, NEW r \in Request, Commit(r),
         \A q \in Request, o \in Op : CallStep(calls[q][o], calls'[q][o])
  PROVE  SerialInv'
<1>1. /\ UNCHANGED <<accounts, history, replies, gets, req, cache, calls>>
      /\ pc[r] \in SyncPhase /\ pc'[r] \notin {"debiting", "reading"}
  <2>1. TypeOK
    BY DEF Known, IInv
  <2> QED
    BY <2>1 DEF Commit, RecordSingle, InsertBoth, IncrementDailyTotal, StoreIdempotent, DbFails,
                external, tables, SyncPhase, Goto, Respond, TypeOK
<1>2. /\ \A q \in Request : pc[q] \in InFlight => q = r
      /\ \A q \in Request \ {r} : pc'[q] = pc[q]
  BY <1>1, Alone, CommitTouches DEF Known, InFlight, StepOf
<1>3. \A q \in Request : pc[q] \notin {"reading", "debiting"}
  BY <1>1, <1>2 DEF InFlight, AwaitPhase, SyncPhase
<1>4. GetsLow' /\ DebitCovered'
  <2>1. \A q \in Request, b \in Account : gets[q][b].st = "none"
    BY <1>3 DEF SerialInv, GetsLow
  <2> QED
    BY <1>1, <1>2, <1>3, <2>1 DEF GetsLow, DebitCovered, Limited
<1>5. CacheLow'
  BY <1>1, <1>3, NobodyTakes, LowStays
<1> QED
  BY <1>1, <1>4, <1>5, SerialFrame

\* The account is revised at the Account Service: no balance moves.
LEMMA ChangeSerial ==
  ASSUME Serial, Known, SerialInv, NEW a \in Account, AccountChanges(a)
  PROVE  SerialInv'
<1>0. TypeOK /\ accounts[a] \in AccountRecord
  BY DEF Known, IInv, TypeOK
<1>1. PICK c \in Revision :
        /\ accounts' = [accounts EXCEPT ![a] = [c EXCEPT !.balance = accounts[a].balance]]
        /\ history' = [history EXCEPT ![a] =
                         @ \cup {[c EXCEPT !.balance = accounts[a].balance]}]
  BY DEF AccountChanges
<1>2. PICK after : after = [c EXCEPT !.balance = accounts[a].balance]
  OBVIOUS
<1>3. after.balance = accounts[a].balance
  BY <1>2, ServiceAssumption DEF AccountRecord
<1>4. /\ accounts'[a] = after /\ \A b \in Account \ {a} : accounts'[b] = accounts[b]
      /\ history'[a] = history[a] \cup {after}
      /\ \A b \in Account \ {a} : history'[b] = history[b]
  BY <1>0, <1>1, <1>2 DEF TypeOK
<1>5. \A b \in Account : accounts'[b].balance = accounts[b].balance
  BY <1>3, <1>4
<1>6. /\ UNCHANGED <<calls, replies, cache, pc, req, gets>>
      /\ Limited \subseteq Account
  BY DEF AccountChanges, tables, Limited
<1>7. Limited' \subseteq Limited
  <2>1. \A b \in Account : history[b] \subseteq history'[b]
    BY <1>4
  <2>2. \A b \in Account : AlwaysLimited(b)' => AlwaysLimited(b)
    BY <2>1 DEF AlwaysLimited, SeedRow
  <2> QED
    BY <2>2 DEF Limited
<1>8. \A b \in Account : Spare(b)' = Spare(b)
  <2>1. \A b \in Account : Spare(b)' = accounts'[b].balance - Floor(b)
    BY DEF Spare, Floor, SeedRow, Lower
  <2> QED
    BY <1>5, <2>1 DEF Spare
<1>9. AboveFloor' /\ CacheLow' /\ GetsLow'
  <2>1. AboveFloor'
    BY <1>6, <1>7, <1>8 DEF SerialInv, AboveFloor
  <2>2. \A b \in Account, r \in Request : Taking(r, b)' <=> Taking(r, b)
    BY <1>6 DEF Taking
  <2>3. CacheLow'
    BY <1>6, <1>7, <1>8, <2>2 DEF SerialInv, CacheLow
  <2>4. GetsLow'
    BY <1>6, <1>7, <1>8 DEF SerialInv, GetsLow
  <2> QED
    BY <2>1, <2>3, <2>4
<1>10. DebitCovered'
  BY <1>6, <1>7, <1>8 DEF SerialInv, DebitCovered
<1>11. RepliesLow'
  <2> SUFFICES ASSUME NEW r \in Request, NEW op \in Op,
                      calls[r][op].st = "open", calls[r][op].executed > 0
               PROVE  replies[r][op].balance <= accounts'[Target(r, op)].balance
    BY <1>6 DEF SerialInv, RepliesLow, Target
  <2>1. Target(r, op) \in Account
    <3>1. pc[r] \in AwaitPhase
      BY PatchFacts DEF Known
    <3>2. req[r] \in Body
      BY <3>1 DEF Known, IInv, ReqInv, AwaitPhase
    <3> QED
      BY <3>2, BodyFacts DEF Target
  <2> QED
    BY <1>5, <2>1 DEF SerialInv, RepliesLow
<1> QED
  BY <1>9, <1>10, <1>11 DEF SerialInv

LEMMA NextSerial ==
  ASSUME Serial, Known, Known', SerialInv, [Next]_vars
  PROVE  SerialInv'
<1>1. BodiesKept /\ "net" \notin Faults
  BY NextKeeps, SerialMeans DEF Known, IInv, AnswersArrive
<1>2. CASE \E r \in Request, op \in Op : ServerExecutes(r, op)
  BY <1>2, ExecuteSerial
<1>3. CASE ~ \E r \in Request, op \in Op : ServerExecutes(r, op)
  <2>1. \A q \in Request, o \in Op : CallStep(calls[q][o], calls'[q][o])
    BY <1>3, CallsMove, SerialMeans DEF Known
  <2>2. CASE UNCHANGED <<accounts, history, replies, cache, pc, req, gets, calls>>
    <3>1. Limited' = Limited /\ Limited \subseteq Account
          /\ \A a \in Account : Spare(a)' = Spare(a)
      BY <2>2, LimitedStays DEF Limited
    <3>2. CacheLow' /\ GetsLow' /\ DebitCovered'
      BY <2>2, <3>1 DEF SerialInv, CacheLow, GetsLow, DebitCovered, Taking
    <3> QED
      BY <1>1, <2>1, <2>2, <3>2, SerialFrame
  <2>3. Tick \/ UNCHANGED vars =>
          UNCHANGED <<accounts, history, replies, cache, pc, req, gets, calls>>
    BY DEF Tick, vars, external, tables
  <2>4. ASSUME NEW r \in Request, Server(r)
        PROVE  \E a \in Account : ServerReads(r, a)
    BY <1>1, <1>3, <2>4 DEF Server, Resends
  <2>5. ~Crash
    BY NoCrash DEF Serial, Known, IInv
  <2> QED
    BY <1>1, <2>1, <2>2, <2>3, <2>4, <2>5, ArrivalSerial, ReadSerial, GetSerial, PatchSerial,
       CommitSerial, ChangeSerial DEF Next
<1> QED
  BY <1>2, <1>3

LEMMA KnownSerially == ASSUME Serial PROVE Spec => []Known
<1>1. AnswersArrive /\ MaxInFlight = 1 /\ MaxInFlight \in Nat
  BY SerialMeans
<1>2. Spec => [](IInv /\ HistInv)
  BY HistInvariant
<1>3. Spec => [](OnceInv)
  BY <1>1, AtomicInvariant, PTL
<1>4. Spec => []BusyInv
  BY <1>1, CapInvariant, PTL
<1>5. Known <=> IInv /\ HistInv /\ OnceInv /\ BusyInv
  BY DEF Known
<1> QED
  BY <1>2, <1>3, <1>4, <1>5, PTL

\* The checks of getAccount and checkOverdraft, when requests come one at a time
\* and nothing fails but the reads: what is read, or cached, is never above what the
\* account can give before it is below zero, or below its first balance, by more than
\* the seed's row once overstated it; so the debit that is sent is covered when it
\* arrives, while accounts are revised at the Account Service between any two steps.
THEOREM OverdraftIsBounded ==
  ASSUME MaxInFlight = 1, Faults = {}, MaxCrashes = 0
  PROVE  Spec => []OverdraftBoundedBySeed
<1>1. CASE \E a \in Account : SeedRow(a) = None
  <2>1. OverdraftBoundedBySeed
    BY <1>1 DEF OverdraftBoundedBySeed
  <2> QED
    BY <2>1, PTL
<1>2. CASE \A a \in Account : SeedRow(a) # None
  <2>0. Serial
    BY <1>2 DEF Serial
  <2>1. Spec => []Known
    BY <2>0, KnownSerially
  <2>2. Init => SerialInv
    BY <2>0, InitSerial
  <2>3. Known /\ Known' /\ SerialInv /\ [Next]_vars => SerialInv'
    BY <2>0, NextSerial
  <2>4. Known /\ SerialInv => OverdraftBoundedBySeed
    <3> SUFFICES ASSUME Known, SerialInv, NEW a \in Account, AlwaysLimited(a)
                 PROVE  \/ accounts[a].balance >= 0
                        \/ accounts[a].balance >= Opening[a].balance
                        \/ accounts[a].balance >= Opening[a].balance - SeedRow(a).balance
      BY DEF OverdraftBoundedBySeed
    <3>1. a \in Limited
      BY DEF Limited
    <3>2. 0 <= accounts[a].balance - Floor(a) /\ accounts[a].balance \in Int
      BY <2>0, <3>1, LimitedFacts DEF SerialInv, AboveFloor, Spare
    <3>3. PICK f \in Int : f = Floor(a)
      BY <2>0, FloorFacts
    <3>4. accounts[a].balance >= f
      BY <3>2, <3>3
    <3> QED
      BY <2>0, <3>3, <3>4, FloorFacts
  <2> QED
    BY <2>1, <2>2, <2>3, <2>4, PTL DEF Spec
<1> QED
  BY <1>1, <1>2

-----------------------------------------------------------------------------
(* The counters, while the process lives and SQLite works.                *)

\* What each counter of failures counts, of transfers, and each of successes.
Failure == {"transfer_failed", "credit_failed", "debit_failed", "limit_rejections", "replays"}
Reason  == [c \in Failure |->
              CASE c = "debit_failed"     -> "INTERNAL_ERROR"
                [] c = "limit_rejections" -> "DAILY_LIMIT_EXCEEDED"
                [] c = "replays"          -> "REPLAY"
                [] OTHER                  -> "TRANSFER_CREDIT_FAILED"]
Success == {"deposit_success", "withdrawal_success"}
TypeFor == [c \in Success |-> IF c = "deposit_success" THEN "DEPOSIT" ELSE "WITHDRAWAL"]

AnsweredWith(code) == {r \in Request : result[r].code = code /\ req[r].kind = "TRANSFER"}
Typed(type)        == {row \in ledger : row.type = type}
Counting           == \E r \in Request : pc[r] = "counting"

FailuresCounted == \A c \in Failure : /\ IsFiniteSet(AnsweredWith(Reason[c]))
                                      /\ metrics[c] = Cardinality(AnsweredWith(Reason[c]))
SuccessesCounted  == \A c \in Success : metrics[c] = Cardinality(Typed(TypeFor[c]))
\* A transfer is counted one statement after its legs are in.
TransfersCounted ==
  metrics["transfer_success"] = Cardinality(Typed("TRANSFER_OUT")) - (IF Counting THEN 1 ELSE 0)

CountersInv == crashes = 0 => FailuresCounted /\ SuccessesCounted /\ TransfersCounted

\* Bump, or no change at all.
Bumped(cs) == \A c \in Counter : metrics'[c] = IF c \in cs THEN metrics[c] + 1 ELSE metrics[c]

LEMMA Bumps ==
  ASSUME TypeOK
  PROVE  /\ \A cs : Bump(cs) => Bumped(cs)
         /\ UNCHANGED metrics => Bumped({})
BY DEF Bump, Bumped, TypeOK

LEMMA ReasonFacts ==
  /\ Reason["transfer_failed"] = "TRANSFER_CREDIT_FAILED"
  /\ Reason["credit_failed"] = "TRANSFER_CREDIT_FAILED"
  /\ Reason["debit_failed"] = "INTERNAL_ERROR"
  /\ Reason["limit_rejections"] = "DAILY_LIMIT_EXCEEDED"
  /\ Reason["replays"] = "REPLAY"
  /\ Failure \subseteq Counter /\ Success \subseteq Counter /\ "transfer_success" \in Counter
BY DEF Reason, Failure, Success, Counter

LEMMA InitCounters == Init => CountersInv
<1> SUFFICES ASSUME Init PROVE CountersInv
  OBVIOUS
<1>1. Cardinality({}) = 0 /\ IsFiniteSet({})
  BY FS_EmptySet
<1>2. FailuresCounted
  <2>1. \A c \in Failure : AnsweredWith(Reason[c]) = {} /\ metrics[c] = 0
    BY ReasonFacts DEF Init, AnsweredWith, Failure
  <2> QED
    BY <1>1, <2>1 DEF FailuresCounted
<1>3. SuccessesCounted /\ TransfersCounted
  <2>1. /\ \A type : Typed(type) = {}
        /\ ~Counting /\ metrics["transfer_success"] = 0 /\ \A c \in Success : metrics[c] = 0
    BY ReasonFacts DEF Init, Typed, Counting
  <2> QED
    BY <1>1, <2>1 DEF SuccessesCounted, TransfersCounted
<1> QED
  BY <1>2, <1>3 DEF CountersInv

\* A step answers at most one request, and its counters move with the answer.
LEMMA FailuresStep ==
  ASSUME IInv, AnswerInv, FailuresCounted, NEW r \in Request, StepOf(r), pc[r] # "done",
         NEW cs, Bumped(cs),
         \A c \in Failure : c \in cs <=> result'[r].code = Reason[c] /\ req'[r].kind = "TRANSFER"
  PROVE  FailuresCounted'
<1> SUFFICES ASSUME NEW c \in Failure
             PROVE  /\ IsFiniteSet(AnsweredWith(Reason[c])')
                    /\ metrics'[c] = Cardinality(AnsweredWith(Reason[c])')
  BY DEF FailuresCounted
<1>1. PICK S : S = AnsweredWith(Reason[c]) /\ IsFiniteSet(S) /\ metrics[c] = Cardinality(S)
  BY DEF FailuresCounted
<1>2. result[r].code = "NONE" /\ Reason[c] # "NONE"
  BY ReasonFacts DEF AnswerInv, AnswerAt, Failure
<1>3. r \notin S
  BY <1>1, <1>2 DEF AnsweredWith
<1>4. AnsweredWith(Reason[c])' = IF c \in cs THEN S \cup {r} ELSE S
  BY <1>1, <1>3 DEF AnsweredWith, StepOf
<1>5. metrics'[c] = IF c \in cs THEN Cardinality(S) + 1 ELSE Cardinality(S)
  BY <1>1, ReasonFacts DEF Bumped
<1>6. IsFiniteSet(S \cup {r}) /\ Cardinality(S \cup {r}) = Cardinality(S) + 1
  BY <1>1, <1>3, FS_AddElement
<1> QED
  BY <1>1, <1>4, <1>5, <1>6

\* A step that enters nothing in the ledger, and neither begins nor ends a counting.
LEMMA CountersStep ==
  ASSUME IInv, AnswerInv, CountersInv, NEW r \in Request, StepOf(r), pc[r] # "done",
         NEW cs \in SUBSET Failure, Bumped(cs), UNCHANGED <<ledger, crashes>>,
         pc[r] # "counting", pc'[r] # "counting",
         \A c \in Failure : c \in cs <=> result'[r].code = Reason[c] /\ req'[r].kind = "TRANSFER"
  PROVE  CountersInv'
<1> SUFFICES ASSUME crashes = 0
             PROVE  FailuresCounted' /\ SuccessesCounted' /\ TransfersCounted'
  BY DEF CountersInv
<1>1. FailuresCounted /\ SuccessesCounted /\ TransfersCounted
  BY DEF CountersInv
<1>2. FailuresCounted'
  BY <1>1, FailuresStep
<1>3. /\ \A type : Typed(type)' = Typed(type)
      /\ Counting' <=> Counting
      /\ \A c \in Success : metrics'[c] = metrics[c]
      /\ metrics'["transfer_success"] = metrics["transfer_success"]
  BY ReasonFacts DEF Typed, Counting, StepOf, Bumped, Failure, Success
<1> QED
  BY <1>1, <1>2, <1>3 DEF SuccessesCounted, TransfersCounted

LEMMA CountersFrame ==
  ASSUME CountersInv, UNCHANGED <<ledger, metrics, result, req, pc, crashes>>
  PROVE  CountersInv'
BY DEF CountersInv, FailuresCounted, SuccessesCounted, TransfersCounted, AnsweredWith, Typed, Counting

LEMMA ArrivalCounts ==
  ASSUME "db" \notin Faults, IInv, AnswerInv, CountersInv, NEW r \in Request, Arrival(r)
  PROVE  CountersInv'
<1>1. StepOf(r) /\ pc[r] = "idle" /\ TypeOK /\ result[r].code = "NONE"
  BY ArrivalTouches DEF IInv, AnswerInv, AnswerAt
<1>2. UNCHANGED <<ledger, crashes>> /\ pc'[r] # "counting"
  BY <1>1 DEF Arrival, Accept, RejectSameAccount, RejectKeyReuse, Replay, LookupFails, Arrives,
              Goto, Respond, TypeOK, tables, env
<1>3. PICK b \in Body : Accept(r, b) \/ RejectSameAccount(r, b) \/ RejectKeyReuse(r, b) \/ Replay(r, b)
  BY DEF Arrival, LookupFails
<1>4. CASE Replay(r, b)
  <2>1. /\ result'[r].code = "REPLAY" /\ req'[r].kind = "TRANSFER" /\ Bumped({"replays"})
        /\ {"replays"} \subseteq Failure
    BY <1>1, <1>4, Bumps DEF Replay, Arrives, LooksUpKey, Respond, TypeOK, Failure
  <2>2. \A c \in Failure : c \in {"replays"} <=> result'[r].code = Reason[c] /\ req'[r].kind = "TRANSFER"
    BY <2>1, ReasonFacts DEF Failure
  <2> QED
    BY <1>1, <1>2, <2>1, <2>2, CountersStep
<1>5. CASE ~Replay(r, b)
  <2>1. /\ result'[r].code \in {"NONE", "SAME_ACCOUNT_TRANSFER", "IDEMPOTENCY_KEY_CONFLICT"}
        /\ UNCHANGED metrics
    BY <1>1, <1>3, <1>5 DEF Accept, RejectSameAccount, RejectKeyReuse, Goto, Respond, TypeOK
  <2>2. /\ \A c \in Failure : c \in {} <=> result'[r].code = Reason[c] /\ req'[r].kind = "TRANSFER"
        /\ Bumped({})
    BY <1>1, <2>1, Bumps, ReasonFacts DEF Failure
  <2> QED
    BY <1>1, <1>2, <2>2, CountersStep
<1> QED
  BY <1>4, <1>5

LEMMA GetCounts ==
  ASSUME "db" \notin Faults, IInv, AnswerInv, CountersInv,
         NEW r \in Request, NEW a \in Account, Get(r, a)
  PROVE  CountersInv'
<1>1. /\ UNCHANGED <<ledger, crashes, req>> /\ StepOf(r) /\ TypeOK
      /\ pc[r] = "reading" \/ UNCHANGED <<pc, result, calls>>
  BY GetTouches DEF Get, GetReturns, GetFallsBack, GetFails, tables, env, IInv
<1>2. CASE pc[r] # "reading"
  <2>1. UNCHANGED metrics
    BY <1>2 DEF Get, GetReturns, GetFallsBack, GetFails, Settle
  <2> QED
    BY <1>1, <1>2, <2>1, CountersFrame
<1>3. CASE pc[r] = "reading"
  <2>1. result[r].code = "NONE"
    BY <1>3 DEF AnswerInv, AnswerAt
  <2>2. ASSUME NEW s, Settle(r, a, s)
        PROVE  /\ pc'[r] # "counting"
               /\ \/ /\ UNCHANGED metrics
                     /\ result'[r].code \notin {"TRANSFER_CREDIT_FAILED", "INTERNAL_ERROR",
                                                "DAILY_LIMIT_EXCEEDED", "REPLAY"}
                  \/ /\ Bump({"limit_rejections"}) /\ req[r].kind = "TRANSFER"
                     /\ result'[r].code = "DAILY_LIMIT_EXCEEDED"
    <3>1. \A b, f, t : AccountVerdict(b, f, t) \in
            {"OK", "NOT_FOUND", "ACCOUNT_FROZEN", "ACCOUNT_CLOSED", "ACCOUNT_INACTIVE",
             "KYC_NOT_VERIFIED", "INSUFFICIENT_BALANCE"}
      BY DEF AccountVerdict, ValidateAccount
    <3>2. ASSUME NEW f, NEW t, Decide(r, f, t)
          PROVE  /\ pc'[r] # "counting"
                 /\ \/ /\ UNCHANGED metrics
                       /\ result'[r].code \notin {"TRANSFER_CREDIT_FAILED", "INTERNAL_ERROR",
                                                  "DAILY_LIMIT_EXCEEDED", "REPLAY"}
                    \/ /\ Bump({"limit_rejections"}) /\ req[r].kind = "TRANSFER"
                       /\ result'[r].code = "DAILY_LIMIT_EXCEEDED"
      <4>1. PICK verdict : /\ verdict = AccountVerdict(req[r], f, t)
                           /\ verdict \in {"OK", "NOT_FOUND", "ACCOUNT_FROZEN", "ACCOUNT_CLOSED",
                                           "ACCOUNT_INACTIVE", "KYC_NOT_VERIFIED",
                                           "INSUFFICIENT_BALANCE"}
        BY <3>1
      <4>2. \/ verdict # "OK" /\ Respond(r, verdict, None) /\ UNCHANGED metrics
            \/ /\ OverLimit(req[r]) /\ Respond(r, "DAILY_LIMIT_EXCEEDED", None)
               /\ Bump({"limit_rejections"})
            \/ Goto(r, "crediting") /\ UNCHANGED metrics
            \/ Goto(r, "debiting") /\ UNCHANGED metrics
        BY <3>2, <4>1 DEF Decide
      <4> QED
        BY <1>1, <2>1, <4>1, <4>2 DEF OverLimit, Respond, Goto, TypeOK
    <3> QED
      BY <1>1, <1>3, <2>1, <2>2, <3>2 DEF Settle
  <2>3. /\ pc'[r] # "counting"
        /\ \/ /\ UNCHANGED metrics
              /\ result'[r].code \notin {"TRANSFER_CREDIT_FAILED", "INTERNAL_ERROR",
                                         "DAILY_LIMIT_EXCEEDED", "REPLAY"}
           \/ /\ Bump({"limit_rejections"}) /\ req[r].kind = "TRANSFER"
              /\ result'[r].code = "DAILY_LIMIT_EXCEEDED"
    BY <1>1, <1>3, <2>1, <2>2 DEF Get, GetReturns, GetFallsBack, GetFails, Respond, TypeOK
  <2>4. ASSUME UNCHANGED metrics, result'[r].code \notin {"TRANSFER_CREDIT_FAILED", "INTERNAL_ERROR",
                                                          "DAILY_LIMIT_EXCEEDED", "REPLAY"}
        PROVE  CountersInv'
    <3>1. /\ \A c \in Failure : c \in {} <=> result'[r].code = Reason[c] /\ req'[r].kind = "TRANSFER"
          /\ Bumped({})
      BY <1>1, <2>4, Bumps, ReasonFacts DEF Failure
    <3> QED
      BY <1>1, <1>3, <2>3, <3>1, CountersStep
  <2>5. ASSUME Bump({"limit_rejections"}), req[r].kind = "TRANSFER",
               result'[r].code = "DAILY_LIMIT_EXCEEDED"
        PROVE  CountersInv'
    <3>1. /\ \A c \in Failure : c \in {"limit_rejections"} <=>
                                  result'[r].code = Reason[c] /\ req'[r].kind = "TRANSFER"
          /\ Bumped({"limit_rejections"}) /\ {"limit_rejections"} \subseteq Failure
      BY <1>1, <2>5, Bumps, ReasonFacts DEF Failure
    <3> QED
      BY <1>1, <1>3, <2>3, <3>1, CountersStep
  <2> QED
    BY <2>3, <2>4, <2>5
<1> QED
  BY <1>2, <1>3

LEMMA PatchCounts ==
  ASSUME IInv, AnswerInv, CountersInv, NEW r \in Request, Patch(r)
  PROVE  CountersInv'
<1>1. /\ StepOf(r) /\ pc[r] # "done" /\ TypeOK /\ result[r].code = "NONE"
      /\ UNCHANGED <<ledger, crashes, req>>
  BY PatchTouches DEF IInv, AnswerInv, AnswerAt, Patch, DebitReturns, DebitFails, CreditReturns,
     CreditFails, RollbackReturns, RollbackFails, RollbackEnds, tables, env
<1>2. pc[r] # "counting" /\ pc'[r] # "counting"
  BY <1>1 DEF Patch, DebitReturns, DebitFails, CreditReturns, CreditFails, RollbackReturns,
              RollbackFails, RollbackEnds, Goto, Respond, TypeOK
<1>3. ASSUME NEW cs \in SUBSET Failure, Bumped(cs),
             \A c \in Failure : c \in cs <=> result'[r].code = Reason[c] /\ req[r].kind = "TRANSFER"
      PROVE  CountersInv'
  BY <1>1, <1>2, <1>3, CountersStep
<1>4. CASE /\ UNCHANGED metrics
           /\ result'[r].code = "NONE" \/ req[r].kind # "TRANSFER"
  <2>1. /\ \A c \in Failure : c \in {} <=> result'[r].code = Reason[c] /\ req[r].kind = "TRANSFER"
        /\ Bumped({})
    BY <1>1, <1>4, Bumps, ReasonFacts DEF Failure
  <2> QED
    BY <1>3, <2>1
<1>5. CASE DebitReturns(r) \/ CreditReturns(r) \/ CreditFails(r)
  <2>1. /\ UNCHANGED metrics
        /\ result'[r].code = "NONE" \/ req[r].kind # "TRANSFER"
    BY <1>1, <1>5 DEF DebitReturns, CreditReturns, CreditFails, Goto, Respond, TypeOK
  <2> QED
    BY <1>4, <2>1
<1>6. CASE DebitFails(r)
  <2>1. /\ result'[r].code = "INTERNAL_ERROR"
        /\ Bump(IF req[r].kind = "TRANSFER" THEN {"debit_failed"} ELSE {})
    BY <1>1, <1>6 DEF DebitFails, Respond, TypeOK
  <2>2. PICK cs : cs = IF req[r].kind = "TRANSFER" THEN {"debit_failed"} ELSE {}
    OBVIOUS
  <2>3. /\ Bumped(cs) /\ cs \subseteq Failure
        /\ \A c \in Failure : c \in cs <=> result'[r].code = Reason[c] /\ req[r].kind = "TRANSFER"
    BY <1>1, <2>1, <2>2, Bumps, ReasonFacts DEF Failure
  <2> QED
    BY <1>3, <2>3
<1>7. CASE RollbackReturns(r) \/ RollbackFails(r)
  <2>1. /\ result'[r].code = "TRANSFER_CREDIT_FAILED" /\ pc[r] = "rolling"
        /\ Bump({"credit_failed", "transfer_failed"})
    BY <1>1, <1>7 DEF RollbackReturns, RollbackFails, RollbackEnds, Respond, TypeOK
  <2>2. req[r].kind = "TRANSFER"
    BY <2>1 DEF IInv, ControlInv, CallsAt
  <2>3. /\ Bumped({"credit_failed", "transfer_failed"})
        /\ {"credit_failed", "transfer_failed"} \subseteq Failure
        /\ \A c \in Failure : c \in {"credit_failed", "transfer_failed"} <=>
                              result'[r].code = Reason[c] /\ req[r].kind = "TRANSFER"
    BY <1>1, <2>1, <2>2, Bumps, ReasonFacts DEF Failure
  <2> QED
    BY <1>3, <2>3
<1> QED
  BY <1>5, <1>6, <1>7 DEF Patch

\* One row of its type, counted at once; or both legs, counted a statement later.
LEMMA RowsCount ==
  ASSUME IInv, RowInv, IsFiniteSet(ledger), NEW r \in Request, pc[r] = "recording",
         NEW row, row.by = r
  PROVE  /\ row \notin ledger
         /\ Cardinality(Typed(row.type) \cup {row}) = Cardinality(Typed(row.type)) + 1
<1>1. row \notin ledger
  BY DEF RowInv, Committed, Committing
<1>2. IsFiniteSet(Typed(row.type)) /\ row \notin Typed(row.type)
  BY <1>1, FS_Subset DEF Typed
<1> QED
  BY <1>1, <1>2, FS_AddElement

LEMMA RecordCounts ==
  ASSUME "db" \notin Faults, IInv, SafeInv, OneAtEnd, TotalsInv, AnswerInv, CountersInv, crashes = 0,
         NEW r \in Request, RecordSingle(r), StepOf(r), pc[r] # "done"
  PROVE  CountersInv'
<1>1. TypeOK /\ result[r].code = "NONE" /\ FailuresCounted /\ SuccessesCounted /\ TransfersCounted
  BY DEF IInv, AnswerInv, AnswerAt, CountersInv
<1>2. PICK row : row = Leg(r, req[r].kind)
  OBVIOUS
<1>3. PICK kind : kind = req[r].kind /\ kind \in {"DEPOSIT", "WITHDRAWAL"}
  <2>1. pc[r] = "recording" /\ req[r].kind # "TRANSFER" /\ req[r] \in Body
    BY DEF RecordSingle, IInv, ReqInv
  <2> QED
    BY <2>1, BodyFacts DEF Kind
<1>4. PICK cs : cs = IF kind = "DEPOSIT" THEN {"deposit_success"} ELSE {"withdrawal_success"}
  OBVIOUS
<1>5. /\ ledger' = ledger \cup {row} /\ row.by = r /\ row.type = kind
      /\ pc[r] = "recording" /\ pc'[r] = "done" /\ result'[r].code = "CREATED"
      /\ Bumped(cs)
  BY <1>1, <1>2, <1>3, <1>4, Bumps DEF RecordSingle, Leg, Respond, TypeOK
<1>6. /\ Cardinality(Typed(kind) \cup {row}) = Cardinality(Typed(kind)) + 1
      /\ Typed(kind)' = Typed(kind) \cup {row}
      /\ \A type : type # kind => Typed(type)' = Typed(type)
  BY <1>5, RowsCount DEF SafeInv, TotalsInv, Typed
<1>7. FailuresCounted'
  <2>1. \A c \in Failure : c \in cs <=> result'[r].code = Reason[c] /\ req'[r].kind = "TRANSFER"
    BY <1>3, <1>4, <1>5, ReasonFacts DEF Failure
  <2> QED
    BY <1>1, <1>5, <2>1, FailuresStep
<1>8. SuccessesCounted'
  <2>1. /\ TypeFor["deposit_success"] = "DEPOSIT" /\ TypeFor["withdrawal_success"] = "WITHDRAWAL"
        /\ \A c \in Success : c = "deposit_success" \/ c = "withdrawal_success"
        /\ Success \subseteq Counter /\ {"deposit_success", "withdrawal_success"} \subseteq Success
    BY ReasonFacts DEF TypeFor, Success
  <2>2. ASSUME NEW c \in Success PROVE metrics'[c] = Cardinality(Typed(TypeFor[c])')
    <3>1. metrics[c] = Cardinality(Typed(TypeFor[c]))
      BY <1>1 DEF SuccessesCounted
    <3>2. c \in cs <=> TypeFor[c] = kind
      BY <1>3, <1>4, <2>1
    <3>3. metrics'[c] = IF c \in cs THEN metrics[c] + 1 ELSE metrics[c]
      BY <1>5, <2>1 DEF Bumped
    <3> QED
      BY <1>6, <3>1, <3>2, <3>3
  <2> QED
    BY <2>2 DEF SuccessesCounted
<1>9. TransfersCounted'
  <2>1. /\ Typed("TRANSFER_OUT")' = Typed("TRANSFER_OUT") /\ (Counting' <=> Counting)
        /\ metrics'["transfer_success"] = metrics["transfer_success"]
    BY <1>3, <1>4, <1>5, <1>6, ReasonFacts DEF Counting, StepOf, Bumped
  <2> QED
    BY <1>1, <2>1 DEF TransfersCounted
<1> QED
  BY <1>7, <1>8, <1>9 DEF CountersInv

LEMMA InsertCounts ==
  ASSUME IInv, SafeInv, OneAtEnd, TotalsInv, AnswerInv, CountersInv, crashes = 0,
         NEW r \in Request, InsertBoth(r), StepOf(r), pc[r] # "done"
  PROVE  CountersInv'
<1>1. TypeOK /\ result[r].code = "NONE" /\ FailuresCounted /\ SuccessesCounted /\ TransfersCounted
  BY DEF IInv, AnswerInv, AnswerAt, CountersInv
<1>2. PICK row : row = Leg(r, "TRANSFER_OUT")
  OBVIOUS
<1>3. PICK other : other = Leg(r, "TRANSFER_IN")
  OBVIOUS
<1>4. /\ ledger' = ledger \cup {row, other} /\ row.by = r /\ row.type = "TRANSFER_OUT"
      /\ other.type = "TRANSFER_IN" /\ UNCHANGED <<req, metrics>>
      /\ pc[r] = "recording" /\ pc'[r] = "counting" /\ result'[r].code = "NONE"
  BY <1>1, <1>2, <1>3 DEF InsertBoth, Leg, Goto, TypeOK
<1>5. /\ Cardinality(Typed("TRANSFER_OUT") \cup {row}) = Cardinality(Typed("TRANSFER_OUT")) + 1
      /\ Typed("TRANSFER_OUT")' = Typed("TRANSFER_OUT") \cup {row}
      /\ \A c \in Success : Typed(TypeFor[c])' = Typed(TypeFor[c])
  <2>1. \A c \in Success : TypeFor[c] \in {"DEPOSIT", "WITHDRAWAL"}
    BY DEF TypeFor
  <2> QED
    BY <1>4, <2>1, RowsCount DEF SafeInv, TotalsInv, Typed
<1>6. FailuresCounted'
  <2>1. /\ \A c \in Failure : c \in {} <=> result'[r].code = Reason[c] /\ req'[r].kind = "TRANSFER"
        /\ Bumped({})
    BY <1>1, <1>4, Bumps, ReasonFacts DEF Failure
  <2> QED
    BY <1>1, <2>1, FailuresStep
<1>7. SuccessesCounted'
  BY <1>1, <1>4, <1>5 DEF SuccessesCounted
<1>8. TransfersCounted'
  <2>1. ~Counting /\ Counting'
    BY <1>4 DEF Counting, OneAtEnd, SyncPhase
  <2>2. metrics["transfer_success"] \in Nat
    BY <1>1, ReasonFacts DEF TypeOK
  <2>3. PICK n \in Nat : n = Cardinality(Typed("TRANSFER_OUT"))
    BY FS_Subset, FS_CardinalityType DEF TotalsInv, Typed
  <2>4. metrics["transfer_success"] = n - 0
    BY <1>1, <2>1, <2>3 DEF TransfersCounted
  <2>5. Cardinality(Typed("TRANSFER_OUT")') = n + 1
    BY <1>5, <2>3
  <2>6. metrics'["transfer_success"] = (n + 1) - 1
    BY <1>4, <2>4
  <2> QED
    BY <2>1, <2>5, <2>6 DEF TransfersCounted
<1> QED
  BY <1>6, <1>7, <1>8 DEF CountersInv

LEMMA IncrementCounts ==
  ASSUME IInv, OneAtEnd, TotalsInv, AnswerInv, CountersInv, crashes = 0,
         NEW r \in Request, IncrementDailyTotal(r), StepOf(r), pc[r] # "done"
  PROVE  CountersInv'
<1>1. TypeOK /\ result[r].code = "NONE" /\ FailuresCounted /\ SuccessesCounted /\ TransfersCounted
  BY DEF IInv, AnswerInv, AnswerAt, CountersInv
<1>2. /\ UNCHANGED <<ledger, req>> /\ Bumped({"transfer_success"})
      /\ pc[r] = "counting" /\ pc'[r] = "storing" /\ result'[r].code = "NONE"
  BY <1>1, Bumps DEF IncrementDailyTotal, Goto, TypeOK
<1>3. FailuresCounted'
  <2>1. \A c \in Failure : c \in {"transfer_success"} <=>
                            result'[r].code = Reason[c] /\ req'[r].kind = "TRANSFER"
    BY <1>2, ReasonFacts DEF Failure
  <2> QED
    BY <1>1, <1>2, <2>1, FailuresStep
<1>4. SuccessesCounted' 
  <2>1. \A c \in Success : metrics'[c] = metrics[c] /\ Typed(TypeFor[c])' = Typed(TypeFor[c])
    BY <1>2, ReasonFacts DEF Bumped, Success, Typed
  <2> QED
    BY <1>1, <2>1 DEF SuccessesCounted
<1>5. TransfersCounted'
  <2>1. Counting /\ ~Counting'
    BY <1>2 DEF Counting, OneAtEnd, SyncPhase, StepOf
  <2>2. metrics'["transfer_success"] = metrics["transfer_success"] + 1
    BY <1>2, ReasonFacts DEF Bumped
  <2>3. Cardinality(Typed("TRANSFER_OUT")) \in Nat
    BY FS_Subset, FS_CardinalityType DEF TotalsInv, Typed
  <2>4. Typed("TRANSFER_OUT")' = Typed("TRANSFER_OUT")
    BY <1>2 DEF Typed
  <2> QED
    BY <1>1, <2>1, <2>2, <2>3, <2>4 DEF TransfersCounted
<1> QED
  BY <1>3, <1>4, <1>5 DEF CountersInv

LEMMA StoreCounts ==
  ASSUME IInv, AnswerInv, CountersInv,
         NEW r \in Request, StoreIdempotent(r), StepOf(r), pc[r] # "done"
  PROVE  CountersInv'
<1>1. TypeOK /\ result[r].code = "NONE"
  BY DEF IInv, AnswerInv, AnswerAt
<1>2. /\ UNCHANGED <<ledger, crashes, metrics>> /\ pc[r] = "storing" /\ pc'[r] = "done"
      /\ result'[r].code = "CREATED"
  BY <1>1 DEF StoreIdempotent, Respond, TypeOK, env
<1>3. /\ \A c \in Failure : c \in {} <=> result'[r].code = Reason[c] /\ req'[r].kind = "TRANSFER"
      /\ Bumped({})
  BY <1>1, <1>2, Bumps, ReasonFacts DEF Failure
<1> QED
  BY <1>2, <1>3, CountersStep

LEMMA NextCounters ==
  ASSUME "db" \notin Faults, IInv, SafeInv, OneAtEnd, TotalsInv, AnswerInv, CountersInv, [Next]_vars
  PROVE  CountersInv'
<1> SUFFICES ASSUME crashes' = 0 PROVE CountersInv'
  BY DEF CountersInv
<1>1. crashes = 0 /\ ~Crash
  <2>1. crashes \in Nat
    BY ServiceAssumption DEF IInv, TypeOK
  <2>2. crashes = 0
    BY <2>1, CrashesCount
  <2> QED
    BY <2>2 DEF Crash
<1>2. ASSUME NEW r \in Request, Commit(r)
      PROVE  CountersInv'
  <2>1. StepOf(r) /\ pc[r] # "done"
    BY <1>2, CommitTouches
  <2>2. RecordSingle(r) \/ InsertBoth(r) \/ IncrementDailyTotal(r) \/ StoreIdempotent(r)
    BY <1>2 DEF Commit, DbFails
  <2> QED
    BY <1>1, <2>1, <2>2, RecordCounts, InsertCounts, IncrementCounts, StoreCounts
<1>3. ASSUME NEW r \in Request, Server(r)
      PROVE  CountersInv'
  <2>1. UNCHANGED <<ledger, metrics, result, req, pc, crashes>>
    BY <1>3 DEF Server, ServerReads, ServerExecutes, Resends, tables, env
  <2> QED
    BY <2>1, CountersFrame
<1>4. CASE Tick \/ (\E a \in Account : AccountChanges(a)) \/ UNCHANGED vars
  <2>1. UNCHANGED <<ledger, metrics, result, req, pc, crashes>>
    BY <1>4 DEF Tick, AccountChanges, vars, tables
  <2> QED
    BY <2>1, CountersFrame
<1> QED
  BY <1>1, <1>2, <1>3, <1>4, ArrivalCounts, GetCounts, PatchCounts DEF Next

\* As long as SQLite works and the process lives, whatever the network does, the
\* Prometheus counters are the number of rows that the ledger has of each type and
\* of transfers that were answered with each failure.
THEOREM CountersTrue ==
  ASSUME "db" \notin Faults
  PROVE  Spec => []CountersMatchOutcomes
<1>1. Init => CountersInv
  BY InitCounters
<1>2. IInv /\ SafeInv /\ OneAtEnd /\ TotalsInv /\ AnswerInv /\ CountersInv /\ [Next]_vars
      => CountersInv'
  BY NextCounters
<1>3. TotalsInv /\ CountersInv => CountersMatchOutcomes
  <2> SUFFICES ASSUME TotalsInv, FailuresCounted, SuccessesCounted, TransfersCounted, LoopFree
               PROVE  /\ metrics["deposit_success"]    = Count("DEPOSIT")
                      /\ metrics["withdrawal_success"] = Count("WITHDRAWAL")
                      /\ metrics["transfer_success"]   = Count("TRANSFER_OUT")
                      /\ metrics["transfer_failed"]    = Answered("TRANSFER", {"TRANSFER_CREDIT_FAILED"})
                      /\ metrics["credit_failed"]      = metrics["transfer_failed"]
                      /\ metrics["debit_failed"]       = Answered("TRANSFER", {"INTERNAL_ERROR"})
                      /\ metrics["limit_rejections"]   = Answered("TRANSFER", {"DAILY_LIMIT_EXCEEDED"})
                      /\ metrics["replays"]            = Answered("TRANSFER", {"REPLAY"})
    BY DEF CountersInv, CountersMatchOutcomes
  <2>1. \A type : Count(type) = Cardinality(Typed(type))
    BY DEF Count, Typed
  <2>2. \A code : Answered("TRANSFER", {code}) = Cardinality(AnsweredWith(code))
    <3>1. \A code : AnsweredWith(code) = {r \in Request : /\ result[r].code \in {code}
                                                         /\ req[r].kind = "TRANSFER"}
      BY DEF AnsweredWith
    <3> QED
      BY <3>1 DEF Answered
  <2>3. \A c \in Failure : metrics[c] = Answered("TRANSFER", {Reason[c]})
    BY <2>2 DEF FailuresCounted
  <2>4. metrics["deposit_success"] = Count("DEPOSIT") /\ metrics["withdrawal_success"] = Count("WITHDRAWAL")
    BY <2>1 DEF SuccessesCounted, Success, TypeFor
  <2>5. metrics["transfer_success"] = Count("TRANSFER_OUT")
    <3>1. ~Counting
      BY DEF LoopFree, Counting, SyncPhase
    <3>2. Cardinality(Typed("TRANSFER_OUT")) \in Nat
      BY FS_Subset, FS_CardinalityType DEF TotalsInv, Typed
    <3> QED
      BY <2>1, <3>1, <3>2 DEF TransfersCounted
  <2> QED
    BY <2>3, <2>4, <2>5, ReasonFacts DEF Failure
<1> QED
  BY <1>1, <1>2, <1>3, AnswerInvariant, TotalsInvariant, PTL DEF Spec
=============================================================================
