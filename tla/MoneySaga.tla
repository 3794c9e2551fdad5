----------------------------- MODULE MoneySaga -----------------------------
(***************************************************************************)
(* What deposit, withdraw and transfer promise about money, without tables, *)
(* accounts, keys or clocks: a transfer takes, then gives, then enters both *)
(* legs in the ledger; when giving fails it restores what it took.  Every   *)
(* effect at the Account Service may come late, and once for each attempt   *)
(* of its call.                                                             *)
(***************************************************************************)
EXTENDS CallContract

CONSTANTS Request,
          MaxDeaths     \* bound: deaths of the process

Op    == {"debit", "credit", "rollback"}
Kind  == {"DEPOSIT", "WITHDRAWAL", "TRANSFER"}
Stage == {"waiting", "taking", "giving", "restoring", "entering", "over"}

VARIABLES saga,    \* how far each request is, what it asked for, what was done
          deaths   \* of the process
sagaVars == <<saga, deaths>>

SagaRecord == [stage : Stage, kind : Kind \cup {"none"}, asked : SUBSET Op,
               done : [Op -> 0 .. MAX_RETRIES], entered : BOOLEAN]

TypeOK == saga \in [Request -> SagaRecord] /\ deaths \in Nat

Waiting == [stage |-> "waiting", kind |-> "none", asked |-> {},
            done |-> [op \in Op |-> 0], entered |-> FALSE]

Init == saga = [r \in Request |-> Waiting] /\ deaths = 0

-----------------------------------------------------------------------------

Set(r, s) == saga' = [saga EXCEPT ![r] = s] /\ UNCHANGED deaths

Needs(kind) == CASE kind = "DEPOSIT" -> {"credit"}
                 [] kind = "WITHDRAWAL" -> {"debit"}
                 [] kind = "TRANSFER" -> {"debit", "credit"}
                 [] OTHER -> {}

Asking(s, stage, op) == [s EXCEPT !.stage = stage, !.asked = @ \cup {op}]
Over(s) == [s EXCEPT !.stage = "over"]

\* Mutant: debit and credit are sent together.
BeginBoth(r) ==
  /\ saga[r].stage = "waiting"
  /\ \E k \in Kind :
       Set(r, [saga[r] EXCEPT !.kind = k, !.stage = IF k = "DEPOSIT" THEN "giving" ELSE "taking",
                              !.asked = Needs(k)])

\* All checks are passed and the first PATCH is sent.
Begin(r) ==
  /\ saga[r].stage = "waiting"
  /\ \E k \in Kind :
       LET s == [saga[r] EXCEPT !.kind = k]
       IN Set(r, IF k = "DEPOSIT" THEN Asking(s, "giving", "credit")
                                  ELSE Asking(s, "taking", "debit"))

\* A check refuses the request, or its answer is a replay.
Refuse(r) == saga[r].stage = "waiting" /\ Set(r, Over(saga[r]))

\* Mutant: one attempt too many.
EffectOnceMore(r, op) ==
  /\ op \in saga[r].asked /\ saga[r].done[op] <= MAX_RETRIES
  /\ Set(r, [saga[r] EXCEPT !.done[op] = @ + 1])

\* The Account Service does what it was asked, again or late.
Effect(r, op) ==
  /\ op \in saga[r].asked /\ saga[r].done[op] < MAX_RETRIES
  /\ Set(r, [saga[r] EXCEPT !.done[op] = @ + 1])

Take(r) ==
  /\ saga[r].stage = "taking" /\ saga[r].done["debit"] > 0
  /\ Set(r, IF saga[r].kind = "TRANSFER" THEN Asking(saga[r], "giving", "credit")
                                         ELSE [saga[r] EXCEPT !.stage = "entering"])

TakeFails(r) == saga[r].stage = "taking" /\ Set(r, Over(saga[r]))

Give(r) ==
  /\ saga[r].stage = "giving" /\ saga[r].done["credit"] > 0
  /\ Set(r, [saga[r] EXCEPT !.stage = "entering"])

GiveFails(r) ==
  /\ saga[r].stage = "giving"
  /\ Set(r, IF saga[r].kind = "TRANSFER" THEN Asking(saga[r], "restoring", "rollback")
                                         ELSE Over(saga[r]))

\* The client is told that the debit was reversed, whether it was or not.
RestoreEnds(r) == saga[r].stage = "restoring" /\ Set(r, Over(saga[r]))

Enter(r) ==
  /\ saga[r].stage = "entering"
  /\ Set(r, [Over(saga[r]) EXCEPT !.entered = TRUE])

EnterFails(r) == saga[r].stage = "entering" /\ Set(r, Over(saga[r]))

\* The process dies: what it had begun it never finishes.
Die ==
  /\ deaths < MaxDeaths
  /\ \E S \in SUBSET {r \in Request : saga[r].stage = "waiting"} :
       saga' = [r \in Request |-> IF r \in S THEN saga[r]
                                  ELSE Over(saga[r])]
  /\ deaths' = deaths + 1

Handle(r) == \/ Begin(r) \/ Refuse(r) \/ Take(r) \/ TakeFails(r)
             \/ Give(r) \/ GiveFails(r) \/ RestoreEnds(r)
             \/ Enter(r) \/ EnterFails(r)

Next == \/ \E r \in Request : Handle(r) \/ \E op \in Op : Effect(r, op)
        \/ Die

Spec == Init /\ [][Next]_sagaVars

-----------------------------------------------------------------------------

\* The money moves in order: nothing is given, restored or entered in the
\* ledger before what it stands on has been done, and what has been entered
\* is never restored, however late or often the effects come.
MoneyInOrder ==
  \A r \in Request :
    LET s == saga[r]
    IN /\ s.kind = "TRANSFER" /\ "credit" \in s.asked => s.done["debit"] > 0
       /\ "rollback" \in s.asked => s.kind = "TRANSFER" /\ ~s.entered
       /\ s.entered => \A op \in Needs(s.kind) : s.done[op] > 0
=============================================================================
