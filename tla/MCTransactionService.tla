----------------------- MODULE MCTransactionService -----------------------
(* Two accounts, a handful of bodies and two or three requests.  Amounts    *)
(* are chosen against a cap of 3 and balances of 3 and 0: two transfers of  *)
(* 2 pass the cap one by one and break it together, and each amount has a   *)
(* balance that covers it and one that does not.                            *)
EXTENDS Reconciliation, SagaRefinement, TLC

CONSTANTS A, B, K1, K2, R1, R2, R3

MCHash(from, to, amount) == <<from, to, amount>>

Lacking(type, balance, status, kyc, lacks) ==
  [type |-> type, balance |-> balance, status |-> status, kyc |-> kyc,
   lacks |-> lacks]
Rec(type, balance, status, kyc) == Lacking(type, balance, status, kyc, {})

Receiver   == Rec("CURRENT", 0, "ACTIVE", "UNSET")
Plain      == A :> Rec("SAVINGS", 3, "ACTIVE", "VERIFIED") @@ B :> Receiver
Ample      == A :> Rec("SAVINGS", 4, "ACTIVE", "VERIFIED") @@ B :> Receiver
Overdraft  == A :> Rec("CURRENT", 0, "ACTIVE", "VERIFIED") @@ B :> Receiver
Unverified == A :> Rec("SAVINGS", 3, "ACTIVE", "PENDING") @@ B :> Receiver
Bare       == A :> Rec("SAVINGS", 3, "ACTIVE", "VERIFIED")
           @@ B :> Lacking("CURRENT", 0, "ACTIVE", "UNSET", {"balance", "account_id"})

\* CSV files that agree with the Account Service, that are missing, that have
\* more on A than there is, and that know A by another type and no status.
PlainA      == A :> Plain[A] @@ B :> None
Both        == Overdraft
Overstated  == A :> Rec("SAVINGS", 5, "ACTIVE", "VERIFIED") @@ B :> Receiver
OtherTypeA  == A :> Rec("CURRENT", 0, "UNSET", "REJECTED") @@ B :> None

\* What an account may be turned into.
NoRevision  == {}
Revisions   == {Rec("NRE", 0, "ACTIVE", "VERIFIED"),
                Rec("UNSET", 0, "UNSET", "UNSET"),
                Rec("OTHER", 0, "FROZEN", "VERIFIED"),
                Lacking("SAVINGS", 0, "ACTIVE", "VERIFIED", {"body"})}

Transfer(from, to, amount, key) ==
  [kind |-> "TRANSFER", from |-> from, to |-> to, amount |-> amount, key |-> key]
Single(kind, a, amount) ==
  [kind |-> kind, from |-> a, to |-> a, amount |-> amount, key |-> K1]

Retried    == Transfer(A, B, 2, K1)
Other      == Transfer(A, B, 2, K2)
Reused     == Transfer(A, B, 1, K1)
Back       == Transfer(B, A, 1, K2)
SelfMade   == Transfer(A, A, 1, K2)
Deposit    == Single("DEPOSIT", B, 1)
Withdrawal == Single("WITHDRAWAL", A, 2)

Drained    == Single("WITHDRAWAL", A, 5)

OneByOne       == {Retried, Other, Reused, Back, SelfMade, Deposit, Drained}
AllBodies      == {Retried, Other, Reused, Back, SelfMade, Deposit, Withdrawal}
Everyday       == {Retried, Other, Deposit, Withdrawal}
RetryOnly      == {Retried}
RetriedOrDrawn == {Retried, Withdrawal}
RetriedOrPaid  == {Retried, Deposit}
Transfers      == {Retried, Other}

RequestSymmetry == Permutations(Request)
=============================================================================
