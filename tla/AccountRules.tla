---------------------------- MODULE AccountRules ----------------------------
(***************************************************************************)
(* services/accountService.js without its network calls: the records of    *)
(* the Account Service as its answers carry them, the checks made on them  *)
(* and what the account_cache table keeps of them.                         *)
(***************************************************************************)
EXTENDS Integers

\* What the CHECK constraints of account_cache list.
CachedType   == {"SAVINGS", "CURRENT", "SALARY", "NRE"}
CachedStatus == {"ACTIVE", "FROZEN", "CLOSED"}
CachedKyc    == {"VERIFIED", "PENDING", "REJECTED"}

\* "OTHER" is any value they do not list, "UNSET" a field that is not there.
AccountType == CachedType   \cup {"OTHER", "UNSET"}
Status      == CachedStatus \cup {"OTHER", "UNSET"}
KycStatus   == CachedKyc    \cup {"OTHER", "UNSET"}

\* An account always has a balance; "lacks" is what answers about it leave out
\* besides: the balance, the account_id, or all of the body.
AccountRecord == [type    : AccountType,
                  balance : Int,
                  status  : Status,
                  kyc     : KycStatus,
                  lacks   : SUBSET {"body", "account_id", "balance"}]

ShowsBalance(s) == s.lacks \cap {"body", "balance"} = {}

\* validateAccountForTransaction: "OK", or the code of the error it throws.
\* A missing status is refused, a missing kyc_status is not.
ValidateAccount(s) ==
  IF "body" \in s.lacks THEN "NOT_FOUND"
  ELSE IF s.status = "FROZEN" THEN "ACCOUNT_FROZEN"
  ELSE IF s.status = "CLOSED" THEN "ACCOUNT_CLOSED"
  ELSE IF s.status # "ACTIVE" THEN "ACCOUNT_INACTIVE"
  ELSE IF s.kyc \notin {"VERIFIED", "UNSET"} THEN "KYC_NOT_VERIFIED"
  ELSE "OK"

NoOverdraftTypes == {"SAVINGS", "NRE"}

\* checkOverdraft throws; undefined < amount is false.
Overdrawn(s, amount) ==
  s.type \in NoOverdraftTypes /\ ShowsBalance(s) /\ s.balance < amount

Default(value, other) == IF value = "UNSET" THEN other ELSE value

\* Mutant: every account is cached as verified.
CacheRowVerified(s) ==
  [type |-> Default(s.type, "SAVINGS"),
   balance |-> IF ShowsBalance(s) THEN s.balance ELSE 0,
   status |-> Default(s.status, "ACTIVE"), kyc |-> "VERIFIED", lacks |-> {}]

\* The row of _upsertCache, and of the seed: what is missing has a default.
CacheRow(s) ==
  [type    |-> Default(s.type, "SAVINGS"),
   balance |-> IF ShowsBalance(s) THEN s.balance ELSE 0,
   status  |-> Default(s.status, "ACTIVE"),
   kyc     |-> Default(s.kyc, "VERIFIED"),
   lacks   |-> {}]

\* An answer without account_id is not stored, nor is a row that breaks a
\* CHECK: the error is swallowed.
Cacheable(s) ==
  /\ s.lacks \cap {"body", "account_id"} = {}
  /\ CacheRow(s).type \in CachedType
  /\ CacheRow(s).status \in CachedStatus
  /\ CacheRow(s).kyc \in CachedKyc

\* Mutant: ON CONFLICT DO UPDATE that forgets status and kyc_status.
UpsertedBalance(old, s) == [old EXCEPT !.balance = CacheRow(s).balance]

\* What ON CONFLICT DO UPDATE keeps: account_type stays as first inserted.
Upserted(old, s) == [CacheRow(s) EXCEPT !.type = old.type]
=============================================================================
