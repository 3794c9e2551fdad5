---------------------------- MODULE CallContract ----------------------------
(***************************************************************************)
(* What one httpCall of utils/httpClient.js does to the service it calls,  *)
(* seen from outside: a record of the requests sent and of those the       *)
(* service has executed.  A call is tried again after a timeout or a       *)
(* transient answer, so one call may be executed several times, and a      *)
(* request that timed out may still be executed after the call is over.    *)
(***************************************************************************)
EXTENDS Naturals

CONSTANT MAX_RETRIES    \* attempts of one call, MAX_RETRY_ATTEMPTS

ASSUME MaxRetriesAssumption == MAX_RETRIES \in Nat \ {0}

\* "none": not made; "open": awaited; "ok": resolved; "failed": rejected,
\* or its caller has died.
CallRecord == [st       : {"none", "open", "ok", "failed"},
               sent     : 0 .. MAX_RETRIES,
               executed : 0 .. MAX_RETRIES]

NoCall     == [st |-> "none", sent |-> 0, executed |-> 0]
OpenCall   == [st |-> "open", sent |-> 1, executed |-> 0]

\* Mutant: one attempt too many.
CanResendOnceMore(c) == c.st = "open" /\ c.sent <= MAX_RETRIES
\* Mutant: the caller gives up and the call goes on trying.
StillRetrying(c) == c

CanExecute(c) == c.executed < c.sent
CanResend(c)  == c.st = "open" /\ c.sent < MAX_RETRIES
CanReturn(c)  == c.st = "open" /\ c.executed > 0

Executed(c) == [c EXCEPT !.executed = @ + 1]
Resent(c)   == [c EXCEPT !.sent = @ + 1]
Returned(c) == [c EXCEPT !.st = "ok"]
GivenUp(c)  == [c EXCEPT !.st = IF @ = "open" THEN "failed" ELSE @]
=============================================================================
