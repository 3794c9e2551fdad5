----------------------------- MODULE RemoteCall -----------------------------
(***************************************************************************)
(* The abstract specification of one call: at least once when it resolves, *)
(* up to MAX_RETRIES times and possibly late when it rejects.  HttpClient  *)
(* implements it, and TransactionService uses its steps for every PATCH it *)
(* sends to the Account Service.                                           *)
(***************************************************************************)
EXTENDS CallContract

VARIABLE call

Init == call = OpenCall

Execute == CanExecute(call) /\ call' = Executed(call)
Resend  == CanResend(call) /\ call' = Resent(call)
Return  == CanReturn(call) /\ call' = Returned(call)
GiveUp  == call.st = "open" /\ call' = GivenUp(call)

Next == Execute \/ Resend \/ Return \/ GiveUp

Spec == Init /\ [][Next]_call
=============================================================================
