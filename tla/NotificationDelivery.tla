------------------------ MODULE NotificationDelivery ------------------------
(***************************************************************************)
(* _dispatch of services/notificationService.js: one POST per recorded     *)
(* request, which nobody awaits, and its notifications_sent_total.         *)
(***************************************************************************)
EXTENDS CallContract

CONSTANT Request

VARIABLES post,     \* the httpCall of each request's notification
          counted   \* the label success it was counted under
noticeVars == <<post, counted>>

NoticeTypes == /\ post \in [Request -> CallRecord]
               /\ counted \in [Request -> {"no", "true", "false"}]

NoticeInit == /\ post = [r \in Request |-> NoCall]
              /\ counted = [r \in Request |-> "no"]

\* Mutant: counted when it is dispatched.
DispatchCounted(r) == /\ post[r].st = "none"
                      /\ post' = [post EXCEPT ![r] = OpenCall]
                      /\ counted' = [counted EXCEPT ![r] = "true"]

\* notifyTransaction, which returns before the POST is answered.
Dispatch(r) == /\ post[r].st = "none"
               /\ post' = [post EXCEPT ![r] = OpenCall]
               /\ UNCHANGED counted

\* The Notification Service takes a POST, perhaps when nobody waits any more.
Deliver(r) == /\ CanExecute(post[r])
              /\ post' = [post EXCEPT ![r] = Executed(@)]
              /\ UNCHANGED counted

Resend(r) == /\ CanResend(post[r])
             /\ post' = [post EXCEPT ![r] = Resent(@)]
             /\ UNCHANGED counted

\* .then
Sent(r) == /\ CanReturn(post[r])
           /\ post' = [post EXCEPT ![r] = Returned(@)]
           /\ counted' = [counted EXCEPT ![r] = "true"]

\* Mutant: nothing is counted without an answer.
FailedAnswered(r) == /\ post[r].st = "open" /\ post[r].executed > 0
                     /\ post' = [post EXCEPT ![r] = GivenUp(@)]
                     /\ counted' = [counted EXCEPT ![r] = "false"]

\* .catch: refused, or out of attempts.
Failed(r) == /\ post[r].st = "open"
             /\ post' = [post EXCEPT ![r] = GivenUp(@)]
             /\ counted' = [counted EXCEPT ![r] = "false"]

\* The process exits: what was open is neither tried again nor counted.
LoseAll == /\ post' = [r \in Request |-> GivenUp(post[r])]
           /\ UNCHANGED counted
=============================================================================
