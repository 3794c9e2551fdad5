--------------------------- MODULE MCSynchronous ---------------------------
(* The parts of the service that await nothing, side by side: the seed, the *)
(* request hash, validation and the row it admits, and the lists.  They     *)
(* share no variable, so a behaviour runs one of them and the rest stay as  *)
(* they begin.                                                              *)
EXTENDS Seed, HashLoop, RequestBody, Listing

VARIABLE part
allVars == <<part, vars, hashVars, bodyVars, listVars>>

MCInit == /\ part \in {"seed", "hash", "body", "list"}
          /\ Init /\ HashInit /\ BodyInit /\ ListInit
          /\ part # "seed" => first = {"accounts"}
          /\ part # "list" => newestFirst

MCNext == \/ /\ part = "seed" /\ Next
             /\ UNCHANGED <<part, hashVars, bodyVars, listVars>>
          \/ /\ part = "hash" /\ HashNext
             /\ UNCHANGED <<part, vars, bodyVars, listVars>>
          \/ /\ part = "body" /\ BodyNext
             /\ UNCHANGED <<part, vars, hashVars, listVars>>
          \/ /\ part = "list" /\ ListNext
             /\ UNCHANGED <<part, vars, hashVars, bodyVars>>

MCSpec == /\ MCInit /\ [][MCNext]_allVars
          /\ \A p \in Process : WF_vars(part = "seed" /\ RunSeed(p))

\* One server and the script on two builds: the second build's files have
\* one account and one transaction more.
MCAccountRows(v) == IF v = 1 THEN {"a1"} ELSE {"a1", "a2"}
MCTxnRows(v)     == IF v = 1 THEN {"t1"} ELSE {"t1", "t2"}

\* Days of two seconds, pages of one or two rows with a maximum of two, and
\* bounds in every form that the routes document or the table uses.
Number(n) == [form |-> "number", n |-> n]
MCLimits  == {[form |-> "absent", n |-> 0], [form |-> "NaN", n |-> 0],
              Number(-1), Number(0), Number(1), Number(3)}
MCFrom    == {Absent, Written("T", 0), Written("end", 2)}
MCTo      == {Absent, Written("space", 2), Written("T", 0), Written("end", 0)}
=============================================================================
