---------------------------- MODULE RequestBody ----------------------------
(***************************************************************************)
(* What middleware/validate.js lets through and what the transactions table *)
(* can store of it.  Between the two the Account Service moves the money,   *)
(* so a body that passes the first and fails the second leaves a movement   *)
(* with no row.  JSON values are represented by the classes that the code   *)
(* and SQLite tell apart.                                                   *)
(***************************************************************************)

CONSTANTS IdValue, KeyValue, ChannelValue,   \* what clients send as an id, a
          FreeValue                          \* key, a channel, a free text

\* "blank": only spaces; "long": over 255 characters; "channel": one of
\* VALID_CHANNELS; "object": an object or an array; "true", "number": themselves;
\* "absent": also null, false and 0, which the code treats alike.
Text   == {"empty", "blank", "word", "long", "channel"}
Value  == Text \cup {"absent", "true", "number", "object"}
Amount == {"absent", "not a number", "not positive", "usual", "over maximum"}

ASSUME BodyAssumption == IdValue \cup KeyValue \cup ChannelValue \cup FreeValue \subseteq Value

VARIABLES kind, body, phase
bodyVars == <<kind, body, phase>>

Falsy(v) == v \in {"absent", "empty"}
Named(v) == v \in Text \ {"empty", "blank"}       \* v && typeof v = string && v.trim()

-----------------------------------------------------------------------------
(* validateDeposit, validateWithdraw, validateTransfer: the fields that are *)
(* wrong.  Only a withdrawal has no maximum.                                *)

\* Mutant: validateDeposit's check of the channel is not copied to the others.
BadChannelObject(b) == ~Falsy(b.channel) /\ b.channel = "object"

BadChannel(b) == ~Falsy(b.channel) /\ b.channel # "channel"

BadAmount(k, b) == \/ b.amount \in {"absent", "not a number", "not positive"}
                   \/ b.amount = "over maximum" /\ k # "WITHDRAWAL"

BadIds(k, b) == IF k = "TRANSFER"
                THEN ~Named(b.account) \/ ~Named(b.to)
                     \/ ~Named(b.key) \/ b.key = "long"
                ELSE ~Named(b.account)

Accepted(k, b) == ~BadChannel(b) /\ ~BadAmount(k, b) /\ ~BadIds(k, b)

-----------------------------------------------------------------------------
(* _insertTransaction: the parameters as routes and handlers pass them on,   *)
(* value || null, and the constraints of the table.                          *)

Stored(v) == IF Falsy(v) THEN "null" ELSE v

\* One column tuple stands for both legs of a transfer: they differ in which
\* of the two ids is the account and which the counterparty.
Row(k, b) ==
  [account      |-> b.account,
   counterparty |-> IF k = "TRANSFER" THEN Stored(b.to) ELSE "null",
   amount       |-> b.amount,
   channel      |-> IF Falsy(b.channel) THEN "channel" ELSE b.channel,
   description  |-> Stored(b.description),
   reference    |-> CASE k = "DEPOSIT"  -> Stored(b.reference)
                      [] k = "TRANSFER" -> Stored(b.key)
                      [] OTHER          -> "null"]

\* better-sqlite3 binds strings, numbers and null, and throws on the rest.
Bindable(v) == v \notin {"true", "object", "absent"}

Storable(row) ==
  /\ \A column \in {row.account, row.counterparty, row.channel,
                    row.description, row.reference} : Bindable(column)
  /\ row.amount \in {"usual", "over maximum"}                \* CHECK(amount > 0)
  /\ row.channel \in {"channel", "null"}                     \* CHECK(channel IN ...)

-----------------------------------------------------------------------------

BodyInit == kind = "none" /\ body = {} /\ phase = "listening"

\* A POST with any JSON body.
Receive == /\ phase = "listening"
           /\ kind' \in {"DEPOSIT", "WITHDRAWAL", "TRANSFER"}
           /\ body' \in [account : IdValue, to : IdValue, key : KeyValue,
                         amount : Amount, channel : ChannelValue,
                         description : FreeValue, reference : FreeValue]
           /\ phase' = "received"

\* The middleware answers 400, or the handler runs up to its last PATCH.
Validate == /\ phase = "received"
            /\ phase' = IF Accepted(kind, body) THEN "moved" ELSE "rejected"
            /\ UNCHANGED <<kind, body>>

\* The insert after the PATCH calls.
InsertRow == /\ phase = "moved"
             /\ phase' = IF Storable(Row(kind, body)) THEN "recorded" ELSE "unrecorded"
             /\ UNCHANGED <<kind, body>>

BodyNext == Receive \/ Validate \/ InsertRow

BodySpec == BodyInit /\ [][BodyNext]_bodyVars

\* Only the free texts, which no validator looks at, can make the insert throw
\* once the money has moved: whatever ids, keys, amounts and channels clients
\* send, what the middleware accepts satisfies every constraint of the table,
\* unless the description, or the reference of a deposit, is true or an object.
\* transactionService.js:223: "Execute atomically: debit, credit, record".
OnlyFreeTextUnrecordable ==
  phase = "unrecorded" => \/ body.description \in {"true", "object"}
                          \/ kind = "DEPOSIT" /\ body.reference \in {"true", "object"}
=============================================================================
