------------------------------ MODULE Listing ------------------------------
(***************************************************************************)
(* listTransactions and getStatement of services/transactionService.js with *)
(* the parsing of routes/transactions.js: a client walks the pages of one   *)
(* query while handlers insert rows.  created_at is text and is compared as *)
(* text; LIMIT and OFFSET are cut from an order that ties do not decide.    *)
(***************************************************************************)
EXTENDS Integers, FiniteSets, SequencesExt

CONSTANTS Kind,             \* what the equality filters tell apart
          Cap,              \* 100 for the list, 200 for a statement
          Default,          \* limit when the query has none, 20 or 50
          LimitQuery,       \* the limits, lower and upper bounds on
          FromQuery,        \*   created_at that clients ask for
          ToQuery,
          SecondsPerDay,
          MaxRows, MaxTime  \* bounds: rows ever inserted, last second

\* A bound or a created_at is written as a day ("end"), or as a day and a time
\* with a space between, like datetime('now'), or with a T, like the date-time
\* of OpenAPI.
Written(sep, t) == [sep |-> sep, day |-> t \div SecondsPerDay,
                    sec |-> IF sep = "end" THEN 0 ELSE t % SecondsPerDay]
Absent == [sep |-> "absent", day |-> 0, sec |-> 0]
Bounds == [sep : {"space", "T"}, day : Nat, sec : 0 .. SecondsPerDay - 1]
          \cup [sep : {"end"}, day : Nat, sec : {0}]

\* The seconds that a text denotes: a day is all of its seconds.
FirstSecond(x) == x.day * SecondsPerDay + x.sec
LastSecond(x)  == IF x.sep = "end" THEN FirstSecond(x) + SecondsPerDay - 1
                                   ELSE FirstSecond(x)

Limits == [form : {"absent", "NaN", "number"}, n : Int]

ASSUME ListingAssumption ==
  /\ Cap \in Nat /\ Default \in 1 .. Cap
  /\ LimitQuery \subseteq Limits
  /\ FromQuery \cup ToQuery \subseteq Bounds \cup {Absent}
  /\ SecondsPerDay \in Nat \ {0} /\ MaxRows \in Nat /\ MaxTime \in Nat

VARIABLES table,       \* the rows, in the order of their inserts
          now,
          query,       \* what the client asks for
          walk,        \* "none", "on", "ended" or "error"
          offset,      \* of the next page
          page, seen,  \* the rows of the last page and of all pages, by number
          before,      \* how many rows there were when the walk began
          newestFirst  \* how the query plan orders rows of one second
listVars == <<table, now, query, walk, offset, page, seen, before, newestFirst>>

-----------------------------------------------------------------------------
(* The query.                                                              *)

\* SQLite compares created_at with a bound as text.
Rank(sep) == CASE sep = "end" -> 0 [] sep = "space" -> 1 [] sep = "T" -> 2
TextLess(x, y) ==
  \/ x.day < y.day
  \/ x.day = y.day /\ Rank(x.sep) < Rank(y.sep)
  \/ x.day = y.day /\ x.sep = y.sep /\ x.sec < y.sec

\* The WHERE clause: created_at >= from, created_at <= to.
Matches(row) ==
  /\ query.kind \in {"any", row.kind}
  /\ query.from # Absent => ~TextLess(row.at, query.from)
  /\ query.to # Absent   => ~TextLess(query.to, row.at)

\* Mutant: the order is ascending.
OldestFirst(i, j) == TextLess(table[i].at, table[j].at) \/ (table[i].at = table[j].at /\ i > j)

\* ORDER BY created_at DESC, ties as the plan leaves them.
Precedes(i, j) ==
  \/ TextLess(table[j].at, table[i].at)
  \/ table[i].at = table[j].at /\ (IF newestFirst THEN i > j ELSE i < j)

Selected == {i \in DOMAIN table : Matches(table[i])}

\* The rows of a result in that order: each has the place that the rows up to
\* it count, and no two have the same.
Place(S, i) == Cardinality({j \in S : j = i \/ Precedes(j, i)})
InOrder(S)  == [n \in 1 .. Cardinality(S) |-> CHOOSE i \in S : Place(S, i) = n]

\* Mutant: the cap is a default, not a maximum.
LimitUncapped(l) == IF l.form = "absent" THEN Default ELSE l.n

\* Math.min(parseInt(req.query.limit || default, 10), cap)
Limit(l) == IF l.form = "absent" THEN Default
            ELSE IF l.n > Cap THEN Cap ELSE l.n

\* LIMIT ? OFFSET ?: a negative limit is none.
CutAt(rows, limit, skip) ==
  SubSeq(rows, skip + 1, IF limit < 0 \/ skip + limit > Len(rows)
                         THEN Len(rows) ELSE skip + limit)

\* Mutant: OFFSET counts from one.
CutFromOne(rows, limit, skip) == CutAt(rows, limit, skip + 1)

Cut(rows, limit, skip) == CutAt(rows, limit, skip)

-----------------------------------------------------------------------------

ListInit == /\ table = <<>> /\ now = 0
            /\ query = [kind |-> "any", limit |-> [form |-> "absent", n |-> 0],
                        from |-> Absent, to |-> Absent]
            /\ walk = "none" /\ offset = 0 /\ page = <<>> /\ seen = <<>> /\ before = 0
            /\ newestFirst \in BOOLEAN

Tick == /\ now < MaxTime /\ now' = now + 1
        /\ UNCHANGED <<table, query, walk, offset, page, seen, before, newestFirst>>

\* A handler records a transaction, at datetime('now').
Record(k) ==
  /\ Len(table) < MaxRows
  /\ table' = Append(table, [kind |-> k, at |-> Written("space", now)])
  /\ UNCHANGED <<now, query, walk, offset, page, seen, before, newestFirst>>

\* A client, outside src, starts to read what a query yields.
Start ==
  /\ walk = "none"
  /\ query' \in [kind : Kind \cup {"any"}, limit : LimitQuery,
                 from : FromQuery, to : ToQuery]
  /\ walk' = "on" /\ before' = Len(table)
  /\ UNCHANGED <<table, now, offset, page, seen, newestFirst>>

\* One request: the count and the page, in one turn of the event loop.  The
\* client goes on after the rows it was given until it has as many as total.
ReadPage ==
  /\ walk = "on" /\ query.limit.form # "NaN"
  /\ LET rows  == InOrder(Selected)
         total == Cardinality(Selected)
     IN /\ page' = Cut(rows, Limit(query.limit), offset)
        /\ seen' = seen \o page'
        /\ offset' = offset + Len(page')
        /\ walk' = IF page' = <<>> \/ offset' >= total THEN "ended" ELSE "on"
  /\ UNCHANGED <<table, now, query, before, newestFirst>>

\* NaN is bound as NULL, which SQLite refuses as a LIMIT: the answer is 500.
RefusePage ==
  /\ walk = "on" /\ query.limit.form = "NaN"
  /\ walk' = "error"
  /\ UNCHANGED <<table, now, query, offset, page, seen, before, newestFirst>>

ListNext == Tick \/ Start \/ ReadPage \/ RefusePage \/ \E k \in Kind : Record(k)

ListSpec == ListInit /\ [][ListNext]_listVars

-----------------------------------------------------------------------------

Wanted(row) ==
  /\ query.kind \in {"any", row.kind}
  /\ query.from # Absent => FirstSecond(row.at) >= FirstSecond(query.from)
  /\ query.to # Absent   => FirstSecond(row.at) <= LastSecond(query.to)

\* What the comparison as text leaves out of a period: the day of a lower bound
\* with a T, and the day of an upper bound that is a day alone.
LostToText(row) == \/ query.from.sep = "T" /\ row.at.day = query.from.day
                   \/ query.to.sep = "end" /\ row.at.day = query.to.day

\* A client that walks the pages to the end has been served every row of its
\* period that was there when it began, however many rows are inserted in
\* between, in front of its offset or in the middle of its second.  Only the
\* rows of one day are lost, to a bound in the form of routes/transactions.js:30,
\* "format: date-time", or :68, "format: date", and all of them to a limit of 0.
NothingMissed ==
  walk = "ended" /\ Limit(query.limit) # 0 =>
    \A i \in 1 .. before :
      Wanted(table[i]) => i \in Range(seen) \/ LostToText(table[i])

\* What is served is of the period asked for, or later on the last day if the
\* upper bound has a T; rows that were there when the walk began first appear
\* newest first over all pages; and a row comes again at most once for each row
\* inserted meanwhile.
FirstServed(i) == CHOOSE n \in DOMAIN seen : seen[n] = i /\ \A m \in 1 .. n - 1 : seen[m] # i
WalkIsOrderly ==
  /\ \A n \in DOMAIN seen :
       \/ Wanted(table[seen[n]])
       \/ query.to.sep = "T" /\ table[seen[n]].at.day = query.to.day
  /\ \A i, j \in Range(seen) \cap 1 .. before :
       FirstSecond(table[i].at) > FirstSecond(table[j].at) => FirstServed(i) < FirstServed(j)
  /\ Len(seen) <= Cardinality(Range(seen)) + Len(table) - before

\* No answer carries more rows than the route allows, unless the limit asked for
\* is negative: routes/transactions.js:40 caps it from above only, and SQLite
\* reads a negative LIMIT as none.
PageBounded == query.limit.n >= 0 => Len(page) <= Cap
=============================================================================
