---------------------------- MODULE ResourcePaging ----------------------------
(***************************************************************************)
(* The resource listing of src/resources/resource-service.ts: keyset pages *)
(* ordered by (created_at DESC, id DESC) that a client follows from cursor *)
(* to cursor, while other transactions add resources of the same customer: *)
(* create adds one, a discovery many under one now().                      *)
(*                                                                         *)
(* PostgreSQL keeps created_at in microseconds.  The pg driver reads it    *)
(* into a Date, which holds milliseconds, and the cursor is made from that *)
(* Date: so it names the row's millisecond, not its instant.  The          *)
(* signature of the cursor only returns it unchanged and is left out.      *)
(*                                                                         *)
(* Names that AlertIncidents has too carry a prefix here, so that one      *)
(* module can extend both services of the API.                             *)
(***************************************************************************)
EXTENDS Naturals, FiniteSets

CONSTANTS
  Ids,          \* resource ids, ordered as their uuids are
  Transactions, \* transactions that insert resources
  Limit,        \* the page size of the request, 1 to 100
  Precision,    \* instants (microseconds) in one millisecond of a Date
  MaxClock      \* bound: the last instant of the clock

ASSUME PagingAssumption ==
  /\ Ids \subseteq Nat
  /\ Limit \in Nat \ {0}
  /\ Precision \in Nat \ {0}
  /\ MaxClock \in Nat

VARIABLES
  now,       \* the clock, in instants
  tx,        \* transaction: "idle", "open", "over"
  txBegan,   \* its now(): the instant it began
  rows,      \* the customer's committed resources
  createdAt, \* created_at of a row
  reader,    \* the client: "start", "more" (it has a cursor), "done"
  cursorAt,  \* createdAt of the cursor
  cursorId,  \* id of the cursor
  page,      \* rows of the last response
  earlier,   \* rows of the responses before it
  present    \* rows there when the first page was read

tableVars  == <<now, tx, txBegan, rows, createdAt>>
readerVars == <<reader, cursorAt, cursorId, page, earlier, present>>
pagingVars       == <<now, tx, txBegan, rows, createdAt,
                reader, cursorAt, cursorId, page, earlier, present>>

PagingInit ==
  /\ now = 0
  /\ tx        = [x \in Transactions |-> "idle"]
  /\ txBegan   = [x \in Transactions |-> 0]
  /\ rows      = {}
  /\ createdAt = [r \in Ids |-> 0]
  /\ reader = "start"
  /\ cursorAt = 0 /\ cursorId = 0
  /\ page = {} /\ earlier = {} /\ present = {}

Tick ==
  /\ now < MaxClock
  /\ now' = now + 1
  /\ UNCHANGED <<tx, txBegan, rows, createdAt, readerVars>>

BeginInsert(x) ==
  /\ tx[x] = "idle"
  /\ tx' = [tx EXCEPT ![x] = "open"]
  /\ txBegan' = [txBegan EXCEPT ![x] = now]
  /\ UNCHANGED <<now, rows, createdAt, readerVars>>

\* The rows of one transaction become visible together, with the created_at
\* of its beginning.  A transaction that adds nothing has rolled back.
CommitInsert(x, added) ==
  /\ tx[x] = "open"
  /\ tx' = [tx EXCEPT ![x] = "over"]
  /\ rows' = rows \cup added
  /\ createdAt' = [r \in Ids |-> IF r \in added THEN txBegan[x] ELSE createdAt[r]]
  /\ UNCHANGED <<now, txBegan, readerVars>>

-------------------------------------------------------------------------------
(* A page.                                                                 *)

\* (ca, a) < (cb, b): the comparison of two rows of (timestamptz, uuid).
Less(ca, a, cb, b) == ca < cb \/ (ca = cb /\ a < b)

Older(r, s) == Less(createdAt[r], r, createdAt[s], s)

\* Mutant of Cut: the millisecond is rounded up.
CutUp(at) == (at - (at % Precision)) + Precision

\* The timestamptz that a Date gives back: its microseconds are cut off.
Cut(at) == at - (at % Precision)

\* Mutant of Follows: time and id are compared one by one.
FollowsInBoth(r) == reader = "start" \/ (createdAt[r] <= cursorAt /\ r < cursorId)

\* WHERE $2 IS NULL OR (created_at, id) < ($2, $3)
Follows(r) == reader = "start" \/ Less(createdAt[r], r, cursorAt, cursorId)

Candidates == {r \in rows : Follows(r)}

\* ORDER BY created_at DESC, id DESC LIMIT $4, cut to the page: the newest.
IsPage(P) ==
  /\ P \subseteq Candidates
  /\ \A r \in P, s \in Candidates \ P : Older(s, r)
  /\ IF P = Candidates THEN Cardinality(P) <= Limit ELSE Cardinality(P) = Limit

Last(P, r) == r \in P /\ \A s \in P \ {r} : Older(r, s)

\* What every response does: the client keeps what it got.
Respond(P) ==
  /\ reader \in {"start", "more"}
  /\ IsPage(P)
  /\ page' = P
  /\ earlier' = earlier \cup page
  /\ present' = IF reader = "start" THEN rows ELSE present
  /\ UNCHANGED tableVars

\* More rows than the page holds: the response has the cursor of its last row.
PageWithCursor(P) ==
  /\ Respond(P)
  /\ P # Candidates
  /\ reader' = "more"
  /\ \E r \in P : Last(P, r) /\ cursorAt' = Cut(createdAt[r]) /\ cursorId' = r

\* nextCursor is null.
LastPage(P) ==
  /\ Respond(P)
  /\ P = Candidates
  /\ reader' = "done"
  /\ UNCHANGED <<cursorAt, cursorId>>

Insert ==
  \E x \in Transactions :
    \/ BeginInsert(x)
    \/ \E added \in SUBSET (Ids \ rows) : CommitInsert(x, added)

List == \E P \in SUBSET rows : PageWithCursor(P) \/ LastPage(P)

PagingNext == Tick \/ Insert \/ List

PagingSpec == PagingInit /\ [][PagingNext]_pagingVars

\* The client follows the cursors to the end.
FairPagingSpec == PagingSpec /\ WF_pagingVars(List)

-------------------------------------------------------------------------------
(* Properties.                                                             *)

PagingTypeOK ==
  /\ now \in Nat
  /\ tx \in [Transactions -> {"idle", "open", "over"}]
  /\ txBegan \in [Transactions -> Nat]
  /\ rows \in SUBSET Ids
  /\ createdAt \in [Ids -> Nat]
  /\ reader \in {"start", "more", "done"}
  /\ cursorAt \in Nat /\ cursorId \in Nat
  /\ page \in SUBSET Ids /\ earlier \in SUBSET Ids /\ present \in SUBSET Ids

\* Whatever commits between two requests, the pages go from new to old: no row
\* is listed twice, and none comes after a row it should precede.
NewestFirst == \A r \in page, s \in earlier : r # s /\ Older(r, s)

\* A row that was there when the listing began is missed only if it shares
\* the millisecond of a listed row, the last one of some page.
SkippedShareMillisecond ==
  reader = "done" =>
    \A r \in present \ (page \cup earlier) :
      \E s \in page \cup earlier :
        Cut(createdAt[r]) = Cut(createdAt[s]) /\ Older(r, s)

\* "List tenant-scoped inventory using a signed cursor": following the cursors
\* lists every resource that was there at the start.  The cursor's millisecond
\* lies before the rest of it, and a discovery gives all its rows one
\* created_at: those after a page's end are skipped.
AllListed == reader = "done" => present \subseteq page \cup earlier

\* A client that follows the cursors comes to the end, however many rows are
\* added meanwhile.
ListingEnds == <>(reader = "done")
===============================================================================
