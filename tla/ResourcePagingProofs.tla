------------------------- MODULE ResourcePagingProofs -------------------------
(***************************************************************************)
(* Proofs about ResourcePaging, for every set of ids, page size and        *)
(* precision.  The invariant says what the cursor separates: every listed  *)
(* row is at or after it, and a row of the beginning that is neither       *)
(* listed nor behind the cursor shares the millisecond of a listed one.    *)
(***************************************************************************)
EXTENDS ResourcePaging, TLAPS

\* A listed row is not behind the cursor.
ListedAhead ==
  reader = "more" =>
    \A r \in page \cup earlier : ~ Less(createdAt[r], r, cursorAt, cursorId)

\* Only committed rows are listed or remembered.
ListedAreRows == page \cup earlier \cup present \subseteq rows

\* Before the first page nothing is listed.
StartIsEmpty == reader = "start" => page = {} /\ earlier = {}

\* An older row of the same millisecond as a listed row.
Shares(r) ==
  \E s \in page \cup earlier : Cut(createdAt[r]) = Cut(createdAt[s]) /\ Older(r, s)

\* What a row of the beginning is, as long as the listing goes on.
Accounted ==
  reader = "more" =>
    \A r \in present :
      r \in page \cup earlier \/ Less(createdAt[r], r, cursorAt, cursorId) \/ Shares(r)

IInv ==
  /\ PagingTypeOK /\ ListedAreRows /\ StartIsEmpty /\ ListedAhead
  /\ NewestFirst /\ Accounted /\ SkippedShareMillisecond

-------------------------------------------------------------------------------

\* A time and its millisecond: the rest lies within.
LEMMA CutBound ==
  \A at \in Nat : Cut(at) \in Nat /\ Cut(at) <= at
  BY PagingAssumption, Z3 DEF Cut

\* Multiples of the precision are ordered as their factors.
LEMMA MultiplesOrdered ==
  ASSUME NEW p \in Nat \ {0}, NEW x \in Nat, NEW y \in Nat, p * x < p * y + p
  PROVE  x <= y
<1>1. SUFFICES ASSUME x > y PROVE FALSE
  OBVIOUS
<1>2. PICK d \in Nat : x = y + 1 + d
  <2>1. x - y - 1 \in Nat /\ x = y + 1 + (x - y - 1)
    BY <1>1
  <2> QED BY <2>1
<1>3. p * x = p * y + p + p * d
  BY <1>2
<1>4. p * d >= 0 /\ p * y \in Nat
  OBVIOUS
<1> QED BY <1>3, <1>4

\* Times between an instant and its millisecond are of that millisecond.
LEMMA CutBetween ==
  ASSUME NEW a \in Nat, NEW b \in Nat, Cut(b) <= a, a <= b
  PROVE  Cut(a) = Cut(b)
<1> DEFINE p  == Precision
           qa == a \div p
           qb == b \div p
           ra == a % p
           rb == b % p
<1>1. p \in Nat \ {0} /\ qa \in Nat /\ qb \in Nat
  BY PagingAssumption
<1>2. a = p * qa + ra /\ ra \in Nat /\ ra < p
  BY PagingAssumption
<1>3. b = p * qb + rb /\ rb \in Nat /\ rb < p
  BY PagingAssumption
<1>4. Cut(a) = a - ra /\ Cut(b) = b - rb
  BY DEF Cut
<1> HIDE DEF p, qa, qb, ra, rb
<1>5. Cut(a) = p * qa /\ Cut(b) = p * qb /\ p * qa \in Nat /\ p * qb \in Nat
  BY <1>1, <1>2, <1>3, <1>4
<1>6. p * qa < p * qb + p /\ p * qb < p * qa + p
  BY <1>1, <1>2, <1>3, <1>4, <1>5
<1>7. qa <= qb /\ qb <= qa
  BY <1>1, <1>6, MultiplesOrdered
<1> QED BY <1>1, <1>5, <1>7

-------------------------------------------------------------------------------
(* A page, its last row and the cursor made from it.                       *)

\* Every row of a page comes after every row listed before it.
LEMMA PageBelowListed ==
  ASSUME IInv, NEW P, Respond(P),
         NEW r \in P, NEW s \in page \cup earlier
  PROVE  r # s /\ Older(r, s)
<1>1. reader = "more"
  BY DEF IInv, StartIsEmpty, Respond
<1>2. Less(createdAt[r], r, cursorAt, cursorId)
  BY <1>1 DEF Respond, IsPage, Candidates, Follows
<1>3. ~ Less(createdAt[s], s, cursorAt, cursorId)
  BY <1>1 DEF IInv, ListedAhead
<1>4. /\ createdAt[r] \in Nat /\ createdAt[s] \in Nat /\ r \in Nat /\ s \in Nat
      /\ cursorAt \in Nat /\ cursorId \in Nat
  BY PagingAssumption DEF IInv, PagingTypeOK, ListedAreRows, Respond, IsPage, Candidates
<1> QED BY <1>2, <1>3, <1>4 DEF Older, Less

\* The cursor of row l is at or before every row that l is not newer than.
LEMMA CursorBehind ==
  ASSUME PagingTypeOK, NEW l \in Ids, NEW s \in Ids, s = l \/ Older(l, s)
  PROVE  ~ Less(createdAt[s], s, Cut(createdAt[l]), l)
<1>1. /\ createdAt[l] \in Nat /\ createdAt[s] \in Nat /\ l \in Nat /\ s \in Nat
  BY PagingAssumption DEF PagingTypeOK
<1>2. Cut(createdAt[l]) \in Nat /\ Cut(createdAt[l]) <= createdAt[l]
  BY <1>1, CutBound
<1> QED BY <1>1, <1>2 DEF Older, Less

\* A row older than l follows the cursor of l, or shares its millisecond.
LEMMA BehindOrShares ==
  ASSUME PagingTypeOK, NEW l \in Ids, NEW r \in Ids, Older(r, l)
  PROVE  \/ Less(createdAt[r], r, Cut(createdAt[l]), l)
         \/ Cut(createdAt[r]) = Cut(createdAt[l])
<1>1. /\ createdAt[l] \in Nat /\ createdAt[r] \in Nat /\ l \in Nat /\ r \in Nat
  BY PagingAssumption DEF PagingTypeOK
<1>2. Cut(createdAt[l]) \in Nat
  BY <1>1, CutBound
<1>3. CASE createdAt[r] < Cut(createdAt[l])
  BY <1>3 DEF Less
<1>4. CASE Cut(createdAt[l]) <= createdAt[r]
  <2>1. createdAt[r] <= createdAt[l]
    BY <1>1 DEF Older, Less
  <2> QED BY <1>1, <1>4, <2>1, CutBetween
<1> QED BY <1>1, <1>2, <1>3, <1>4

-------------------------------------------------------------------------------
(* The steps.                                                              *)

\* An empty table and a client that has not begun satisfy the invariant.
LEMMA PagingStarts == PagingInit => IInv
  BY DEF PagingInit, IInv, PagingTypeOK, ListedAreRows, StartIsEmpty, ListedAhead, NewestFirst,
         Accounted, SkippedShareMillisecond

\* A committed row keeps its created_at: what was said of it stays true.
LEMMA TableStep ==
  ASSUME IInv, PagingTypeOK', UNCHANGED readerVars, rows \subseteq rows',
         \A r \in rows : createdAt'[r] = createdAt[r]
  PROVE  IInv'
<1> USE DEF readerVars
<1>1. \A r, s \in rows : Older(r, s)' <=> Older(r, s)
  BY DEF Older
<1>2. ListedAreRows' /\ StartIsEmpty'
  BY DEF IInv, ListedAreRows, StartIsEmpty
<1>3. ListedAhead'
  BY DEF IInv, ListedAhead, ListedAreRows
<1>4. NewestFirst'
  BY <1>1 DEF IInv, NewestFirst, ListedAreRows
<1>5. Accounted'
  BY <1>1 DEF IInv, Accounted, Shares, ListedAreRows
<1>6. SkippedShareMillisecond'
  BY <1>1 DEF IInv, SkippedShareMillisecond, ListedAreRows
<1> QED BY <1>2, <1>3, <1>4, <1>5, <1>6 DEF IInv

\* Time and inserts do not disturb what was listed.
LEMMA InsertStep ==
  ASSUME IInv, Tick \/ Insert
  PROVE  IInv'
<1>1. CASE Tick
  <2>1. PagingTypeOK'
    BY <1>1 DEF IInv, PagingTypeOK, Tick, readerVars
  <2> QED BY <1>1, <2>1, TableStep DEF Tick
<1>2. ASSUME NEW x \in Transactions, BeginInsert(x) PROVE IInv'
  <2>1. PagingTypeOK'
    BY <1>2 DEF IInv, PagingTypeOK, BeginInsert, readerVars
  <2> QED BY <1>2, <2>1, TableStep DEF BeginInsert
<1>3. ASSUME NEW x \in Transactions, NEW added \in SUBSET (Ids \ rows),
             CommitInsert(x, added)
      PROVE  IInv'
  <2>1. PagingTypeOK'
    BY <1>3 DEF IInv, PagingTypeOK, CommitInsert, readerVars
  <2>2. rows \subseteq rows' /\ \A r \in rows : createdAt'[r] = createdAt[r]
    BY <1>3 DEF CommitInsert, IInv, PagingTypeOK
  <2> QED BY <1>3, <2>1, <2>2, TableStep DEF CommitInsert
<1> QED BY <1>1, <1>2, <1>3 DEF Insert

\* What holds of any response, with a cursor or without.
LEMMA ResponseStep ==
  ASSUME IInv, NEW P, Respond(P)
  PROVE  /\ P \subseteq Ids /\ P \subseteq rows /\ present' \subseteq rows
         /\ ListedAreRows' /\ NewestFirst'
<1>1. P \subseteq rows /\ rows \subseteq Ids
  BY DEF IInv, PagingTypeOK, Respond, IsPage, Candidates
<1>2. page' = P /\ earlier' = earlier \cup page /\ createdAt' = createdAt /\ rows' = rows
  BY DEF Respond, tableVars
<1>3. present' \subseteq rows
  BY DEF IInv, ListedAreRows, Respond
<1>4. \A r \in P, s \in page \cup earlier : r # s /\ Older(r, s)
  BY PageBelowListed
<1>5. NewestFirst'
  BY <1>2, <1>4 DEF NewestFirst, Older
<1> QED BY <1>1, <1>2, <1>3, <1>5 DEF IInv, ListedAreRows

\* A row of the beginning, when a page has been chosen: it was listed, or
\* shares the millisecond of a listed row, or is a candidate for this page.
LEMMA PresentCases ==
  ASSUME IInv, NEW P, Respond(P), NEW r \in present'
  PROVE  r \in page \cup earlier \/ Shares(r) \/ r \in Candidates
<1>1. CASE reader = "start"
  BY <1>1 DEF Respond, Candidates, Follows
<1>2. CASE reader = "more"
  BY <1>2 DEF IInv, ListedAreRows, Accounted, Respond, Candidates, Follows
<1> QED BY <1>1, <1>2 DEF Respond

\* A page with a cursor covers its rows and moves the cursor behind them.
LEMMA CursorStep ==
  ASSUME IInv, NEW P, PageWithCursor(P)
  PROVE  IInv'
<1> USE DEF PageWithCursor
<1>1. PICK l \in P : Last(P, l) /\ cursorAt' = Cut(createdAt[l]) /\ cursorId' = l
  OBVIOUS
<1>2. /\ page' = P /\ earlier' = earlier \cup page /\ reader' = "more"
      /\ createdAt' = createdAt /\ rows' = rows
      /\ UNCHANGED <<now, tx, txBegan>>
  BY DEF Respond, tableVars
<1>3. /\ P \subseteq Ids /\ P \subseteq rows /\ present' \subseteq rows
      /\ ListedAreRows' /\ NewestFirst'
  BY ResponseStep
<1>4. /\ PagingTypeOK /\ rows \subseteq Ids /\ page \cup earlier \subseteq rows
      /\ l \in Ids /\ l \in Nat /\ createdAt[l] \in Nat
  BY <1>3, PagingAssumption DEF IInv, PagingTypeOK, ListedAreRows
<1>5. PagingTypeOK'
  BY <1>1, <1>2, <1>3, <1>4, CutBound DEF PagingTypeOK
<1>6. ListedAhead'
  <2>1. ASSUME NEW s \in P \cup page \cup earlier PROVE s = l \/ Older(l, s)
    <3>1. CASE s \in P
      BY <1>1, <3>1 DEF Last
    <3>2. CASE s \in page \cup earlier
      BY <3>2, PageBelowListed
    <3> QED BY <3>1, <3>2
  <2>2. ASSUME NEW s \in P \cup page \cup earlier
        PROVE  ~ Less(createdAt[s], s, Cut(createdAt[l]), l)
    BY <2>1, <1>3, <1>4, CursorBehind
  <2> QED BY <1>1, <1>2, <2>2 DEF ListedAhead
<1>7. Accounted'
  <2>1. SUFFICES ASSUME NEW r \in present', r \notin (P \cup page \cup earlier),
                        ~ Less(createdAt[r], r, Cut(createdAt[l]), l)
                 PROVE  \E s \in P \cup page \cup earlier :
                          Cut(createdAt[r]) = Cut(createdAt[s]) /\ Older(r, s)
    BY <1>1, <1>2 DEF Accounted, Shares, Older
  <2>2. Shares(r) \/ r \in Candidates
    BY <2>1, PresentCases
  <2>3. CASE Shares(r)
    BY <2>3 DEF Shares
  <2>4. CASE r \in Candidates
    <3>1. Older(r, l)
      BY <2>1, <2>4 DEF Respond, IsPage
    <3>2. r \in Ids
      BY <1>3, <1>4
    <3> QED BY <1>4, <2>1, <3>1, <3>2, BehindOrShares
  <2> QED BY <2>2, <2>3, <2>4
<1>8. StartIsEmpty' /\ SkippedShareMillisecond'
  BY <1>2 DEF StartIsEmpty, SkippedShareMillisecond
<1> QED BY <1>3, <1>5, <1>6, <1>7, <1>8 DEF IInv

\* The last page leaves out nothing but what an earlier cursor passed over.
LEMMA LastPageStep ==
  ASSUME IInv, NEW P, LastPage(P)
  PROVE  IInv'
<1> USE DEF LastPage
<1>1. /\ page' = P /\ earlier' = earlier \cup page /\ reader' = "done"
      /\ createdAt' = createdAt /\ rows' = rows
      /\ UNCHANGED <<now, tx, txBegan, cursorAt, cursorId>>
  BY DEF Respond, tableVars
<1>2. /\ P \subseteq Ids /\ P \subseteq rows /\ present' \subseteq rows
      /\ ListedAreRows' /\ NewestFirst'
  BY ResponseStep
<1>3. PagingTypeOK'
  BY <1>1, <1>2 DEF IInv, PagingTypeOK
<1>4. SkippedShareMillisecond'
  <2>1. SUFFICES ASSUME NEW r \in present', r \notin (P \cup page \cup earlier)
                 PROVE  \E s \in P \cup page \cup earlier :
                          Cut(createdAt[r]) = Cut(createdAt[s]) /\ Older(r, s)
    BY <1>1 DEF SkippedShareMillisecond, Older
  <2>2. Shares(r)
    BY <2>1, PresentCases
  <2> QED BY <2>2 DEF Shares
<1>5. StartIsEmpty' /\ ListedAhead' /\ Accounted'
  BY <1>1 DEF StartIsEmpty, ListedAhead, Accounted
<1> QED BY <1>2, <1>3, <1>4, <1>5 DEF IInv

\* Every step keeps the invariant.
LEMMA PagingStep == IInv /\ [PagingNext]_pagingVars => IInv'
<1> SUFFICES ASSUME IInv, [PagingNext]_pagingVars PROVE IInv'
  OBVIOUS
<1>1. CASE Tick \/ Insert
  BY <1>1, InsertStep
<1>2. CASE List
  BY <1>2, CursorStep, LastPageStep DEF List
<1>3. CASE UNCHANGED pagingVars
  BY <1>3 DEF pagingVars, IInv, PagingTypeOK, ListedAreRows, StartIsEmpty, ListedAhead,
              NewestFirst, Accounted, Shares, SkippedShareMillisecond, Older
<1> QED BY <1>1, <1>2, <1>3 DEF PagingNext

-------------------------------------------------------------------------------

\* The pages of a listing go from new to old and never repeat a row, whatever
\* is added while the client follows the cursors.
THEOREM NewestFirstCorrect == PagingSpec => []NewestFirst
<1>1. IInv => NewestFirst
  BY DEF IInv
<1> QED BY <1>1, PagingStarts, PagingStep, PTL DEF PagingSpec

\* The rows a listing misses are those that share a millisecond with a listed
\* row: the loss is confined to rows of one instant or nearly one.
THEOREM SkippedShareCorrect == PagingSpec => []SkippedShareMillisecond
<1>1. IInv => SkippedShareMillisecond
  BY DEF IInv
<1> QED BY <1>1, PagingStarts, PagingStep, PTL DEF PagingSpec
===============================================================================
