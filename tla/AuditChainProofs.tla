--------------------------- MODULE AuditChainProofs ---------------------------
(***************************************************************************)
(* For any number of transactions, tenants, spellings and restores, and    *)
(* pages of any size: the chain of a tenant passes over events of another  *)
(* spelling only; and an anchor of the verifier, a successful run and an   *)
(* alarm mean what they are taken to mean.                                 *)
(***************************************************************************)
EXTENDS AuditChain, FiniteSetTheorems, WellFoundedInduction, TLAPS

USE AuditAssumption

Numbered == {t \in Txs : pc[t] \in {"inserted", "committed"}}

\* Sequence numbers in use are distinct and below the next one.
SequenceOrder ==
  /\ \A t \in Numbered : seq[t] < nextSeq
  /\ \A t, u \in Numbered : seq[t] = seq[u] => t = u

\* The variables begin with values of their types.
LEMMA TypeInit == Init => TypeOK
  BY DEF Init, TypeOK, PCs

\* The statements of an append keep the types.
LEMMA TypeAppend ==
  ASSUME TypeOK, NEW t \in Txs, Append(t)
  PROVE  TypeOK'
  <1> USE DEF TypeOK, PCs, verifyVars
  <1>1. CASE Lock(t)     BY <1>1 DEF Lock
  <1>2. CASE ReadHead(t) BY <1>2 DEF ReadHead, Newest, Rows, Table
  <1>3. CASE Insert(t)   BY <1>3 DEF Insert
  <1>4. CASE Commit(t)   BY <1>4 DEF Commit
  <1>5. CASE Abort(t)    BY <1>5 DEF Abort
  <1>6. QED BY <1>1, <1>2, <1>3, <1>4, <1>5 DEF Append

\* The verifier keeps the types.
LEMMA TypeVerify ==
  ASSUME TypeOK, Verify
  PROVE  TypeOK'
  <1> USE DEF TypeOK, txVars
  <1>1. Page \subseteq Txs
    BY DEF Page, Unread, Table
  <1>2. CASE StartVerify  BY <1>2 DEF StartVerify
  <1>3. CASE VerifyPage
    <2>1. Newest(Page) \subseteq Txs
      BY <1>1, <1>3 DEF VerifyPage, Newest
    <2>2. after' \in Nat
      BY <1>3, <2>1 DEF VerifyPage
    <2>3. expected' \in SUBSET Txs /\ checked' \in SUBSET Txs
      BY <1>1, <1>3 DEF VerifyPage
    <2>4. QED BY <1>3, <2>2, <2>3 DEF VerifyPage
  <1>4. CASE RejectPage   BY <1>4 DEF RejectPage
  <1>5. CASE FinishVerify BY <1>5 DEF FinishVerify
  <1>6. QED BY <1>2, <1>3, <1>4, <1>5 DEF Verify

\* Type correctness, whatever the spellings.
THEOREM AuditTypeCorrect == Spec => []TypeOK
  <1>1. Init => TypeOK
    BY TypeInit
  <1>2. TypeOK /\ [Next]_vars => TypeOK'
    <2> SUFFICES ASSUME TypeOK, [Next]_vars PROVE TypeOK'
      OBVIOUS
    <2>1. CASE UNCHANGED vars
      BY <2>1 DEF vars, txVars, verifyVars, TypeOK
    <2>2. ASSUME NEW k \in 1..nextSeq, Restore(k) PROVE TypeOK'
      BY <2>2 DEF Restore, TypeOK, PCs, Holding, verifyVars
    <2>3. QED BY <2>1, <2>2, TypeAppend, TypeVerify DEF Next
  <1>3. QED BY <1>1, <1>2, PTL DEF Spec

-------------------------------------------------------------------------------
(* The chain.  Requests that spell a tenant's id alike take one lock; those *)
(* that do not read the same rows under different locks.                   *)

Alike(t, u) == tenant[t] = tenant[u] /\ customerId[t] = customerId[u]

\* The lock admits one appending transaction of a spelling at a time.
SpellingExclusive ==
  \A t, u \in Txs : pc[t] \in Holding /\ pc[u] \in Holding /\ Alike(t, u) => t = u

\* A predecessor that was read is an event of the tenant, and comes earlier.
HeadInTable ==
  \A t \in Txs : pc[t] \in {"read", "inserted", "committed"} /\ previous[t] # None =>
    /\ previous[t] \in Rows(tenant[t])
    /\ pc[t] # "read" => seq[previous[t]] < seq[t]

\* A predecessor is no older than the events of the same spelling that were
\* committed before.
HeadAfterAlike ==
  \A t \in Table, u \in Txs :
    /\ pc[u] \in {"read", "inserted"} \/ (u \in Table /\ seq[t] < seq[u])
    /\ Alike(t, u)
    => previous[u] # None /\ seq[t] <= seq[previous[u]]

SpellingInv == TypeOK /\ SequenceOrder /\ SpellingExclusive /\ HeadInTable /\ HeadAfterAlike

\* Where a chain forks, the two events spelled the customer in two ways.
ForksAreSpellings ==
  \A t, u \in Table :
    t # u /\ tenant[t] = tenant[u] /\ previous[t] = previous[u]
    => customerId[t] # customerId[u]

\* The empty table has no predecessors.
LEMMA SpellingStart == Init => SpellingInv
  BY TypeInit DEF Init, SpellingInv, SequenceOrder, Numbered, SpellingExclusive,
     HeadInTable, HeadAfterAlike, Table, Holding

\* Numbers stay distinct and below the next one.
LEMMA NumbersAppend ==
  ASSUME TypeOK, SequenceOrder, NEW t \in Txs, Append(t)
  PROVE  SequenceOrder'
  BY DEF TypeOK, PCs, SequenceOrder, Numbered, Append, Lock, ReadHead, Insert, Commit, Abort,
     Holding

\* The statements of an append keep what holds of every spelling.
LEMMA SpellingAppend ==
  ASSUME SpellingInv, NEW t \in Txs, Append(t)
  PROVE  SpellingInv'
<1> USE DEF SpellingInv
<1>1. TypeOK' /\ SequenceOrder'
  BY TypeAppend, NumbersAppend
<1>2. UNCHANGED <<tenant, customerId>>
  BY DEF Append, Lock, ReadHead, Insert, Commit, Abort
<1>3. SpellingExclusive'
  BY <1>2 DEF Append, Lock, LockFree, ReadHead, Insert, Commit, Abort, SpellingExclusive,
     Alike, Holding, TypeOK, PCs
<1>4. CASE Lock(t) \/ Abort(t)
  <2>1. /\ Table' = Table /\ UNCHANGED <<seq, previous>>
        /\ \A u \in Txs : pc'[u] \in {"read", "inserted", "committed"} => pc'[u] = pc[u]
    BY <1>4 DEF Lock, Abort, Table, Holding, TypeOK
  <2>2. HeadInTable'
    BY <1>2, <2>1 DEF HeadInTable, Rows
  <2>3. HeadAfterAlike'
    BY <1>2, <2>1 DEF HeadAfterAlike, Alike
  <2> QED BY <1>1, <1>3, <2>2, <2>3
<1>5. CASE ReadHead(t)
  <2>1. /\ Table' = Table /\ UNCHANGED seq
        /\ t \notin Table
        /\ \A u \in Txs : u # t => pc'[u] = pc[u] /\ previous'[u] = previous[u]
        /\ pc'[t] = "read" /\ previous'[t] \in Newest(Rows(tenant[t]))
    BY <1>5 DEF ReadHead, Table, TypeOK
  <2>2. previous'[t] # None => previous'[t] \in Rows(tenant[t])
    BY <2>1 DEF Newest
  <2>3. HeadInTable'
    BY <1>2, <2>1, <2>2 DEF HeadInTable, Rows
  <2>4. ASSUME NEW u \in Rows(tenant[t])
        PROVE  previous'[t] # None /\ seq[u] <= seq[previous'[t]]
    BY <2>1 DEF Newest, Rows, Table
  <2>5. HeadAfterAlike'
    BY <1>2, <2>1, <2>4 DEF HeadAfterAlike, Alike, Rows, Table
  <2> QED BY <1>1, <1>3, <2>3, <2>5
<1>6. CASE Insert(t)
  <2>1. /\ Table' = Table /\ UNCHANGED previous
        /\ t \notin Table
        /\ \A u \in Txs : u # t => pc'[u] = pc[u] /\ seq'[u] = seq[u]
        /\ pc[t] = "read" /\ pc'[t] = "inserted" /\ seq'[t] = nextSeq
    BY <1>6 DEF Insert, Table, TypeOK
  <2>2. \A u \in Table : seq[u] < nextSeq
    BY DEF SequenceOrder, Numbered, Table
  <2>3. HeadInTable'
    BY <1>2, <2>1, <2>2 DEF HeadInTable, Rows, Table
  <2>4. \A u \in Txs : pc'[u] \in {"read", "inserted", "committed"} /\ previous[u] # None
                         => previous[u] \in Table
    BY <2>1 DEF HeadInTable, Rows
  <2>5. HeadAfterAlike'
    BY <1>2, <2>1, <2>4 DEF HeadAfterAlike, Alike, Table
  <2> QED BY <1>1, <1>3, <2>3, <2>5
<1>7. CASE Commit(t)
  <2>1. /\ Table' = Table \cup {t} /\ UNCHANGED <<seq, previous>>
        /\ t \notin Table
        /\ \A u \in Txs : u # t => pc'[u] = pc[u]
        /\ pc[t] = "inserted" /\ pc'[t] = "committed"
    BY <1>7 DEF Commit, Table, TypeOK
  <2>2. HeadInTable'
    BY <1>2, <2>1 DEF HeadInTable, Rows
  <2>3. ASSUME NEW u \in Txs, pc'[u] \in {"read", "inserted"} PROVE ~ Alike(t, u)
    BY <2>1, <2>3 DEF SpellingExclusive, Holding
  <2>4. ASSUME NEW u \in Table, Alike(t, u)
        PROVE  seq[u] < seq[t] /\ previous[t] # None /\ seq[u] <= seq[previous[t]]
    <3>1. previous[t] # None /\ seq[u] <= seq[previous[t]]
      BY <2>1, <2>4 DEF HeadAfterAlike, Alike
    <3>2. previous[t] \in Txs /\ seq[previous[t]] < seq[t]
      BY <2>1, <3>1 DEF HeadInTable, Rows, Table
    <3> QED BY <3>1, <3>2 DEF TypeOK, Table
  <2>5. HeadAfterAlike'
    <3> SUFFICES ASSUME NEW u \in Table', NEW v \in Txs,
                        pc'[v] \in {"read", "inserted"} \/ (v \in Table' /\ seq[u] < seq[v]),
                        Alike(u, v)
                 PROVE  previous[v] # None /\ seq[u] <= seq[previous[v]]
      BY <1>2, <2>1 DEF HeadAfterAlike, Alike
    <3>1. CASE u = t
      <4>1. v \in Table' /\ seq[u] < seq[v]
        BY <2>3, <3>1
      <4>2. v \in Table /\ seq[v] < seq[t] /\ seq[t] \in Nat /\ seq[v] \in Nat
        BY <2>1, <2>4, <3>1, <4>1 DEF Alike, TypeOK
      <4> QED BY <3>1, <4>1, <4>2
    <3>2. CASE u # t /\ v = t
      BY <2>1, <2>4, <3>2 DEF Alike
    <3>3. CASE u # t /\ v # t
      BY <2>1, <3>3 DEF HeadAfterAlike, Alike
    <3> QED BY <3>1, <3>2, <3>3
  <2> QED BY <1>1, <1>3, <2>2, <2>5
<1> QED BY <1>4, <1>5, <1>6, <1>7 DEF Append

\* A restore takes away later events only, so no predecessor of a row that stays.
LEMMA SpellingRestore ==
  ASSUME SpellingInv, NEW k \in 1..nextSeq, Restore(k)
  PROVE  SpellingInv'
<1> USE DEF SpellingInv
<1>1. TypeOK'
  BY DEF Restore, TypeOK, PCs, Holding, verifyVars
<1>2. /\ UNCHANGED <<seq, tenant, customerId, previous>>
      /\ \A t \in Txs : pc'[t] \notin Holding
      /\ Table' = {t \in Table : seq[t] < k} /\ nextSeq' = k /\ k \in Nat
  BY DEF Restore, Table, TypeOK, PCs, Holding
<1>3. Numbered' = Table'
  BY <1>2 DEF Numbered, Table, Holding
<1>4. SequenceOrder'
  BY <1>2, <1>3 DEF SequenceOrder, Numbered, Table
<1>5. SpellingExclusive'
  BY <1>2 DEF SpellingExclusive
<1>6. HeadInTable'
  <2> SUFFICES ASSUME NEW t \in Table', previous[t] # None
               PROVE  previous[t] \in Rows(tenant[t])' /\ seq[previous[t]] < seq[t]
    BY <1>2 DEF HeadInTable, Holding, Table
  <2>1. t \in Table /\ t \in Txs /\ seq[t] < k
    BY <1>2 DEF Table
  <2>2. previous[t] \in Rows(tenant[t]) /\ seq[previous[t]] < seq[t]
    BY <2>1 DEF HeadInTable, Table
  <2>3. previous[t] \in Table /\ seq[previous[t]] < k
    BY <1>2, <2>1, <2>2 DEF Rows, TypeOK, Table
  <2> QED BY <1>2, <2>2, <2>3 DEF Rows
<1>7. HeadAfterAlike'
  BY <1>2 DEF HeadAfterAlike, Alike, Holding
<1> QED BY <1>1, <1>4, <1>5, <1>6, <1>7

\* Every step keeps what holds of every spelling; the verifier only reads.
LEMMA SpellingStep == SpellingInv /\ [Next]_vars => SpellingInv'
<1> SUFFICES ASSUME SpellingInv, [Next]_vars PROVE SpellingInv'
  OBVIOUS
<1>1. CASE UNCHANGED vars \/ Verify
  <2>1. UNCHANGED txVars
    BY <1>1 DEF vars, Verify, StartVerify, VerifyPage, RejectPage, FinishVerify
  <2>2. TypeOK'
    BY <1>1, TypeVerify DEF SpellingInv, vars, txVars, verifyVars, TypeOK
  <2>3. UNCHANGED <<pc, tenant, customerId, seq, previous, nextSeq, Table>>
    BY <2>1 DEF txVars, Table
  <2>4. SequenceOrder' /\ SpellingExclusive'
    BY <2>3 DEF SpellingInv, SequenceOrder, Numbered, SpellingExclusive, Alike
  <2>5. HeadInTable' /\ HeadAfterAlike'
    BY <2>3 DEF SpellingInv, HeadInTable, HeadAfterAlike, Alike, Rows
  <2> QED BY <2>2, <2>4, <2>5 DEF SpellingInv
<1> QED BY <1>1, SpellingAppend, SpellingRestore DEF Next

\* The chain of a customer is never cut, and passes over events of another
\* spelling only, whatever overlaps, rolls back or is restored.
THEOREM ChainUpToSpellingCorrect == Spec => []ChainUpToSpelling
<1>1. SpellingInv => ChainUpToSpelling
  <2> SUFFICES ASSUME SpellingInv, NEW t \in Table
               PROVE  /\ previous[t] # None =>
                           previous[t] \in Rows(tenant[t]) /\ seq[previous[t]] < seq[t]
                      /\ \A u \in EarlierIn(Table, t) :
                           previous[t] = None \/ seq[previous[t]] < seq[u]
                             => customerId[u] # customerId[t]
    BY DEF ChainUpToSpelling
  <2>1. previous[t] # None =>
          previous[t] \in Rows(tenant[t]) /\ seq[previous[t]] < seq[t]
    BY DEF SpellingInv, HeadInTable, Table
  <2>2. ASSUME NEW u \in EarlierIn(Table, t), customerId[u] = customerId[t]
        PROVE  previous[t] # None /\ ~ (seq[previous[t]] < seq[u])
    <3>1. previous[t] # None /\ seq[u] <= seq[previous[t]]
      BY <2>2 DEF SpellingInv, HeadAfterAlike, Alike, EarlierIn, Table
    <3>2. seq[u] \in Nat /\ seq[previous[t]] \in Nat
      BY <2>1, <3>1 DEF SpellingInv, TypeOK, EarlierIn, Rows, Table
    <3> QED BY <3>1, <3>2
  <2> QED BY <2>1, <2>2
<1> QED BY <1>1, SpellingStart, SpellingStep, PTL DEF Spec

\* An event that only events of its own spelling precede follows the last one.
LEMMA AlikeFollows ==
  ASSUME SpellingInv, NEW t \in Table,
         \A u \in EarlierIn(Table, t) : customerId[u] = customerId[t]
  PROVE  Follows(t)
<1> USE DEF SpellingInv
<1>1. t \in Txs /\ pc[t] = "committed"
  BY DEF Table
<1>2. \A u \in EarlierIn(Table, t) : previous[t] # None /\ seq[u] <= seq[previous[t]]
  BY <1>1 DEF HeadAfterAlike, Alike, EarlierIn
<1>3. previous[t] # None => previous[t] \in EarlierIn(Table, t)
  BY <1>1 DEF HeadInTable, EarlierIn, Rows
<1> QED BY <1>2, <1>3 DEF Follows, Newest

\* The documented chain, where a customer's events have its id in one spelling:
\* in the order of their sequence, no fork and no gap.
THEOREM OneSpellingChains ==
  Spec => []((\A t, u \in Table : tenant[t] = tenant[u] => customerId[t] = customerId[u])
             => ChainLinear)
<1>1. SpellingInv =>
        ((\A t, u \in Table : tenant[t] = tenant[u] => customerId[t] = customerId[u])
         => ChainLinear)
  BY AlikeFollows DEF ChainLinear, EarlierIn
<1> QED BY <1>1, SpellingStart, SpellingStep, PTL DEF Spec

\* Two spellings of one customer are the only cause of a fork.
THEOREM ForksAreSpellingsCorrect == Spec => []ForksAreSpellings
<1>1. SpellingInv => ForksAreSpellings
  <2> SUFFICES ASSUME SpellingInv, NEW t \in Table, NEW u \in Table, t # u, Alike(t, u),
                      previous[t] = previous[u]
               PROVE  FALSE
    BY DEF ForksAreSpellings, Alike
  <2>1. seq[t] \in Nat /\ seq[u] \in Nat /\ seq[t] # seq[u]
    BY DEF SpellingInv, TypeOK, SequenceOrder, Numbered, Table
  <2>2. ASSUME NEW v \in Table, NEW w \in Table, Alike(v, w), previous[v] = previous[w],
               seq[v] < seq[w]
        PROVE  FALSE
    <3>1. previous[w] # None /\ seq[v] <= seq[previous[w]]
      BY <2>2 DEF SpellingInv, HeadAfterAlike, Table
    <3>2. previous[v] \in Txs /\ seq[previous[v]] < seq[v]
      BY <2>2, <3>1 DEF SpellingInv, HeadInTable, Rows, Table
    <3> QED BY <2>2, <3>1, <3>2 DEF SpellingInv, TypeOK, Table
  <2> QED BY <2>1, <2>2 DEF Alike
<1> QED BY <1>1, SpellingStart, SpellingStep, PTL DEF Spec
-------------------------------------------------------------------------------
(* The verifier.  The invariant says what a run knows while it reads: its  *)
(* events are rows up to its cursor, its heads are the newest of them, and *)
(* an anchor it was given is met or still expected.                        *)

\* What a run has verified, head by head and anchor by anchor.
Reading ==
  vpc = "reading" =>
    /\ \A t \in checked : t \in Table /\ seq[t] <= after
    /\ \A c \in Tenants : heads[c] \in Newest({t \in checked : tenant[t] = c})
    /\ \A a \in prior : a \in expected \/ a \in checked
    /\ \A a \in expected : a \notin checked

\* Without a restore, an event that an anchor names stays in the table.
Anchored ==
  /\ expected \subseteq prior
  /\ restores = 0 =>
       /\ prior \subseteq Table
       /\ \A c \in Tenants : heads[c] # None => heads[c] \in Table

VerifierInv == TypeOK /\ Reading /\ Anchored

\* The oldest of any events.
LEMMA Oldest ==
  ASSUME TypeOK, NEW S, S \subseteq Txs, S # {}
  PROVE  \E t \in S : \A u \in S : seq[t] <= seq[u]
<1> DEFINE N == {seq[t] : t \in S}
<1>1. N \subseteq Nat /\ N # {}
  BY DEF TypeOK
<1>2. PICK n \in N : \A m \in N : ~ (<<m, n>> \in OpToRel(<, Nat))
  BY <1>1, NatLessThanWellFounded, WFMin
<1>3. ASSUME NEW m \in N PROVE n <= m
  <2>1. m < n => <<m, n>> \in {ss \in Nat \X Nat : ss[1] < ss[2]}
    BY <1>1
  <2>2. m < n => <<m, n>> \in OpToRel(<, Nat)
    BY <2>1, Zenon DEF OpToRel
  <2>3. ~ (m < n)
    BY <1>2, <2>2
  <2> QED BY <1>1, <2>3
<1> QED BY <1>3

\* The table is finite, as sequence numbers are distinct and bounded.
LEMMA UnreadFinite ==
  ASSUME TypeOK, SequenceOrder
  PROVE  IsFiniteSet(Unread)
<1> DEFINE f == [t \in Unread |-> seq[t]]
<1>1. f \in Injection(Unread, 0..nextSeq)
  BY DEF TypeOK, SequenceOrder, Numbered, Unread, Table, Injection, IsInjective
<1>2. IsFiniteSet(0..nextSeq)
  BY FS_Interval DEF TypeOK
<1> QED BY <1>1, <1>2, FS_Injection

\* A page leaves no gap: it holds every row between the cursor and its end.
LEMMA PageClosed ==
  ASSUME TypeOK, SequenceOrder, NEW p \in Page, NEW t \in Unread, seq[t] <= seq[p]
  PROVE  t \in Page
<1> DEFINE Below(x) == {u \in Unread : seq[u] < seq[x]}
<1>1. IsFiniteSet(Unread)
  BY UnreadFinite
<1>2. p \in Unread /\ Cardinality(Below(p)) < PageSize
  BY DEF Page
<1>3. Below(t) \subseteq Below(p)
  BY <1>2 DEF TypeOK, Unread, Table
<1>4. IsFiniteSet(Below(p))
  BY <1>1, FS_Subset
<1>5. IsFiniteSet(Below(t)) /\ Cardinality(Below(t)) <= Cardinality(Below(p))
  BY <1>3, <1>4, FS_Subset
<1>6. Cardinality(Below(t)) \in Nat /\ Cardinality(Below(p)) \in Nat
  BY <1>4, <1>5, FS_CardinalityType
<1>7. Cardinality(Below(t)) < PageSize
  BY <1>2, <1>5, <1>6
<1> QED BY <1>7 DEF Page

\* A page is empty only when nothing is left to read.
LEMMA PageEmpty ==
  ASSUME TypeOK, Page = {}
  PROVE  Unread = {}
<1> SUFFICES ASSUME Unread # {} PROVE FALSE
  OBVIOUS
<1>1. PICK t \in Unread : \A u \in Unread : seq[t] <= seq[u]
  BY Oldest DEF Unread, Table
<1>2. {u \in Unread : seq[u] < seq[t]} = {}
  BY <1>1 DEF Unread, Table, TypeOK
<1>3. Cardinality({u \in Unread : seq[u] < seq[t]}) < PageSize
  BY <1>2, FS_EmptySet
<1> QED BY <1>3 DEF Page

\* Before the first run nothing is verified or expected.
LEMMA VerifierInit == Init => VerifierInv
  BY TypeInit DEF Init, VerifierInv, Reading, Anchored

\* While no restore happens rows stay in the table with their numbers.
LEMMA VerifierAppend ==
  ASSUME VerifierInv, NEW t \in Txs, Append(t)
  PROVE  VerifierInv'
<1>1. TypeOK'
  BY TypeAppend DEF VerifierInv
<1>2. /\ UNCHANGED <<tenant, verifyVars, restores>>
      /\ \A u \in Table : u \in Table' /\ seq'[u] = seq[u]
  BY DEF Append, Lock, ReadHead, Insert, Commit, Abort, Table, Holding, VerifierInv, TypeOK
<1>3. UNCHANGED <<vpc, after, heads, expected, prior, checked>>
  BY <1>2 DEF verifyVars
<1>4. Reading'
  <2> SUFFICES ASSUME vpc = "reading" PROVE Reading'
    BY <1>3 DEF Reading
  <2>1. checked \subseteq Table /\ checked \subseteq Txs
    BY DEF VerifierInv, Reading, Table
  <2>2. \A c \in Tenants : Newest({u \in checked : tenant[u] = c})'
                          = Newest({u \in checked : tenant[u] = c})
    BY <1>2, <1>3, <2>1 DEF Newest
  <2> QED BY <1>2, <1>3, <2>1, <2>2 DEF VerifierInv, Reading
<1>5. Anchored'
  BY <1>2, <1>3 DEF VerifierInv, Anchored
<1> QED BY <1>1, <1>4, <1>5 DEF VerifierInv

\* A page extends what the run has verified.
LEMMA VerifierPage ==
  ASSUME VerifierInv, VerifyPage
  PROVE  VerifierInv'
<1> USE DEF VerifierInv, TypeOK, VerifyPage, txVars
<1>1. TypeOK'
  BY TypeVerify DEF Verify
<1>2. UNCHANGED <<pc, tenant, seq, vpc, prior, restores>> /\ Table' = Table
  BY DEF Table
<1>3. /\ Page \subseteq Table /\ Page \subseteq Txs
      /\ \A t \in Page : after < seq[t] /\ seq[t] \in Nat
  BY DEF Page, Unread, Table
<1>4. \A t \in Page : seq[t] <= after'
  BY DEF Newest
<1>5. after < after'
  BY <1>3, <1>4
<1>6. ASSUME NEW t \in checked' PROVE t \in Table' /\ seq'[t] <= after'
  <2>1. CASE t \in Page
    BY <1>2, <1>3, <1>4, <2>1
  <2>2. CASE t \in checked
    BY <1>2, <1>5, <2>2 DEF Reading
  <2> QED BY <2>1, <2>2
<1>7. ASSUME NEW c \in Tenants
      PROVE  heads'[c] \in Newest({t \in checked' : tenant[t] = c})
  <2> DEFINE own  == {t \in Page : tenant[t] = c}
             seen == {t \in checked : tenant[t] = c}
  <2>1. {t \in checked' : tenant[t] = c} = seen \cup own
    OBVIOUS
  <2>2. heads[c] \in Newest(seen)
    BY DEF Reading
  <2>3. CASE own = {}
    BY <2>1, <2>2, <2>3
  <2>4. CASE own # {}
    <3>1. heads'[c] \in Newest(own)
      BY <2>4
    <3>2. heads'[c] \in own /\ \A u \in own : seq[u] <= seq[heads'[c]]
      BY <2>4, <3>1 DEF Newest
    <3>3. \A u \in seen : seq[u] <= after /\ seq[u] \in Nat
      BY DEF Reading
    <3>4. \A u \in seen \cup own : seq[u] <= seq[heads'[c]]
      BY <1>3, <3>2, <3>3
    <3> QED BY <2>1, <2>4, <3>2, <3>4 DEF Newest
  <2> QED BY <2>3, <2>4
<1>8. ASSUME NEW a \in prior' PROVE a \in expected' \/ a \in checked'
  <2>1. a \in expected \/ a \in checked
    BY <1>2 DEF Reading
  <2>2. CASE a \in expected /\ a \notin expected'
    <3>1. PICK t \in Page : tenant[a] = tenant[t] /\ seq[a] = seq[t]
      BY <2>2
    <3>2. a = t
      BY <2>2, <3>1 DEF PageHolds, AnchorHolds
    <3> QED BY <3>1, <3>2
  <2> QED BY <2>1, <2>2
<1>9. ASSUME NEW a \in expected' PROVE a \notin checked'
  BY DEF Reading
<1>10. Reading'
  BY <1>2, <1>6, <1>7, <1>8, <1>9 DEF Reading, Newest
<1>11. Anchored'
  <2>1. expected' \subseteq prior'
    BY DEF Anchored
  <2>2. ASSUME restores = 0, NEW c \in Tenants, heads'[c] # None PROVE heads'[c] \in Table
    <3>1. heads'[c] = heads[c] \/ heads'[c] \in {t \in Page : tenant[t] = c}
      BY DEF Newest
    <3> QED BY <1>3, <2>2, <3>1 DEF Anchored
  <2> QED BY <1>2, <2>1, <2>2 DEF Anchored
<1> QED BY <1>1, <1>10, <1>11 DEF VerifierInv

\* Every step keeps what the verifier knows.
LEMMA VerifierStep == VerifierInv /\ [Next]_vars => VerifierInv'
<1> SUFFICES ASSUME VerifierInv, [Next]_vars PROVE VerifierInv'
  OBVIOUS
<1> USE DEF VerifierInv
<1>1. CASE UNCHANGED vars
  BY <1>1 DEF vars, txVars, verifyVars, TypeOK, Reading, Anchored, Newest, Table
<1>2. ASSUME NEW k \in 1..nextSeq, Restore(k) PROVE VerifierInv'
  <2>1. TypeOK'
    BY <1>2 DEF Restore, TypeOK, PCs, Holding, verifyVars
  <2>2. UNCHANGED verifyVars /\ restores' # 0 /\ vpc # "reading"
    BY <1>2 DEF Restore, TypeOK
  <2> QED BY <2>1, <2>2 DEF Reading, Anchored, verifyVars
<1>3. CASE StartVerify
  <2>1. TypeOK'
    BY <1>3, TypeVerify DEF Verify
  <2>2. /\ checked' = {} /\ expected' = prior' /\ Table' = Table
        /\ \A c \in Tenants : heads'[c] = None
    BY <1>3 DEF StartVerify, txVars, Table
  <2>3. Reading'
    BY <2>2 DEF Reading, Newest
  <2>4. restores = 0 => prior' \subseteq Table
    BY <1>3 DEF StartVerify, Anchored
  <2> QED BY <1>3, <2>1, <2>2, <2>3, <2>4 DEF Anchored, StartVerify
<1>4. CASE RejectPage \/ FinishVerify
  <2>1. TypeOK'
    BY <1>4, TypeVerify DEF Verify
  <2>2. /\ UNCHANGED <<txVars, heads, expected, prior, restores>> /\ Table' = Table
        /\ vpc' # "reading"
    BY <1>4 DEF RejectPage, FinishVerify, txVars, Table
  <2> QED BY <2>1, <2>2 DEF Reading, Anchored
<1> QED BY <1>1, <1>2, <1>3, <1>4, VerifierAppend, VerifierPage DEF Next, Verify

-------------------------------------------------------------------------------

\* A successful run has met every anchor it was given: no anchored event was
\* truncated by a restore or replaced under its sequence number, however the
\* requests spelled what they appended.
THEOREM AnchorsKeptCorrect == Spec => AnchorsKept
<1>1. VerifierInv /\ [Next]_vars =>
        [vpc' = "done" /\ vpc # "done" => prior \subseteq Table]_vars
  <2> SUFFICES ASSUME VerifierInv, Next, vpc' = "done", vpc # "done"
               PROVE  prior \subseteq Table
    BY DEF vars
  <2>1. FinishVerify
    BY DEF Next, Append, Lock, ReadHead, Insert, Commit, Abort, Restore, Verify, StartVerify,
       VerifyPage, RejectPage, verifyVars, VerifierInv, TypeOK
  <2>2. vpc = "reading" /\ expected = {}
    BY <2>1 DEF FinishVerify
  <2> QED BY <2>2 DEF VerifierInv, Reading
<1> QED BY <1>1, VerifierInit, VerifierStep, PTL DEF Spec, AnchorsKept

-------------------------------------------------------------------------------
(* What an anchor covers.                                                  *)

\* What a run has verified is spelled as the table prints it.
CheckedCanonical == checked \subseteq Txs /\ \A t \in checked : customerId[t] = Canonical

\* Only a page adds to what is verified, and its digests hold.
LEMMA CheckedStep ==
  ASSUME TypeOK, CheckedCanonical, [Next]_vars
  PROVE  CheckedCanonical'
<1>1. UNCHANGED customerId
  BY DEF Next, Append, Lock, ReadHead, Insert, Commit, Abort, Restore, Verify, StartVerify,
     VerifyPage, RejectPage, FinishVerify, vars, txVars
<1>2. \/ checked' \subseteq checked
      \/ VerifyPage
  BY DEF Next, Append, Lock, ReadHead, Insert, Commit, Abort, Restore, Verify, StartVerify,
     RejectPage, FinishVerify, vars, verifyVars
<1>3. CASE VerifyPage
  <2>1. \A t \in Page : t \in Txs /\ customerId[t] = Canonical
    BY <1>3 DEF VerifyPage, PageHolds, DigestHolds, Page, Unread, Table
  <2> QED BY <1>1, <1>3, <2>1 DEF VerifyPage, CheckedCanonical
<1> QED BY <1>1, <1>2, <1>3 DEF CheckedCanonical

\* A row of the canonical spelling that a verified page skips was verified before
\* it: the link of the first event of each tenant on the page leads to the head,
\* and passes over no event spelled like its own.
LEMMA PageCovers ==
  ASSUME SpellingInv, VerifierInv, AnchorCoversPrefix, VerifyPage,
         NEW c \in Tenants, heads'[c] # None, NEW t \in Rows(c), seq[t] <= seq[heads'[c]],
         customerId[t] = Canonical
  PROVE  t \in checked'
<1> USE DEF SpellingInv, VerifierInv, TypeOK, VerifyPage
<1> DEFINE own == {u \in Page : tenant[u] = c}
<1>1. t \in Txs /\ t \in Table /\ tenant[t] = c
  BY DEF Rows, Table
<1>2. CASE own = {}
  <2>1. heads'[c] = heads[c]
    BY <1>2
  <2> QED BY <2>1 DEF AnchorCoversPrefix
<1>3. CASE own # {}
  <2>1. own \subseteq Txs /\ own \subseteq Unread
    BY DEF Page, Unread, Table
  <2>2. heads'[c] \in own
    BY <1>3 DEF Newest
  <2>3. CASE t \in Unread
    BY <2>2, <2>3, PageClosed
  <2>4. CASE t \notin Unread
    <3>1. seq[t] <= after
      BY <1>1, <2>4 DEF Unread
    <3>2. PICK f \in own : \A u \in own : seq[f] <= seq[u]
      BY <1>3, <2>1, Oldest
    <3>3. EarlierIn(Page, f) = {}
      BY <2>1, <3>2 DEF EarlierIn
    <3>4. previous[f] = heads[c] /\ customerId[f] = Canonical
      BY <3>2, <3>3 DEF PageHolds, LinkHolds, DigestHolds, Before
    <3>5. f \in Table /\ f \in Txs /\ after < seq[f]
      BY <2>1, <3>2 DEF Unread, Table
    <3>6. seq[t] < seq[f] /\ Alike(t, f)
      BY <1>1, <3>1, <3>2, <3>4, <3>5 DEF Alike
    <3>7. heads[c] # None /\ seq[t] <= seq[heads[c]]
      BY <1>1, <3>4, <3>5, <3>6 DEF HeadAfterAlike
    <3> QED BY <3>7 DEF AnchorCoversPrefix
  <2> QED BY <2>3, <2>4
<1> QED BY <1>2, <1>3

\* An event of the head's spelling is committed behind the head.
LEMMA AppendCovers ==
  ASSUME SpellingInv, VerifierInv, CheckedCanonical, AnchorCoversPrefix,
         NEW x \in Txs, Append(x)
  PROVE  AnchorCoversPrefix'
<1> USE DEF SpellingInv, VerifierInv, TypeOK
<1>0. UNCHANGED <<tenant, customerId, vpc, heads, checked>>
  BY DEF Append, Lock, ReadHead, Insert, Commit, Abort, verifyVars
<1> SUFFICES ASSUME vpc = "reading", NEW c \in Tenants, heads[c] # None,
                    NEW t \in Rows(c)', seq'[t] <= seq'[heads[c]], customerId[t] = Canonical
             PROVE  t \in checked
  BY <1>0 DEF AnchorCoversPrefix
<1>1. heads[c] \in Rows(c) /\ customerId[heads[c]] = Canonical
  BY DEF Reading, Newest, Rows, CheckedCanonical
<1>2. \A u \in Table : seq'[u] = seq[u]
  BY DEF Append, Lock, ReadHead, Insert, Commit, Abort, Table
<1>3. CASE t \in Rows(c)
  BY <1>1, <1>2, <1>3 DEF AnchorCoversPrefix, Rows
<1>4. CASE t \notin Rows(c)
  <2>1. Commit(x) /\ t = x /\ tenant[x] = c
    BY <1>4 DEF Append, Lock, ReadHead, Insert, Commit, Abort, Rows, Table
  <2>2. previous[x] # None /\ seq[heads[c]] <= seq[previous[x]]
    BY <1>1, <2>1 DEF Commit, HeadAfterAlike, Alike, Rows
  <2>3. previous[x] \in Txs /\ seq[previous[x]] < seq[x]
    BY <2>1, <2>2 DEF Commit, HeadInTable, Rows, Table
  <2>4. seq[heads[c]] < seq[x]
    BY <1>1, <2>2, <2>3 DEF Rows, Table
  <2> QED BY <1>1, <2>1, <2>4 DEF Commit, Rows, Table
<1> QED BY <1>3, <1>4

\* When the verifier names a head, it has verified the tenant's rows up to it, but
\* for those spelled otherwise, though rows become visible out of sequence order
\* while it reads.
THEOREM AnchorCoversPrefixCorrect == Spec => []AnchorCoversPrefix
<1>1. Init => AnchorCoversPrefix /\ CheckedCanonical
  BY DEF Init, AnchorCoversPrefix, CheckedCanonical
<1>2. SpellingInv /\ VerifierInv /\ CheckedCanonical /\ AnchorCoversPrefix /\ [Next]_vars
        => AnchorCoversPrefix'
  <2> SUFFICES ASSUME SpellingInv, VerifierInv, CheckedCanonical, AnchorCoversPrefix,
                      [Next]_vars
               PROVE  AnchorCoversPrefix'
    OBVIOUS
  <2>1. CASE UNCHANGED vars
    BY <2>1 DEF vars, txVars, verifyVars, AnchorCoversPrefix, Rows, Table
  <2>2. ASSUME NEW k \in 1..nextSeq, Restore(k) PROVE AnchorCoversPrefix'
    BY <2>2 DEF Restore, verifyVars, AnchorCoversPrefix
  <2>3. CASE StartVerify
    BY <2>3 DEF StartVerify, AnchorCoversPrefix
  <2>4. CASE VerifyPage
    <3>1. UNCHANGED <<pc, tenant, customerId, seq>>
      BY <2>4 DEF VerifyPage, txVars
    <3>2. \A c \in Tenants : Rows(c)' = Rows(c)
      BY <3>1 DEF Rows, Table
    <3> QED BY <2>4, <3>1, <3>2, PageCovers DEF AnchorCoversPrefix
  <2>5. CASE RejectPage \/ FinishVerify
    BY <2>5 DEF RejectPage, FinishVerify, AnchorCoversPrefix
  <2> QED BY <2>1, <2>2, <2>3, <2>4, <2>5, AppendCovers DEF Next, Verify
<1>3. VerifierInv /\ CheckedCanonical /\ [Next]_vars => CheckedCanonical'
  BY CheckedStep DEF VerifierInv
<1> QED BY <1>1, <1>2, <1>3, SpellingStart, SpellingStep, VerifierInit, VerifierStep, PTL
        DEF Spec

-------------------------------------------------------------------------------
(* What an alarm means.                                                    *)

\* The newest event is one.
LEMMA NewestUnique ==
  ASSUME TypeOK, SequenceOrder, NEW S, S \subseteq Table, NEW t \in Newest(S), NEW u \in Newest(S)
  PROVE  t = u
  BY DEF TypeOK, SequenceOrder, Numbered, Newest, Table

\* No row was committed behind the cursor: every check of a page passes.
LEMMA PageIntact ==
  ASSUME SpellingInv, VerifierInv, vpc = "reading",
         restores = 0, Overtaken = {}, Misspelled = {}
  PROVE  PageHolds
<1> USE DEF SpellingInv, VerifierInv, TypeOK
<1> SUFFICES ASSUME NEW t \in Page PROVE LinkHolds(t) /\ DigestHolds(t) /\ AnchorHolds(t)
  BY DEF PageHolds
<1>1. t \in Table /\ t \in Txs /\ t \in Unread /\ after < seq[t]
  BY DEF Page, Unread, Table
<1>2. DigestHolds(t)
  BY <1>1 DEF DigestHolds, Misspelled
<1>3. AnchorHolds(t)
  BY <1>1 DEF AnchorHolds, Anchored, SequenceOrder, Numbered, Table
<1>4. previous[t] \in Newest(EarlierIn(Table, t))
  <2>1. \A u \in Table : customerId[u] = Canonical
    BY DEF Misspelled
  <2>2. Follows(t)
    BY <1>1, <2>1, AlikeFollows DEF EarlierIn
  <2> QED BY <2>2 DEF Follows
<1>5. CASE EarlierIn(Page, t) # {}
  <2>1. PICK p \in Page : tenant[p] = tenant[t] /\ seq[p] < seq[t]
    BY <1>5 DEF EarlierIn
  <2>2. p \in Table /\ p \in Txs /\ after < seq[p]
    BY DEF Page, Unread, Table
  <2>3. p \in EarlierIn(Table, t)
    BY <2>1, <2>2 DEF EarlierIn
  <2>4. /\ previous[t] \in EarlierIn(Table, t)
        /\ \A u \in EarlierIn(Table, t) : seq[u] <= seq[previous[t]]
    BY <1>4, <2>3 DEF Newest
  <2>5. previous[t] \in Table /\ previous[t] \in Txs /\ seq[previous[t]] < seq[t]
    BY <2>4 DEF EarlierIn, Table
  <2>6. after < seq[previous[t]]
    BY <2>2, <2>3, <2>4, <2>5
  <2>7. previous[t] \in Page
    BY <1>1, <2>5, <2>6, PageClosed DEF Unread
  <2>8. previous[t] \in EarlierIn(Page, t)
    BY <2>4, <2>7 DEF EarlierIn
  <2>9. EarlierIn(Page, t) \subseteq EarlierIn(Table, t)
    BY DEF EarlierIn, Page, Unread
  <2> QED BY <1>2, <1>3, <1>5, <2>4, <2>8, <2>9 DEF LinkHolds, Before, Newest
<1>6. CASE EarlierIn(Page, t) = {}
  <2> DEFINE seen == {u \in checked : tenant[u] = tenant[t]}
  <2>1. seen \subseteq EarlierIn(Table, t)
    BY <1>1 DEF Reading, EarlierIn, Table
  <2>2. ASSUME NEW u \in EarlierIn(Table, t) PROVE u \in seen
    <3>1. u \in Table /\ u \in Txs /\ tenant[u] = tenant[t] /\ seq[u] < seq[t]
      BY DEF EarlierIn, Table
    <3>2. u \notin Page
      BY <1>6, <3>1 DEF EarlierIn
    <3>3. u \notin Unread
      BY <3>1, <3>2, PageClosed, <1>1
    <3>4. seq[u] <= after
      BY <3>1, <3>3 DEF Unread
    <3> QED BY <3>1, <3>4 DEF Overtaken
  <2>3. seen = EarlierIn(Table, t)
    BY <2>1, <2>2
  <2>4. heads[tenant[t]] \in Newest(seen)
    BY <1>1 DEF Reading
  <2>5. EarlierIn(Table, t) \subseteq Table
    BY DEF EarlierIn
  <2>6. heads[tenant[t]] = previous[t]
    BY <1>4, <2>3, <2>4, <2>5, NewestUnique
  <2> QED BY <1>2, <1>3, <1>6, <2>6 DEF LinkHolds, Before
<1> QED BY <1>5, <1>6

\* An alarm on a database that was never restored has one of two causes: a row
\* was committed behind the cursor, or a customer's or a request's id was spelled
\* another way than the table prints it.
THEOREM AlarmIsExplainedCorrect == Spec => AlarmIsExplained
<1>1. SpellingInv /\ VerifierInv /\ [Next]_vars =>
        [vpc' = "failed" /\ vpc # "failed"
           => restores > 0 \/ Overtaken # {} \/ Misspelled # {}]_vars
  <2> SUFFICES ASSUME SpellingInv, VerifierInv, Next, vpc' = "failed", vpc # "failed",
                      ~ (restores > 0), Overtaken = {}, Misspelled = {}
               PROVE  FALSE
    BY DEF vars
  <2>1. restores = 0
    BY DEF VerifierInv, TypeOK
  <2>2. RejectPage \/ FinishVerify
    BY DEF Next, Append, Lock, ReadHead, Insert, Commit, Abort, Restore, Verify, StartVerify,
       VerifyPage, verifyVars, VerifierInv, TypeOK
  <2>3. CASE RejectPage
    BY <2>1, <2>3, PageIntact DEF RejectPage
  <2>4. CASE FinishVerify
    <3>1. vpc = "reading" /\ Page = {} /\ expected # {}
      BY <2>4 DEF FinishVerify
    <3>2. PICK a \in expected : TRUE
      BY <3>1
    <3>3. a \in Table /\ a \in Txs
      BY <2>1, <3>2 DEF VerifierInv, Anchored, Table
    <3>4. Unread = {}
      BY <3>1, PageEmpty DEF VerifierInv
    <3>5. seq[a] <= after
      BY <3>3, <3>4 DEF Unread, VerifierInv, TypeOK
    <3>6. a \notin checked
      BY <3>1, <3>2 DEF VerifierInv, Reading
    <3> QED BY <3>3, <3>5, <3>6 DEF Overtaken
  <2> QED BY <2>2, <2>3, <2>4
<1> QED BY <1>1, SpellingStart, SpellingStep, VerifierInit, VerifierStep, PTL DEF Spec, AlarmIsExplained
===============================================================================
