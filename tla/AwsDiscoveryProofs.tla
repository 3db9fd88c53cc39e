-------------------------- MODULE AwsDiscoveryProofs --------------------------
(***************************************************************************)
(* Proofs about AwsDiscovery for every account, every number of jobs and   *)
(* executions, and every overlap of them.                                  *)
(***************************************************************************)
EXTENDS AwsDiscovery, FiniteSetTheorems, TLAPS

\* A scan accounts for every item of the pairs it has listed, and an
\* execution that writes has listed all of them.
Accounts ==
  \A e \in Executions :
    /\ \A i \in Items : PairOf[i] \notin left[e] => i \in found[e] \cup gone[e]
    /\ pc[e] \in {"writing", "marking"} => left[e] = {}

\* What a marking statement can miss is its job's own or was committed later.
MarkingSees ==
  \A e \in Executions, i \in Items :
    pc[e] = "marking" /\ Absent(e, i) => i \in seen[e] \cup fresh[e]

Inv == TypeOK /\ Accounts /\ MarkingSees /\ FoundByItsJob

\* Initially every execution is idle and no row exists.
LEMMA DiscoveryInit == Init => Inv
BY DiscoveryAssumption DEF Init, Inv, TypeOK, Accounts, MarkingSees, Absent, FoundByItsJob, States, PCs, Busy

\* Every step keeps the types.
LEMMA DiscoveryTypes == TypeOK /\ [Next]_vars => TypeOK'
<1> SUFFICES ASSUME TypeOK, [Next]_vars PROVE TypeOK'
    OBVIOUS
<1> USE DiscoveryAssumption DEF TypeOK, States, PCs, Busy, rowVars, execVars
<1>1. ASSUME NEW i \in Items, WorldChanges(i) PROVE TypeOK'
      BY <1>1 DEF WorldChanges
<1>2. CASE DisableConnection
      BY <1>2 DEF DisableConnection
<1>3. ASSUME NEW j \in Jobs, PruneJob(j) PROVE TypeOK'
      BY <1>3 DEF PruneJob
<1>4. ASSUME NEW e \in Executions, Discover(e) PROVE TypeOK'
  <2>1. CASE Begin(e)
        BY <2>1 DEF Begin
  <2>2. CASE Throws(e)
        BY <2>2 DEF Throws
  <2>3. CASE Upsert(e)
        BY <2>3 DEF Upsert
  <2>4. CASE Mark(e)
        BY <2>4 DEF Mark
  <2>5. CASE Commit(e)
        BY <2>5 DEF Commit, NewState, NewJob
  <2>6. ASSUME NEW p \in Pairs, ScanPair(e, p) PROVE TypeOK'
        BY <2>6 DEF ScanPair, Listed
  <2>7. ASSUME NEW p \in Pairs, ScanExceeds(e, p) PROVE TypeOK'
        BY <2>7 DEF ScanExceeds
  <2> QED BY <1>4, <2>1, <2>2, <2>3, <2>4, <2>5, <2>6, <2>7 DEF Discover
<1>5. CASE UNCHANGED vars
      BY <1>5 DEF vars
<1> QED BY <1>1, <1>2, <1>3, <1>4, <1>5 DEF Next

\* Every step keeps the three facts about scans, marks and rows.
LEMMA DiscoveryStep == Inv /\ [Next]_vars => (Accounts /\ MarkingSees /\ FoundByItsJob)'
<1> SUFFICES ASSUME Inv, [Next]_vars PROVE (Accounts /\ MarkingSees /\ FoundByItsJob)'
    OBVIOUS
<1> USE DiscoveryAssumption DEF Inv, TypeOK, States, PCs, Busy, rowVars, execVars,
        Accounts, MarkingSees, Absent, FoundByItsJob
<1>1. ASSUME NEW i \in Items, WorldChanges(i) PROVE (Accounts /\ MarkingSees /\ FoundByItsJob)'
      BY <1>1 DEF WorldChanges
<1>2. CASE DisableConnection
      BY <1>2 DEF DisableConnection
<1>3. ASSUME NEW j \in Jobs, PruneJob(j) PROVE (Accounts /\ MarkingSees /\ FoundByItsJob)'
      BY <1>3 DEF PruneJob
<1>4. ASSUME NEW e \in Executions, Discover(e) PROVE (Accounts /\ MarkingSees /\ FoundByItsJob)'
  <2>1. CASE Begin(e)
        BY <2>1 DEF Begin
  <2>2. CASE Throws(e)
        BY <2>2 DEF Throws
  <2>3. CASE Upsert(e)
        BY <2>3 DEF Upsert, Scanned
  <2>4. CASE Mark(e)
        BY <2>4 DEF Mark
  <2>5. CASE Commit(e)
    <3>1. Accounts'
          BY <2>5 DEF Commit
    <3>2. MarkingSees'
          BY <2>5 DEF Commit, NewState, NewJob
    <3>3. FoundByItsJob'
          BY <2>5 DEF Commit, NewState, NewJob
    <3> QED BY <3>1, <3>2, <3>3
  <2>6. ASSUME NEW p \in Pairs, ScanPair(e, p) PROVE (Accounts /\ MarkingSees /\ FoundByItsJob)'
    <3>1. Accounts'
          BY <2>6 DEF ScanPair, Listed
    <3>2. MarkingSees' /\ FoundByItsJob'
          BY <2>6 DEF ScanPair
    <3> QED BY <3>1, <3>2
  <2>7. ASSUME NEW p \in Pairs, ScanExceeds(e, p) PROVE (Accounts /\ MarkingSees /\ FoundByItsJob)'
        BY <2>7 DEF ScanExceeds
  <2> QED BY <1>4, <2>1, <2>2, <2>3, <2>4, <2>5, <2>6, <2>7 DEF Discover
<1>5. CASE UNCHANGED vars
      BY <1>5 DEF vars
<1> QED BY <1>1, <1>2, <1>3, <1>4, <1>5 DEF Next

\* The invariant holds in every reachable state.
LEMMA DiscoveryInv == Spec => []Inv
<1>1. Inv /\ [Next]_vars => Inv'
      BY DiscoveryTypes, DiscoveryStep DEF Inv
<1> QED BY DiscoveryInit, <1>1, PTL DEF Spec

\* Type correctness of the inventory and of the executions.
THEOREM DiscoveryTypeCorrect == Spec => []TypeOK
<1>1. Inv => TypeOK
      BY DEF Inv
<1> QED BY DiscoveryInv, <1>1, PTL

\* An active row that names a job was found by a committed execution of that
\* job, whatever attempts were lost, repeated, overlapped or pruned.
THEOREM FoundByItsJobCorrect == Spec => []FoundByItsJob
<1>1. Inv => FoundByItsJob
      BY DEF Inv
<1> QED BY DiscoveryInv, <1>1, PTL

\* No row goes missing without a scan that looked for it: neither a partial
\* scan nor a failed one touches the inventory.
THEOREM MissingWasLookedForCorrect == Spec => MissingWasLookedFor
<1>1. Inv /\ [Next]_vars =>
        [\A e \in Executions, i \in Items :
          Commits(e) /\ state[i] = "active" /\ state'[i] = "missing" => i \in gone[e]]_vars
  <2> SUFFICES ASSUME Inv, Next, NEW e \in Executions, NEW i \in Items,
                      Commits(e), state[i] = "active", state'[i] = "missing"
               PROVE  i \in gone[e]
      OBVIOUS
  <2>1. Commit(e)
        BY DEF Next, WorldChanges, DisableConnection, PruneJob, Discover, Begin, Throws, Upsert,
               Mark, Commit, ScanPair, ScanExceeds, Commits, Inv, TypeOK, rowVars, execVars
  <2>2. left[e] = {} /\ i \notin found[e]
        BY <2>1 DEF Commit, NewState, Inv, Accounts
  <2> QED BY <2>2, DiscoveryAssumption DEF Inv, Accounts
<1> QED BY DiscoveryInv, <1>1, PTL DEF Spec, MissingWasLookedFor

\* After a commit, an active row the scan did not find carries the id of the
\* same job or was committed by an overlapping execution, and nothing else.
THEOREM ActiveAccountedCorrect == Spec => ActiveAccounted
<1>1. Inv /\ [Next]_vars =>
        [\A e \in Executions, i \in Items :
          Commits(e) /\ state'[i] = "active" /\ i \notin found[e]
          => rowJob[i] = JobOf[e] \/ i \in fresh[e]]_vars
  <2> SUFFICES ASSUME Inv, Next, NEW e \in Executions, NEW i \in Items,
                      Commits(e), state'[i] = "active", i \notin found[e]
               PROVE  rowJob[i] = JobOf[e] \/ i \in fresh[e]
      OBVIOUS
  <2>1. Commit(e)
        BY DEF Next, WorldChanges, DisableConnection, PruneJob, Discover, Begin, Throws, Upsert,
               Mark, Commit, ScanPair, ScanExceeds, Commits, Inv, TypeOK, rowVars, execVars
  <2>2. state[i] = "active" /\ ~(i \in seen[e] /\ Absent(e, i))
        BY <2>1 DEF Commit, NewState
  <2> QED BY <2>1, <2>2 DEF Commit, Absent, Inv, MarkingSees
<1> QED BY DiscoveryInv, <1>1, PTL DEF Spec, ActiveAccounted

-------------------------------------------------------------------------------
(* When the documented reconciliation holds.                               *)

\* No execution of the job of e has committed, so no row carries its id yet.
FirstOfItsJob(e) == \A f \in Executions : pc[f] = "done" => JobOf[f] # JobOf[e]

\* "Marks previously seen-but-now-absent resources as missing" is true of an
\* execution that is the first of its job to commit and was not overtaken by
\* another commit while it was marking.
ReconcilesAlone ==
  [][\A e \in Executions :
       Commits(e) /\ FirstOfItsJob(e) /\ fresh[e] = {} => Active' = found[e]]_vars

\* Scanning twice under one job and overlapping with another last transaction
\* are the only two ways in which ActiveWereFound, the documented promise, fails.
THEOREM ReconcilesAloneCorrect == Spec => ReconcilesAlone
<1>1. Inv /\ [Next]_vars =>
        [\A e \in Executions :
          Commits(e) /\ FirstOfItsJob(e) /\ fresh[e] = {} => Active' = found[e]]_vars
  <2> SUFFICES ASSUME Inv, Next, NEW e \in Executions,
                      Commits(e), FirstOfItsJob(e), fresh[e] = {}
               PROVE  Active' = found[e]
      OBVIOUS
  <2>1. Commit(e)
        BY DEF Next, WorldChanges, DisableConnection, PruneJob, Discover, Begin, Throws, Upsert,
               Mark, Commit, ScanPair, ScanExceeds, Commits, Inv, TypeOK, rowVars, execVars
  <2>2. \A i \in Items : state'[i] = NewState(e, i)
        BY <2>1 DEF Commit
  <2>3. ASSUME NEW i \in Items, state[i] = "active" PROVE rowJob[i] # JobOf[e]
    <3>1. JobOf[e] # NoJob
          BY DiscoveryAssumption
    <3> QED BY <2>3, <3>1 DEF FirstOfItsJob, Inv, FoundByItsJob
  <2>4. ASSUME NEW i \in Items, i \notin found[e] PROVE state'[i] # "active"
    <3>1. CASE state[i] = "active"
      <4>1. Absent(e, i)
            BY <2>3, <2>4, <3>1 DEF Absent
      <4>2. i \in seen[e]
            BY <2>1, <4>1 DEF Commit, Inv, MarkingSees
      <4> QED BY <2>2, <2>4, <4>1, <4>2 DEF NewState
    <3> QED BY <2>2, <2>4, <3>1 DEF NewState
  <2>5. \A i \in found[e] : i \in Items /\ state'[i] = "active"
        BY <2>2 DEF NewState, Inv, TypeOK
  <2> QED BY <2>4, <2>5 DEF Active
<1> QED BY DiscoveryInv, <1>1, PTL DEF Spec, ReconcilesAlone

-------------------------------------------------------------------------------
(* The cap.                                                                *)

\* What a scan has found is within the cap, and none of it is of a pair that it
\* has still to list.
WithinCap ==
  \A e \in Executions :
    /\ Cardinality(found[e]) <= MaxResources
    /\ \A i \in found[e] : PairOf[i] \notin left[e]

\* Items that a scan found or may list are finitely many.
LEMMA ItemsCount ==
  ASSUME NEW S \in SUBSET Items
  PROVE  IsFiniteSet(S) /\ Cardinality(S) \in Nat
BY DiscoveryAssumption, FS_Subset, FS_CardinalityType

\* The list of a pair adds all it holds to what a scan has found before.
LEMMA ListedAdds ==
  ASSUME TypeOK, WithinCap, NEW e \in Executions, NEW p \in left[e]
  PROVE  /\ Cardinality(found[e]) \in Nat /\ Cardinality(Listed(p)) \in Nat
         /\ Cardinality(found[e] \cup Listed(p)) = Cardinality(found[e]) + Cardinality(Listed(p))
<1>1. found[e] \in SUBSET Items /\ Listed(p) \in SUBSET Items
      BY DEF TypeOK, Listed
<1>2. found[e] \cap Listed(p) = {}
      BY DEF WithinCap, Listed
<1>3. /\ IsFiniteSet(found[e]) /\ Cardinality(found[e]) \in Nat
      /\ IsFiniteSet(Listed(p)) /\ Cardinality(Listed(p)) \in Nat
      BY <1>1, ItemsCount
<1>4. Cardinality(found[e] \cup Listed(p))
        = Cardinality(found[e]) + Cardinality(Listed(p)) - Cardinality({})
      BY <1>2, <1>3, FS_Union
<1> QED BY <1>3, <1>4, FS_EmptySet

\* A scan of every pair stays within what remains of the cap.
LEMMA CapStep == TypeOK /\ WithinCap /\ [Next]_vars => WithinCap'
<1> SUFFICES ASSUME TypeOK, WithinCap, [Next]_vars PROVE WithinCap'
    OBVIOUS
<1>1. CASE UNCHANGED <<found, left>>
      BY <1>1 DEF WithinCap
<1>2. ASSUME NEW e \in Executions, NEW p \in Pairs, ScanPair(e, p) PROVE WithinCap'
  <2>1. p \in left[e] /\ ~ Exceeds(e, p)
        BY <1>2 DEF ScanPair
  <2>2. Cardinality(found[e] \cup Listed(p)) <= MaxResources
        BY <2>1, ListedAdds, DiscoveryAssumption DEF Exceeds
  <2>3. \A i \in found[e] \cup Listed(p) : PairOf[i] \notin left[e] \ {p}
        BY DEF WithinCap, Listed
  <2>4. ASSUME NEW f \in Executions
        PROVE  /\ Cardinality(found'[f]) <= MaxResources
               /\ \A i \in found'[f] : PairOf[i] \notin left'[f]
    <3>1. CASE f = e
      <4>1. found'[f] = found[e] \cup Listed(p) /\ left'[f] = left[e] \ {p}
            BY <1>2, <3>1 DEF ScanPair, TypeOK
      <4> QED BY <2>2, <2>3, <4>1
    <3>2. CASE f # e
      <4>1. found'[f] = found[f] /\ left'[f] = left[f]
            BY <1>2, <3>2 DEF ScanPair, TypeOK
      <4> QED BY <4>1 DEF WithinCap
    <3> QED BY <3>1, <3>2
  <2> QED BY <2>4 DEF WithinCap
<1>3. UNCHANGED <<found, left>> \/ \E e \in Executions, p \in Pairs : ScanPair(e, p)
      BY DEF Next, WorldChanges, DisableConnection, PruneJob, Discover, Begin, Throws, Upsert,
             Mark, Commit, ScanExceeds, vars, execVars
<1> QED BY <1>1, <1>2, <1>3

\* Over all pairs together no scan above the cap is committed, and a scan is
\* refused only when what it had found and could still list reached the cap.
THEOREM CapEnforcedCorrect == Spec => CapEnforced
<1>1. Init => WithinCap
      BY DiscoveryAssumption, FS_EmptySet DEF Init, WithinCap
<1>2. TypeOK /\ WithinCap /\ [Next]_vars =>
        [\A e \in Executions :
           /\ Commits(e) => Cardinality(found[e]) <= MaxResources
           /\ pc'[e] = "exceeded" /\ pc[e] # "exceeded" =>
                Cardinality(found[e] \cup {i \in world : PairOf[i] \in left[e]})
                  >= MaxResources]_vars
  <2> SUFFICES ASSUME TypeOK, WithinCap, Next, NEW e \in Executions,
                      pc'[e] = "exceeded", pc[e] # "exceeded"
               PROVE  Cardinality(found[e] \cup {i \in world : PairOf[i] \in left[e]})
                        >= MaxResources
      BY DEF WithinCap
  <2> DEFINE all == found[e] \cup {i \in world : PairOf[i] \in left[e]}
  <2>1. PICK p \in Pairs : ScanExceeds(e, p)
    <3>1. PICK f \in Executions : Discover(f)
          BY DEF Next, WorldChanges, DisableConnection, PruneJob, rowVars, execVars
    <3>2. ~ (Begin(f) \/ Throws(f) \/ Upsert(f) \/ Mark(f) \/ Commit(f))
          BY DEF Begin, Throws, Upsert, Mark, Commit, TypeOK
    <3>3. PICK p \in Pairs : ScanPair(f, p) \/ ScanExceeds(f, p)
          BY <3>1, <3>2 DEF Discover
    <3>4. ScanExceeds(f, p) /\ f = e
          BY <3>3 DEF ScanPair, ScanExceeds, TypeOK
    <3> QED BY <3>4
  <2>2. p \in left[e] /\ Exceeds(e, p)
        BY <2>1 DEF ScanExceeds
  <2>3. all \in SUBSET Items /\ found[e] \subseteq all /\ found[e] \cup Listed(p) \subseteq all
        BY <2>2 DEF TypeOK, Listed
  <2>4. /\ IsFiniteSet(all) /\ Cardinality(all) \in Nat
        /\ Cardinality(found[e]) <= Cardinality(all)
        /\ Cardinality(found[e] \cup Listed(p)) <= Cardinality(all)
        BY <2>3, ItemsCount, FS_Subset
  <2> QED BY <2>2, <2>4, ListedAdds, DiscoveryAssumption DEF Exceeds
<1> QED BY <1>1, <1>2, CapStep, DiscoveryTypeCorrect, PTL DEF Spec, CapEnforced
===============================================================================
