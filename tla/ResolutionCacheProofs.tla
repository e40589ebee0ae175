------------------------- MODULE ResolutionCacheProofs -------------------------
(***************************************************************************)
(* What holds of ResolutionCache for any number of requests, writers, keys *)
(* and writes.                                                             *)
(***************************************************************************)
EXTENDS ResolutionCache, FiniteSetTheorems, TLAPS

LEMMA InitInvariant == Init => IInv
BY BoundAssumption DEF Init, IInv, TypeOK, GenerationsPast, WritesSeen, CurrentSeen, OlderSeen, FreshAnswers,
   Values, Entries, Remembered, Loaded

LEMMA StartsOverCurrent ==
  ASSUME NEW r \in Readers, TypeOK, CurrentSeen, StartOver(r)
  PROVE  CurrentSeen'
<1>1. /\ UNCHANGED <<value, generation, returned, unnoticed, writing, own, key, read, answer, floor>>
      /\ entries' = entries \/ entries' = [k \in Keys |-> Missing]
  BY Zenon DEF StartOver, database
<1>2. \A k \in Remembered' : k \in Remembered /\ entries'[k] = entries[k]
  BY <1>1, Zenon DEF Remembered
<1>4. \A s \in Readers : Loaded(s)' => Loaded(s)
  BY DEF StartOver, Go, Loaded, TypeOK
<1>5. ASSUME NEW k \in Remembered', entries'[k].generation = generation'
      PROVE  Seen(entries[k].found)'
  <2>1. entries[k].generation = generation /\ k \in Remembered /\ entries'[k] = entries[k]
    BY <1>1, <1>2, <1>5, Zenon
  <2>2. Seen(entries[k].found)
    BY <2>1, Zenon DEF CurrentSeen
  <2> QED BY <1>1, <2>1, <2>2, Zenon DEF Seen
<1>6. ASSUME NEW s \in Readers, Loaded(s)', read'[s] = generation'
      PROVE  Seen(answer[s])'
  <2>1. Seen(answer[s])
    BY <1>1, <1>4, <1>6, Zenon DEF CurrentSeen
  <2> QED BY <1>1, <2>1, Zenon DEF Seen
<1> QED BY <1>1, <1>5, <1>6, Zenon DEF CurrentSeen

LEMMA StepInvariant == IInv /\ [Next]_vars => IInv'
<1> SUFFICES ASSUME IInv, [Next]_vars PROVE IInv' OBVIOUS
<1> USE BoundAssumption, MissingAssumption
        DEF IInv, TypeOK, Values, Entries, Remembered, Move, Go, reading, database
<1>1. ASSUME NEW w \in Writers, Execute(w) PROVE IInv'
  <2>1. TypeOK' BY <1>1 DEF Execute, MayWrite
  <2>2. GenerationsPast' BY <1>1 DEF Execute, MayWrite, GenerationsPast
  <2>3. WritesSeen' BY <1>1 DEF Execute, MayWrite, WritesSeen
  <2>4. CurrentSeen' BY <1>1 DEF Execute, MayWrite, GenerationsPast, WritesSeen, CurrentSeen, Seen, Loaded
  <2>5. OlderSeen' BY <1>1 DEF Execute, MayWrite, GenerationsPast, WritesSeen, CurrentSeen, OlderSeen, Seen, Loaded
  <2>6. FreshAnswers' BY <1>1 DEF Execute, MayWrite, OlderSeen, FreshAnswers, Loaded
  <2> QED BY <2>1, <2>2, <2>3, <2>4, <2>5, <2>6
<1>2. ASSUME NEW w \in Writers, SaveRow(w) PROVE IInv'
  <2>1. TypeOK' BY <1>2 DEF SaveRow, MayWrite
  <2>2. GenerationsPast' BY <1>2 DEF SaveRow, MayWrite, GenerationsPast
  <2>3. WritesSeen' BY <1>2 DEF SaveRow, MayWrite, WritesSeen
  <2>4. CurrentSeen' BY <1>2 DEF SaveRow, MayWrite, GenerationsPast, WritesSeen, CurrentSeen, Seen, Loaded
  <2>5. OlderSeen' BY <1>2 DEF SaveRow, MayWrite, GenerationsPast, WritesSeen, CurrentSeen, OlderSeen, Seen, Loaded
  <2>6. FreshAnswers' BY <1>2 DEF SaveRow, MayWrite, OlderSeen, FreshAnswers, Loaded
  <2> QED BY <2>1, <2>2, <2>3, <2>4, <2>5, <2>6
<1>3. ASSUME NEW w \in Writers, Statement(w) PROVE IInv'
  <2>1. TypeOK' BY <1>3 DEF Statement, MayWrite
  <2>2. GenerationsPast' BY <1>3 DEF Statement, MayWrite, GenerationsPast
  <2>3. WritesSeen' BY <1>3 DEF Statement, MayWrite, WritesSeen
  <2>4. CurrentSeen' BY <1>3 DEF Statement, MayWrite, GenerationsPast, WritesSeen, CurrentSeen, Seen, Loaded
  <2>5. OlderSeen' BY <1>3 DEF Statement, MayWrite, GenerationsPast, WritesSeen, CurrentSeen, OlderSeen, Seen, Loaded
  <2>6. FreshAnswers' BY <1>3 DEF Statement, MayWrite, OlderSeen, FreshAnswers, Loaded
  <2> QED BY <2>1, <2>2, <2>3, <2>4, <2>5, <2>6
<1>4. ASSUME NEW w \in Writers, Commit(w) PROVE IInv'
  <2>1. TypeOK' BY <1>4 DEF Commit, WritesSeen
  <2>2. GenerationsPast' BY <1>4 DEF Commit, GenerationsPast
  <2>3. WritesSeen' BY <1>4 DEF Commit, WritesSeen
  <2>4. CurrentSeen' BY <1>4 DEF Commit, GenerationsPast, WritesSeen, CurrentSeen, Seen, Loaded
  <2>5. OlderSeen' BY <1>4 DEF Commit, GenerationsPast, WritesSeen, CurrentSeen, OlderSeen, Seen, Loaded
  <2>6. FreshAnswers' BY <1>4 DEF Commit, OlderSeen, FreshAnswers, Loaded
  <2> QED BY <2>1, <2>2, <2>3, <2>4, <2>5, <2>6
<1>5. ASSUME NEW w \in Writers, RowSaved(w) PROVE IInv'
  <2>1. TypeOK' BY <1>5 DEF RowSaved, WritesSeen
  <2>2. GenerationsPast' BY <1>5 DEF RowSaved, GenerationsPast
  <2>3. WritesSeen' BY <1>5 DEF RowSaved, WritesSeen
  <2>4. CurrentSeen' BY <1>5 DEF RowSaved, GenerationsPast, WritesSeen, CurrentSeen, Seen, Loaded
  <2>5. OlderSeen' BY <1>5 DEF RowSaved, GenerationsPast, WritesSeen, CurrentSeen, OlderSeen, Seen, Loaded
  <2>6. FreshAnswers' BY <1>5 DEF RowSaved, OlderSeen, FreshAnswers, Loaded
  <2> QED BY <2>1, <2>2, <2>3, <2>4, <2>5, <2>6
<1>6. ASSUME NEW w \in Writers, Rollback(w) PROVE IInv'
  <2>1. TypeOK' BY <1>6 DEF Rollback
  <2>2. GenerationsPast' BY <1>6 DEF Rollback, GenerationsPast
  <2>3. WritesSeen' BY <1>6 DEF Rollback, WritesSeen
  <2>4. CurrentSeen' BY <1>6 DEF Rollback, GenerationsPast, WritesSeen, CurrentSeen, Seen, Loaded
  <2>5. OlderSeen' BY <1>6 DEF Rollback, GenerationsPast, WritesSeen, CurrentSeen, OlderSeen, Seen, Loaded
  <2>6. FreshAnswers' BY <1>6 DEF Rollback, OlderSeen, FreshAnswers, Loaded
  <2> QED BY <2>1, <2>2, <2>3, <2>4, <2>5, <2>6
<1>7. ASSUME NEW w \in Writers, Count(w) PROVE IInv'
  <2>1. TypeOK' BY <1>7 DEF Count
  <2>2. GenerationsPast' BY <1>7 DEF Count, GenerationsPast
  <2>3. WritesSeen' BY <1>7 DEF Count, WritesSeen
  <2>4. CurrentSeen' BY <1>7 DEF Count, GenerationsPast, WritesSeen, CurrentSeen, Seen, Loaded
  <2>5. OlderSeen' BY <1>7 DEF Count, GenerationsPast, WritesSeen, CurrentSeen, OlderSeen, Seen, Loaded
  <2>6. FreshAnswers' BY <1>7 DEF Count, OlderSeen, FreshAnswers, Loaded
  <2> QED BY <2>1, <2>2, <2>3, <2>4, <2>5, <2>6
<1>8. ASSUME NEW r \in Readers, ReadGeneration(r) PROVE IInv'
  <2>1. TypeOK' BY <1>8 DEF ReadGeneration
  <2>2. GenerationsPast' BY <1>8 DEF ReadGeneration, GenerationsPast
  <2>3. WritesSeen' BY <1>8 DEF ReadGeneration, WritesSeen
  <2>4. CurrentSeen' BY <1>8 DEF ReadGeneration, GenerationsPast, WritesSeen, CurrentSeen, Seen, Loaded
  <2>5. OlderSeen' BY <1>8 DEF ReadGeneration, GenerationsPast, WritesSeen, CurrentSeen, OlderSeen, Seen, Loaded
  <2>6. FreshAnswers' BY <1>8 DEF ReadGeneration, OlderSeen, FreshAnswers, Loaded
  <2> QED BY <2>1, <2>2, <2>3, <2>4, <2>5, <2>6
<1>9. ASSUME NEW r \in Readers, Hit(r) PROVE IInv'
  <2>1. TypeOK' BY <1>9 DEF Hit, Known
  <2>2. GenerationsPast' BY <1>9 DEF Hit, Known, GenerationsPast
  <2>3. WritesSeen' BY <1>9 DEF Hit, Known, WritesSeen
  <2>4. CurrentSeen' BY <1>9 DEF Hit, Known, GenerationsPast, WritesSeen, CurrentSeen, Seen, Loaded
  <2>5. OlderSeen' BY <1>9 DEF Hit, Known, GenerationsPast, WritesSeen, CurrentSeen, OlderSeen, Seen, Loaded
  <2>6. FreshAnswers' BY <1>9 DEF Hit, Known, OlderSeen, FreshAnswers, Loaded
  <2> QED BY <2>1, <2>2, <2>3, <2>4, <2>5, <2>6
<1>10. ASSUME NEW r \in Readers, LoadLambda(r) PROVE IInv'
  <2>1. TypeOK' BY <1>10 DEF LoadLambda, Known
  <2>2. GenerationsPast' BY <1>10 DEF LoadLambda, Known, GenerationsPast
  <2>3. WritesSeen' BY <1>10 DEF LoadLambda, Known, WritesSeen
  <2>4. CurrentSeen' BY <1>10 DEF LoadLambda, Known, GenerationsPast, WritesSeen, CurrentSeen, Seen, Loaded
  <2>5. OlderSeen' BY <1>10 DEF LoadLambda, Known, GenerationsPast, WritesSeen, CurrentSeen, OlderSeen, Seen, Loaded
  <2>6. FreshAnswers' BY <1>10 DEF LoadLambda, Known, OlderSeen, FreshAnswers, Loaded
  <2> QED BY <2>1, <2>2, <2>3, <2>4, <2>5, <2>6
<1>11. ASSUME NEW r \in Readers, LoadDeployment(r) PROVE IInv'
  <2>1. TypeOK' BY <1>11 DEF LoadDeployment
  <2>2. GenerationsPast' BY <1>11 DEF LoadDeployment, GenerationsPast
  <2>3. WritesSeen' BY <1>11 DEF LoadDeployment, WritesSeen
  <2>4. CurrentSeen' BY <1>11 DEF LoadDeployment, GenerationsPast, WritesSeen, CurrentSeen, Seen, Loaded
  <2>5. OlderSeen' BY <1>11 DEF LoadDeployment, GenerationsPast, WritesSeen, CurrentSeen, OlderSeen, Seen, Loaded
  <2>6. FreshAnswers' BY <1>11 DEF LoadDeployment, OlderSeen, FreshAnswers, Loaded
  <2> QED BY <2>1, <2>2, <2>3, <2>4, <2>5, <2>6
<1>12. ASSUME NEW r \in Readers, NotDeployed(r) PROVE IInv'
  <2>1. TypeOK' BY <1>12 DEF NotDeployed
  <2>2. GenerationsPast' BY <1>12 DEF NotDeployed, GenerationsPast
  <2>3. WritesSeen' BY <1>12 DEF NotDeployed, WritesSeen
  <2>4. CurrentSeen' BY <1>12 DEF NotDeployed, GenerationsPast, WritesSeen, CurrentSeen, Seen, Loaded
  <2>5. OlderSeen' BY <1>12 DEF NotDeployed, GenerationsPast, WritesSeen, CurrentSeen, OlderSeen, Seen, Loaded
  <2>6. FreshAnswers' BY <1>12 DEF NotDeployed, OlderSeen, FreshAnswers, Loaded
  <2> QED BY <2>1, <2>2, <2>3, <2>4, <2>5, <2>6
<1>13. ASSUME NEW r \in Readers, LoadWorkspace(r) PROVE IInv'
  <2>1. TypeOK' BY <1>13 DEF LoadWorkspace
  <2>2. GenerationsPast' BY <1>13 DEF LoadWorkspace, GenerationsPast
  <2>3. WritesSeen' BY <1>13 DEF LoadWorkspace, WritesSeen
  <2>4. CurrentSeen' BY <1>13 DEF LoadWorkspace, GenerationsPast, WritesSeen, CurrentSeen, Seen, Loaded
  <2>5. OlderSeen' BY <1>13 DEF LoadWorkspace, GenerationsPast, WritesSeen, CurrentSeen, OlderSeen, Seen, Loaded
  <2>6. FreshAnswers' BY <1>13 DEF LoadWorkspace, OlderSeen, FreshAnswers, Loaded
  <2> QED BY <2>1, <2>2, <2>3, <2>4, <2>5, <2>6
<1>14. ASSUME NEW r \in Readers, StartOver(r) PROVE IInv'
  <2>1. TypeOK' BY <1>14 DEF StartOver
  <2>2. GenerationsPast' BY <1>14 DEF StartOver, GenerationsPast
  <2>3. WritesSeen' BY <1>14 DEF StartOver, WritesSeen
  <2>4. CurrentSeen'
    <3> HIDE DEF TypeOK, Values, Entries, Remembered, database, Go
    <3> QED BY <1>14, StartsOverCurrent DEF IInv
  <2>5. OlderSeen' BY <1>14 DEF StartOver, GenerationsPast, WritesSeen, CurrentSeen, OlderSeen, Seen, Loaded
  <2>6. FreshAnswers' BY <1>14 DEF StartOver, OlderSeen, FreshAnswers, Loaded
  <2> QED BY <2>1, <2>2, <2>3, <2>4, <2>5, <2>6
<1>15. ASSUME NEW r \in Readers, Remember(r) PROVE IInv'
  <2>1. TypeOK' BY <1>15 DEF Remember
  <2>2. GenerationsPast' BY <1>15 DEF Remember, GenerationsPast
  <2>3. WritesSeen' BY <1>15 DEF Remember, WritesSeen
  <2>4. CurrentSeen' BY <1>15 DEF Remember, GenerationsPast, WritesSeen, CurrentSeen, Seen, Loaded
  <2>5. OlderSeen' BY <1>15 DEF Remember, GenerationsPast, WritesSeen, CurrentSeen, OlderSeen, Seen, Loaded
  <2>6. FreshAnswers' BY <1>15 DEF Remember, OlderSeen, FreshAnswers, Loaded
  <2> QED BY <2>1, <2>2, <2>3, <2>4, <2>5, <2>6
<1>16. ASSUME NEW r \in Readers, Answered(r) PROVE IInv'
  <2>1. TypeOK' BY <1>16 DEF Answered
  <2>2. GenerationsPast' BY <1>16 DEF Answered, GenerationsPast
  <2>3. WritesSeen' BY <1>16 DEF Answered, WritesSeen
  <2>4. CurrentSeen' BY <1>16 DEF Answered, GenerationsPast, WritesSeen, CurrentSeen, Seen, Loaded
  <2>5. OlderSeen' BY <1>16 DEF Answered, GenerationsPast, WritesSeen, CurrentSeen, OlderSeen, Seen, Loaded
  <2>6. FreshAnswers' BY <1>16 DEF Answered, OlderSeen, FreshAnswers, Loaded
  <2> QED BY <2>1, <2>2, <2>3, <2>4, <2>5, <2>6
<1>17. ASSUME NEW r \in Readers, NEW k \in Keys, Begin(r, k) PROVE IInv'
  <2>1. TypeOK' BY <1>17 DEF Begin
  <2>2. GenerationsPast' BY <1>17 DEF Begin, GenerationsPast
  <2>3. WritesSeen' BY <1>17 DEF Begin, WritesSeen
  <2>4. CurrentSeen' BY <1>17 DEF Begin, GenerationsPast, WritesSeen, CurrentSeen, Seen, Loaded
  <2>5. OlderSeen' BY <1>17 DEF Begin, GenerationsPast, WritesSeen, CurrentSeen, OlderSeen, Seen, Loaded
  <2>6. FreshAnswers' BY <1>17 DEF Begin, OlderSeen, FreshAnswers, Loaded
  <2> QED BY <2>1, <2>2, <2>3, <2>4, <2>5, <2>6
<1>18. CASE UNCHANGED vars
  BY <1>18 DEF vars, GenerationsPast, WritesSeen, CurrentSeen, OlderSeen, FreshAnswers, Seen, Loaded
<1> HIDE DEF IInv
<1> QED BY <1>1, <1>2, <1>3, <1>4, <1>5, <1>6, <1>7, <1>8, <1>9, <1>10, <1>11, <1>12, <1>13, <1>14, <1>15, <1>16, <1>17, <1>18
  DEF Next, WriterNext, ReaderNext

(* The invariant behind what follows holds however many requests read and  *)
(* calls write at once (ResolutionCache.Resolve).                          *)
THEOREM Invariant == Spec => []IInv
BY InitInvariant, StepInvariant, PTL DEF Spec

(* No request is answered from before a write that had been counted,       *)
(* visible, when it came in (ResolutionCache, DatabaseChanges).            *)
THEOREM AlwaysFresh == Spec => []FreshAnswers
<1>1. IInv => FreshAnswers BY DEF IInv
<1> QED BY <1>1, Invariant, PTL

(* Once every write is through, what is remembered as current lacks no     *)
(* write but saves of single rows (DatabaseChanges).                       *)
THEOREM CurrentInTheEnd == Spec => []CurrentWhenQuiet
<1>1. IInv => CurrentWhenQuiet
  BY DEF IInv, CurrentSeen, Seen, CurrentWhenQuiet
<1> QED BY <1>1, Invariant, PTL

-------------------------------------------------------------------------------
(* Nothing is remembered yet, and nobody adds anything.                    *)
LEMMA RoomInit == Init => RoomKept
<1> SUFFICES ASSUME Init PROVE RoomKept OBVIOUS
<1>1. Remembered = {} /\ Adding = {}
  BY DEF Init, Remembered, Adding
<1>2. Cardinality(Readers) \in Nat
  BY ReaderAssumption, FS_CardinalityType
<1> QED BY <1>1, <1>2, FS_EmptySet, BoundAssumption DEF RoomKept

(* Whoever adds is one of the requests.                                    *)
LEMMA AddingFinite ==
  ASSUME NEW S \in SUBSET Readers
  PROVE  IsFiniteSet(S) /\ Cardinality(S) \in Nat /\ Cardinality(S) <= Cardinality(Readers)
         /\ Cardinality(Readers) \in Nat
BY ReaderAssumption, FS_Subset, FS_CardinalityType

(* Only past the check there is somebody more to add something, and adding *)
(* is one entry for one request less.                                      *)
LEMMA RoomStep == TypeOK /\ RoomKept /\ [Next]_vars => RoomKept'
<1> SUFFICES ASSUME TypeOK, RoomKept, [Next]_vars PROVE RoomKept' OBVIOUS
<1>1. Adding \in SUBSET Readers /\ Adding' \in SUBSET Readers
  BY DEF Adding
<1>2. /\ IsFiniteSet(Adding) /\ Cardinality(Adding) \in Nat /\ Cardinality(Readers) \in Nat
      /\ Cardinality(Adding') \in Nat /\ Cardinality(Adding') <= Cardinality(Readers)
      /\ Cardinality(Remembered) \in Nat
  BY <1>1, AddingFinite, FS_CardinalityType DEF RoomKept
<1>3. ASSUME NEW w \in Writers, WriterNext(w) PROVE RoomKept'
  <2>1. Adding' = Adding /\ Remembered' = Remembered
    BY <1>3, Zenon DEF WriterNext, Execute, SaveRow, RowSaved, Rollback, Commit, Statement, Count, Adding, Remembered, reading
  <2> QED BY <2>1 DEF RoomKept
<1>4. ASSUME NEW r \in Readers, ReaderNext(r) PROVE RoomKept'
  <2>1. CASE StartOver(r)
    <3>1. entries' = entries \/ entries' = [k \in Keys |-> Missing]
      BY <2>1, Zenon DEF StartOver
    <3>2. CASE Cardinality(Remembered) >= MostEntries
      <4>1. Remembered' = {}
        BY <2>1, <3>2 DEF StartOver, Remembered
      <4> QED BY <1>2, <4>1, FS_EmptySet, BoundAssumption DEF RoomKept
    <3>3. CASE ~(Cardinality(Remembered) >= MostEntries)
      <4>1. Remembered' = Remembered
        BY <2>1, <3>3 DEF StartOver, Remembered
      <4> QED BY <1>2, <3>3, <4>1, BoundAssumption DEF RoomKept
    <3> QED BY <3>2, <3>3
  <2>2. CASE Remember(r)
    <3>1. Adding' = Adding \ {r} /\ r \in Adding
      BY <2>2 DEF Remember, Adding, Go, TypeOK
    <3>2. Remembered' \in SUBSET (Remembered \union {key[r]})
      BY <2>2 DEF Remember, Remembered, TypeOK
    <3>3. Cardinality(Adding') = Cardinality(Adding) - 1
      BY <1>2, <3>1, FS_RemoveElement
    <3>4. /\ IsFiniteSet(Remembered \union {key[r]})
          /\ Cardinality(Remembered \union {key[r]}) <= Cardinality(Remembered) + 1
          /\ Cardinality(Remembered \union {key[r]}) \in Nat
      BY <1>2, FS_AddElement, FS_CardinalityType DEF RoomKept
    <3>5. /\ IsFiniteSet(Remembered') /\ Cardinality(Remembered') \in Nat
          /\ Cardinality(Remembered') <= Cardinality(Remembered) + 1
      BY <1>2, <3>2, <3>4, FS_Subset, FS_CardinalityType
    <3> QED BY <1>2, <3>3, <3>5, BoundAssumption DEF RoomKept
  <2>3. CASE ~StartOver(r) /\ ~Remember(r)
    <3>1. UNCHANGED entries /\ \A s \in Readers : pc'[s] = "store" <=> pc[s] = "store"
      <4>1. ASSUME NEW from, NEW to, Go(r, from, to), from # "store", to # "store"
            PROVE  \A s \in Readers : pc'[s] = "store" <=> pc[s] = "store"
        BY <4>1 DEF Go, TypeOK
      <4>2. UNCHANGED entries
        BY <1>4, <2>3 DEF ReaderNext, Begin, ReadGeneration, Hit, LoadLambda, LoadDeployment,
               NotDeployed, LoadWorkspace, Answered
      <4> QED BY <1>4, <2>3, <4>1, <4>2
              DEF ReaderNext, Begin, ReadGeneration, Hit, LoadLambda, LoadDeployment,
               NotDeployed, LoadWorkspace, Answered
    <3>2. Adding' = Adding /\ Remembered' = Remembered
      BY <3>1 DEF Adding, Remembered
    <3> QED BY <3>2 DEF RoomKept
  <2> QED BY <2>1, <2>2, <2>3
<1>5. CASE UNCHANGED vars
  <2>1. Adding' = Adding /\ Remembered' = Remembered
    BY <1>5 DEF vars, Adding, Remembered
  <2> QED BY <2>1 DEF RoomKept
<1> QED BY <1>3, <1>4, <1>5 DEF Next

(* However many requests pass the check of the limit together, they are    *)
(* all that the memory goes past it (ResolutionCache.Remember).            *)
THEOREM MemoryBounded == Spec => []EntriesBounded
<1>1. RoomKept => EntriesBounded
  <2> SUFFICES ASSUME RoomKept PROVE EntriesBounded OBVIOUS
  <2>1. Cardinality(Adding) \in Nat /\ Cardinality(Readers) \in Nat /\ Cardinality(Remembered) \in Nat
    BY AddingFinite, FS_CardinalityType DEF Adding, RoomKept
  <2> QED BY <2>1, BoundAssumption DEF RoomKept, EntriesBounded
<1>2. IInv => TypeOK
  BY DEF IInv
<1> QED BY <1>1, <1>2, RoomInit, RoomStep, Invariant, PTL DEF Spec
===============================================================================
