-------------------------- MODULE MetaServiceProofs --------------------------
(***************************************************************************)
(* What holds of MetaService for any number of calls, sweeps and features, *)
(* any limit and any bounds.                                               *)
(***************************************************************************)
EXTENDS MetaService, FiniteSetTheorems, TLAPS

(* Ending stretches keeps them stretches.                                  *)
LEMMA ClosedType ==
  ASSUME TypeOK, NEW ids
  PROVE  Closed(ids) \subseteq [id : Ids, version : Versions, ended : BOOLEAN]
<1>1. ASSUME NEW s \in stretches
      PROVE  [s EXCEPT !.ended = s.ended \/ s.id \in ids] \in [id : Ids, version : Versions, ended : BOOLEAN]
  <2>1. s \in [id : Ids, version : Versions, ended : BOOLEAN]
    BY DEF TypeOK
  <2>2. (s.ended \/ s.id \in ids) \in BOOLEAN
    OBVIOUS
  <2> QED BY <2>1, <2>2
<1> QED BY <1>1 DEF Closed

LEMMA TypeInit == Init => TypeOK
<1> SUFFICES ASSUME Init PROVE TypeOK OBVIOUS
<1>1. forgot \in BOOLEAN /\ torn \subseteq Versions
  BY DEF Init
<1>2. mishaps = 0 /\ MaxMishaps \in Nat
  BY BoundAssumption DEF Init
<1>3. mishaps \in 0 .. MaxMishaps
  BY <1>2
<1> QED BY <1>1, <1>3, BoundAssumption DEF Init, TypeOK, NoBases, PCs, None

(* Where a call ends, what it remembered is of the right kind.             *)
LEMMA EndType ==
  ASSUME TypeOK, NEW p \in Procs, End(p)
  PROVE  /\ pc' \in [Procs -> PCs]
         /\ turn' \in Procs \union {Nobody}
         /\ was' \in [Procs -> Versions \union {None}]
         /\ target' \in [Procs -> Versions \union {None}]
         /\ number' \in [Procs -> Versions \union {None}]
         /\ drop' \in [Procs -> SUBSET Versions]
         /\ open' \in [Procs -> SUBSET Ids]
         /\ \A q \in Procs :
              /\ pc'[q] = "append" => number'[q] # None
              /\ pc'[q] \in {"compile", "compiled", "record"} => target'[q] # None
BY DEF TypeOK, End, PCs

LEMMA OfflineType ==
  ASSUME TypeOK, NEW p \in Procs, TakeOffline(p)
  PROVE  TypeOK'
<1>1. forgot' \in BOOLEAN /\ active' \in Versions \union {None}
      /\ stretches' \subseteq [id : Ids, version : Versions, ended : BOOLEAN]
  <2>1. CASE UNCHANGED <<active, stretches, forgot>>
    BY <2>1 DEF TypeOK
  <2>2. CASE active' = None /\ stretches' = Closed(open[p]) /\ forgot' = FALSE
    BY <2>2, ClosedType
  <2> QED BY <2>1, <2>2, Zenon DEF TakeOffline
<1>2. End(p) /\ UNCHANGED <<life, rows, files, spells, bases, idle, mishaps, torn>>
  BY Zenon DEF TakeOffline
<1> QED BY <1>1, <1>2, EndType DEF TypeOK

LEMMA TypeSave ==
  ASSUME TypeOK, NEW o \in Owners,
         \/ Insert(o) \/ SeedCode(o) \/ SeedRow(o)
         \/ Expect(o) \/ LockSave(o) \/ Conflict(o) \/ SaveStep(o)
  PROVE  TypeOK'
<1> USE BoundAssumption DEF TypeOK, Procs, Versions, None, data, mine, past
<1>1. CASE Insert(o)      BY <1>1 DEF Insert, Go, PCs
<1>2. CASE SeedCode(o)    BY <1>2 DEF SeedCode, Go, PCs
<1>3. CASE SeedRow(o)     BY <1>3 DEF SeedRow, Go, PCs
<1>4. CASE Expect(o)      BY <1>4 DEF Expect, Go, PCs
<1>5. CASE LockSave(o)    BY <1>5 DEF LockSave, Take, PCs, InTurn
<1>6. CASE Conflict(o)    BY <1>6, EndType DEF Conflict
<1>7. CASE WriteCode(o)   BY <1>7 DEF WriteCode, Go, PCs, InTurn
<1>8. CASE SaveRefused(o) BY <1>8, EndType DEF SaveRefused
<1>9. CASE AppendRow(o)
  <2>1. number[o] \in Versions BY <1>9 DEF AppendRow, Go
  <2> QED BY <1>9, <2>1 DEF AppendRow, Go, PCs, InTurn
<1>10. CASE AppendFails(o) BY <1>10, EndType DEF AppendFails
<1>11. CASE FindObsolete(o)
  <2>1. Obsolete(was[o]) \subseteq Versions BY DEF Obsolete, Prunable
  <2> QED BY <1>11, <2>1 DEF FindObsolete, Go, PCs, InTurn
<1>12. CASE NothingObsolete(o) BY <1>12, EndType DEF NothingObsolete
<1>13. CASE DeleteFiles(o) BY <1>13 DEF DeleteFiles, Go, PCs, InTurn
<1>14. CASE DropRows(o) BY <1>14, EndType DEF DropRows
<1> QED BY <1>1, <1>2, <1>3, <1>4, <1>5, <1>6, <1>7, <1>8, <1>9, <1>10,
           <1>11, <1>12, <1>13, <1>14 DEF SaveStep

LEMMA TypeDeploy ==
  ASSUME TypeOK, NEW o \in Owners,
         \/ StartDeploy(o) \/ DeployStep(o) \/ LockUndeploy(o) \/ Undeploy(o)
  PROVE  TypeOK'
<1> USE BoundAssumption DEF TypeOK, Procs, Versions, None, data, mine, past
<1>1. CASE StartDeploy(o)      BY <1>1 DEF StartDeploy, Go, PCs
<1>2. CASE Compiled(o)         BY <1>2 DEF Compiled, Go, PCs
<1>3. CASE Rejected(o)         BY <1>3, EndType DEF Rejected
<1>4. CASE LockActivated(o)
  <2>1. OpenIds \subseteq Ids BY DEF OpenIds
  <2> QED BY <1>4, <2>1 DEF LockActivated, Take, Go, PCs, InTurn
<1>5. CASE NotThereAnymore(o)  BY <1>5, EndType DEF NotThereAnymore
<1>6. CASE Record(o)
  <2>1. target[o] \in Versions BY <1>6 DEF Record, Go
  <2>2. spells + 1 \in Ids BY <1>6 DEF Record, Ids
  <2>3. stretches' \subseteq [id : Ids, version : Versions, ended : BOOLEAN]
    <3>1. Closed(open[o]) \subseteq [id : Ids, version : Versions, ended : BOOLEAN]
      BY ClosedType
    <3>2. [id |-> spells + 1, version |-> target[o], ended |-> FALSE]
            \in [id : Ids, version : Versions, ended : BOOLEAN]
      BY <2>1, <2>2
    <3> QED BY <1>6, <3>1, <3>2 DEF Record
  <2>4. active' \in Versions \union {None} /\ spells' \in Ids \union {0}
    BY <1>6, <2>1, <2>2 DEF Record
  <2>5. /\ pc' \in [Procs -> PCs]
        /\ \A q \in Procs : pc'[q] \in {"append", "compile", "compiled", "record"} => pc'[q] = pc[q]
    BY <1>6 DEF Record, Go, PCs, InTurn
  <2> QED BY <1>6, <2>3, <2>4, <2>5 DEF Record
<1>7. CASE RecordFails(o)      BY <1>7, EndType DEF RecordFails
<1>8. CASE PruneActivations(o) BY <1>8, EndType DEF PruneActivations
<1>9. CASE LockUndeploy(o)
  <2>1. OpenIds \subseteq Ids BY DEF OpenIds
  <2> QED BY <1>9, <2>1 DEF LockUndeploy, Take, Go, PCs, InTurn
<1>10. CASE Undeploy(o)
  BY <1>10, OfflineType DEF Undeploy
<1> QED BY <1>1, <1>2, <1>3, <1>4, <1>5, <1>6, <1>7, <1>8, <1>9, <1>10 DEF DeployStep

LEMMA TypeRest ==
  ASSUME TypeOK,
         \/ \E o \in Owners :
              Delete(o) \/ DraftFeature(o) \/ MoveBase(o) \/ BaseFeature(o) \/ BaseFails(o)
         \/ \E s \in Sweepers : SweeperNext(s)
         \/ \E p \in Procs : RemovalStep(p)
         \/ \E f \in Features : RemoveFeature(f)
         \/ \E p \in Procs : Fails(p)
         \/ Quieten \/ Visit \/ Crash \/ UNCHANGED vars
  PROVE  TypeOK'
<1> USE BoundAssumption DEF TypeOK, Procs, Versions, None, data, mine, past
<1>1. ASSUME NEW o \in Owners, Delete(o) PROVE TypeOK'
  BY <1>1 DEF Delete, Go, PCs
<1>2. ASSUME NEW o \in Owners, DraftFeature(o) PROVE TypeOK'
  BY <1>2 DEF DraftFeature, Go, PCs
<1>3. ASSUME NEW o \in Owners, MoveBase(o) PROVE TypeOK'
  BY <1>3 DEF MoveBase, Go, PCs
<1>4. ASSUME NEW o \in Owners, BaseFeature(o) PROVE TypeOK'
  BY <1>4, EndType DEF BaseFeature
<1>5. ASSUME NEW o \in Owners, BaseFails(o) PROVE TypeOK'
  BY <1>5, EndType DEF BaseFails
<1>6. ASSUME NEW s \in Sweepers, SweeperNext(s) PROVE TypeOK'
  <2>1. CASE SweepExpired(s) BY <2>1 DEF SweepExpired, Go, PCs
  <2>2. CASE SweepRunning(s) BY <2>2 DEF SweepRunning, Go, PCs
  <2>3. CASE SweepClose(s)
    <3>1. OpenIds \subseteq Ids BY DEF OpenIds
    <3> QED BY <2>3, <3>1 DEF SweepClose, Go, PCs
  <2>4. CASE SweepCommit(s)
    BY <2>4, OfflineType DEF SweepCommit
  <2> QED BY <1>6, <2>1, <2>2, <2>3, <2>4 DEF SweeperNext
<1>7. ASSUME NEW p \in Procs, RemovalStep(p) PROVE TypeOK'
  <2>1. CASE RemoveDependents(p) BY <2>1 DEF RemoveDependents, NoBases, Go, PCs
  <2>2. CASE RemoveRow(p)        BY <2>2 DEF RemoveRow, NoBases, Go, PCs
  <2>3. CASE AlreadyRemoved(p)   BY <2>3, EndType DEF AlreadyRemoved
  <2>4. CASE EraseFiles(p)       BY <2>4, EndType DEF EraseFiles
  <2> QED BY <1>7, <2>1, <2>2, <2>3, <2>4 DEF RemovalStep
<1>8. ASSUME NEW f \in Features, RemoveFeature(f) PROVE TypeOK'
  BY <1>8 DEF RemoveFeature
<1>9. CASE Quieten BY <1>9 DEF Quieten
<1>10. CASE Visit BY <1>10 DEF Visit
<1>11. CASE Crash BY <1>11 DEF Crash, PCs
<1>12. CASE UNCHANGED vars BY <1>12 DEF vars
<1>13. ASSUME NEW p \in Procs, Fails(p) PROVE TypeOK'
  BY <1>13, EndType DEF Fails
<1> QED BY <1>1, <1>2, <1>3, <1>4, <1>5, <1>6, <1>7, <1>8, <1>9, <1>10, <1>11, <1>12, <1>13

LEMMA TypeStep == TypeOK /\ [Next]_vars => TypeOK'
BY TypeSave, TypeDeploy, TypeRest DEF Next, OwnerNext

(* Every variable keeps its type (all of Services/Meta).                   *)
THEOREM TypeCorrect == Spec => []TypeOK
BY TypeInit, TypeStep, PTL DEF Spec

-------------------------------------------------------------------------------
(* The inductive invariant: all of IInv but the types.                     *)
Parts ==
  /\ TurnIsHeld /\ SeededAlone /\ GoneIsEmpty /\ PruningSpares
  /\ CompiledHasCode /\ OnlineVersionKept
  /\ NewestLeads /\ NewestHasCode /\ NothingUndone

(* What a save finds obsolete is there, is not online as far as the save   *)
(* knows, and is not the newest, the tier keeping at least one version.    *)
LEMMA ObsoleteSpares ==
  ASSUME TypeOK, NEW online
  PROVE  /\ online \notin Obsolete(online)
         /\ Obsolete(online) \subseteq rows
         /\ \A v \in Obsolete(online) : ~IsNewest(v, rows)
<1>1. online \notin Obsolete(online) /\ Obsolete(online) \subseteq rows
  BY DEF Obsolete, Prunable
<1>2. ASSUME NEW v \in Obsolete(online) PROVE ~IsNewest(v, rows)
  <2> DEFINE above == {w \in Prunable(online) : w > v}
  <2>1. Cardinality(above) >= Limit BY <1>2 DEF Obsolete
  <2>2. above # {} BY <2>1, LimitAssumption, FS_EmptySet
  <2>3. PICK w \in rows : w > v BY <2>2 DEF Prunable
  <2>4. rows \subseteq Nat BY BoundAssumption DEF TypeOK, Versions
  <2>5. v \in Nat /\ w \in Nat BY <1>1, <2>3, <2>4
  <2> QED BY <2>3, <2>5 DEF IsNewest
<1> QED BY <1>1, <1>2

LEMMA PartsInit == Init => Parts
BY DEF Init, Parts, TurnIsHeld, SeededAlone, GoneIsEmpty, PruningSpares,
       CompiledHasCode, OnlineVersionKept, NewestLeads, NewestHasCode,
       NothingUndone, InTurn, None

(* Creating a lambda.                                                      *)
LEMMA CreatingKeeps ==
  ASSUME IInv, TypeOK', NEW o \in Owners,
         \/ Insert(o) \/ SeedCode(o) \/ SeedRow(o)
  PROVE  Parts'
<1> USE ProcessAssumption, BoundAssumption
    DEF IInv, Parts, TypeOK, TurnIsHeld, SeededAlone, GoneIsEmpty, PruningSpares,
        CompiledHasCode, OnlineVersionKept, NewestLeads, NewestHasCode, NothingUndone,
        Versions, None, InTurn, Procs, IsNewest, IsNext, data, mine, past
<1>1. CASE Insert(o) BY <1>1 DEF Insert, Go
<1>2. CASE SeedCode(o) BY <1>2 DEF SeedCode, Go
<1>3. CASE SeedRow(o) BY <1>3 DEF SeedRow, Go
<1> QED BY <1>1, <1>2, <1>3

(* Saving a version, and pruning those before it.                          *)
LEMMA SavingKeeps ==
  ASSUME IInv, TypeOK', NEW o \in Owners,
         \/ Expect(o) \/ LockSave(o) \/ Conflict(o) \/ WriteCode(o)
         \/ SaveRefused(o) \/ AppendRow(o) \/ AppendFails(o) \/ FindObsolete(o)
         \/ NothingObsolete(o) \/ DeleteFiles(o) \/ DropRows(o)
  PROVE  Parts'
<1> USE ProcessAssumption, BoundAssumption
    DEF IInv, Parts, TypeOK, TurnIsHeld, SeededAlone, GoneIsEmpty, PruningSpares,
        CompiledHasCode, OnlineVersionKept, NewestLeads, NewestHasCode, NothingUndone,
        Versions, None, InTurn, Procs, IsNewest, IsNext, data, mine, past
<1>1. CASE Expect(o) BY <1>1 DEF Expect, Go
<1>2. CASE LockSave(o) BY <1>2 DEF LockSave, Take
<1>3. CASE Conflict(o) BY <1>3 DEF Conflict, End
<1>4. CASE WriteCode(o) BY <1>4 DEF WriteCode, Go
<1>5. CASE SaveRefused(o) BY <1>5 DEF SaveRefused, End
<1>6. CASE AppendRow(o) BY <1>6 DEF AppendRow, Go
<1>7. CASE AppendFails(o) BY <1>7 DEF AppendFails, End
<1>8. CASE FindObsolete(o)
  <2>1. /\ was[o] \notin Obsolete(was[o]) /\ Obsolete(was[o]) \subseteq rows
        /\ \A v \in Obsolete(was[o]) : ~IsNewest(v, rows)
    BY ObsoleteSpares
  <2> HIDE DEF IsNewest
  <2> QED BY <1>8, <2>1 DEF FindObsolete, Go
<1>9. CASE NothingObsolete(o) BY <1>9 DEF NothingObsolete, End
<1>10. CASE DeleteFiles(o) BY <1>10 DEF DeleteFiles, Go
<1>11. CASE DropRows(o) BY <1>11 DEF DropRows, End
<1> QED BY <1>1, <1>2, <1>3, <1>4, <1>5, <1>6, <1>7, <1>8, <1>9, <1>10, <1>11

(* Going online, and offline again.                                        *)
LEMMA DeployingKeeps ==
  ASSUME IInv, TypeOK', NEW o \in Owners,
         \/ StartDeploy(o) \/ Compiled(o) \/ Rejected(o) \/ LockActivated(o)
         \/ NotThereAnymore(o) \/ Record(o) \/ RecordFails(o) \/ PruneActivations(o)
         \/ LockUndeploy(o) \/ Undeploy(o)
  PROVE  Parts'
<1> USE ProcessAssumption, BoundAssumption
    DEF IInv, Parts, TypeOK, TurnIsHeld, SeededAlone, GoneIsEmpty, PruningSpares,
        CompiledHasCode, OnlineVersionKept, NewestLeads, NewestHasCode, NothingUndone,
        Versions, None, InTurn, Procs, IsNewest, IsNext, data, mine, past
<1>1. CASE StartDeploy(o) BY <1>1 DEF StartDeploy, Go
<1>2. CASE Compiled(o) BY <1>2 DEF Compiled, Go
<1>3. CASE Rejected(o) BY <1>3 DEF Rejected, End
<1>4. CASE LockActivated(o) BY <1>4 DEF LockActivated, Go, Take
<1>5. CASE NotThereAnymore(o) BY <1>5 DEF NotThereAnymore, End
<1>6. CASE Record(o) BY <1>6 DEF Record, Go
<1>7. CASE RecordFails(o) BY <1>7 DEF RecordFails, End
<1>8. CASE PruneActivations(o) BY <1>8 DEF PruneActivations, End
<1>9. CASE LockUndeploy(o) BY <1>9 DEF LockUndeploy, Go, Take
<1>10. CASE Undeploy(o) BY <1>10 DEF Undeploy, End, TakeOffline
<1> QED BY <1>1, <1>2, <1>3, <1>4, <1>5, <1>6, <1>7, <1>8, <1>9, <1>10

(* Asking for a removal, and basing features on versions.                  *)
LEMMA BasingKeeps ==
  ASSUME IInv, TypeOK', NEW o \in Owners,
         \/ Delete(o) \/ DraftFeature(o) \/ MoveBase(o) \/ BaseFeature(o)
         \/ BaseFails(o)
  PROVE  Parts'
<1> USE ProcessAssumption, BoundAssumption
    DEF IInv, Parts, TypeOK, TurnIsHeld, SeededAlone, GoneIsEmpty, PruningSpares,
        CompiledHasCode, OnlineVersionKept, NewestLeads, NewestHasCode, NothingUndone,
        Versions, None, InTurn, Procs, IsNewest, IsNext, data, mine, past
<1>1. CASE Delete(o) BY <1>1 DEF Delete, Go
<1>2. CASE DraftFeature(o) BY <1>2 DEF DraftFeature, Go
<1>3. CASE MoveBase(o) BY <1>3 DEF MoveBase, Go
<1>4. CASE BaseFeature(o) BY <1>4 DEF BaseFeature, End
<1>5. CASE BaseFails(o) BY <1>5 DEF BaseFails, End
<1> QED BY <1>1, <1>2, <1>3, <1>4, <1>5

(* The sweep.                                                              *)
LEMMA SweepingKeeps ==
  ASSUME IInv, TypeOK', NEW s \in Sweepers,
         \/ SweepExpired(s) \/ SweepRunning(s) \/ SweepClose(s) \/ SweepCommit(s)
  PROVE  Parts'
<1> USE ProcessAssumption, BoundAssumption
    DEF IInv, Parts, TypeOK, TurnIsHeld, SeededAlone, GoneIsEmpty, PruningSpares,
        CompiledHasCode, OnlineVersionKept, NewestLeads, NewestHasCode, NothingUndone,
        Versions, None, InTurn, Procs, IsNewest, IsNext, data, mine, past
<1>1. CASE SweepExpired(s) BY <1>1 DEF SweepExpired, Go
<1>2. CASE SweepRunning(s) BY <1>2 DEF SweepRunning, Go
<1>3. CASE SweepClose(s) BY <1>3 DEF SweepClose, Go
<1>4. CASE SweepCommit(s) BY <1>4 DEF SweepCommit, End, TakeOffline
<1> QED BY <1>1, <1>2, <1>3, <1>4

(* Removing the lambda.                                                    *)
LEMMA RemovingKeeps ==
  ASSUME IInv, TypeOK', NEW p \in Procs,
         \/ RemoveDependents(p) \/ RemoveRow(p) \/ AlreadyRemoved(p) \/ EraseFiles(p)
  PROVE  Parts'
<1> USE ProcessAssumption, BoundAssumption
    DEF IInv, Parts, TypeOK, TurnIsHeld, SeededAlone, GoneIsEmpty, PruningSpares,
        CompiledHasCode, OnlineVersionKept, NewestLeads, NewestHasCode, NothingUndone,
        Versions, None, InTurn, Procs, IsNewest, IsNext, data, mine, past
<1>1. CASE RemoveDependents(p) BY <1>1 DEF RemoveDependents, Go
<1>2. CASE RemoveRow(p) BY <1>2 DEF RemoveRow, Go
<1>3. CASE AlreadyRemoved(p) BY <1>3 DEF AlreadyRemoved, End
<1>4. CASE EraseFiles(p) BY <1>4 DEF EraseFiles, End
<1> QED BY <1>1, <1>2, <1>3, <1>4

(* Time, visitors, features that go, calls that fail, and the death of the *)
(* process.                                                                *)
LEMMA TimeKeeps ==
  ASSUME IInv, TypeOK',
         \/ (\E f \in Features : RemoveFeature(f)) \/ (\E p \in Procs : Fails(p))
         \/ Quieten \/ Visit \/ Crash \/ UNCHANGED vars
  PROVE  Parts'
<1> USE ProcessAssumption, BoundAssumption
    DEF IInv, Parts, TypeOK, TurnIsHeld, SeededAlone, GoneIsEmpty, PruningSpares,
        CompiledHasCode, OnlineVersionKept, NewestLeads, NewestHasCode, NothingUndone,
        Versions, None, InTurn, Procs, IsNewest, IsNext, data, mine, past
<1>1. ASSUME NEW f \in Features, RemoveFeature(f) PROVE Parts' BY <1>1 DEF RemoveFeature
<1>2. CASE Quieten BY <1>2 DEF Quieten
<1>3. CASE Visit BY <1>3 DEF Visit
<1>4. CASE Crash BY <1>4 DEF Crash
<1>5. CASE UNCHANGED vars BY <1>5 DEF vars
<1>6. ASSUME NEW p \in Procs, Fails(p) PROVE Parts'
  BY <1>6 DEF Fails, End
<1> QED BY <1>1, <1>2, <1>3, <1>4, <1>5, <1>6

LEMMA InductiveStep == IInv /\ [Next]_vars => IInv'
<1> SUFFICES ASSUME IInv, [Next]_vars PROVE IInv'
  OBVIOUS
<1>1. TypeOK' BY TypeStep DEF IInv
<1>2. Parts'
  BY <1>1, CreatingKeeps, SavingKeeps, DeployingKeeps, BasingKeeps, SweepingKeeps,
     RemovingKeeps, TimeKeeps
  DEF Next, OwnerNext, SaveStep, DeployStep, SweeperNext, RemovalStep
<1> QED BY <1>1, <1>2 DEF IInv, Parts

LEMMA Invariance == Spec => []IInv
<1>1. Init => IInv BY TypeInit, PartsInit DEF IInv, Parts
<1> QED BY <1>1, InductiveStep, PTL DEF Spec

(* The version being served always has its row, and its code unless a save *)
(* failed between deleting it and its row (LambdaHistory.Prune,            *)
(* MetaService.Activated).                                                 *)
THEOREM OnlineStaysKept == Spec => []OnlineVersionKept
<1>1. IInv => OnlineVersionKept BY DEF IInv
<1> QED BY <1>1, Invariance, PTL

(* The newest version can always be read back (LambdaHistory.Append).      *)
THEOREM NewestStaysReadable == Spec => []NewestHasCode
<1>1. IInv => NewestHasCode BY DEF IInv
<1> QED BY <1>1, Invariance, PTL

(* A conditional save comes right after what it was meant to follow        *)
(* (MetaService.Save).                                                     *)
THEOREM NoSaveIsUndone == Spec => []NothingUndone
<1>1. IInv => NothingUndone BY DEF IInv
<1> QED BY <1>1, Invariance, PTL

-------------------------------------------------------------------------------
(* The refinement: what a step of the lambda is to its store of versions.     *)
StoreVars == <<IF life = "seeding" THEN "there" ELSE life, rows, active>>

LEMMA StoreInit == Init => Store!Init
BY DEF Init, Store!Init, None, Store!None

(* A step that changes none of the three is a stutter of the store.        *)
LEMMA StoreStutters ==
  ASSUME UNCHANGED <<life, rows, active>>
  PROVE  UNCHANGED StoreVars
BY DEF StoreVars

(* What may change the lambda, its rows, or what is online.                *)
LEMMA StoreChanges ==
  ASSUME [Next]_vars
  PROVE  \/ \E o \in Owners : Insert(o) \/ SeedRow(o) \/ AppendRow(o) \/ DropRows(o) \/ Record(o)
         \/ \E p \in Procs : TakeOffline(p) \/ RemoveRow(p) \/ Fails(p)
         \/ Crash
         \/ UNCHANGED <<life, rows, active>>
<1> USE DEF data, mine, past
<1>1. ASSUME NEW o \in Owners, SaveStep(o), ~AppendRow(o), ~DropRows(o)
      PROVE  UNCHANGED <<life, rows, active>>
  BY <1>1 DEF SaveStep, WriteCode, SaveRefused, AppendFails, FindObsolete,
              NothingObsolete, DeleteFiles
<1>2. ASSUME NEW o \in Owners, DeployStep(o), ~Record(o)
      PROVE  UNCHANGED <<life, rows, active>>
  BY <1>2 DEF DeployStep, Compiled, Rejected, LockActivated, NotThereAnymore,
              RecordFails, PruneActivations
<1>3. ASSUME NEW p \in Procs, RemovalStep(p), ~RemoveRow(p)
      PROVE  UNCHANGED <<life, rows, active>>
  BY <1>3 DEF RemovalStep, RemoveDependents, AlreadyRemoved, EraseFiles
<1>4. ASSUME NEW s \in Sweepers, SweeperNext(s), ~TakeOffline(s)
      PROVE  UNCHANGED <<life, rows, active>>
  BY <1>4 DEF SweeperNext, SweepExpired, SweepRunning, SweepClose, SweepCommit
<1>5. ASSUME NEW o \in Owners,
             \/ SeedCode(o) \/ Expect(o) \/ LockSave(o) \/ Conflict(o)
             \/ StartDeploy(o) \/ LockUndeploy(o) \/ Delete(o)
             \/ DraftFeature(o) \/ MoveBase(o) \/ BaseFeature(o) \/ BaseFails(o)
      PROVE  UNCHANGED <<life, rows, active>>
  BY <1>5 DEF SeedCode, Expect, LockSave, Conflict, StartDeploy, LockUndeploy,
              Delete, DraftFeature, MoveBase, BaseFeature, BaseFails
<1>6. ASSUME (\E f \in Features : RemoveFeature(f)) \/ Quieten \/ Visit \/ UNCHANGED vars
      PROVE  UNCHANGED <<life, rows, active>>
  BY <1>6 DEF RemoveFeature, Quieten, Visit, vars
<1> QED
  BY <1>1, <1>2, <1>3, <1>4, <1>5, <1>6 DEF Next, OwnerNext, Undeploy, Procs

LEMMA StoreStep == IInv /\ [Next]_vars => [Store!Next]_StoreVars
<1> SUFFICES ASSUME IInv, [Next]_vars PROVE Store!Next \/ UNCHANGED StoreVars
  OBVIOUS
<1> USE BoundAssumption DEF Store!Next, None, Store!None, data, mine, past
<1>1. ASSUME NEW o \in Owners, Insert(o) PROVE Store!Next
  BY <1>1 DEF Insert, Store!Appear
<1>2. ASSUME NEW o \in Owners, SeedRow(o) PROVE Store!Next
  <2>1. life = "seeding" /\ rows = {}
    BY <1>2 DEF SeedRow, Go, IInv, SeededAlone, GoneIsEmpty, Procs
  <2> QED BY <1>2, <2>1 DEF SeedRow, Store!Add, Store!IsNext, Store!Versions
<1>3. ASSUME NEW o \in Owners, AppendRow(o) PROVE Store!Next
  <2>1. IsNext(number[o], rows) /\ number[o] \in Versions
    BY <1>3 DEF AppendRow, Go, IInv, NewestLeads, TypeOK, Procs
  <2> QED BY <1>3, <2>1 DEF AppendRow, Store!Add, Store!IsNext, IsNext, Versions, Store!Versions
<1>4. ASSUME NEW o \in Owners, DropRows(o) PROVE Store!Next \/ UNCHANGED StoreVars
  <2>1. CASE life = "there"
    <3>1. \A v \in drop[o] : v # active /\ ~IsNewest(v, rows)
      BY <1>4 DEF DropRows, IInv, PruningSpares, NewestLeads, Procs
    <3>2. rows' = rows \ (drop[o] \intersect rows) BY <1>4 DEF DropRows
    <3> QED BY <1>4, <2>1, <3>1, <3>2 DEF DropRows, Store!Discard, Store!IsNewest, IsNewest
  <2>2. CASE life # "there"
    <3>1. rows = {} BY <2>2 DEF IInv, GoneIsEmpty
    <3> QED BY <1>4, <3>1, StoreStutters DEF DropRows
  <2> QED BY <2>1, <2>2
<1>5. ASSUME NEW o \in Owners, Record(o) PROVE Store!Next \/ UNCHANGED StoreVars
  <2>1. life = "there" /\ target[o] \in rows
    BY <1>5 DEF Record, Go, IInv, CompiledHasCode, Procs
  <2>2. CASE was[o] = target[o] BY <1>5, <2>2, StoreStutters DEF Record
  <2>3. CASE was[o] # target[o] BY <1>5, <2>1, <2>3 DEF Record, Store!GoOnline
  <2> QED BY <2>2, <2>3
<1>6. ASSUME NEW p \in Procs, TakeOffline(p) PROVE Store!Next \/ UNCHANGED StoreVars
  BY <1>6, StoreStutters DEF TakeOffline, Store!GoOffline
<1>7. ASSUME NEW p \in Procs, RemoveRow(p) PROVE Store!Next
  BY <1>7 DEF RemoveRow, Store!Remove
<1>8. CASE Crash BY <1>8 DEF Crash, StoreVars
<1>9. CASE UNCHANGED <<life, rows, active>> BY <1>9, StoreStutters
<1>10. ASSUME NEW p \in Procs, Fails(p) PROVE UNCHANGED StoreVars
  BY <1>10 DEF Fails, StoreVars
<1> QED BY <1>1, <1>2, <1>3, <1>4, <1>5, <1>6, <1>7, <1>8, <1>9, <1>10, StoreChanges

(* Saves that race and prune, deployments, sweeps, removals and crashes    *)
(* come to no more than VersionStore promises (all of Services/Meta).      *)
THEOREM Implements == Spec => ImplementsVersionStore
<1>1. UNCHANGED StoreVars => UNCHANGED Store!vars BY DEF StoreVars, Store!vars
<1>2. IInv /\ [Next]_vars => [Store!Next]_(Store!vars) BY StoreStep, <1>1
<1> QED BY StoreInit, <1>2, Invariance, PTL DEF Spec, Store!Spec, ImplementsVersionStore

LEMMA GrowStep ==
  ASSUME IInv, [Next]_vars
  PROVE  /\ \A v \in rows' \ rows : \A w \in rows : w < v
         /\ \A v \in rows : IsNewest(v, rows) => v \in rows' \/ life' = "gone"
<1>1. CASE UNCHANGED StoreVars BY <1>1 DEF StoreVars
<1>2. CASE Store!Next
  <2>1. CASE Store!Appear \/ Store!GoOnline \/ Store!GoOffline
    BY <2>1 DEF Store!Appear, Store!GoOnline, Store!GoOffline
  <2>2. CASE Store!Add
    BY <2>2 DEF Store!Add, Store!IsNext
  <2>3. CASE Store!Discard
    BY <2>3 DEF Store!Discard, Store!IsNewest, IsNewest
  <2>4. CASE Store!Remove
    BY <2>4 DEF Store!Remove
  <2> QED BY <1>2, <2>1, <2>2, <2>3, <2>4 DEF Store!Next
<1> QED BY StoreStep, <1>1, <1>2

(* No number is used twice (MetaService._turns, LambdaHistory.Append).     *)
THEOREM NumbersNeverReused == Spec => NumbersOnlyGrow
<1>1. IInv /\ [Next]_vars =>
        [/\ \A v \in rows' \ rows : \A w \in rows : w < v
         /\ \A v \in rows : IsNewest(v, rows) => v \in rows' \/ life' = "gone"]_vars
  BY GrowStep
<1> QED BY <1>1, Invariance, PTL DEF Spec, NumbersOnlyGrow

-------------------------------------------------------------------------------
(* The records of stretches.  Most steps have nothing to do with them: who *)
(* is about to record one still knows what he read.                        *)
Aside ==
  /\ UNCHANGED <<active, stretches, spells, forgot>>
  /\ \A q \in Procs :
       pc'[q] = "record" => pc[q] = "record" /\ was'[q] = was[q] /\ open'[q] = open[q]

LEMMA EndAside ==
  ASSUME TypeOK, NEW p \in Procs, End(p), UNCHANGED <<active, stretches, spells, forgot>>
  PROVE  Aside
BY DEF TypeOK, End, Aside

LEMMA GoAside ==
  ASSUME TypeOK, NEW p \in Procs, NEW to, pc' = [pc EXCEPT ![p] = to], to # "record",
         \A q \in Procs \ {p} : was'[q] = was[q] /\ open'[q] = open[q],
         UNCHANGED <<active, stretches, spells, forgot>>
  PROVE  Aside
BY DEF TypeOK, Aside

LEMMA SaveAside ==
  ASSUME TypeOK, NEW o \in Owners,
         \/ Insert(o) \/ SeedCode(o) \/ SeedRow(o)
         \/ Expect(o) \/ LockSave(o) \/ Conflict(o) \/ SaveStep(o)
  PROVE  Aside
<1> USE DEF data, mine, past
<1>0. o \in Procs /\ was \in [Procs -> Versions \union {None}]
  BY DEF Procs, TypeOK
<1>1. CASE Insert(o)      BY <1>0, <1>1, GoAside DEF Insert, Go
<1>2. CASE SeedCode(o)    BY <1>0, <1>2, GoAside DEF SeedCode, Go
<1>3. CASE SeedRow(o)     BY <1>0, <1>3, GoAside DEF SeedRow, Go
<1>4. CASE Expect(o)      BY <1>0, <1>4, GoAside DEF Expect, Go
<1>5. CASE LockSave(o)    BY <1>0, <1>5, GoAside DEF LockSave, Take
<1>6. CASE Conflict(o)    BY <1>0, <1>6, EndAside DEF Conflict
<1>7. CASE WriteCode(o)   BY <1>0, <1>7, GoAside DEF WriteCode, Go
<1>8. CASE SaveRefused(o) BY <1>0, <1>8, EndAside DEF SaveRefused
<1>9. CASE AppendRow(o)   BY <1>0, <1>9, GoAside DEF AppendRow, Go
<1>10. CASE AppendFails(o) BY <1>0, <1>10, EndAside DEF AppendFails
<1>11. CASE FindObsolete(o) BY <1>0, <1>11, GoAside DEF FindObsolete, Go
<1>12. CASE NothingObsolete(o) BY <1>0, <1>12, EndAside DEF NothingObsolete
<1>13. CASE DeleteFiles(o) BY <1>0, <1>13, GoAside DEF DeleteFiles, Go
<1>14. CASE DropRows(o)   BY <1>0, <1>14, EndAside DEF DropRows
<1> QED BY <1>1, <1>2, <1>3, <1>4, <1>5, <1>6, <1>7, <1>8, <1>9, <1>10,
           <1>11, <1>12, <1>13, <1>14 DEF SaveStep

LEMMA OwnerAside ==
  ASSUME TypeOK, NEW o \in Owners,
         \/ StartDeploy(o) \/ Compiled(o) \/ Rejected(o) \/ NotThereAnymore(o) \/ RecordFails(o)
         \/ LockUndeploy(o) \/ Delete(o) \/ DraftFeature(o) \/ MoveBase(o) \/ BaseFeature(o) \/ BaseFails(o)
  PROVE  Aside
<1> USE DEF data, mine, past
<1>0. o \in Procs /\ open \in [Procs -> SUBSET Ids]
  BY DEF Procs, TypeOK
<1>1. CASE StartDeploy(o)     BY <1>0, <1>1, GoAside DEF StartDeploy, Go
<1>2. CASE Compiled(o)        BY <1>0, <1>2, GoAside DEF Compiled, Go
<1>3. CASE Rejected(o)        BY <1>0, <1>3, EndAside DEF Rejected
<1>4. CASE NotThereAnymore(o) BY <1>0, <1>4, EndAside DEF NotThereAnymore
<1>5. CASE RecordFails(o)     BY <1>0, <1>5, EndAside DEF RecordFails
<1>6. CASE LockUndeploy(o)    BY <1>0, <1>6, GoAside DEF LockUndeploy, Go
<1>7. CASE Delete(o)          BY <1>0, <1>7, GoAside DEF Delete, Go
<1>8. CASE DraftFeature(o)    BY <1>0, <1>8, GoAside DEF DraftFeature, Go
<1>9. CASE MoveBase(o)        BY <1>0, <1>9, GoAside DEF MoveBase, Go
<1>10. CASE BaseFeature(o)    BY <1>0, <1>10, EndAside DEF BaseFeature
<1>11. CASE BaseFails(o)      BY <1>0, <1>11, EndAside DEF BaseFails
<1> QED BY <1>1, <1>2, <1>3, <1>4, <1>5, <1>6, <1>7, <1>8, <1>9, <1>10, <1>11

LEMMA OthersAside ==
  ASSUME TypeOK,
         \/ \E s \in Sweepers : SweepExpired(s) \/ SweepRunning(s) \/ SweepClose(s)
         \/ \E p \in Procs : EraseFiles(p) \/ AlreadyRemoved(p) \/ Fails(p)
         \/ \E f \in Features : RemoveFeature(f)
         \/ Quieten \/ Visit \/ UNCHANGED vars
  PROVE  Aside
<1> USE DEF data, mine, past
<1>1. ASSUME NEW s \in Sweepers, SweepExpired(s) \/ SweepRunning(s) \/ SweepClose(s) PROVE Aside
  <2>0. s \in Procs /\ open \in [Procs -> SUBSET Ids]
    BY DEF Procs, TypeOK
  <2>1. CASE SweepExpired(s) BY <2>0, <2>1, GoAside DEF SweepExpired, Go
  <2>2. CASE SweepRunning(s) BY <2>0, <2>2, GoAside DEF SweepRunning, Go
  <2>3. CASE SweepClose(s)   BY <2>0, <2>3, GoAside DEF SweepClose, Go
  <2> QED BY <1>1, <2>1, <2>2, <2>3
<1>2. ASSUME NEW p \in Procs, EraseFiles(p) \/ AlreadyRemoved(p) \/ Fails(p) PROVE Aside
  BY <1>2, EndAside DEF EraseFiles, AlreadyRemoved, Fails
<1>3. CASE (\E f \in Features : RemoveFeature(f)) \/ Quieten \/ Visit \/ UNCHANGED vars
  BY <1>3 DEF RemoveFeature, Quieten, Visit, vars, Aside
<1> QED BY <1>1, <1>2, <1>3

Records == StretchesKnown /\ OnlineIsOnRecord

LEMMA RecordsInit == Init => Records
BY DEF Init, Records, StretchesKnown, OnlineIsOnRecord

LEMMA AsideKeeps ==
  ASSUME IInv, Records, Aside
  PROVE  Records'
<1>1. OpenIds' = OpenIds
  BY DEF Aside, OpenIds
<1>2. StretchesKnown'
  BY <1>1 DEF Records, StretchesKnown, Aside
<1>3. OnlineIsOnRecord'
  BY DEF Records, OnlineIsOnRecord, Aside
<1> QED BY <1>2, <1>3 DEF Records

(* Reading what is online and open, in the turn.                           *)
LEMMA LockActivatedRecords ==
  ASSUME IInv, Records, NEW o \in Owners, LockActivated(o)
  PROVE  Records'
<1>1. UNCHANGED <<active, stretches, spells, forgot>> /\ OpenIds' = OpenIds
  BY DEF LockActivated, data, past, OpenIds
<1>2. /\ was'[o] = active /\ open'[o] = OpenIds /\ pc[o] = "compiled" /\ pc'[o] = "record"
      /\ \A q \in Procs \ {o} : pc'[q] = pc[q] /\ was'[q] = was[q] /\ open'[q] = open[q]
  BY DEF LockActivated, Go, IInv, TypeOK, Procs
<1>3. StretchesKnown'
  BY <1>1, <1>2 DEF Records, StretchesKnown
<1>4. OnlineIsOnRecord'
  BY <1>1, <1>2 DEF Records, OnlineIsOnRecord
<1> QED BY <1>3, <1>4 DEF Records

(* The new stretch is the only one that goes on.                           *)
LEMMA RecordRecords ==
  ASSUME IInv, Records, NEW o \in Owners, Record(o)
  PROVE  Records'
<1> DEFINE new == [id |-> spells + 1, version |-> target[o], ended |-> FALSE]
<1>0. o \in Procs /\ pc[o] = "record" /\ spells \in Nat /\ spells' = spells + 1
      /\ stretches \subseteq [id : Ids, version : Versions, ended : BOOLEAN]
      /\ pc'[o] = "trim" /\ \A q \in Procs \ {o} : pc'[q] = pc[q]
  BY DEF Record, Go, IInv, TypeOK, Procs, Ids, mine, past
<1>1. active' = target[o] \/ active' = None
  <2>1. active' = IF was[o] = target[o] THEN active ELSE target[o]
    BY DEF Record
  <2>2. active \in {None, was[o]}
    BY <1>0 DEF Records, StretchesKnown
  <2> QED BY <2>1, <2>2
<1>2. stretches' = Closed(open[o]) \union {new} /\ new.id = spells + 1 /\ ~new.ended /\ new.version = target[o]
  BY DEF Record
<1> HIDE DEF new
<1>3. ASSUME NEW s \in Closed(open[o])
      PROVE  s.ended /\ \E t \in stretches : /\ t.id = s.id /\ t.version = s.version
                                             /\ s = [t EXCEPT !.ended = TRUE]
  <2>1. PICK t \in stretches : s = [t EXCEPT !.ended = t.ended \/ t.id \in open[o]]
    BY DEF Closed
  <2>2. t.ended \/ t.id \in open[o]
    BY <1>0 DEF Records, StretchesKnown, OpenIds
  <2>3. t \in [id : Ids, version : Versions, ended : BOOLEAN]
    BY <1>0
  <2>4. s.ended /\ t.id = s.id /\ t.version = s.version /\ s = [t EXCEPT !.ended = TRUE]
    BY <2>1, <2>2, <2>3
  <2> QED BY <2>4
<1>4. \A q \in Procs : pc'[q] # "record"
  BY <1>0 DEF IInv, TurnIsHeld, InTurn
<1>5. StretchesKnown'
  <2>1. \A s \in stretches' : s.id <= spells'
    <3>1. \A t \in stretches : t.id \in Nat /\ t.id <= spells
      BY <1>0 DEF Records, StretchesKnown, Ids
    <3> QED BY <1>0, <1>2, <1>3, <3>1
  <2>2. ASSUME NEW s \in stretches', NEW t \in stretches', s.id = t.id PROVE s = t
    <3>1. \A u \in Closed(open[o]) : u.id # new.id
      <4>1. \A v \in stretches : v.id \in Nat /\ v.id <= spells
        BY <1>0 DEF Records, StretchesKnown, Ids
      <4> QED BY <1>0, <1>2, <1>3, <4>1
    <3>2. CASE s \in Closed(open[o]) /\ t \in Closed(open[o])
      <4>1. PICK u \in stretches : u.id = s.id /\ s = [u EXCEPT !.ended = TRUE]
        BY <1>3, <3>2
      <4>2. PICK v \in stretches : v.id = t.id /\ t = [v EXCEPT !.ended = TRUE]
        BY <1>3, <3>2
      <4>3. u = v
        BY <2>2, <4>1, <4>2 DEF Records, StretchesKnown
      <4> QED BY <4>1, <4>2, <4>3
    <3> QED BY <1>2, <2>2, <3>1, <3>2
  <2>3. \A s, t \in stretches' : ~s.ended /\ ~t.ended => s = t
    BY <1>2, <1>3
  <2>4. \A s \in stretches' : ~s.ended => active' \in {None, s.version}
    BY <1>1, <1>2, <1>3
  <2> QED BY <1>4, <2>1, <2>2, <2>3, <2>4 DEF StretchesKnown
<1>6. OnlineIsOnRecord'
  BY <1>1, <1>2 DEF OnlineIsOnRecord
<1> QED BY <1>5, <1>6 DEF Records

(* Going offline ends stretches and begins none.                           *)
LEMMA TakeOfflineRecords ==
  ASSUME IInv, Records, NEW p \in Procs, TakeOffline(p), pc[p] \in {"undeploy", "close"}
  PROVE  Records'
<1>0. /\ spells' = spells /\ pc' = [pc EXCEPT ![p] = "idle"]
      /\ stretches \subseteq [id : Ids, version : Versions, ended : BOOLEAN]
      /\ \A q \in Procs \ {p} : pc'[q] = pc[q] /\ was'[q] = was[q] /\ open'[q] = open[q]
      /\ pc'[p] = "idle"
  BY DEF TakeOffline, End, IInv, TypeOK
<1>1. CASE UNCHANGED <<active, stretches, forgot>>
  BY <1>0, <1>1, EndAside, AsideKeeps DEF TakeOffline, IInv
<1>2. CASE active' = None /\ stretches' = Closed(open[p])
  <2>1. ASSUME NEW s \in stretches'
        PROVE  \E t \in stretches : /\ t.id = s.id /\ t.version = s.version /\ (t.ended => s.ended)
                                    /\ s = [t EXCEPT !.ended = t.ended \/ t.id \in open[p]]
    <3>1. PICK t \in stretches : s = [t EXCEPT !.ended = t.ended \/ t.id \in open[p]]
      BY <1>2 DEF Closed
    <3>2. t \in [id : Ids, version : Versions, ended : BOOLEAN]
      BY <1>0
    <3>3. t.id = s.id /\ t.version = s.version /\ (t.ended => s.ended)
      BY <3>1, <3>2
    <3> QED BY <3>1, <3>3
  <2>2. StretchesKnown'
    <3>1. \A s \in stretches' : s.id <= spells'
      BY <1>0, <2>1 DEF Records, StretchesKnown
    <3>2. ASSUME NEW s \in stretches', NEW t \in stretches', s.id = t.id PROVE s = t
      <4>1. PICK u \in stretches : u.id = s.id /\ s = [u EXCEPT !.ended = u.ended \/ u.id \in open[p]]
        BY <2>1
      <4>2. PICK v \in stretches : v.id = t.id /\ t = [v EXCEPT !.ended = v.ended \/ v.id \in open[p]]
        BY <2>1
      <4>3. u = v
        BY <3>2, <4>1, <4>2 DEF Records, StretchesKnown
      <4> QED BY <4>1, <4>2, <4>3
    <3>3. ASSUME NEW s \in stretches', NEW t \in stretches', ~s.ended, ~t.ended PROVE s = t
      <4>1. PICK u \in stretches : u.id = s.id /\ ~u.ended
        BY <2>1, <3>3
      <4>2. PICK v \in stretches : v.id = t.id /\ ~v.ended
        BY <2>1, <3>3
      <4>3. u = v
        BY <4>1, <4>2 DEF Records, StretchesKnown
      <4> QED BY <3>2, <4>1, <4>2, <4>3
    <3>4. \A q \in Procs : pc'[q] = "record" => active' \in {None, was'[q]} /\ OpenIds' \subseteq open'[q]
      <4>1. OpenIds' \subseteq OpenIds
        BY <2>1 DEF OpenIds
      <4> QED BY <1>0, <1>2, <4>1 DEF Records, StretchesKnown
    <3> QED BY <1>2, <3>1, <3>2, <3>3, <3>4 DEF StretchesKnown
  <2>3. OnlineIsOnRecord'
    BY <1>2 DEF OnlineIsOnRecord
  <2> QED BY <2>2, <2>3 DEF Records
<1> QED BY <1>1, <1>2 DEF TakeOffline

(* What is forgotten has ended.                                            *)
LEMMA PruneRecords ==
  ASSUME IInv, Records, NEW o \in Owners, PruneActivations(o)
  PROVE  Records'
<1>0. /\ UNCHANGED <<active, spells, forgot>> /\ stretches' = stretches \ Forgotten /\ o \in Procs
      /\ pc'[o] = "idle" /\ pc[o] = "trim"
      /\ \A q \in Procs \ {o} : pc'[q] = pc[q] /\ was'[q] = was[q] /\ open'[q] = open[q]
  BY DEF PruneActivations, End, IInv, TypeOK, Procs, past
<1>1. \A s \in stretches : ~s.ended => s \in stretches'
  BY <1>0 DEF Forgotten
<1>2. OpenIds' \subseteq OpenIds /\ stretches' \subseteq stretches
  BY <1>0 DEF OpenIds
<1>3. StretchesKnown'
  BY <1>0, <1>2 DEF Records, StretchesKnown
<1>4. OnlineIsOnRecord'
  BY <1>0, <1>1 DEF Records, OnlineIsOnRecord
<1> QED BY <1>3, <1>4 DEF Records

(* A removal forgets the stretches, and then what is online.               *)
LEMMA RemovalRecords ==
  ASSUME IInv, Records,
         (\E p \in Procs : RemoveDependents(p) \/ RemoveRow(p)) \/ Crash
  PROVE  Records'
<1>1. ASSUME NEW p \in Procs, RemoveDependents(p) PROVE Records'
  <2>1. UNCHANGED <<active, spells, was, open>> /\ stretches' = {} /\ pc'[p] = "removing"
        /\ forgot' = (active # None)
        /\ \A q \in Procs \ {p} : pc'[q] = pc[q]
    BY <1>1 DEF RemoveDependents, Go, mine, IInv, TypeOK
  <2>2. OpenIds' = {}
    BY <2>1 DEF OpenIds
  <2>3. StretchesKnown'
    BY <2>1, <2>2 DEF Records, StretchesKnown
  <2>4. OnlineIsOnRecord'
    BY <2>1 DEF OnlineIsOnRecord
  <2> QED BY <2>3, <2>4 DEF Records
<1>2. ASSUME NEW p \in Procs, RemoveRow(p) PROVE Records'
  <2>1. UNCHANGED <<spells, was, open>> /\ stretches' = {} /\ active' = None /\ pc'[p] = "erase"
        /\ \A q \in Procs \ {p} : pc'[q] = pc[q]
    BY <1>2 DEF RemoveRow, Go, mine, IInv, TypeOK
  <2>2. OpenIds' = {}
    BY <2>1 DEF OpenIds
  <2>3. StretchesKnown'
    BY <2>1, <2>2 DEF StretchesKnown
  <2>4. OnlineIsOnRecord'
    BY <2>1 DEF OnlineIsOnRecord
  <2> QED BY <2>3, <2>4 DEF Records
<1>3. CASE Crash
  <2>1. StretchesKnown'
    BY <1>3 DEF Crash, Records, StretchesKnown
  <2>2. OnlineIsOnRecord'
    BY <1>3 DEF Crash, Records, OnlineIsOnRecord
  <2> QED BY <2>1, <2>2 DEF Records
<1> QED BY <1>1, <1>2, <1>3

LEMMA RecordsStep == IInv /\ Records /\ [Next]_vars => Records'
<1> SUFFICES ASSUME IInv, Records, [Next]_vars PROVE Records' OBVIOUS
<1>0. TypeOK /\ Owners \subseteq Procs /\ Sweepers \subseteq Procs
  BY DEF IInv, Procs
<1>1. ASSUME NEW o \in Owners, OwnerNext(o) PROVE Records'
  <2>1. CASE LockActivated(o) BY <2>1, LockActivatedRecords
  <2>2. CASE Record(o) BY <2>2, RecordRecords
  <2>3. CASE PruneActivations(o) BY <2>3, PruneRecords
  <2>4. CASE Undeploy(o) BY <1>0, <2>4, TakeOfflineRecords DEF Undeploy
  <2>5. CASE ~LockActivated(o) /\ ~Record(o) /\ ~PruneActivations(o) /\ ~Undeploy(o)
    <3>1. Aside
      BY <1>0, <1>1, <2>5, SaveAside, OwnerAside DEF OwnerNext, DeployStep
    <3> QED BY <3>1, AsideKeeps
  <2> QED BY <2>1, <2>2, <2>3, <2>4, <2>5
<1>2. ASSUME NEW s \in Sweepers, SweeperNext(s) PROVE Records'
  <2>1. CASE SweepCommit(s) BY <1>0, <2>1, TakeOfflineRecords DEF SweepCommit
  <2>2. CASE ~SweepCommit(s) BY <1>0, <1>2, <2>2, OthersAside, AsideKeeps DEF SweeperNext
  <2> QED BY <2>1, <2>2
<1>3. ASSUME NEW p \in Procs, RemovalStep(p) PROVE Records'
  <2>1. CASE EraseFiles(p) \/ AlreadyRemoved(p) BY <1>0, <2>1, OthersAside, AsideKeeps
  <2>2. CASE ~EraseFiles(p) /\ ~AlreadyRemoved(p) BY <1>3, <2>2, RemovalRecords DEF RemovalStep
  <2> QED BY <2>1, <2>2
<1>4. CASE Crash BY <1>4, RemovalRecords
<1>5. CASE (\E f \in Features : RemoveFeature(f)) \/ (\E p \in Procs : Fails(p)) \/ Quieten \/ Visit \/ UNCHANGED vars
  BY <1>0, <1>5, OthersAside, AsideKeeps
<1> QED BY <1>1, <1>2, <1>3, <1>4, <1>5 DEF Next

LEMMA RecordsKept == Spec => []Records
BY RecordsInit, RecordsStep, Invariance, PTL DEF Spec

(* At most one stretch goes on, and it is of what is online, whatever      *)
(* deployments, undeployments and sweeps race (LambdaHistory.Activate).    *)
THEOREM RecordsAgree == Spec => []StretchesAgree
<1>1. ASSUME Records PROVE StretchesAgree
  <2>1. \A i, j \in OpenIds : i = j
    BY <1>1 DEF Records, StretchesKnown, OpenIds
  <2>2. Cardinality(OpenIds) <= 1
    <3>1. CASE OpenIds = {}
      BY <3>1, FS_EmptySet
    <3>2. CASE OpenIds # {}
      <4>1. PICK i \in OpenIds : TRUE
        BY <3>2
      <4>2. OpenIds = {i}
        BY <2>1, <4>1
      <4>3. Cardinality(OpenIds) = 1
        BY <4>2, FS_Singleton
      <4> QED BY <4>3
    <3> QED BY <3>1, <3>2
  <2> QED BY <1>1, <2>2 DEF Records, StretchesKnown, StretchesAgree
<1> QED BY <1>1, RecordsKept, PTL

(* What is online has its stretch on record until a removal forgets it     *)
(* (LambdaHistory.Activate, Close, LambdaRemoval).                         *)
THEOREM OnlineStaysOnRecord == Spec => []OnlineIsOnRecord
<1>1. Records => OnlineIsOnRecord
  BY DEF Records
<1> QED BY <1>1, RecordsKept, PTL

-------------------------------------------------------------------------------
(* The bound on the history: a save keeps the newest of what it may prune, *)
(* what is online and the bases of features, and drops the rest.           *)
LEMMA HasSmallest ==
  ASSUME NEW S \in SUBSET Nat, IsFiniteSet(S), S # {}
  PROVE  \E m \in S : \A v \in S : m <= v
<1> DEFINE Below(v) == {w \in S : w < v}
           sets == {Below(v) : v \in S}
           order == StrictSubsetOrdering(S)
<1>1. sets # {} /\ \A U \in sets : U \in SUBSET S
  OBVIOUS
<1>2. sets \subseteq FiniteSubsetsOf(S)
  BY <1>1, FS_Subset DEF FiniteSubsetsOf
<1>3. IsWellFoundedOn(order, FiniteSubsetsOf(S))
  BY FS_StrictSubsetOrderingWellFounded
<1> HIDE DEF sets, order
<1>4. PICK U \in sets : \A V \in sets : ~(<<V, U>> \in order)
  BY <1>1, <1>2, <1>3, WFMin
<1>5. PICK m \in S : U = Below(m)
  BY DEF sets
<1>6. ASSUME NEW v \in S, v < m PROVE FALSE
  <2>0. v \in Nat /\ m \in Nat /\ S \subseteq Nat
    OBVIOUS
  <2>1. v \in Below(m) /\ v \notin Below(v) /\ Below(v) \subseteq Below(m)
    <3>1. \A w \in S : w < v => w < m
      BY <1>6, <2>0
    <3>2. v \in Below(m)
      BY <1>6
    <3>3. v \notin Below(v)
      <4>1. ~(v < v)
        BY <2>0
      <4> QED BY <4>1
    <3>4. Below(v) \subseteq Below(m)
      BY <3>1
    <3> QED BY <3>2, <3>3, <3>4
  <2>2. Below(v) \in sets /\ Below(v) \in SUBSET S /\ Below(m) \in SUBSET S
    BY <1>6 DEF sets
  <2> HIDE DEF Below
  <2>3. <<Below(v), Below(m)>> \in order
    BY <2>1, <2>2 DEF order, StrictSubsetOrdering
  <2> QED BY <1>4, <1>5, <2>2, <2>3
<1> QED BY <1>6

LEMMA RowsFinite ==
  ASSUME TypeOK, NEW S \in SUBSET rows
  PROVE  IsFiniteSet(S) /\ Cardinality(S) \in Nat /\ S \in SUBSET Nat
<1>1. IsFiniteSet(Versions)
  <2>1. 1 \in Int /\ MaxVersion \in Int
    BY BoundAssumption
  <2> QED BY <2>1, FS_Interval DEF Versions
<1>2. S \subseteq Versions /\ Versions \subseteq Nat
  BY BoundAssumption DEF TypeOK, Versions
<1> QED BY <1>1, <1>2, FS_Subset, FS_CardinalityType

LEMMA FewBases == ASSUME TypeOK PROVE IsFiniteSet(Bases) /\ Cardinality(Bases) <= Cardinality(Features)
                                      /\ Cardinality(Bases) \in Nat /\ Cardinality(Features) \in Nat
<1> DEFINE all == {bases[f] : f \in Features}
<1>1. bases \in Surjection(Features, all)
  BY DEF Surjection, TypeOK
<1>2. IsFiniteSet(all) /\ Cardinality(all) <= Cardinality(Features)
  BY <1>1, FeatureAssumption, FS_Surjection
<1>3. Bases \in SUBSET all
  BY DEF Bases
<1> HIDE DEF all
<1>4. IsFiniteSet(Bases) /\ Cardinality(Bases) <= Cardinality(all)
  BY <1>2, <1>3, FS_Subset
<1>5. Cardinality(Bases) \in Nat /\ Cardinality(all) \in Nat /\ Cardinality(Features) \in Nat
  BY <1>2, <1>4, FeatureAssumption, FS_CardinalityType
<1> QED BY <1>2, <1>4, <1>5

LEMMA FewKept ==
  ASSUME TypeOK, NEW online
  PROVE  Cardinality(rows \ Obsolete(online)) <= HistoryLimit
<1> DEFINE newest == Prunable(online) \ Obsolete(online)
           held == rows \intersect ({online} \union Bases)
<1>1. newest \in SUBSET rows /\ held \in SUBSET rows /\ rows \ Obsolete(online) \in SUBSET (newest \union held)
  BY DEF Prunable
<1>2. Cardinality(newest) <= Limit
  <2>1. IsFiniteSet(newest) /\ Cardinality(newest) \in Nat /\ newest \in SUBSET Nat
    BY <1>1, RowsFinite
  <2>2. CASE newest = {}
    BY <2>2, FS_EmptySet, LimitAssumption
  <2>3. CASE newest # {}
    <3>1. PICK m \in newest : \A v \in newest : m <= v
      BY <2>1, <2>3, HasSmallest
    <3> DEFINE above == {w \in Prunable(online) : w > m}
    <3>2. ~(Cardinality(above) >= Limit)
      BY DEF Obsolete
    <3>3. above \in SUBSET rows
      BY DEF Prunable
    <3>4. newest \ {m} \in SUBSET above
      BY <2>1, <3>1
    <3> HIDE DEF newest, above
    <3>5. IsFiniteSet(above) /\ Cardinality(above) \in Nat
      BY <3>3, RowsFinite
    <3>6. Cardinality(newest \ {m}) <= Cardinality(above)
      BY <3>4, <3>5, FS_Subset
    <3>7. Cardinality(newest \ {m}) = Cardinality(newest) - 1
      BY <2>1, <3>1, FS_RemoveElement
    <3> QED BY <2>1, <3>2, <3>5, <3>6, <3>7, LimitAssumption
  <2> QED BY <2>2, <2>3
<1>3. Cardinality(held) <= 1 + Cardinality(Features)
  <2>1. IsFiniteSet(Bases) /\ Cardinality(Bases) <= Cardinality(Features)
        /\ Cardinality(Bases) \in Nat /\ Cardinality(Features) \in Nat
    BY FewBases
  <2>2. /\ IsFiniteSet(Bases \union {online}) /\ Cardinality(Bases \union {online}) \in Nat
        /\ Cardinality(Bases \union {online}) <= Cardinality(Bases) + 1
    <3>1. IsFiniteSet(Bases \union {online})
          /\ Cardinality(Bases \union {online})
               = IF online \in Bases THEN Cardinality(Bases) ELSE Cardinality(Bases) + 1
      BY <2>1, FS_AddElement
    <3> QED BY <2>1, <3>1
  <2>3. Cardinality(held) <= Cardinality(Bases \union {online}) /\ Cardinality(held) \in Nat
    BY <1>1, <2>2, FS_Subset, RowsFinite
  <2> QED BY <2>1, <2>2, <2>3
<1> HIDE DEF newest, held
<1>4. /\ IsFiniteSet(newest) /\ Cardinality(newest) \in Nat /\ IsFiniteSet(held) /\ Cardinality(held) \in Nat
      /\ Cardinality(rows \ Obsolete(online)) \in Nat
  BY <1>1, RowsFinite
<1>5. /\ IsFiniteSet(newest \union held) /\ Cardinality(newest \union held) \in Nat
      /\ Cardinality(newest \union held) <= Cardinality(newest) + Cardinality(held)
  <2>1. IsFiniteSet(newest \union held)
        /\ Cardinality(newest \union held)
             = Cardinality(newest) + Cardinality(held) - Cardinality(newest \intersect held)
    BY <1>4, FS_Union
  <2>2. Cardinality(newest \intersect held) \in Nat
    BY <1>4, FS_Intersection, FS_CardinalityType
  <2> QED BY <1>4, <2>1, <2>2, FS_CardinalityType
<1>6. Cardinality(rows \ Obsolete(online)) <= Cardinality(newest \union held)
  BY <1>1, <1>5, FS_Subset
<1>7. Cardinality(Features) \in Nat /\ Limit \in Nat
  BY FeatureAssumption, FS_CardinalityType, LimitAssumption
<1> QED BY <1>2, <1>3, <1>4, <1>5, <1>6, <1>7 DEF HistoryLimit

(* No row is added, and nobody finds more obsolete than he did.            *)
AddsNothing ==
  /\ rows' \subseteq rows
  /\ \A q \in Procs : pc'[q] \in {"delete", "drop"} => pc[q] \in {"delete", "drop"} /\ drop'[q] = drop[q]

LEMMA EndAdds ==
  ASSUME TypeOK, NEW p \in Procs, End(p), rows' \subseteq rows
  PROVE  AddsNothing
BY DEF TypeOK, End, AddsNothing

LEMMA GoAdds ==
  ASSUME TypeOK, NEW p \in Procs, NEW to, pc' = [pc EXCEPT ![p] = to], to \notin {"delete", "drop"},
         drop' = drop, rows' \subseteq rows
  PROVE  AddsNothing
BY DEF TypeOK, AddsNothing

LEMMA OwnerAdds ==
  ASSUME TypeOK, NEW o \in Owners, OwnerNext(o), ~SeedRow(o), ~AppendRow(o), ~FindObsolete(o)
  PROVE  AddsNothing
<1> USE DEF data, mine, past
<1>0. o \in Procs
  BY DEF Procs
<1>1. ASSUME \/ Conflict(o) \/ SaveRefused(o) \/ AppendFails(o) \/ NothingObsolete(o) \/ DropRows(o)
             \/ Rejected(o) \/ NotThereAnymore(o) \/ RecordFails(o) \/ PruneActivations(o) \/ Undeploy(o)
             \/ BaseFeature(o) \/ BaseFails(o)
      PROVE  AddsNothing
  <2>1. End(o) /\ rows' \subseteq rows
    BY <1>1 DEF Conflict, SaveRefused, AppendFails, NothingObsolete, DropRows, Rejected,
                NotThereAnymore, RecordFails, PruneActivations, Undeploy, TakeOffline, BaseFeature, BaseFails
  <2> QED BY <1>0, <2>1, EndAdds
<1>2. CASE DeleteFiles(o)
  BY <1>0, <1>2 DEF DeleteFiles, Go, AddsNothing, TypeOK
<1>3. ASSUME \/ Insert(o) \/ SeedCode(o) \/ Expect(o) \/ LockSave(o) \/ WriteCode(o)
             \/ StartDeploy(o) \/ Compiled(o) \/ LockActivated(o) \/ Record(o) \/ LockUndeploy(o)
             \/ Delete(o) \/ DraftFeature(o) \/ MoveBase(o)
      PROVE  AddsNothing
  <2>1. rows' = rows /\ drop' = drop
    BY <1>3 DEF Insert, SeedCode, Expect, LockSave, WriteCode, StartDeploy, Compiled, LockActivated,
                Record, LockUndeploy, Delete, DraftFeature, MoveBase
  <2>2. \E to \in PCs \ {"delete", "drop"} : pc' = [pc EXCEPT ![o] = to]
    BY <1>3 DEF Insert, SeedCode, Expect, LockSave, WriteCode, StartDeploy, Compiled, LockActivated,
                Record, LockUndeploy, Delete, DraftFeature, MoveBase, Go, PCs, InTurn
  <2> QED BY <1>0, <2>1, <2>2, GoAdds
<1> QED BY <1>1, <1>2, <1>3 DEF OwnerNext, SaveStep, DeployStep

LEMMA OthersAdd ==
  ASSUME TypeOK,
         \/ \E s \in Sweepers : SweeperNext(s)
         \/ \E p \in Procs : RemovalStep(p)
         \/ (\E f \in Features : RemoveFeature(f)) \/ Quieten \/ Visit \/ Crash \/ UNCHANGED vars
         \/ \E p \in Procs : Fails(p)
  PROVE  AddsNothing
<1> USE DEF data, mine, past
<1>1. ASSUME NEW s \in Sweepers, SweeperNext(s) PROVE AddsNothing
  <2>0. s \in Procs
    BY DEF Procs
  <2>1. CASE SweepExpired(s) BY <2>0, <2>1, GoAdds DEF SweepExpired, Go
  <2>2. CASE SweepRunning(s) BY <2>0, <2>2, GoAdds DEF SweepRunning, Go
  <2>3. CASE SweepClose(s)   BY <2>0, <2>3, GoAdds DEF SweepClose, Go
  <2>4. CASE SweepCommit(s)  BY <2>0, <2>4, EndAdds DEF SweepCommit, TakeOffline
  <2> QED BY <1>1, <2>1, <2>2, <2>3, <2>4 DEF SweeperNext
<1>2. ASSUME NEW p \in Procs, RemovalStep(p) PROVE AddsNothing
  <2>1. CASE RemoveDependents(p) BY <2>1, GoAdds DEF RemoveDependents, Go
  <2>2. CASE RemoveRow(p)        BY <2>2, GoAdds DEF RemoveRow, Go
  <2>3. CASE AlreadyRemoved(p)   BY <2>3, EndAdds DEF AlreadyRemoved
  <2>4. CASE EraseFiles(p)       BY <2>4, EndAdds DEF EraseFiles
  <2> QED BY <1>2, <2>1, <2>2, <2>3, <2>4 DEF RemovalStep
<1>3. CASE (\E f \in Features : RemoveFeature(f)) \/ Quieten \/ Visit \/ Crash \/ UNCHANGED vars
  BY <1>3 DEF RemoveFeature, Quieten, Visit, Crash, vars, AddsNothing
<1>4. ASSUME NEW p \in Procs, Fails(p) PROVE AddsNothing
  BY <1>4, EndAdds DEF Fails
<1> QED BY <1>1, <1>2, <1>3, <1>4

LEMMA DropStep == IInv /\ DropSuffices /\ [Next]_vars => DropSuffices'
<1> SUFFICES ASSUME IInv, DropSuffices, [Next]_vars PROVE DropSuffices' OBVIOUS
<1>0. TypeOK /\ TypeOK' /\ Owners \subseteq Procs
  BY TypeStep DEF IInv, Procs
<1>1. ASSUME AddsNothing PROVE DropSuffices'
  <2>1. ASSUME NEW p \in Procs, pc'[p] \in {"delete", "drop"}
        PROVE  Cardinality(rows' \ drop'[p]) <= HistoryLimit
    <3>1. Cardinality(rows \ drop[p]) <= HistoryLimit
      BY <1>1, <2>1 DEF AddsNothing, DropSuffices
    <3>2. rows' \ drop'[p] \in SUBSET (rows \ drop[p]) /\ rows \ drop[p] \in SUBSET rows
      BY <1>1, <2>1 DEF AddsNothing
    <3>3. IsFiniteSet(rows \ drop[p]) /\ Cardinality(rows \ drop[p]) \in Nat
      BY <1>0, <3>2, RowsFinite
    <3>4. Cardinality(rows' \ drop'[p]) <= Cardinality(rows \ drop[p]) /\ Cardinality(rows' \ drop'[p]) \in Nat
      BY <3>2, <3>3, FS_Subset, FS_CardinalityType
    <3>5. HistoryLimit \in Nat
      BY FeatureAssumption, FS_CardinalityType, LimitAssumption DEF HistoryLimit
    <3> QED BY <3>1, <3>3, <3>4, <3>5
  <2> QED BY <2>1 DEF DropSuffices, HistoryLimit
<1>2. ASSUME NEW o \in Owners, SeedRow(o) PROVE DropSuffices'
  <2>1. \A p \in Procs : pc'[p] \notin {"delete", "drop"}
    BY <1>0, <1>2 DEF SeedRow, Go, IInv, SeededAlone, TypeOK
  <2> QED BY <2>1 DEF DropSuffices
<1>3. ASSUME NEW o \in Owners, AppendRow(o) PROVE DropSuffices'
  <2>1. \A p \in Procs : pc'[p] \notin {"delete", "drop"}
    BY <1>0, <1>3 DEF AppendRow, Go, IInv, TurnIsHeld, InTurn, TypeOK
  <2> QED BY <2>1 DEF DropSuffices
<1>4. ASSUME NEW o \in Owners, FindObsolete(o) PROVE DropSuffices'
  <2>1. rows' = rows /\ drop'[o] = Obsolete(was[o])
        /\ \A p \in Procs \ {o} : pc'[p] = pc[p] /\ drop'[p] = drop[p]
    BY <1>0, <1>4 DEF FindObsolete, Go, data, TypeOK
  <2>2. Cardinality(rows' \ drop'[o]) <= HistoryLimit
    BY <1>0, <2>1, FewKept
  <2> QED BY <2>1, <2>2 DEF DropSuffices, HistoryLimit
<1> QED BY <1>0, <1>1, <1>2, <1>3, <1>4, OwnerAdds, OthersAdd DEF Next

LEMMA DropKept == Spec => []DropSuffices
<1>1. Init => DropSuffices
  BY DEF Init, DropSuffices
<1> QED BY <1>1, DropStep, Invariance, PTL DEF Spec

(* A save that finds nothing obsolete, or that drops what it found, leaves *)
(* no more versions than the tier keeps, and what is online and the bases  *)
(* of features, however deployments and features change in between         *)
(* (LambdaHistory.Prune).                                                  *)
THEOREM HistoryStaysBounded == Spec => HistoryBounded
<1>1. ASSUME IInv, [Next]_vars, NEW o \in Owners, pc[o] = "prune", Obsolete(was[o]) = {}
      PROVE  Cardinality(rows') <= HistoryLimit
  <2>0. TypeOK /\ TypeOK' /\ o \in Procs /\ Owners \subseteq Procs
    BY <1>1, TypeStep DEF IInv, Procs
  <2>1. Cardinality(rows) <= HistoryLimit
    <3>1. rows \ Obsolete(was[o]) = rows
      BY <1>1
    <3> QED BY <2>0, <3>1, FewKept
  <2>2. rows' \in SUBSET rows
    <3>1. ASSUME NEW q \in Owners, SeedRow(q) \/ AppendRow(q) PROVE FALSE
      BY <1>1, <2>0, <3>1 DEF SeedRow, AppendRow, Go, IInv, TurnIsHeld, SeededAlone, InTurn
    <3>2. ASSUME NEW q \in Owners, FindObsolete(q) PROVE rows' = rows
      BY <3>2 DEF FindObsolete, data
    <3> QED BY <1>1, <2>0, <3>1, <3>2, OwnerAdds, OthersAdd DEF Next, AddsNothing
  <2>3. IsFiniteSet(rows) /\ Cardinality(rows) \in Nat
    BY <2>0, RowsFinite
  <2>4. Cardinality(rows') <= Cardinality(rows) /\ Cardinality(rows') \in Nat
    BY <2>2, <2>3, FS_Subset, FS_CardinalityType
  <2>5. HistoryLimit \in Nat
    BY FeatureAssumption, FS_CardinalityType, LimitAssumption DEF HistoryLimit
  <2> QED BY <2>1, <2>3, <2>4, <2>5
<1>2. ASSUME IInv, DropSuffices, [Next]_vars, NEW o \in Owners,
             pc[o] = "drop", pc'[o] = "idle", rows' # rows
      PROVE  Cardinality(rows') <= HistoryLimit
  <2>0. TypeOK /\ o \in Procs /\ Owners \subseteq Procs
    BY <1>2 DEF IInv, Procs
  <2>1. ASSUME NEW q \in Owners, DropRows(q) PROVE Cardinality(rows') <= HistoryLimit
    <3>1. q = o
      BY <1>2, <2>0, <2>1 DEF DropRows, IInv, TurnIsHeld, InTurn
    <3>2. rows' = rows \ drop[o]
      BY <2>1, <3>1 DEF DropRows
    <3> QED BY <1>2, <2>0, <3>2 DEF DropSuffices
  <2>2. ASSUME NEW q \in Owners, SeedRow(q) \/ AppendRow(q) PROVE FALSE
    BY <1>2, <2>0, <2>2 DEF SeedRow, AppendRow, Go, IInv, TurnIsHeld, SeededAlone, InTurn
  <2>3. ASSUME NEW p \in Procs, RemoveRow(p) PROVE Cardinality(rows') <= HistoryLimit
    <3>1. rows' = {} /\ HistoryLimit \in Nat
      BY <2>3, FeatureAssumption, FS_CardinalityType, LimitAssumption DEF RemoveRow, HistoryLimit
    <3> QED BY <3>1, FS_EmptySet
  <2>4. ASSUME NEW q \in Owners, Insert(q) \/ Record(q) PROVE rows' = rows
    BY <2>4 DEF Insert, Record
  <2>5. ASSUME NEW p \in Procs, TakeOffline(p) \/ Fails(p) PROVE rows' = rows
    BY <2>5 DEF TakeOffline, Fails
  <2>6. CASE Crash
    BY <1>2, <2>6 DEF Crash
  <2> QED BY <1>2, <2>1, <2>2, <2>3, <2>4, <2>5, <2>6, StoreChanges
<1>3. IInv /\ DropSuffices /\ [Next]_vars =>
        [\A o \in Owners :
           (pc[o] = "prune" /\ Obsolete(was[o]) = {}) \/ (pc[o] = "drop" /\ pc'[o] = "idle" /\ rows' # rows)
             => Cardinality(rows') <= Limit + 1 + Cardinality(Features)]_vars
  BY <1>1, <1>2 DEF HistoryLimit
<1> QED BY <1>3, Invariance, DropKept, PTL DEF Spec, HistoryBounded
===============================================================================
