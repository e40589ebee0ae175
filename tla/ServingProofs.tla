----------------------------- MODULE ServingProofs -----------------------------
(***************************************************************************)
(* What holds of Serving for any number of requests, deployments and admin *)
(* calls, and any bounds.                                                  *)
(***************************************************************************)
EXTENDS Serving, TLAPS

LEMMA InitInvariant == Init => IInv
<1> SUFFICES ASSUME Init PROVE IInv OBVIOUS
<1> USE BuilderAssumption, StampAssumption, VersionAssumption
        DEF Init, BuildInit, None, Stamps, Epochs, NoHandler, Builders
<1>1. TypeOK BY DEF TypeOK, BuildTypeOK, PCs, Handlers
<1>2. OneBuild BY DEF OneBuild, UnderLock
<1>3. OwnCode BY DEF OwnCode
<1>4. NumbersKnown BY DEF NumbersKnown
<1>5. ResourcesKnown BY DEF ResourcesKnown
<1> QED BY <1>1, <1>2, <1>3, <1>4, <1>5 DEF IInv

(* A request that looks, waits, builds or answers.                          *)
LEMMA ReturnKeeps ==
  ASSUME IInv, NEW p \in Builders, pc[p] \in {"miss", "done", "served"}, Return(p),
         UNCHANGED <<slot, epoch, state, kept, online, task>>, since' \in [Visitors -> SUBSET Stamps]
  PROVE  IInv'
<1> USE BuilderAssumption, StampAssumption, VersionAssumption
        DEF None, Stamps, Epochs, NoHandler, Handlers, Builders, IInv, TypeOK, BuildTypeOK, PCs,
            UnderLock, OneBuild, OwnCode, NumbersKnown, ResourcesKnown, Go, slot, call, Return
<1>1. TypeOK' OBVIOUS
<1>2. OneBuild' OBVIOUS
<1>3. OwnCode' OBVIOUS
<1>4. NumbersKnown' OBVIOUS
<1>5. ResourcesKnown' OBVIOUS
<1> QED BY <1>1, <1>2, <1>3, <1>4, <1>5

LEMMA BuilderStep ==
  ASSUME IInv, NEW p \in Builders, BuilderNext(p)
  PROVE  IInv'
<1>0. since' \in [Visitors -> SUBSET Stamps]
  <2>1. since \in [Visitors -> SUBSET Stamps] BY DEF IInv, TypeOK
  <2> QED BY <2>1 DEF BuilderNext, Answering
<1> USE BuilderAssumption, StampAssumption, VersionAssumption
        DEF None, Stamps, Epochs, NoHandler, Handlers, Builders, IInv, TypeOK, BuildTypeOK, PCs,
            UnderLock, OneBuild, OwnCode, NumbersKnown, ResourcesKnown, Go, slot, call, IsDeployed
<1> UNCHANGED <<state, kept, online, task>> BY DEF BuilderNext
<1>1. CASE Hit(p)
  <2>1. TypeOK' BY <1>0, <1>1 DEF Hit
  <2>2. OneBuild' BY <1>1 DEF Hit
  <2>3. OwnCode' BY <1>1 DEF Hit
  <2>4. NumbersKnown' BY <1>1 DEF Hit
  <2>5. ResourcesKnown' BY <1>1 DEF Hit
  <2> QED BY <2>1, <2>2, <2>3, <2>4, <2>5
<1>2. CASE Miss(p) BY <1>0, <1>2 DEF Miss
<1>3. CASE Refuse(p) BY <1>0, <1>3, ReturnKeeps DEF Refuse
<1>4. CASE Unbroken(p) BY <1>0, <1>4 DEF Unbroken
<1>5. CASE Already(p) BY <1>0, <1>5 DEF Already
<1>6. CASE Wait(p) BY <1>0, <1>6 DEF Wait
<1>7. CASE Lock(p)
  <2>1. TypeOK' BY <1>0, <1>7 DEF Lock
  <2>2. OneBuild' BY <1>7 DEF Lock
  <2>3. OwnCode' BY <1>7 DEF Lock
  <2>4. NumbersKnown' BY <1>7 DEF Lock
  <2>5. ResourcesKnown' BY <1>7 DEF Lock
  <2> QED BY <2>1, <2>2, <2>3, <2>4, <2>5
<1>8. CASE Cancel(p)
  <2>1. TypeOK' BY <1>0, <1>8 DEF Cancel, Return
  <2>2. OneBuild' BY <1>8 DEF Cancel, Return
  <2>3. OwnCode' BY <1>8 DEF Cancel, Return
  <2>4. NumbersKnown' BY <1>8 DEF Cancel, Return
  <2>5. ResourcesKnown' BY <1>8 DEF Cancel, Return
  <2> QED BY <2>1, <2>2, <2>3, <2>4, <2>5
<1>9. CASE FoundDone(p)
  <2>1. TypeOK' BY <1>0, <1>9 DEF FoundDone
  <2>2. OneBuild' BY <1>9 DEF FoundDone
  <2>3. OwnCode' BY <1>9 DEF FoundDone
  <2>4. NumbersKnown' BY <1>9 DEF FoundDone
  <2>5. ResourcesKnown' BY <1>9 DEF FoundDone
  <2> QED BY <2>1, <2>2, <2>3, <2>4, <2>5
<1>10. CASE Run(p)
  <2>1. TypeOK' BY <1>0, <1>10 DEF Run
  <2>2. OneBuild' BY <1>10 DEF Run
  <2>3. OwnCode' BY <1>10 DEF Run
  <2>4. NumbersKnown' BY <1>10 DEF Run
  <2>5. ResourcesKnown' BY <1>10 DEF Run
  <2> QED BY <2>1, <2>2, <2>3, <2>4, <2>5
<1>11. CASE Publish(p)
  <2>1. TypeOK' BY <1>0, <1>11 DEF Publish
  <2>2. OneBuild' BY <1>11 DEF Publish
  <2>3. OwnCode' BY <1>11 DEF Publish
  <2>4. NumbersKnown' BY <1>11 DEF Publish
  <2>5. ResourcesKnown' BY <1>11 DEF Publish
  <2> QED BY <2>1, <2>2, <2>3, <2>4, <2>5
<1>12. CASE Built(p)
  <2>1. TypeOK' BY <1>0, <1>12 DEF Built
  <2>2. OneBuild' BY <1>12 DEF Built
  <2>3. OwnCode' BY <1>12 DEF Built
  <2>4. NumbersKnown' BY <1>12 DEF Built
  <2>5. ResourcesKnown' BY <1>12 DEF Built
  <2> QED BY <2>1, <2>2, <2>3, <2>4, <2>5
<1>13. CASE CompileFails(p)
  <2>1. TypeOK' BY <1>0, <1>13 DEF CompileFails
  <2>2. OneBuild' BY <1>13 DEF CompileFails
  <2>3. OwnCode' BY <1>13 DEF CompileFails
  <2>4. NumbersKnown' BY <1>13 DEF CompileFails
  <2>5. ResourcesKnown' BY <1>13 DEF CompileFails
  <2> QED BY <2>1, <2>2, <2>3, <2>4, <2>5
<1>14. CASE Fail(p)
  <2>1. TypeOK' BY <1>0, <1>14 DEF Fail, Return
  <2>2. OneBuild' BY <1>14 DEF Fail, Return
  <2>3. OwnCode' BY <1>14 DEF Fail, Return
  <2>4. NumbersKnown' BY <1>14 DEF Fail, Return
  <2>5. ResourcesKnown' BY <1>14 DEF Fail, Return
  <2> QED BY <2>1, <2>2, <2>3, <2>4, <2>5
<1>15. CASE Serve(p) BY <1>0, <1>15 DEF Serve
<1>16. CASE NotServed(p) BY <1>0, <1>16, ReturnKeeps DEF NotServed
<1>17. CASE Answered(p) BY <1>0, <1>17, ReturnKeeps DEF Answered
<1>18. CASE NoCode(p, Found(p)) BY <1>0, <1>18 DEF NoCode, Found
<1>19. CASE Fetch(p, Found(p))
  <2>1. TypeOK' BY <1>0, <1>19 DEF Fetch, Found, Write
  <2>2. OneBuild' BY <1>19 DEF Fetch, Found, Write
  <2>3. OwnCode' BY <1>19 DEF Fetch, Found, Write
  <2>4. NumbersKnown' BY <1>19 DEF Fetch, Found, Write
  <2>5. ResourcesKnown' BY <1>19 DEF Fetch, Found, Write
  <2> QED BY <2>1, <2>2, <2>3, <2>4, <2>5
<1>20. CASE Restore(p, Kept)
  <2>1. TypeOK' BY <1>0, <1>20 DEF Restore, Kept, Write
  <2>2. OneBuild' BY <1>20 DEF Restore, Kept, Write
  <2>3. OwnCode' BY <1>20 DEF Restore, Kept, Write
  <2>4. NumbersKnown' BY <1>20 DEF Restore, Kept, Write
  <2>5. ResourcesKnown' BY <1>20 DEF Restore, Kept, Write
  <2> QED BY <2>1, <2>2, <2>3, <2>4, <2>5
<1> QED BY <1>1, <1>2, <1>3, <1>4, <1>5, <1>6, <1>7, <1>8, <1>9, <1>10, <1>11,
           <1>12, <1>13, <1>14, <1>15, <1>16, <1>17, <1>18, <1>19, <1>20
  DEF BuilderNext, Build, Request

LEMMA SaveKeeps ==
  ASSUME IInv, Save
  PROVE  IInv'
<1> USE BuilderAssumption, StampAssumption, VersionAssumption
        DEF None, Stamps, Epochs, NoHandler, Builders, IInv
<1>1. UNCHANGED <<deployed, broken, resources, compiling, epoch, pc, asked, code, seen, got,
                  state, online, task, since>>
  BY DEF Save, builds, Store!Add, Store!Discard
<1>2. state = "there" /\ kept' \subseteq Stamps
  <2>1. CASE Store!Add BY <2>1 DEF TypeOK, Store!Add, Store!Versions
  <2>2. CASE Store!Discard BY <2>2 DEF TypeOK, Store!Discard
  <2> QED BY <2>1, <2>2 DEF Save
<1>3. PICK m \in kept : /\ \A w \in kept : w <= m
                       /\ deployed.stamp <= m /\ \A p \in Builders : asked[p] <= m
  BY <1>2 DEF NumbersKnown
<1>4. \E n \in kept' : m <= n /\ \A w \in kept' : w <= n
  <2>1. CASE Store!Add
    <3>1. PICK v \in Store!Versions : Store!IsNext(v, kept) /\ kept' = kept \union {v}
      BY <2>1 DEF Store!Add
    <3>2. v \in kept' /\ \A w \in kept : w < v /\ w \in Nat
      BY <3>1, <1>3 DEF Store!IsNext, TypeOK
    <3> QED BY <3>1, <3>2, <1>3, <1>2
  <2>2. CASE Store!Discard
    <3>1. m \in kept' /\ kept' \subseteq kept
      BY <2>2, <1>3 DEF Store!Discard, Store!IsNewest
    <3> QED BY <3>1, <1>3, <1>2
  <2> QED BY <2>1, <2>2 DEF Save
<1>5. \A w \in kept' : w \in kept \/ m < w
  <2>1. CASE Store!Add
    <3>1. PICK v \in Store!Versions : Store!IsNext(v, kept) /\ kept' = kept \union {v}
      BY <2>1 DEF Store!Add
    <3> QED BY <3>1, <1>3 DEF Store!IsNext
  <2>2. CASE Store!Discard BY <2>2 DEF Store!Discard
  <2> QED BY <2>1, <2>2 DEF Save
<1>6. deployed.stamp \in Nat /\ \A p \in Builders : asked[p] \in Nat
  BY DEF TypeOK, BuildTypeOK, Handlers
<1>7. online # None => online \in kept'
  <2>1. CASE Store!Add BY <2>1 DEF Store!Add, NumbersKnown
  <2>2. CASE Store!Discard BY <2>2 DEF Store!Discard, NumbersKnown
  <2> QED BY <2>1, <2>2 DEF Save
<1>8. TypeOK' BY <1>1, <1>2 DEF TypeOK, BuildTypeOK
<1>9. OneBuild' BY <1>1 DEF OneBuild
<1>10. OwnCode' BY <1>1 DEF OwnCode
<1>11. NumbersKnown'
  <2>1. PICK n \in kept' : m <= n /\ \A w \in kept' : w <= n BY <1>4
  <2>2. m \in Nat /\ n \in Nat BY <1>2, <2>1, <1>3 DEF TypeOK
  <2>3. deployed.stamp <= n /\ \A p \in Builders : asked[p] <= n BY <2>1, <2>2, <1>3, <1>6
  <2> QED BY <1>1, <1>2, <1>7, <2>1, <2>3 DEF NumbersKnown
<1>12. deployed.stamp \notin kept => deployed.stamp \notin kept'
  <2>1. m \in Nat BY <1>3 DEF TypeOK
  <2> QED BY <1>3, <1>5, <1>6, <2>1
<1>13. ResourcesKnown' BY <1>1, <1>12 DEF ResourcesKnown
<1> QED BY <1>8, <1>9, <1>10, <1>11, <1>13

LEMMA StepInvariant == IInv /\ [Next]_vars => IInv'
<1> SUFFICES ASSUME IInv, [Next]_vars PROVE IInv' OBVIOUS
<1> USE BuilderAssumption, StampAssumption, VersionAssumption
        DEF None, Stamps, Epochs, NoHandler, Handlers, Builders, IInv, TypeOK, BuildTypeOK, PCs,
            UnderLock, OneBuild, OwnCode, NumbersKnown, ResourcesKnown, Go, slot, call, Now, builds, Store!None
<1>1. ASSUME NEW r \in Visitors, Resolve(r) PROVE IInv'
  BY <1>1 DEF Resolve, Begin
<1>2. ASSUME NEW d \in Deployers, Deploy(d) PROVE IInv'
  <2>1. TypeOK' BY <1>2 DEF Deploy, Begin
  <2>2. OneBuild' /\ OwnCode' BY <1>2 DEF Deploy, Begin
  <2>3. NumbersKnown' BY <1>2 DEF Deploy, Begin
  <2>4. ResourcesKnown' BY <1>2 DEF Deploy, Begin
  <2> QED BY <2>1, <2>2, <2>3, <2>4
<1>3. ASSUME NEW d \in Deployers, Recorded(d) PROVE IInv'
  <2>1. TypeOK' BY <1>3 DEF Recorded, Return, Online, Store!GoOnline
  <2>2. OneBuild' /\ OwnCode' BY <1>3 DEF Recorded, Return, Online, Store!GoOnline
  <2>3. NumbersKnown' BY <1>3 DEF Recorded, Return, Online, Store!GoOnline
  <2>4. ResourcesKnown' BY <1>3 DEF Recorded, Return, Online, Store!GoOnline
  <2> QED BY <2>1, <2>2, <2>3, <2>4
<1>4. ASSUME NEW d \in Deployers, NotRecorded(d) PROVE IInv'
  BY <1>4 DEF NotRecorded, Return
<1>5. ASSUME NEW a \in Admins, Undeploy(a) PROVE IInv'
  BY <1>5 DEF Undeploy, Store!GoOffline
<1>6. ASSUME NEW a \in Admins, SweepEvict(a) PROVE IInv'
  BY <1>6 DEF SweepEvict, Dropped
<1>7. ASSUME NEW a \in Admins, SweepOffline(a) PROVE IInv'
  BY <1>7 DEF SweepOffline, Store!GoOffline
<1>8. ASSUME NEW a \in Admins, RemoveEvict(a) PROVE IInv'
  BY <1>8 DEF RemoveEvict, Dropped
<1>9. ASSUME NEW a \in Admins, RemoveRow(a) PROVE IInv'
  BY <1>9 DEF RemoveRow, Store!Remove
<1>10. ASSUME NEW a \in Admins, RemovedAlready(a) PROVE IInv'
  BY <1>10 DEF RemovedAlready
<1>11. ASSUME NEW a \in Admins, RemoveFiles(a) PROVE IInv'
  BY <1>11 DEF RemoveFiles
<1>12. ASSUME NEW a \in Admins, SwitchData(a) PROVE IInv'
  BY <1>12 DEF SwitchData
<1>13. ASSUME NEW a \in Admins, Evict(a) PROVE IInv'
  BY <1>13 DEF Evict, Dropped
<1>14. CASE SlotNext BY <1>14 DEF SlotNext, BuildElsewhere, Mend
<1>15. CASE UNCHANGED vars BY <1>15 DEF vars
<1>. HIDE DEF IInv
<1> QED BY BuilderStep, SaveKeeps, <1>1, <1>2, <1>3, <1>4, <1>5, <1>6, <1>7, <1>8, <1>9, <1>10, <1>11,
           <1>12, <1>13, <1>14, <1>15
  DEF Next, AdminNext

(* One build at a time, and none of what is there (DeploymentService).     *)
THEOREM Invariant == Spec => []IInv
BY InitInvariant, StepInvariant, PTL DEF Spec

(* What is online, once nobody builds, finds its own resources, whatever   *)
(* failed, was dropped or pruned before (DeploymentService.Restore).       *)
THEOREM OnlineFindsResources == Spec => []OnlineResources
<1>1. IInv => OnlineResources
  BY BuilderAssumption DEF IInv, TypeOK, BuildTypeOK, OneBuild, UnderLock, OwnCode, NumbersKnown, ResourcesKnown,
     OnlineResources, ResourcesServed, NoHandler, None, Stamps, Builders
<1> QED BY <1>1, Invariant, PTL

(* What is there already is not built again (ActivateAsync).               *)
THEOREM NeverBuiltTwice == Spec => []NotBuiltTwice
<1>1. IInv => NotBuiltTwice
  BY DEF IInv, OwnCode, NotBuiltTwice
<1> QED BY <1>1, Invariant, PTL
===============================================================================
