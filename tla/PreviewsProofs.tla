----------------------------- MODULE PreviewsProofs -----------------------------
(***************************************************************************)
(* What holds of Previews for any number of requests, deployments and      *)
(* admin calls, and any bounds: numbers are never shared, the latest stays *)
(* online, and what is served is what was recorded, until a commit fails.  *)
(***************************************************************************)
EXTENDS Previews, TLAPS

(* Nothing is deployed and nobody is about anything.                       *)
LEMMA InitInvariant == Init => IInv
<1> SUFFICES ASSUME Init PROVE IInv OBVIOUS
<1> USE BuilderAssumption, StampAssumption, AdminAssumption, FailureAssumption
        DEF Init, BuildInit, None, Stamps, Epochs, NoHandler, Builders
<1>1. TypeOK
  <2>1. BuildTypeOK BY DEF BuildTypeOK, PCs, Handlers
  <2>2. failures \in 0 .. MaxFailures OBVIOUS
  <2>3. task \in [Admins -> {"idle", "evict", "copied", "drop", "folder", "stale", "quiet"}] OBVIOUS
  <2> QED BY <2>1, <2>2, <2>3 DEF TypeOK
<1>2. CallsNumbered BY DEF CallsNumbered
<1>3. StampsKnown BY DEF StampsKnown
<1>4. VisitorsFollow BY DEF VisitorsFollow
<1>5. TurnIsHeld BY DEF TurnIsHeld
<1>6. RecordedKnown BY DEF RecordedKnown
<1> QED BY <1>1, <1>2, <1>3, <1>4, <1>5, <1>6 DEF IInv

(* A call that has nothing written down forgets what it knew.              *)
LEMMA ReturnKeeps ==
  ASSUME IInv, NEW p \in Builders, pc[p] # "commit", Return(p),
         UNCHANGED <<deployed, resources, epoch, feature, stamps, turn, task, failures>>,
         broken' \in Stamps \union {None}, compiling' \in Builders \union {Elsewhere, Free}
  PROVE  IInv'
<1> USE BuilderAssumption, StampAssumption, AdminAssumption
        DEF None, Stamps, Epochs, NoHandler, Handlers, Builders, IInv, feature, Return
<1>1. TypeOK' BY DEF TypeOK, BuildTypeOK, PCs
<1>2. CallsNumbered' BY DEF CallsNumbered, TypeOK, BuildTypeOK
<1>3. StampsKnown' BY DEF StampsKnown, TypeOK, BuildTypeOK
<1>4. VisitorsFollow' BY DEF VisitorsFollow, TypeOK, BuildTypeOK
<1>5. TurnIsHeld' BY DEF TurnIsHeld, TypeOK, BuildTypeOK
<1>6. RecordedKnown' BY DEF RecordedKnown, TypeOK, BuildTypeOK
<1> QED BY <1>1, <1>2, <1>3, <1>4, <1>5, <1>6

(* A call that only goes on: what it knows and what is served stay.        *)
LEMMA GoKeeps ==
  ASSUME IInv, NEW p \in Builders, pc[p] \notin {"idle", "commit"},
         NEW to \in PCs \ {"idle", "build", "publish", "commit"}, pc' = [pc EXCEPT ![p] = to],
         UNCHANGED <<deployed, epoch, asked, code, seen, feature, stamps, turn, task, failures>>,
         resources' \in Stamps \union {None, Torn}, broken' \in Stamps \union {None},
         compiling' \in Builders \union {Elsewhere, Free},
         got' \in [Builders -> Handlers \union {NoHandler}]
  PROVE  IInv'
<1> USE BuilderAssumption, StampAssumption, AdminAssumption
        DEF None, Stamps, Epochs, NoHandler, Handlers, Builders, IInv, feature
<1>1. TypeOK' BY DEF TypeOK, BuildTypeOK, PCs
<1>2. CallsNumbered' BY DEF CallsNumbered, TypeOK, BuildTypeOK
<1>3. StampsKnown' BY DEF StampsKnown, TypeOK, BuildTypeOK
<1>4. VisitorsFollow' BY DEF VisitorsFollow, TypeOK, BuildTypeOK
<1>5. TurnIsHeld' BY DEF TurnIsHeld, TypeOK, BuildTypeOK
<1>6. RecordedKnown' BY DEF RecordedKnown, TypeOK, BuildTypeOK
<1> QED BY <1>1, <1>2, <1>3, <1>4, <1>5, <1>6

(* The code a deployment fetches is its own, a request's the recorded.     *)
LEMMA FetchKeeps ==
  ASSUME IInv, NEW p \in Builders, Fetch(p, Found(p)), UNCHANGED <<feature, stamps, turn, task, failures>>
  PROVE  IInv'
<1> USE BuilderAssumption, StampAssumption, AdminAssumption
        DEF None, Stamps, Epochs, NoHandler, Handlers, Builders, IInv, feature, Fetch, Go, Write
<1>0. PICK c \in Found(p) : code' = [code EXCEPT ![p] = c] /\ Write(c)
  OBVIOUS
<1>1. c \in Stamps /\ c # None /\ (p \in Deployers => c = asked[p]) /\ (p \in Visitors => c = file)
  BY <1>0 DEF Found, CallsNumbered, TypeOK, BuildTypeOK
<1>2. TypeOK' BY <1>0, <1>1 DEF TypeOK, BuildTypeOK, PCs, UnderLock
<1>3. CallsNumbered' BY <1>0, <1>1 DEF CallsNumbered, TypeOK, BuildTypeOK
<1>4. StampsKnown' BY <1>0, <1>1 DEF StampsKnown, TypeOK, BuildTypeOK
<1>5. VisitorsFollow' BY <1>0 DEF VisitorsFollow, TypeOK, BuildTypeOK
<1>6. TurnIsHeld' BY <1>0 DEF TurnIsHeld, TypeOK, BuildTypeOK
<1>7. RecordedKnown' BY <1>0, <1>1 DEF RecordedKnown, TypeOK, BuildTypeOK
<1> QED BY <1>2, <1>3, <1>4, <1>5, <1>6, <1>7

(* The code runs ...                                                       *)
LEMMA RunKeeps ==
  ASSUME IInv, NEW p \in Builders, Run(p), UNCHANGED <<feature, stamps, turn, task, failures>>
  PROVE  IInv'
<1> USE BuilderAssumption, StampAssumption, AdminAssumption
        DEF None, Stamps, Epochs, NoHandler, Handlers, Builders, IInv, feature, Run, Go, slot
<1>1. TypeOK' BY DEF TypeOK, BuildTypeOK, PCs, UnderLock
<1>2. CallsNumbered' BY DEF CallsNumbered, TypeOK, BuildTypeOK
<1>3. StampsKnown' BY DEF StampsKnown, TypeOK, BuildTypeOK
<1>4. VisitorsFollow' BY DEF VisitorsFollow, TypeOK, BuildTypeOK
<1>5. TurnIsHeld' BY DEF TurnIsHeld, TypeOK, BuildTypeOK
<1>6. RecordedKnown' BY DEF RecordedKnown, TypeOK, BuildTypeOK
<1> QED BY <1>1, <1>2, <1>3, <1>4, <1>5, <1>6

(* ... and what it returned is served under the number it was built for.   *)
LEMMA PublishKeeps ==
  ASSUME IInv, NEW p \in Builders, Publish(p), UNCHANGED <<feature, stamps, turn, task, failures>>
  PROVE  IInv'
<1> USE BuilderAssumption, StampAssumption, AdminAssumption
        DEF None, Stamps, Epochs, NoHandler, Handlers, Builders, IInv, feature, Publish, Go, call
<1>1. asked[p] \in Stamps /\ code[p] \in Stamps
  BY DEF CallsNumbered, TypeOK, BuildTypeOK
<1>2. TypeOK' BY <1>1 DEF TypeOK, BuildTypeOK, PCs, UnderLock
<1>3. CallsNumbered' BY DEF CallsNumbered, TypeOK, BuildTypeOK
<1>4. StampsKnown' BY DEF StampsKnown, TypeOK, BuildTypeOK
<1>5. VisitorsFollow' BY DEF VisitorsFollow, TypeOK, BuildTypeOK
<1>6. TurnIsHeld' BY DEF TurnIsHeld, TypeOK, BuildTypeOK
<1>7. RecordedKnown'
  <2>1. deployed'.stamp = asked[p] /\ deployed'.code = code[p]
    OBVIOUS
  <2>2. CASE p \in Deployers
    BY <1>1, <2>1, <2>2 DEF RecordedKnown, StampsKnown, TypeOK, BuildTypeOK
  <2>3. CASE p \in Visitors
    BY <1>1, <2>1, <2>3 DEF RecordedKnown, VisitorsFollow, TypeOK, BuildTypeOK
  <2> QED BY <2>2, <2>3
<1> QED BY <1>2, <1>3, <1>4, <1>5, <1>6, <1>7

(* What a build and a request do by themselves.                            *)
LEMMA BuilderStep ==
  ASSUME IInv, NEW p \in Builders, BuilderNext(p)
  PROVE  IInv'
<1> USE DEF slot, call, Go, PCs, UnderLock, None
<1>0. UNCHANGED <<feature, stamps, turn, task, failures>> BY DEF BuilderNext
<1>1. /\ TypeOK /\ p \in DOMAIN pc
      /\ deployed \in Handlers \union {NoHandler} /\ broken \in Stamps \union {None}
      /\ resources \in Stamps \union {None, Torn} /\ file \in Stamps \union {None}
      /\ compiling \in Builders \union {Elsewhere, Free} /\ asked[p] \in Stamps \union {None}
      /\ got \in [Builders -> Handlers \union {NoHandler}]
  BY DEF IInv, TypeOK, BuildTypeOK
<1>2. CASE Hit(p) BY <1>0, <1>1, <1>2, GoKeeps DEF Hit
<1>3. CASE Miss(p) BY <1>0, <1>1, <1>3, GoKeeps DEF Miss
<1>4. CASE Refuse(p) BY <1>0, <1>1, <1>4, ReturnKeeps DEF Refuse
<1>5. CASE Unbroken(p) BY <1>0, <1>1, <1>5, GoKeeps DEF Unbroken
<1>6. CASE Fail(p) BY <1>0, <1>1, <1>6, ReturnKeeps DEF Fail
<1>7. CASE Serve(p) BY <1>0, <1>1, <1>7, GoKeeps DEF Serve
<1>8. CASE NotServed(p) BY <1>0, <1>1, <1>8, ReturnKeeps DEF NotServed
<1>9. CASE Answered(p) BY <1>0, <1>1, <1>9, ReturnKeeps DEF Answered
<1>10. CASE Already(p) BY <1>0, <1>1, <1>10, GoKeeps DEF Already
<1>11. CASE Wait(p) BY <1>0, <1>1, <1>11, GoKeeps DEF Wait
<1>12. CASE Lock(p) BY <1>0, <1>1, <1>12, GoKeeps DEF Lock
<1>13. CASE FoundDone(p) BY <1>0, <1>1, <1>13, GoKeeps DEF FoundDone
<1>14. CASE NoCode(p, Found(p)) BY <1>0, <1>1, <1>14, GoKeeps DEF NoCode
<1>15. CASE Fetch(p, Found(p)) BY <1>0, <1>15, FetchKeeps
<1>16. CASE Run(p) BY <1>0, <1>16, RunKeeps
<1>17. CASE Publish(p) BY <1>0, <1>17, PublishKeeps
<1>18. CASE Built(p) BY <1>0, <1>1, <1>18, GoKeeps DEF Built
<1>19. CASE CompileFails(p) BY <1>0, <1>1, <1>19, GoKeeps DEF CompileFails
<1>20. CASE Restore(p, Kept)
  <2>1. resources' \in Stamps \union {None, Torn} BY <1>1, <1>20 DEF Restore, Kept, Write
  <2> QED BY <1>0, <1>1, <1>20, <2>1, GoKeeps DEF Restore
<1>21. CASE Cancel(p) BY <1>0, <1>1, <1>21, ReturnKeeps DEF Cancel
<1> QED BY <1>2, <1>3, <1>4, <1>5, <1>6, <1>7, <1>8, <1>9, <1>10, <1>11, <1>12, <1>13, <1>14, <1>15, <1>16, <1>17, <1>18, <1>19, <1>20, <1>21
  DEF BuilderNext, Build, Request

-------------------------------------------------------------------------------
(* A request asks for what is recorded.                                    *)
LEMMA ResolveKeeps ==
  ASSUME IInv, NEW r \in Visitors, Resolve(r)
  PROVE  IInv'
<1> USE BuilderAssumption, StampAssumption, AdminAssumption
        DEF None, Stamps, Epochs, NoHandler, Handlers, Builders, IInv, feature, slot, Resolve, Begin, Go
<1>1. Wanted = preview /\ preview # None /\ pc[r] = "idle"
  BY DEF Wanted
<1>2. TypeOK' BY <1>1 DEF TypeOK, BuildTypeOK, PCs
<1>3. CallsNumbered' BY <1>1 DEF CallsNumbered, TypeOK, BuildTypeOK
<1>4. StampsKnown' BY DEF StampsKnown, TypeOK, BuildTypeOK
<1>5. VisitorsFollow' BY <1>1 DEF VisitorsFollow, TypeOK, BuildTypeOK
<1>6. TurnIsHeld' BY DEF TurnIsHeld, TypeOK, BuildTypeOK
<1>7. RecordedKnown' BY <1>1 DEF RecordedKnown, CallsNumbered, TypeOK, BuildTypeOK
<1> QED BY <1>2, <1>3, <1>4, <1>5, <1>6, <1>7

(* A deployment gets a number nobody has and that is not recorded.         *)
LEMMA DeployKeeps ==
  ASSUME IInv, NEW d \in Deployers, Deploy(d)
  PROVE  IInv'
<1> USE BuilderAssumption, StampAssumption, AdminAssumption
        DEF None, Stamps, Epochs, NoHandler, Handlers, Builders, IInv, feature, slot, Deploy, Begin, Go
<1>1. stamps' \in Stamps /\ stamps' > stamps /\ stamps' > preview /\ asked' = [asked EXCEPT ![d] = stamps']
  BY DEF NextStamp, Larger, TypeOK
<1>2. TypeOK' BY <1>1 DEF TypeOK, BuildTypeOK, PCs
<1>3. CallsNumbered' BY <1>1 DEF CallsNumbered, TypeOK, BuildTypeOK
<1>4. StampsKnown' BY <1>1 DEF StampsKnown, CallsNumbered, TypeOK, BuildTypeOK
<1>5. VisitorsFollow' BY DEF VisitorsFollow, TypeOK, BuildTypeOK
<1>6. TurnIsHeld' BY DEF TurnIsHeld, TypeOK, BuildTypeOK
<1>7. RecordedKnown' BY DEF RecordedKnown, TypeOK, BuildTypeOK
<1> QED BY <1>2, <1>3, <1>4, <1>5, <1>6, <1>7

(* The file is written in the turn, and is not yet what is recorded ...    *)
LEMMA WritePreviewKeeps ==
  ASSUME IInv, NEW d \in Deployers, WritePreview(d)
  PROVE  IInv'
<1> USE BuilderAssumption, StampAssumption, AdminAssumption
        DEF None, Stamps, Epochs, NoHandler, Handlers, Builders, IInv, slot, call, WritePreview, Go
<1>1. asked[d] \in Stamps
  BY DEF CallsNumbered, TypeOK, BuildTypeOK
<1>2. TypeOK' BY <1>1 DEF TypeOK, BuildTypeOK, PCs
<1>3. CallsNumbered' BY DEF CallsNumbered, TypeOK, BuildTypeOK
<1>4. StampsKnown' BY DEF StampsKnown, TypeOK, BuildTypeOK
<1>5. VisitorsFollow' BY DEF VisitorsFollow, TypeOK, BuildTypeOK
<1>6. TurnIsHeld' BY DEF TurnIsHeld, TypeOK, BuildTypeOK
<1>7. RecordedKnown' BY DEF RecordedKnown, TypeOK, BuildTypeOK
<1> QED BY <1>2, <1>3, <1>4, <1>5, <1>6, <1>7

(* ... until the row says so.                                              *)
LEMMA CommitKeeps ==
  ASSUME IInv, NEW d \in Deployers, Commit(d)
  PROVE  IInv' /\ preview' > preview
<1> USE BuilderAssumption, StampAssumption, AdminAssumption
        DEF None, Stamps, Epochs, NoHandler, Handlers, Builders, IInv, slot, Commit, Return
<1>1. preview' \in Stamps /\ preview' > preview /\ file = preview' /\ turn = d
  BY DEF CallsNumbered, TurnIsHeld, TypeOK, BuildTypeOK
<1>2. \A e \in Deployers \ {d} : pc[e] # "commit" /\ (asked[e] # None => asked[e] # preview')
  BY <1>1 DEF TurnIsHeld, StampsKnown, CallsNumbered, TypeOK, BuildTypeOK
<1>3. TypeOK' BY <1>1 DEF TypeOK, BuildTypeOK, PCs
<1>4. CallsNumbered' BY DEF CallsNumbered, TypeOK, BuildTypeOK
<1>5. StampsKnown' BY <1>1, <1>2 DEF StampsKnown, TypeOK, BuildTypeOK
<1>6. VisitorsFollow' BY <1>1 DEF VisitorsFollow, TypeOK, BuildTypeOK
<1>7. TurnIsHeld' BY <1>1, <1>2 DEF TurnIsHeld, TypeOK, BuildTypeOK
<1>8. RecordedKnown' BY <1>1, <1>2 DEF RecordedKnown, VisitorsFollow, TypeOK, BuildTypeOK
<1> QED BY <1>1, <1>3, <1>4, <1>5, <1>6, <1>7, <1>8

(* What was built and is not recorded is dropped.                          *)
LEMMA CommitFailsKeeps ==
  ASSUME IInv, NEW d \in Deployers, CommitFails(d)
  PROVE  IInv'
<1> USE BuilderAssumption, StampAssumption, AdminAssumption, FailureAssumption
        DEF None, Stamps, Epochs, NoHandler, Handlers, Builders, IInv, feature, CommitFails, Dropped, Return
<1>1. TypeOK' BY DEF TypeOK, BuildTypeOK, PCs
<1>2. CallsNumbered' BY DEF CallsNumbered, TypeOK, BuildTypeOK
<1>3. StampsKnown' BY DEF StampsKnown, TypeOK, BuildTypeOK
<1>4. VisitorsFollow' BY DEF VisitorsFollow, TypeOK, BuildTypeOK
<1>5. TurnIsHeld' BY DEF TurnIsHeld, TypeOK, BuildTypeOK
<1>6. RecordedKnown' BY DEF RecordedKnown, TypeOK
<1> QED BY <1>1, <1>2, <1>3, <1>4, <1>5, <1>6

LEMMA VanishedKeeps ==
  ASSUME IInv, NEW d \in Deployers, Vanished(d)
  PROVE  IInv'
<1> USE BuilderAssumption, StampAssumption, AdminAssumption
        DEF None, Stamps, Epochs, NoHandler, Handlers, Builders, IInv, feature, Vanished, Dropped, Return
<1>1. TypeOK' BY DEF TypeOK, BuildTypeOK, PCs
<1>2. CallsNumbered' BY DEF CallsNumbered, TypeOK, BuildTypeOK
<1>3. StampsKnown' BY DEF StampsKnown, TypeOK, BuildTypeOK
<1>4. VisitorsFollow' BY DEF VisitorsFollow, TypeOK, BuildTypeOK
<1>5. TurnIsHeld' BY DEF TurnIsHeld, TypeOK, BuildTypeOK
<1>6. RecordedKnown' BY DEF RecordedKnown
<1> QED BY <1>1, <1>2, <1>3, <1>4, <1>5, <1>6

(* Undeploying, refreshing, removing and maintaining take away what is     *)
(* served and never bring anything.                                        *)
LEMMA AdminKeeps ==
  ASSUME IInv, NEW a \in Admins, AdminNext(a)
  PROVE  IInv'
<1> USE BuilderAssumption, StampAssumption, AdminAssumption
        DEF None, Stamps, Epochs, NoHandler, Handlers, Builders, IInv
<1>0. /\ UNCHANGED <<pc, asked, code, seen, got, preview, stamps, failures, compiling>>
      /\ deployed' \in {deployed, NoHandler} /\ broken' \in {broken, None} /\ resources' \in {resources, None}
      /\ epoch' \in Epochs
      /\ row' \in {row, "gone"} /\ previewed' \in BOOLEAN
      /\ \/ file' = file
         \/ file' = None /\ row = "gone" /\ turn = a
      /\ task' \in [Admins -> {"idle", "evict", "copied", "drop", "folder", "stale", "quiet"}]
      /\ \A b \in Admins \ {a} : task'[b] = task[b]
  <2> USE DEF builds, slot, call, feature, Now, Dropped
  <2>0. TypeOK /\ TurnIsHeld OBVIOUS
  <2>1. CASE Undeploy(a) BY <2>0, <2>1 DEF Undeploy, TypeOK, BuildTypeOK
  <2>2. CASE Evict(a) BY <2>0, <2>2 DEF Evict, TypeOK, BuildTypeOK
  <2>3. CASE CopyData(a) BY <2>0, <2>3 DEF CopyData, TypeOK, BuildTypeOK
  <2>4. CASE Refresh(a) BY <2>0, <2>4 DEF Refresh, TypeOK, BuildTypeOK
  <2>5. CASE RemoveRow(a) BY <2>0, <2>5 DEF RemoveRow, TypeOK, BuildTypeOK
  <2>6. CASE RemoveHandler(a) BY <2>0, <2>6 DEF RemoveHandler, TypeOK, BuildTypeOK
  <2>7. CASE RemoveFolder(a) BY <2>0, <2>7 DEF RemoveFolder, TypeOK, BuildTypeOK, TurnIsHeld
  <2>8. CASE Maintain(a) BY <2>0, <2>8 DEF Maintain, TypeOK, BuildTypeOK
  <2>9. CASE MaintainLooks(a) BY <2>0, <2>9 DEF MaintainLooks, TypeOK, BuildTypeOK
  <2>10. CASE MaintainEvict(a) BY <2>0, <2>10 DEF MaintainEvict, TypeOK, BuildTypeOK
  <2> QED BY <2>1, <2>2, <2>3, <2>4, <2>5, <2>6, <2>7, <2>8, <2>9, <2>10 DEF AdminNext
<1>1. /\ \/ turn' = turn
         \/ turn = Free /\ turn' = a
         \/ turn = a /\ turn' = Free
      /\ task'[a] \in {"evict", "drop", "folder"} => turn' = a
      /\ task'[a] \in {"drop", "folder"} => row' = "gone"
  <2> USE DEF builds, slot, call, feature, Now, Dropped, TypeOK, TurnIsHeld
  <2>1. CASE Undeploy(a) BY <2>1 DEF Undeploy
  <2>2. CASE Evict(a) BY <2>2 DEF Evict
  <2>3. CASE CopyData(a) BY <2>3 DEF CopyData
  <2>4. CASE Refresh(a) BY <2>4 DEF Refresh
  <2>5. CASE RemoveRow(a) BY <2>5 DEF RemoveRow
  <2>6. CASE RemoveHandler(a) BY <2>6 DEF RemoveHandler
  <2>7. CASE RemoveFolder(a) BY <2>7 DEF RemoveFolder
  <2>8. CASE Maintain(a) BY <2>8 DEF Maintain
  <2>9. CASE MaintainLooks(a) BY <2>9 DEF MaintainLooks
  <2>10. CASE MaintainEvict(a) BY <2>10 DEF MaintainEvict
  <2> QED BY <2>1, <2>2, <2>3, <2>4, <2>5, <2>6, <2>7, <2>8, <2>9, <2>10 DEF AdminNext
<1>2. TypeOK' BY <1>0, <1>1 DEF TypeOK, BuildTypeOK
<1>3. CallsNumbered' BY <1>0 DEF CallsNumbered
<1>4. StampsKnown' BY <1>0 DEF StampsKnown
<1>5. VisitorsFollow' BY <1>0 DEF VisitorsFollow
<1>6. TurnIsHeld'
  <2>1. ASSUME NEW d \in Deployers, pc'[d] = "commit"
        PROVE  turn' = d /\ asked'[d] > preview' /\ file' = asked'[d]
    BY <1>0, <1>1, <2>1 DEF TurnIsHeld
  <2>2. ASSUME NEW b \in Admins
        PROVE  /\ task'[b] \in {"evict", "drop", "folder"} => turn' = b
               /\ task'[b] \in {"drop", "folder"} => row' = "gone"
    BY <1>0, <1>1 DEF TurnIsHeld, TypeOK
  <2> QED BY <2>1, <2>2 DEF TurnIsHeld
<1>7. RecordedKnown' BY <1>0 DEF RecordedKnown, TypeOK, BuildTypeOK
<1> QED BY <1>2, <1>3, <1>4, <1>5, <1>6, <1>7

(* The process dies, and who was about something with it.                  *)
LEMMA CrashKeeps == IInv /\ Crash => IInv'
<1> SUFFICES ASSUME IInv, Crash PROVE IInv' OBVIOUS
<1> USE BuilderAssumption, StampAssumption, AdminAssumption, FailureAssumption
        DEF None, Stamps, Epochs, NoHandler, Handlers, Builders, IInv, feature, Crash
<1>1. TypeOK' BY DEF TypeOK, BuildTypeOK, PCs
<1>2. CallsNumbered' BY DEF CallsNumbered
<1>3. StampsKnown' BY DEF StampsKnown
<1>4. VisitorsFollow' BY DEF VisitorsFollow, TypeOK
<1>5. TurnIsHeld' BY DEF TurnIsHeld
<1>6. RecordedKnown' BY DEF RecordedKnown, TypeOK
<1> QED BY <1>1, <1>2, <1>3, <1>4, <1>5, <1>6

(* A build elsewhere, and a minute that is over.                           *)
LEMMA SlotKeeps == IInv /\ (SlotNext \/ UNCHANGED vars) => IInv'
<1> SUFFICES ASSUME IInv, SlotNext \/ UNCHANGED vars PROVE IInv' OBVIOUS
<1>0. UNCHANGED <<deployed, resources, epoch, pc, call, feature, stamps, turn, task, failures>>
      /\ broken' \in {broken, None} /\ compiling' \in {compiling, Free, Elsewhere}
  BY DEF SlotNext, BuildElsewhere, Mend, vars, builds, call
<1> USE <1>0 DEF IInv, call, feature, builds
<1>1. TypeOK' BY DEF TypeOK, BuildTypeOK
<1>2. CallsNumbered' BY DEF CallsNumbered
<1>3. StampsKnown' BY DEF StampsKnown
<1>4. VisitorsFollow' BY DEF VisitorsFollow
<1>5. TurnIsHeld' BY DEF TurnIsHeld
<1>6. RecordedKnown' BY DEF RecordedKnown
<1> QED BY <1>1, <1>2, <1>3, <1>4, <1>5, <1>6

-------------------------------------------------------------------------------
(* Nobody but a commit changes what is recorded, and that to a later one.  *)
LEMMA StepInvariant == IInv /\ [Next]_vars => IInv' /\ preview' >= preview
<1> SUFFICES ASSUME IInv, [Next]_vars PROVE IInv' /\ preview' >= preview OBVIOUS
<1>0. preview \in Nat
  BY StampAssumption DEF IInv, TypeOK, Stamps, None
<1>1. ASSUME NEW p \in Builders, BuilderNext(p) PROVE IInv' /\ preview' >= preview
  BY <1>0, <1>1, BuilderStep DEF BuilderNext, feature
<1>2. ASSUME NEW r \in Visitors, Resolve(r) PROVE IInv' /\ preview' >= preview
  BY <1>0, <1>2, ResolveKeeps DEF Resolve, feature
<1>3. ASSUME NEW d \in Deployers, DeployNext(d) PROVE IInv' /\ preview' >= preview
  <2>1. CASE Deploy(d) BY <1>0, <2>1, DeployKeeps DEF Deploy, feature
  <2>2. CASE WritePreview(d) BY <1>0, <2>2, WritePreviewKeeps DEF WritePreview
  <2>3. CASE Commit(d)
    <3>1. IInv' /\ preview' > preview BY <2>3, CommitKeeps
    <3>2. preview' \in Nat BY <3>1, StampAssumption DEF IInv, TypeOK, Stamps, None
    <3> QED BY <1>0, <3>1, <3>2
  <2>4. CASE CommitFails(d) BY <1>0, <2>4, CommitFailsKeeps DEF CommitFails, feature
  <2>5. CASE Vanished(d) BY <1>0, <2>5, VanishedKeeps DEF Vanished, feature
  <2>6. CASE NotPreviewed(d)
    <3>1. d \in Builders /\ pc[d] # "commit" /\ Return(d)
          /\ UNCHANGED <<slot, epoch, feature, stamps, turn, task, failures>>
      BY <2>6 DEF NotPreviewed, Builders
    <3>2. broken \in Stamps \union {None} /\ compiling \in Builders \union {Elsewhere, Free}
      BY DEF IInv, TypeOK, BuildTypeOK
    <3> QED BY <1>0, <3>1, <3>2, ReturnKeeps DEF slot, feature
  <2> QED BY <1>3, <2>1, <2>2, <2>3, <2>4, <2>5, <2>6 DEF DeployNext
<1>4. ASSUME NEW a \in Admins, AdminNext(a) PROVE IInv' /\ preview' >= preview
  <2>1. preview' = preview
    BY <1>4 DEF AdminNext, Undeploy, Evict, CopyData, Refresh, RemoveRow, RemoveHandler, RemoveFolder,
                Maintain, MaintainLooks, MaintainEvict, feature
  <2> QED BY <1>0, <1>4, <2>1, AdminKeeps
<1>5. CASE SlotNext \/ UNCHANGED vars
  BY <1>0, <1>5, SlotKeeps DEF SlotNext, vars, feature
<1>6. CASE Crash
  BY <1>0, <1>6, CrashKeeps DEF Crash, feature
<1> QED BY <1>1, <1>2, <1>3, <1>4, <1>5, <1>6 DEF Next

(* The invariant holds, whoever deploys, asks, refreshes, removes and dies *)
(* in whatever order (FeatureService, DeploymentService).                  *)
THEOREM Invariant == Spec => []IInv
  BY InitInvariant, StepInvariant, PTL DEF Spec

(* No two deployments share a number, nor does one take that of what is    *)
(* served, however many are built at once (FeatureService._stamps).        *)
THEOREM NumbersNotShared == Spec => []StampsUnique
<1>1. IInv => StampsUnique
  BY DEF IInv, StampsKnown, StampsUnique, Wanted
<1> QED BY <1>1, Invariant, PTL

(* A deployment started later stays online, for any number of them and in  *)
(* whatever order they finish (FeatureService.DeployAsync).                *)
THEOREM LatestStaysOnline == Spec => LatestStays
<1>1. IInv /\ [Next]_vars => [preview' >= preview]_vars
  BY StepInvariant
<1> QED BY <1>1, Invariant, PTL DEF Spec, LatestStays

(* Until a commit fails or the process dies, what is served under the      *)
(* recorded number is what was recorded under it, whichever requests build *)
(* it from the file (DeploymentService.ResolvePreviewAsync).               *)
THEOREM ServedAsRecorded == Spec => []ServesRecorded
<1>1. IInv => ServesRecorded
  <2> SUFFICES ASSUME IInv, failures = 0, Wanted # None, turn = Free, deployed.stamp = preview
               PROVE  deployed.code = preview
    BY DEF ServesRecorded
  <2>1. row = "there" /\ preview # None
    BY DEF Wanted
  <2>2. \A d \in Deployers : pc[d] # "commit"
    BY BuilderAssumption DEF IInv, TurnIsHeld
  <2> QED BY <2>1, <2>2 DEF IInv, RecordedKnown
<1> QED BY <1>1, Invariant, PTL
===============================================================================
