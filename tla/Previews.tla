------------------------------- MODULE Previews -------------------------------
(***************************************************************************)
(* The preview of one feature: deployments that are numbered in the        *)
(* feature's turn, built without it and written down in it again, next to  *)
(* the requests, the refreshing of the feature's data, the maintenance and *)
(* the removal of the feature (Services/Features/FeatureService.cs).       *)
(***************************************************************************)
EXTENDS DeploymentService, FiniteSets

CONSTANTS
  Admins,            \* calls that undeploy, refresh or remove the feature, and the maintenance
  MaxFailures        \* bound on the commits that fail and the times the process dies

ASSUME AdminAssumption == Admins \intersect (Builders \union {Free, Elsewhere}) = {}
ASSUME FailureAssumption == MaxFailures \in Nat

VARIABLES
  row,               \* "there" or "gone": the row of the feature
  preview,           \* Preview, the deployment recorded last
  previewed,         \* whether Previewed is set: the preview is online
  file,              \* the code in preview.json
  stamps,            \* _stamps: the number handed out last, forgotten on a restart
  turn,              \* who holds the feature's turn
  task,              \* what each admin does next
  failures

feature == <<row, preview, previewed, file>>
vars == <<builds, feature, stamps, turn, task, failures>>

Wanted == IF row = "there" /\ previewed THEN preview ELSE None

(* A deployment builds the code it was given, a request what is recorded.  *)
Found(p) == IF p \in Deployers THEN {asked[p]} ELSE {file} \ {None}
Kept == {file} \ {None}

TypeOK ==
  /\ BuildTypeOK
  /\ row \in {"there", "gone"}
  /\ preview \in Stamps \union {None} /\ previewed \in BOOLEAN
  /\ file \in Stamps \union {None}
  /\ stamps \in Stamps \union {None}
  /\ turn \in Deployers \union Admins \union {Free}
  /\ task \in [Admins -> {"idle", "evict", "copied", "drop", "folder", "stale", "quiet"}]
  /\ failures \in 0 .. MaxFailures

Init ==
  /\ BuildInit
  /\ row = "there" /\ preview = None /\ previewed = FALSE /\ file = None
  /\ stamps = None /\ turn = Free
  /\ task = [a \in Admins |-> "idle"]
  /\ failures = 0

Now(a, from, to) == task[a] = from /\ task' = [task EXCEPT ![a] = to]

Larger(m, n) == IF m > n THEN m ELSE n

-------------------------------------------------------------------------------
Resolve(r) ==
  /\ Wanted # None
  /\ Begin(r, Wanted, "look")
  /\ UNCHANGED <<slot, epoch, feature, stamps, turn, task, failures>>

NextStamp_Recorded == preview + 1

(* The number a deployment gets, counting those that are still building.   *)
NextStamp == Larger(stamps, preview) + 1

Deploy(d) ==
  /\ row = "there" /\ turn = Free
  /\ NextStamp \in Stamps
  /\ Begin(d, NextStamp, "activate")
  /\ stamps' = NextStamp
  /\ UNCHANGED <<slot, epoch, feature, turn, task, failures>>

WritePreview_OnlyNew(d) ==
  /\ row = "there" /\ turn = Free /\ asked[d] > preview
  /\ Go(d, "done", "commit")
  /\ file' = IF file = None THEN asked[d] ELSE file
  /\ turn' = d
  /\ UNCHANGED <<slot, epoch, call, row, preview, previewed, stamps, task, failures>>

WritePreview_Always(d) ==
  /\ row = "there" /\ turn = Free
  /\ Go(d, "done", "commit")
  /\ file' = asked[d] /\ turn' = d
  /\ UNCHANGED <<slot, epoch, call, row, preview, previewed, stamps, task, failures>>

(* Previewed: in the turn again, what was built is written down, unless a  *)
(* deployment started later was first.                                     *)
WritePreview(d) ==
  /\ row = "there" /\ turn = Free /\ asked[d] > preview
  /\ Go(d, "done", "commit")
  /\ file' = asked[d] /\ turn' = d
  /\ UNCHANGED <<slot, epoch, call, row, preview, previewed, stamps, task, failures>>

Commit(d) ==
  /\ pc[d] = "commit"
  /\ preview' = asked[d] /\ previewed' = TRUE
  /\ turn' = Free
  /\ Return(d)
  /\ UNCHANGED <<slot, epoch, row, file, stamps, task, failures>>

(* Built, but not recorded: dropped.                                       *)
CommitFails(d) ==
  /\ pc[d] = "commit" /\ failures < MaxFailures
  /\ failures' = failures + 1
  /\ Dropped /\ turn' = Free
  /\ Return(d)
  /\ UNCHANGED <<resources, compiling, epoch, feature, stamps, task>>

(* Nothing to write down: it did not build, or a later one did.            *)
NotPreviewed(d) ==
  /\ row = "there" /\ turn = Free
  /\ \/ pc[d] = "failed"
     \/ pc[d] = "done" /\ asked[d] <= preview
  /\ Return(d)
  /\ UNCHANGED <<slot, epoch, feature, stamps, turn, task, failures>>

(* Merged or deleted while it was being built: nothing serves it.          *)
Vanished(d) ==
  /\ row = "gone" /\ pc[d] \in {"done", "failed"}
  /\ Dropped
  /\ Return(d)
  /\ UNCHANGED <<resources, compiling, epoch, feature, stamps, turn, task, failures>>

-------------------------------------------------------------------------------
Undeploy(a) ==
  /\ row = "there" /\ previewed /\ turn = Free
  /\ Now(a, "idle", "evict")
  /\ previewed' = FALSE /\ turn' = a
  /\ UNCHANGED <<builds, row, preview, file, stamps, failures>>

Evict(a) ==
  /\ Now(a, "evict", "idle")
  /\ Dropped /\ turn' = Free
  /\ UNCHANGED <<resources, compiling, epoch, pc, call, feature, stamps, failures>>

(* RefreshDataAsync: the data is copied without the turn, then what was    *)
(* built is dropped in it.                                                 *)
CopyData(a) ==
  /\ row = "there" /\ epoch < MaxEpoch
  /\ Now(a, "idle", "copied")
  /\ epoch' = epoch + 1
  /\ UNCHANGED <<slot, pc, call, feature, stamps, turn, failures>>

Refresh(a) ==
  /\ turn = Free
  /\ Now(a, "copied", "idle")
  /\ IF row = "there" THEN Dropped ELSE UNCHANGED <<deployed, broken>>
  /\ UNCHANGED <<resources, compiling, epoch, pc, call, feature, stamps, turn, failures>>

(* Remove, of a merge or a deletion: the row, the handler, the folder, and *)
(* the handler again.                                                      *)
RemoveRow(a) ==
  /\ row = "there" /\ turn = Free
  /\ Now(a, "idle", "drop")
  /\ row' = "gone" /\ turn' = a
  /\ UNCHANGED <<builds, preview, previewed, file, stamps, failures>>

RemoveHandler(a) ==
  /\ Now(a, "drop", "folder")
  /\ Dropped
  /\ UNCHANGED <<resources, compiling, epoch, pc, call, feature, stamps, turn, failures>>

RemoveFolder(a) ==
  /\ Now(a, "folder", "evict")
  /\ file' = None /\ resources' = None
  /\ UNCHANGED <<deployed, broken, compiling, epoch, pc, call, row, preview, previewed,
                 stamps, turn, failures>>

(* RunMaintenance: offline in the database first, without the turn, then   *)
(* dropped unless it was deployed again.                                   *)
Maintain(a) ==
  /\ row = "there" /\ previewed
  /\ Now(a, "idle", "stale")
  /\ previewed' = FALSE
  /\ UNCHANGED <<builds, row, preview, file, stamps, turn, failures>>

MaintainLooks(a) ==
  /\ Now(a, "stale", IF Wanted = None THEN "quiet" ELSE "idle")
  /\ UNCHANGED <<builds, feature, stamps, turn, failures>>

MaintainEvict(a) ==
  /\ Now(a, "quiet", "idle")
  /\ Dropped
  /\ UNCHANGED <<resources, compiling, epoch, pc, call, feature, stamps, turn, failures>>

(* The process dies: what was committed and what is on disk stays.         *)
Crash ==
  /\ failures < MaxFailures /\ failures' = failures + 1
  /\ deployed' = NoHandler /\ broken' = None /\ compiling' = Free
  /\ pc' = [p \in Builders |-> "idle"]
  /\ asked' = [p \in Builders |-> None] /\ code' = [p \in Builders |-> None]
  /\ seen' = [p \in Builders |-> 0] /\ got' = [p \in Builders |-> NoHandler]
  /\ stamps' = None /\ turn' = Free
  /\ task' = [a \in Admins |-> "idle"]
  /\ UNCHANGED <<resources, epoch, feature>>

-------------------------------------------------------------------------------
BuilderNext(p) ==
  /\ Build(p, Found(p), Kept) \/ Request(p) \/ Cancel(p)
  /\ UNCHANGED <<feature, stamps, turn, task, failures>>

SlotNext ==
  /\ BuildElsewhere \/ Mend
  /\ UNCHANGED <<feature, stamps, turn, task, failures>>

DeployNext(d) ==
  \/ Deploy(d) \/ WritePreview(d) \/ Commit(d) \/ CommitFails(d)
  \/ NotPreviewed(d) \/ Vanished(d)

AdminNext(a) ==
  \/ Undeploy(a) \/ Evict(a) \/ CopyData(a) \/ Refresh(a)
  \/ RemoveRow(a) \/ RemoveHandler(a) \/ RemoveFolder(a)
  \/ Maintain(a) \/ MaintainLooks(a) \/ MaintainEvict(a)

Next ==
  \/ \E p \in Builders : BuilderNext(p)
  \/ \E r \in Visitors : Resolve(r)
  \/ \E d \in Deployers : DeployNext(d)
  \/ \E a \in Admins : AdminNext(a)
  \/ SlotNext \/ Crash

Spec == Init /\ [][Next]_vars

-------------------------------------------------------------------------------
(* Two deployments never share a number, nor does one take the number of   *)
(* what is being served: each would otherwise be taken for the other's     *)
(* build (FeatureService._stamps).                                         *)
StampsUnique ==
  \A d \in Deployers : asked[d] # None =>
    /\ asked[d] # Wanted
    /\ \A e \in Deployers \ {d} : asked[e] # asked[d]

(* A deployment started later stays online, whichever finishes first       *)
(* (FeatureService.DeployAsync).                                           *)
LatestStays == [][preview' >= preview]_vars

(* What the preview serves is the code that was recorded for it            *)
(* (FeatureService.Previewed).                                             *)
PreviewRecorded == Wanted # None /\ turn = Free => file = preview

(* What is served under the recorded number is what was recorded under it: *)
(* a request building it from the file never meets another's code, as long *)
(* as no commit failed (DeploymentService.ResolvePreviewAsync).            *)
ServesRecorded ==
  failures = 0 /\ Wanted # None /\ turn = Free /\ deployed.stamp = preview => deployed.code = preview

-------------------------------------------------------------------------------
(* Behind them: what every call knows between its steps.                   *)

(* Whoever is about something has a number, and who builds has its code.   *)
CallsNumbered ==
  \A p \in Builders :
    /\ pc[p] = "idle" <=> asked[p] = None
    /\ pc[p] = "idle" => code[p] = None
    /\ pc[p] \in {"build", "publish"} => code[p] # None

(* A deployment has a number of its own, of those handed out since the     *)
(* start and not the one recorded, and builds nothing but its code.        *)
StampsKnown ==
  \A d \in Deployers : asked[d] # None =>
    /\ asked[d] <= stamps /\ asked[d] # preview
    /\ code[d] \in {None, asked[d]}
    /\ \A e \in Deployers \ {d} : asked[e] # asked[d]

(* A request asks for what was recorded then, and numbers only grow.       *)
VisitorsFollow == \A r \in Visitors : asked[r] <= preview /\ pc[r] # "commit"

(* Between the file and the row the turn is held.                          *)
TurnIsHeld ==
  /\ \A d \in Deployers : pc[d] = "commit" => turn = d /\ asked[d] > preview /\ file = asked[d]
  /\ \A a \in Admins :
       /\ task[a] \in {"evict", "drop", "folder"} => turn = a
       /\ task[a] \in {"drop", "folder"} => row = "gone"

(* Until a commit fails: what is newer than the record is a deployment's,  *)
(* and while none is being written down, whatever has the recorded number  *)
(* was made of what was recorded.                                          *)
RecordedKnown ==
  failures = 0 /\ row = "there" =>
    /\ deployed.stamp > preview => deployed.code = deployed.stamp
    /\ preview # None /\ (\A d \in Deployers : pc[d] # "commit") =>
         /\ file = preview
         /\ deployed.stamp = preview => deployed.code = preview
         /\ \A r \in Visitors : asked[r] = preview => code[r] \in {None, preview}

IInv == TypeOK /\ CallsNumbered /\ StampsKnown /\ VisitorsFollow /\ TurnIsHeld /\ RecordedKnown

-------------------------------------------------------------------------------
(* What the code says of itself and does not keep.                         *)

(* A failed deployment writes the resources of what is served back         *)
(* (DeploymentService.Restore).                                            *)
PreviewResources == turn = Free => ResourcesServed(Wanted)

(* "Would otherwise leave a handler behind for a feature that no longer    *)
(* exists": none is there once everybody is done (FeatureService.Remove).  *)
RemovalForgetsPreview ==
  row = "gone" /\ (\A p \in Builders : pc[p] = "idle") /\ (\A a \in Admins : task[a] = "idle")
    => deployed = NoHandler

(* "Built again on its next request, so code that read the data into       *)
(* memory when it started reads the fresh copy"                            *)
(* (FeatureService.RefreshDataAsync).                                      *)
StartedWithCopy ==
  deployed # NoHandler /\ (\A a \in Admins : task[a] = "idle") => deployed.epoch = epoch
===============================================================================
