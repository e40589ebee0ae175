-------------------------------- MODULE Serving --------------------------------
(***************************************************************************)
(* A lambda being served: the store of versions that says what is online   *)
(* (VersionStore, which MetaService implements) next to the deployment     *)
(* service that builds it, with the visitors, deployments, sweeps and      *)
(* removals that act on both without a common lock.                        *)
(***************************************************************************)
EXTENDS DeploymentService, FiniteSets

CONSTANTS
  Admins,            \* calls that take the lambda offline, remove it, switch its data
  Managers,          \* bound: those of them that do more than remove it
  MaxVersion         \* bound on the versions, and the switches of the data that follow them

ASSUME AdminAssumption == Admins \intersect Builders = {}
ASSUME VersionAssumption == MaxVersion \in Nat /\ MaxVersion <= MaxStamp

VARIABLES
  state,             \* "there" or "gone": the row of the lambda
  kept,              \* the versions in storage
  online,            \* ActiveVersion
  task,              \* what each admin does next
  since              \* the versions online since a request came in

vars == <<builds, state, kept, online, task, since>>

Store == INSTANCE VersionStore

(* Storage.Read of the version asked for, and of the one being served.     *)
Found(p) == kept \intersect {asked[p]}
Kept == kept \intersect {deployed.stamp}

TypeOK ==
  /\ BuildTypeOK
  /\ state \in {"there", "gone"}
  /\ kept \subseteq Stamps /\ online \in Stamps \union {None}
  /\ task \in [Admins -> {"idle", "evict", "offline", "remove", "erase"}]
  /\ since \in [Visitors -> SUBSET Stamps]

Init ==
  /\ BuildInit
  /\ state = "there" /\ kept = {1} /\ online = None
  /\ task = [a \in Admins |-> "idle"]
  /\ since = [r \in Visitors |-> {}]

Now(a, from, to) == task[a] = from /\ task' = [task EXCEPT ![a] = to]

Online(v) == since' = [r \in Visitors |-> IF pc[r] = "idle" THEN {} ELSE since[r] \union {v}]

(* It matters until the request is answered.                               *)
Answering == since' = [r \in Visitors |-> IF pc'[r] = "idle" THEN {} ELSE since[r]]

-------------------------------------------------------------------------------
(* A request resolves the lambda to the version online, then runs it.      *)
Resolve(r) ==
  /\ online # None
  /\ Begin(r, online, "look")
  /\ since' = [since EXCEPT ![r] = {online}]
  /\ UNCHANGED <<slot, epoch, state, kept, online, task>>

(* A version is activated, and recorded as online if it is still kept.     *)
Deploy(d) ==
  /\ \E v \in kept : Begin(d, v, "activate")
  /\ UNCHANGED <<slot, epoch, state, kept, online, task, since>>

Recorded(d) ==
  /\ pc[d] = "done" /\ asked[d] \in kept
  /\ Store!GoOnline /\ online' = asked[d]
  /\ Online(asked[d])
  /\ Return(d)
  /\ UNCHANGED <<slot, epoch, task>>

NotRecorded(d) ==
  /\ \/ pc[d] = "done" /\ asked[d] \notin kept
     \/ pc[d] = "failed"
  /\ Return(d)
  /\ UNCHANGED <<slot, epoch, state, kept, online, task, since>>

(* Saves add versions, and prune the older ones.                           *)
Save ==
  /\ \/ Store!Add /\ \A v \in kept' : v + epoch <= MaxVersion
     \/ Store!Discard /\ kept' # kept
  /\ UNCHANGED <<builds, task, since>>

-------------------------------------------------------------------------------
(* Undeploy: offline in the database, then dropped.                        *)
Undeploy(a) ==
  /\ online # None
  /\ Now(a, "idle", "evict")
  /\ Store!GoOffline
  /\ UNCHANGED <<builds, since>>

(* The sweep does both the other way round.                                *)
SweepEvict(a) ==
  /\ online # None
  /\ Now(a, "idle", "offline")
  /\ Dropped
  /\ UNCHANGED <<resources, compiling, epoch, pc, call, state, kept, online, since>>

SweepOffline(a) ==
  /\ Now(a, "offline", "idle")
  /\ Store!GoOffline
  /\ UNCHANGED <<builds, since>>

(* LambdaRemoval: dropped, then the row, then the files.                   *)
RemoveEvict(a) ==
  /\ state = "there"
  /\ Now(a, "idle", "remove")
  /\ Dropped
  /\ UNCHANGED <<resources, compiling, epoch, pc, call, state, kept, online, since>>

RemoveRow(a) ==
  /\ Now(a, "remove", "erase")
  /\ Store!Remove
  /\ UNCHANGED <<builds, since>>

RemovedAlready(a) ==
  /\ state = "gone"
  /\ Now(a, "remove", "idle")
  /\ UNCHANGED <<builds, state, kept, online, since>>

RemoveFiles(a) ==
  /\ Now(a, "erase", "idle")
  /\ resources' = None
  /\ UNCHANGED <<deployed, broken, compiling, epoch, pc, call, state, kept, online, since>>

(* DataService.Switch of the database: other data from now on, then        *)
(* dropped to start with it.                                               *)
SwitchData(a) ==
  /\ state = "there" /\ epoch < MaxEpoch
  /\ \A v \in kept : v + epoch < MaxVersion
  /\ Now(a, "idle", "evict")
  /\ epoch' = epoch + 1
  /\ UNCHANGED <<slot, pc, call, state, kept, online, since>>

Evict(a) ==
  /\ Now(a, "evict", "idle")
  /\ Dropped
  /\ UNCHANGED <<resources, compiling, epoch, pc, call, state, kept, online, since>>

-------------------------------------------------------------------------------
BuilderNext(p) ==
  /\ Build(p, Found(p), Kept) \/ Request(p) \/ Cancel(p)
  /\ Answering
  /\ UNCHANGED <<state, kept, online, task>>

SlotNext ==
  /\ BuildElsewhere \/ Mend
  /\ UNCHANGED <<state, kept, online, task, since>>

AdminNext(a) ==
  \/ a \in Managers /\ (Undeploy(a) \/ SweepEvict(a) \/ SwitchData(a))
  \/ SweepOffline(a) \/ Evict(a)
  \/ RemoveEvict(a) \/ RemoveRow(a) \/ RemovedAlready(a) \/ RemoveFiles(a)

Next ==
  \/ \E p \in Builders : BuilderNext(p)
  \/ \E r \in Visitors : Resolve(r)
  \/ \E d \in Deployers : Deploy(d) \/ Recorded(d) \/ NotRecorded(d)
  \/ \E a \in Admins : AdminNext(a)
  \/ Save \/ SlotNext

Spec == Init /\ [][Next]_vars

(* Code is being started: nothing ends that but the code itself            *)
(* (LambdaCompiler awaits it, and PrepareAsync, without a limit).          *)
StartingUp == compiling = Elsewhere \/ \E p \in Builders : pc[p] \in {"build", "publish"}

(* Calls are threads that go on, except where the code of a tenant runs;   *)
(* and SemaphoreSlim lets those who wait in one after the other, though    *)
(* not in order: nobody is passed over for ever.                           *)
Fairness ==
  /\ \A p \in Builders : WF_vars(BuilderNext(p) /\ pc[p] \notin {"waiting", "build", "publish", "served"})
  /\ \A r \in Visitors : SF_vars(BuilderNext(r) /\ pc[r] = "waiting")

FairSpec == Spec /\ Fairness

-------------------------------------------------------------------------------
(* The version online, once nobody builds, finds its own resources.        *)
OnlineResources == ResourcesServed(online)

(* Every request gets a handler or an error in the end, whatever is        *)
(* deployed, taken offline or built elsewhere meanwhile - as long as no    *)
(* code goes on starting for ever, with the lock that is everybody's       *)
(* (ResolveAsync).                                                         *)
RequestsAnswered ==
  \A r \in Visitors :
    []<>~StartingUp => (pc[r] \notin {"idle", "served"} ~> pc[r] \in {"idle", "served"})

-------------------------------------------------------------------------------
(* The parts of the inductive invariant behind OnlineResources.            *)

(* A version's code is its own: the builds of a lambda are never mixed up, *)
(* and none is of what is there already.                                   *)
OwnCode ==
  /\ deployed.code = deployed.stamp
  /\ \A p \in Builders :
       /\ pc[p] # "idle" => asked[p] # None
       /\ pc[p] \in {"build", "publish", "built"} => code[p] = asked[p]
       /\ pc[p] \in {"build", "publish"} => deployed.stamp # asked[p]

(* A removed lambda has nothing online, and no number is given out again:  *)
(* whatever was built or asked for is not above the newest version.        *)
NumbersKnown ==
  /\ state = "gone" => online = None /\ kept = {}
  /\ \A a \in Admins : task[a] = "erase" => state = "gone"
  /\ online # None => online \in kept
  /\ state = "there" =>
       \E m \in kept :
         /\ \A w \in kept : w <= m
         /\ deployed.stamp <= m /\ \A p \in Builders : asked[p] <= m

(* Who builds has written its resources, or could not; a handler whose resources are not *)
(* there is of a version that is not there either.                         *)
ResourcesKnown ==
  state = "there" =>
    /\ \A p \in Builders : pc[p] \in {"build", "publish", "built"} => resources \in {code[p], Torn}
    /\ (\A p \in Builders : pc[p] \notin {"build", "publish", "built", "restore"})
         => deployed = NoHandler \/ resources \in {deployed.code, Torn} \/ deployed.stamp \notin kept
    /\ \A p \in Builders :
         pc[p] = "built" => deployed = NoHandler \/ deployed.stamp = asked[p]

IInv == TypeOK /\ OneBuild /\ OwnCode /\ NumbersKnown /\ ResourcesKnown

-------------------------------------------------------------------------------
(* What the code says of itself and does not keep.                         *)

(* "What is served stays what the database says is online all the same":   *)
(* a request is answered by a version that was online since it came in     *)
(* (remarks of MetaService.DeployAsync).                                   *)
ServedWasOnline == \A r \in Visitors : pc[r] = "served" => got[r].stamp \in since[r]

(* "Removes ... what the caches remember of it": once everybody is done,   *)
(* no handler of a removed lambda is kept (LambdaRemoval).                 *)
RemovalForgetsBuild ==
  state = "gone" /\ (\A p \in Builders : pc[p] = "idle") /\ (\A a \in Admins : task[a] = "idle")
    => deployed = NoHandler

(* "A database that came or went is started with again": once the switch   *)
(* is through, what is served started with the data there is now           *)
(* (DataService.Switch).                                                   *)
StartedWithData ==
  deployed # NoHandler /\ (\A a \in Admins : task[a] = "idle") => deployed.epoch = epoch
===============================================================================
