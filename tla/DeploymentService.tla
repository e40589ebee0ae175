--------------------------- MODULE DeploymentService ---------------------------
(***************************************************************************)
(* One slot of the deployment service: the handler built for what a lambda *)
(* has online, or for the preview of one of its features, and the calls    *)
(* that build it (Services/Deployment/DeploymentService.cs).               *)
(*                                                                         *)
(* A build has a stamp - the version, or the deployment of a preview,      *)
(* together with the limits it was compiled with - and is made of a code,  *)
(* named by the stamp it was first deployed under.  What may be read, and  *)
(* who asks for what, is said by the modules that extend this one: Serving *)
(* for a lambda and Previews for a feature.                                *)
(***************************************************************************)
EXTENDS Naturals

CONSTANTS
  Visitors,          \* requests being answered at once
  Deployers,         \* deployments being built at once
  Elsewhere,         \* a build of some other slot
  Free,              \* nobody builds
  MaxStamp,          \* bound on the stamps
  MaxEpoch           \* bound on the changes of the data

ASSUME BuilderAssumption ==
  /\ Visitors \intersect Deployers = {}
  /\ {Elsewhere, Free} \intersect (Visitors \union Deployers) = {}
  /\ Elsewhere # Free
ASSUME StampAssumption == MaxStamp \in Nat \ {0} /\ MaxEpoch \in Nat

VARIABLES
  deployed,          \* _deployed[slot]: what is being served
  broken,            \* _broken[slot]: the stamp that would not build, for a minute
  resources,         \* the code whose resources are in the slot's directory, or Torn
  compiling,         \* who holds _compiling
  epoch,             \* how often the data the code may read was replaced
  pc,                \* what each call does next
  asked,             \* the stamp it was called with
  code,              \* the code it builds
  seen,              \* the data the handler read as it started
  got                \* the handler a request was given

slot == <<deployed, broken, resources, compiling>>
call == <<asked, code, seen, got>>
builds == <<deployed, broken, resources, compiling, epoch, pc, asked, code, seen, got>>

Builders == Visitors \union Deployers

None == 0
Stamps == 1 .. MaxStamp
Torn == MaxStamp + 1
Epochs == 0 .. MaxEpoch

Handlers == [stamp : Stamps, code : Stamps, epoch : Epochs]
NoHandler == [stamp |-> None, code |-> None, epoch |-> 0]

UnderLock == {"locked", "build", "publish", "built", "restore"}

PCs == UnderLock \union {"idle", "look", "miss", "activate", "waiting", "done", "failed", "served", "commit"}

BuildTypeOK ==
  /\ deployed \in Handlers \union {NoHandler}
  /\ broken \in Stamps \union {None}
  /\ resources \in Stamps \union {None, Torn}
  /\ compiling \in Builders \union {Elsewhere, Free}
  /\ epoch \in Epochs
  /\ pc \in [Builders -> PCs]
  /\ asked \in [Builders -> Stamps \union {None}]
  /\ code \in [Builders -> Stamps \union {None}]
  /\ seen \in [Builders -> Epochs]
  /\ got \in [Builders -> Handlers \union {NoHandler}]

BuildInit ==
  /\ deployed = NoHandler /\ broken = None /\ resources = None
  /\ compiling = Free /\ epoch = 0
  /\ pc = [p \in Builders |-> "idle"]
  /\ asked = [p \in Builders |-> None]
  /\ code = [p \in Builders |-> None]
  /\ seen = [p \in Builders |-> 0]
  /\ got = [p \in Builders |-> NoHandler]

Go(p, from, to) == pc[p] = from /\ pc' = [pc EXCEPT ![p] = to]

(* A call ends and forgets what it knew.                                   *)
Return(p) ==
  /\ pc' = [pc EXCEPT ![p] = "idle"]
  /\ asked' = [asked EXCEPT ![p] = None]
  /\ code' = [code EXCEPT ![p] = None]
  /\ seen' = [seen EXCEPT ![p] = 0]
  /\ got' = [got EXCEPT ![p] = NoHandler]

Begin(p, stamp, at) ==
  /\ Go(p, "idle", at)
  /\ asked' = [asked EXCEPT ![p] = stamp]
  /\ UNCHANGED <<code, seen, got>>

IsDeployed(p) == deployed.stamp = asked[p]

-------------------------------------------------------------------------------
(* ResolveAsync: a request finds the handler it wants ...                  *)
Hit(r) ==
  /\ r \in Visitors /\ IsDeployed(r)
  /\ Go(r, "look", "served")
  /\ got' = [got EXCEPT ![r] = deployed]
  /\ UNCHANGED <<slot, epoch, asked, code, seen>>

Miss(r) ==
  /\ ~IsDeployed(r)
  /\ Go(r, "look", "miss")
  /\ UNCHANGED <<slot, epoch, call>>

(* ... is told what failed a moment ago ...                                *)
Refuse(r) ==
  /\ pc[r] = "miss" /\ broken = asked[r]
  /\ Return(r)
  /\ UNCHANGED <<slot, epoch>>

(* ... or activates it.                                                    *)
Unbroken(r) ==
  /\ broken # asked[r]
  /\ Go(r, "miss", "activate")
  /\ UNCHANGED <<slot, epoch, call>>

(* A breakage is believed for a minute, or until the slot is dropped.      *)
Mend ==
  /\ broken # None /\ broken' = None
  /\ UNCHANGED <<deployed, resources, compiling, epoch, pc, call>>

-------------------------------------------------------------------------------
(* ActivateAsync: looked for before the lock, and again within it.         *)
Already(p) ==
  /\ IsDeployed(p)
  /\ Go(p, "activate", "done")
  /\ UNCHANGED <<slot, epoch, call>>

Wait(p) ==
  /\ ~IsDeployed(p)
  /\ Go(p, "activate", "waiting")
  /\ UNCHANGED <<slot, epoch, call>>

Lock(p) ==
  /\ compiling = Free /\ compiling' = p
  /\ Go(p, "waiting", "locked")
  /\ UNCHANGED <<deployed, broken, resources, epoch, call>>

(* A deployment may be called off until its build starts, and a call fails *)
(* when the code cannot be read.                                           *)
Cancel(p) ==
  /\ \/ pc[p] = "locked"
     \/ pc[p] = "waiting" /\ p \in Deployers
  /\ compiling' = IF compiling = p THEN Free ELSE compiling
  /\ Return(p)
  /\ UNCHANGED <<deployed, broken, resources, epoch>>

FoundDone(p) ==
  /\ IsDeployed(p)
  /\ Go(p, "locked", "done")
  /\ compiling' = Free
  /\ UNCHANGED <<deployed, broken, resources, epoch, call>>

(* Materialize: the directory is emptied and the resources of a code are   *)
(* written to it.  A write that is refused - the disk is full, a file is   *)
(* in use - is let pass: then what is there is Torn, whatever is left of   *)
(* the old and written of the new.                                         *)
Write(c) == resources' \in {c, Torn}

(* BuildAsync: the code is read, if it is still there (found has at most   *)
(* one member), and its resources are written out before it is compiled.   *)
NoCode(p, found) ==
  /\ ~IsDeployed(p) /\ found = {}
  /\ Go(p, "locked", "failed")
  /\ compiling' = Free
  /\ UNCHANGED <<deployed, broken, resources, epoch, call>>

Fetch_NotAgain(p, found) ==
  /\ Go(p, "locked", "build")
  /\ \E c \in found : code' = [code EXCEPT ![p] = c] /\ Write(c)
  /\ UNCHANGED <<deployed, broken, compiling, epoch, asked, seen, got>>

Fetch(p, found) ==
  /\ ~IsDeployed(p)
  /\ Go(p, "locked", "build")
  /\ \E c \in found : code' = [code EXCEPT ![p] = c] /\ Write(c)
  /\ UNCHANGED <<deployed, broken, compiling, epoch, asked, seen, got>>

(* CompileAsync: the code runs once and returns its handler ...            *)
Run(p) ==
  /\ Go(p, "build", "publish")
  /\ seen' = [seen EXCEPT ![p] = epoch]
  /\ UNCHANGED <<slot, epoch, asked, code, got>>

Publish(p) ==
  /\ Go(p, "publish", "built")
  /\ deployed' = [stamp |-> asked[p], code |-> code[p], epoch |-> seen[p]]
  /\ UNCHANGED <<broken, resources, compiling, epoch, call>>

Built_KeepsLock(p) ==
  /\ Go(p, "built", "done")
  /\ broken' = None
  /\ UNCHANGED <<deployed, resources, compiling, epoch, call>>

Built(p) ==
  /\ Go(p, "built", "done")
  /\ broken' = None /\ compiling' = Free
  /\ UNCHANGED <<deployed, resources, epoch, call>>

(* ... or does not compile, or fails on something outside itself.          *)
CompileFails(p) ==
  /\ pc[p] \in {"build", "publish"}
  /\ pc' = [pc EXCEPT ![p] = "restore"]
  /\ UNCHANGED <<slot, epoch, call>>

Restore_Nothing(p, kept) ==
  /\ Go(p, "restore", "failed")
  /\ compiling' = Free
  /\ UNCHANGED <<deployed, broken, resources, epoch, call>>

(* Restore: the resources of what is served are written back, from what    *)
(* can be read of it (kept has at most one member).  Where reading fails   *)
(* what the failed build wrote stays, which is as good as Torn.            *)
Restore(p, kept) ==
  /\ Go(p, "restore", "failed")
  /\ IF deployed = NoHandler \/ kept = {} THEN UNCHANGED resources ELSE \E c \in kept : Write(c)
  /\ compiling' = Free
  /\ UNCHANGED <<deployed, broken, epoch, call>>

(* A request remembers the failure, and answers with the handler that is   *)
(* there now - which fails if it was dropped in between.                   *)
Fail(r) ==
  /\ r \in Visitors /\ pc[r] = "failed"
  /\ broken' = asked[r]
  /\ Return(r)
  /\ UNCHANGED <<deployed, resources, compiling, epoch>>

Serve(r) ==
  /\ r \in Visitors /\ deployed # NoHandler
  /\ Go(r, "done", "served")
  /\ got' = [got EXCEPT ![r] = deployed]
  /\ UNCHANGED <<slot, epoch, asked, code, seen>>

NotServed(r) ==
  /\ r \in Visitors /\ deployed = NoHandler /\ pc[r] = "done"
  /\ Return(r)
  /\ UNCHANGED <<slot, epoch>>

Answered(r) ==
  /\ pc[r] = "served"
  /\ Return(r)
  /\ UNCHANGED <<slot, epoch>>

(* Only one snippet is built at a time, of whatever lambda.                *)
BuildElsewhere ==
  /\ compiling \in {Free, Elsewhere}
  /\ compiling' = IF compiling = Free THEN Elsewhere ELSE Free
  /\ UNCHANGED <<deployed, broken, resources, epoch, pc, call>>

(* Drop: what a slot has is forgotten, without the lock.                   *)
Dropped == deployed' = NoHandler /\ broken' = None

-------------------------------------------------------------------------------
(* What a build does by itself, reading found and, to restore, kept.       *)
Build(p, found, kept) ==
  \/ Already(p) \/ Wait(p) \/ Lock(p) \/ FoundDone(p)
  \/ NoCode(p, found) \/ Fetch(p, found)
  \/ Run(p) \/ Publish(p) \/ Built(p) \/ CompileFails(p) \/ Restore(p, kept)

Request(r) ==
  \/ Hit(r) \/ Miss(r) \/ Refuse(r) \/ Unbroken(r)
  \/ Fail(r) \/ Serve(r) \/ NotServed(r) \/ Answered(r)

-------------------------------------------------------------------------------
(* Whoever is building holds the lock, so there is one build at a time and *)
(* nobody writes the resources while another's code reads them             *)
(* (DeploymentService._compiling).                                         *)
OneBuild == \A p \in Builders : pc[p] \in UnderLock <=> compiling = p

(* Once nobody builds, what is served finds its own resources and not what *)
(* a failed or an older build left behind - unless the last to be written  *)
(* there were refused (DeploymentService.Restore).                         *)
ResourcesServed(wanted) ==
  compiling \notin Builders /\ wanted # None /\ deployed.stamp = wanted
    => resources \in {deployed.code, Torn}

(* What is there already is not built again, however many requests arrived *)
(* for it together and whoever built it while they waited for the lock     *)
(* (DeploymentService.ActivateAsync, both looks at what is deployed).      *)
NotBuiltTwice ==
  \A p \in Builders : pc[p] \in {"build", "publish"} => deployed.stamp # asked[p]
===============================================================================
