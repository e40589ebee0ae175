------------------------------ MODULE MetaService ------------------------------
(***************************************************************************)
(* One lambda, from its creation to its removal: the versions saved of it, *)
(* the one it has online, the stretches of time it was online, and the     *)
(* calls that change them (Services/Meta).                                 *)
(*                                                                         *)
(* Every commit to the database is one step, and so is every write to the  *)
(* file system; what a call read before is kept in its variables and may   *)
(* be stale by the time it is used.  Save, the second half of a deployment *)
(* and Undeploy hold the lambda's turn (Turns); creating, deleting,        *)
(* sweeping and basing a feature on a version do not.                      *)
(***************************************************************************)
EXTENDS Naturals, FiniteSets

CONSTANTS
  Owners,            \* calls made on behalf of the lambda's owner, at once
  Deleters,          \* those of them that may delete the lambda
  Sweepers,          \* runs of the maintenance job
  Features,          \* features that may be open
  Nobody,            \* the turn of the lambda is free
  Limit,             \* versions the tier keeps (TierLimits.Versions)
  Remembered,        \* stretches remembered (MaxActivations)
  MaxVersion,        \* bound on the versions saved
  MaxStretches,      \* bound on the deployments recorded
  MaxMishaps         \* bound on the times a call fails or the process dies

ASSUME LimitAssumption == Limit \in Nat \ {0}
ASSUME RememberedAssumption == Remembered \in Nat
ASSUME FeatureAssumption == IsFiniteSet(Features)
ASSUME BoundAssumption ==
  MaxVersion \in Nat \ {0} /\ MaxStretches \in Nat /\ MaxMishaps \in Nat
ASSUME ProcessAssumption ==
  Deleters \subseteq Owners /\ Nobody \notin Owners \union Sweepers

VARIABLES
  life,              \* "unborn", "seeding", "there" or "gone": the row of the lambda
  rows,              \* numbers of the rows in Deployments
  files,             \* numbers of the versions whose code is in storage
  active,            \* Lambdas.ActiveVersion
  stretches,         \* the rows of Activations
  spells,            \* the id of the newest of them
  bases,             \* Features.BaseVersion
  idle,              \* how long ago the lambda was edited or visited
  turn,              \* who holds the lambda's turn
  pc,                \* what each call does next
  was,               \* the ActiveVersion it read
  target,            \* the version it was asked for, or is meant to follow
  number,            \* the number it gave its version
  drop,              \* the versions it found obsolete
  open,              \* the ids of the open stretches it read
  mishaps,           \* the times a call failed or the process died
  torn,              \* the rows whose code a save deleted, and that it failed to drop
  forgot             \* a removal forgot the stretch of what is online

past == <<mishaps, torn, forgot>>
data == <<life, rows, files, active, stretches, spells, bases>>
mine == <<was, target, number, drop, open>>
vars == <<life, rows, files, active, stretches, spells, bases, idle, turn, pc,
          was, target, number, drop, open, mishaps, torn, forgot>>

Procs == Owners \union Sweepers

None == 0
Versions == 1 .. MaxVersion
Ids == 1 .. MaxStretches
NoBases == [f \in Features |-> None]

InTurn == {"save", "append", "prune", "delete", "drop", "record", "trim", "undeploy"}

PCs == InTurn \union
  {"idle", "seed", "seeded", "expect", "compile", "compiled", "remove",
   "removing", "erase", "sweep", "close", "draft", "rebase"}

-------------------------------------------------------------------------------
(* Definitions whose names end in a mistake are what a plausible bug would *)
(* make of the definition that follows them; no action uses them.          *)
IsNext_FirstFree(v, S) == v \notin S /\ \A w \in 1 .. (v - 1) : w \in S

(* The next number of a lambda whose newest version is one below it.       *)
IsNext(v, S) ==
  \/ S = {} /\ v = 1
  \/ v - 1 \in S /\ \A w \in S : w < v

IsNewest(v, S) == v \in S /\ \A w \in S : w <= v

Bases == {bases[f] : f \in Features} \ {None}

Prunable_EvenOnline(online) == rows \ Bases

(* Versions the limit of the tier applies to, given the version online.    *)
Prunable(online) == {v \in rows : v # online /\ v \notin Bases}

Obsolete_OneMore(online) ==
  {v \in Prunable(online) :
      Cardinality({w \in Prunable(online) : w > v}) > Limit}

Obsolete_OldestFirst(online) ==
  {v \in Prunable(online) :
      Cardinality({w \in Prunable(online) : w < v}) >= Limit}

(* Those of them beyond the newest Limit.                                  *)
Obsolete(online) ==
  {v \in Prunable(online) :
      Cardinality({w \in Prunable(online) : w > v}) >= Limit}

OpenIds == {s.id : s \in {r \in stretches : ~r.ended}}

(* The table once the stretches in ids are ended.                          *)
Closed(ids) == {[s EXCEPT !.ended = s.ended \/ s.id \in ids] : s \in stretches}

(* An UPDATE of rows somebody deleted meanwhile fails the whole commit.    *)
StillThere(ids) == \A i \in ids : \E s \in stretches : s.id = i

(* The oldest stretches that ended, beyond those remembered.               *)
Forgotten ==
  {s \in stretches : s.ended /\
      Cardinality({r \in stretches : r.ended /\ r.id > s.id}) >= Remembered}

(* A call moves on, or ends: gives back the turn it may hold, forgets.     *)
Go(p, from, to) == pc[p] = from /\ pc' = [pc EXCEPT ![p] = to]

End(p) ==
  /\ pc' = [pc EXCEPT ![p] = "idle"]
  /\ turn' = IF turn = p THEN Nobody ELSE turn
  /\ was' = [was EXCEPT ![p] = None]
  /\ target' = [target EXCEPT ![p] = None]
  /\ number' = [number EXCEPT ![p] = None]
  /\ drop' = [drop EXCEPT ![p] = {}]
  /\ open' = [open EXCEPT ![p] = {}]

Take(p) == turn = Nobody /\ turn' = p

-------------------------------------------------------------------------------
TypeOK ==
  /\ life \in {"unborn", "seeding", "there", "gone"}
  /\ rows \subseteq Versions /\ files \subseteq Versions
  /\ active \in Versions \union {None}
  /\ stretches \subseteq [id : Ids, version : Versions, ended : BOOLEAN]
  /\ spells \in Ids \union {0}
  /\ bases \in [Features -> Versions \union {None}]
  /\ idle \in {"recent", "quiet", "abandoned"}
  /\ turn \in Procs \union {Nobody}
  /\ pc \in [Procs -> PCs]
  /\ was \in [Procs -> Versions \union {None}]
  /\ target \in [Procs -> Versions \union {None}]
  /\ number \in [Procs -> Versions \union {None}]
  /\ drop \in [Procs -> SUBSET Versions]
  /\ open \in [Procs -> SUBSET Ids]
  /\ mishaps \in 0 .. MaxMishaps /\ torn \subseteq Versions /\ forgot \in BOOLEAN
  /\ \A p \in Procs :
       /\ pc[p] = "append" => number[p] # None
       /\ pc[p] \in {"compile", "compiled", "record"} => target[p] # None

Init ==
  /\ life = "unborn"
  /\ rows = {} /\ files = {} /\ active = None
  /\ stretches = {} /\ spells = 0
  /\ bases = NoBases
  /\ idle = "recent"
  /\ turn = Nobody
  /\ pc = [p \in Procs |-> "idle"]
  /\ was = [p \in Procs |-> None]
  /\ target = [p \in Procs |-> None]
  /\ number = [p \in Procs |-> None]
  /\ drop = [p \in Procs |-> {}]
  /\ open = [p \in Procs |-> {}]
  /\ mishaps = 0 /\ torn = {} /\ forgot = FALSE

-------------------------------------------------------------------------------
(* Create: the row first, then the version it starts with.  Nobody else    *)
(* knows the private key before the call returns.                          *)
Insert(o) ==
  /\ life = "unborn"
  /\ Go(o, "idle", "seed")
  /\ life' = "seeding" /\ idle' = "recent"
  /\ UNCHANGED <<rows, files, active, stretches, spells, bases, turn, mine, past>>

SeedCode(o) ==
  /\ Go(o, "seed", "seeded")
  /\ files' = files \union {1}
  /\ UNCHANGED <<life, rows, active, stretches, spells, bases, idle, turn, mine, past>>

SeedRow(o) ==
  /\ Go(o, "seeded", "idle")
  /\ rows' = rows \union {1}
  /\ life' = "there"
  /\ UNCHANGED <<files, active, stretches, spells, bases, idle, turn, mine, past>>

-------------------------------------------------------------------------------
(* Save: meant to follow a version the caller read, or whatever is newest. *)
Expect(o) ==
  /\ life = "there"
  /\ Go(o, "idle", "expect")
  /\ \E v \in rows : target' = [target EXCEPT ![o] = v]
  /\ UNCHANGED <<data, idle, turn, was, number, drop, open, past>>

LockSave_Unchecked(o) ==
  /\ life = "there" /\ MaxVersion \notin rows
  /\ Take(o)
  /\ pc[o] \in {"idle", "expect"}
  /\ pc' = [pc EXCEPT ![o] = "save"]
  /\ was' = [was EXCEPT ![o] = active]
  /\ UNCHANGED <<data, idle, target, number, drop, open, past>>

LockSave(o) ==
  /\ life = "there" /\ MaxVersion \notin rows
  /\ Take(o)
  /\ \/ pc[o] = "idle"
     \/ pc[o] = "expect" /\ IsNewest(target[o], rows)
  /\ pc' = [pc EXCEPT ![o] = "save"]
  /\ was' = [was EXCEPT ![o] = active]
  /\ UNCHANGED <<data, idle, target, number, drop, open, past>>

Conflict(o) ==
  /\ turn = Nobody
  /\ pc[o] = "expect" /\ ~IsNewest(target[o], rows)
  /\ End(o)
  /\ UNCHANGED <<data, idle, past>>

WriteCode(o) ==
  /\ Go(o, "save", "append")
  /\ \E v \in Versions :
        /\ IsNext(v, rows)
        /\ number' = [number EXCEPT ![o] = v]
        /\ files' = files \union {v}
  /\ UNCHANGED <<life, rows, active, stretches, spells, bases, idle, turn, was,
                 target, drop, open, past>>

(* Larger than the tier allows, or the disk refuses it.                    *)
SaveRefused(o) ==
  /\ pc[o] = "save"
  /\ End(o)
  /\ UNCHANGED <<data, idle, past>>

AppendRow(o) ==
  /\ life = "there"
  /\ Go(o, "append", "prune")
  /\ rows' = rows \union {number[o]}
  /\ idle' = "recent"
  /\ UNCHANGED <<life, files, active, stretches, spells, bases, turn, mine, past>>

AppendFails_KeepsTurn(o) ==
  /\ life = "gone"
  /\ Go(o, "append", "idle")
  /\ UNCHANGED <<data, idle, turn, mine, past>>

(* The lambda went while the version was written: the commit fails.        *)
AppendFails(o) ==
  /\ life = "gone" /\ pc[o] = "append"
  /\ End(o)
  /\ UNCHANGED <<data, idle, past>>

(* Prune: what is obsolete is read, its files go, then its rows.           *)
FindObsolete(o) ==
  /\ Obsolete(was[o]) # {}
  /\ Go(o, "prune", "delete")
  /\ drop' = [drop EXCEPT ![o] = Obsolete(was[o])]
  /\ UNCHANGED <<data, idle, turn, was, target, number, open, past>>

NothingObsolete(o) ==
  /\ Obsolete(was[o]) = {} /\ pc[o] = "prune"
  /\ End(o)
  /\ UNCHANGED <<data, idle, past>>

DeleteFiles(o) ==
  /\ Go(o, "delete", "drop")
  /\ files' = files \ drop[o]
  /\ UNCHANGED <<life, rows, active, stretches, spells, bases, idle, turn, mine, past>>

DropRows(o) ==
  /\ pc[o] = "drop"
  /\ rows' = rows \ drop[o] /\ torn' = torn \ drop[o]
  /\ End(o)
  /\ UNCHANGED <<life, files, active, stretches, spells, bases, idle, mishaps, forgot>>

-------------------------------------------------------------------------------
(* DeployAsync: the version has to exist, is compiled without the turn ... *)
StartDeploy(o) ==
  /\ life = "there"
  /\ Go(o, "idle", "compile")
  /\ \E v \in rows : target' = [target EXCEPT ![o] = v]
  /\ UNCHANGED <<data, idle, turn, was, number, drop, open, past>>

Compiled(o) ==
  /\ target[o] \in files
  /\ Go(o, "compile", "compiled")
  /\ UNCHANGED <<data, idle, turn, mine, past>>

(* ... and may not compile, or not be found in storage any more.           *)
Rejected(o) ==
  /\ pc[o] = "compile"
  /\ End(o)
  /\ UNCHANGED <<data, idle, past>>

LockActivated_Unchecked(o) ==
  /\ life = "there" /\ spells < MaxStretches
  /\ Take(o)
  /\ Go(o, "compiled", "record")
  /\ was' = [was EXCEPT ![o] = active]
  /\ open' = [open EXCEPT ![o] = OpenIds]
  /\ UNCHANGED <<data, idle, target, number, drop, past>>

(* Activated: in the turn, what it changes is read ...                     *)
LockActivated(o) ==
  /\ life = "there" /\ target[o] \in rows /\ spells < MaxStretches
  /\ Take(o)
  /\ Go(o, "compiled", "record")
  /\ was' = [was EXCEPT ![o] = active]
  /\ open' = [open EXCEPT ![o] = OpenIds]
  /\ UNCHANGED <<data, idle, target, number, drop, past>>

NotThereAnymore(o) ==
  /\ turn = Nobody /\ target[o] \notin rows
  /\ pc[o] = "compiled"
  /\ End(o)
  /\ UNCHANGED <<data, idle, past>>

Record_ClosesNothing(o) ==
  /\ life = "there" /\ StillThere(open[o])
  /\ Go(o, "record", "trim")
  /\ active' = IF was[o] = target[o] THEN active ELSE target[o]
  /\ spells' = spells + 1
  /\ stretches' = stretches \union
                    {[id |-> spells + 1, version |-> target[o], ended |-> FALSE]}
  /\ idle' = "recent" /\ forgot' = FALSE
  /\ UNCHANGED <<life, rows, files, bases, turn, mine, mishaps, torn>>

(* ... and committed.  ActiveVersion is only written where it differs from *)
(* what was read.                                                          *)
Record(o) ==
  /\ life = "there" /\ StillThere(open[o]) /\ spells < MaxStretches
  /\ Go(o, "record", "trim")
  /\ active' = IF was[o] = target[o] THEN active ELSE target[o]
  /\ spells' = spells + 1
  /\ stretches' = Closed(open[o]) \union
                    {[id |-> spells + 1, version |-> target[o], ended |-> FALSE]}
  /\ idle' = "recent" /\ forgot' = FALSE
  /\ UNCHANGED <<life, rows, files, bases, turn, mine, mishaps, torn>>

RecordFails(o) ==
  /\ life = "gone" \/ ~StillThere(open[o])
  /\ pc[o] = "record"
  /\ End(o)
  /\ UNCHANGED <<data, idle, past>>

PruneActivations(o) ==
  /\ pc[o] = "trim"
  /\ stretches' = stretches \ Forgotten
  /\ End(o)
  /\ UNCHANGED <<life, rows, files, active, spells, bases, idle, past>>

LockUndeploy(o) ==
  /\ life = "there" /\ active # None
  /\ Take(o)
  /\ Go(o, "idle", "undeploy")
  /\ open' = [open EXCEPT ![o] = OpenIds]
  /\ UNCHANGED <<data, idle, was, target, number, drop, past>>

TakeOffline_OnlyCloses(p) ==
  /\ life = "there" /\ StillThere(open[p])
  /\ stretches' = Closed(open[p])
  /\ End(p)
  /\ UNCHANGED <<life, rows, files, active, spells, bases, idle, past>>

(* The commit shared by Undeploy and the sweep.                            *)
TakeOffline(p) ==
  /\ IF life = "there" /\ StillThere(open[p])
       THEN active' = None /\ stretches' = Closed(open[p]) /\ forgot' = FALSE
       ELSE UNCHANGED <<active, stretches, forgot>>
  /\ End(p)
  /\ UNCHANGED <<life, rows, files, spells, bases, idle, mishaps, torn>>

Undeploy(o) == pc[o] = "undeploy" /\ TakeOffline(o)

-------------------------------------------------------------------------------
(* LambdaRemoval: asked for by an owner, or by the sweep.                  *)
Delete(o) ==
  /\ o \in Deleters /\ life = "there"
  /\ Go(o, "idle", "remove")
  /\ UNCHANGED <<data, idle, turn, mine, past>>

RemoveDependents(p) ==
  /\ Go(p, "remove", "removing")
  /\ stretches' = {} /\ bases' = NoBases
  /\ forgot' = (active # None)
  /\ UNCHANGED <<life, rows, files, active, spells, idle, turn, mine, mishaps, torn>>

(* The row of the lambda takes the rows that refer to it with it.          *)
RemoveRow(p) ==
  /\ life = "there"
  /\ Go(p, "removing", "erase")
  /\ life' = "gone" /\ rows' = {} /\ active' = None
  /\ stretches' = {} /\ bases' = NoBases
  /\ torn' = {} /\ forgot' = FALSE
  /\ UNCHANGED <<files, spells, idle, turn, mine, mishaps>>

AlreadyRemoved(p) ==
  /\ life = "gone" /\ pc[p] = "removing"
  /\ End(p)
  /\ UNCHANGED <<data, idle, past>>

EraseFiles(p) ==
  /\ pc[p] = "erase"
  /\ files' = {}
  /\ End(p)
  /\ UNCHANGED <<life, rows, active, stretches, spells, bases, idle, past>>

-------------------------------------------------------------------------------
(* LambdaLifetime.Sweep: what is abandoned is removed ...                  *)
SweepExpired(s) ==
  /\ life = "there" /\ idle = "abandoned"
  /\ Go(s, "idle", "remove")
  /\ UNCHANGED <<data, idle, turn, mine, past>>

(* ... and what is online and quiet is taken offline, without the turn.    *)
SweepRunning(s) ==
  /\ life = "there" /\ idle # "recent" /\ active # None
  /\ Go(s, "idle", "sweep")
  /\ UNCHANGED <<data, idle, turn, mine, past>>

SweepClose(s) ==
  /\ Go(s, "sweep", "close")
  /\ open' = [open EXCEPT ![s] = OpenIds]
  /\ UNCHANGED <<data, idle, turn, was, target, number, drop, past>>

SweepCommit(s) == pc[s] = "close" /\ TakeOffline(s)

-------------------------------------------------------------------------------
(* FeatureService: a feature is based on a version that was there when it  *)
(* was looked for, and moved to another the same way.                      *)
DraftFeature(o) ==
  /\ life = "there"
  /\ Go(o, "idle", "draft")
  /\ \E v \in rows \intersect files : target' = [target EXCEPT ![o] = v]
  /\ UNCHANGED <<data, idle, turn, was, number, drop, open, past>>

MoveBase(o) ==
  /\ life = "there" /\ Bases # {}
  /\ Go(o, "idle", "rebase")
  /\ \E v \in rows : target' = [target EXCEPT ![o] = v]
  /\ UNCHANGED <<data, idle, turn, was, number, drop, open, past>>

BaseFeature(o) ==
  /\ life = "there"
  /\ \E f \in Features :
        /\ \/ pc[o] = "draft" /\ bases[f] = None /\ idle' = "recent"
           \/ pc[o] = "rebase" /\ bases[f] # None /\ UNCHANGED idle
        /\ bases' = [bases EXCEPT ![f] = target[o]]
  /\ End(o)
  /\ UNCHANGED <<life, rows, files, active, stretches, spells, past>>

(* No place left for it, or gone with the lambda.                          *)
BaseFails(o) ==
  /\ \/ pc[o] = "draft" /\ (life = "gone" \/ \A f \in Features : bases[f] # None)
     \/ pc[o] = "rebase" /\ (life = "gone" \/ \A f \in Features : bases[f] = None)
  /\ End(o)
  /\ UNCHANGED <<data, idle, past>>

(* Deleted, or merged.                                                     *)
RemoveFeature(f) ==
  /\ bases[f] # None
  /\ bases' = [bases EXCEPT ![f] = None]
  /\ UNCHANGED <<life, rows, files, active, stretches, spells, idle, turn, pc, mine, past>>

-------------------------------------------------------------------------------
(* Time passes, and visitors come.                                         *)
Quieten ==
  /\ life = "there" /\ idle # "abandoned"
  /\ idle' = IF idle = "recent" THEN "quiet" ELSE "abandoned"
  /\ UNCHANGED <<data, turn, pc, mine, past>>

Visit ==
  /\ active # None
  /\ idle' = "recent"
  /\ UNCHANGED <<data, turn, pc, mine, past>>

(* Whatever a call does next may fail - the database is busy, the disk     *)
(* full, a file in use: it ends, and what it did before stays.  A save that*)
(* prunes has deleted some of the code by then, or all of it.              *)
Fails(p) ==
  /\ mishaps < MaxMishaps /\ pc[p] # "idle"
  /\ mishaps' = mishaps + 1
  /\ \E part \in SUBSET drop[p] :
        /\ CASE pc[p] = "delete" -> TRUE [] pc[p] = "drop" -> part = drop[p] [] OTHER -> part = {}
        /\ files' = files \ part /\ torn' = torn \union (part \intersect rows)
  /\ life' = IF life = "seeding" THEN "there" ELSE life
  /\ End(p)
  /\ UNCHANGED <<rows, active, stretches, spells, bases, idle, forgot>>

(* The process dies and starts again: calls and turns are gone, what was   *)
(* committed or written stays.                                             *)
Crash ==
  /\ mishaps < MaxMishaps
  /\ mishaps' = mishaps + 1
  /\ life' = IF life = "seeding" THEN "there" ELSE life
  /\ turn' = Nobody
  /\ pc' = [p \in Procs |-> "idle"]
  /\ was' = [p \in Procs |-> None]
  /\ target' = [p \in Procs |-> None]
  /\ number' = [p \in Procs |-> None]
  /\ drop' = [p \in Procs |-> {}]
  /\ open' = [p \in Procs |-> {}]
  /\ UNCHANGED <<rows, files, active, stretches, spells, bases, idle, torn, forgot>>

-------------------------------------------------------------------------------
(* What a call under way does once it was started.                         *)
SaveStep(o) ==
  \/ WriteCode(o) \/ SaveRefused(o) \/ AppendRow(o) \/ AppendFails(o)
  \/ FindObsolete(o) \/ NothingObsolete(o) \/ DeleteFiles(o) \/ DropRows(o)

DeployStep(o) ==
  \/ Compiled(o) \/ Rejected(o) \/ LockActivated(o) \/ NotThereAnymore(o)
  \/ Record(o) \/ RecordFails(o) \/ PruneActivations(o)

RemovalStep(p) ==
  RemoveDependents(p) \/ RemoveRow(p) \/ AlreadyRemoved(p) \/ EraseFiles(p)

OwnerNext(o) ==
  \/ Insert(o) \/ SeedCode(o) \/ SeedRow(o)
  \/ Expect(o) \/ LockSave(o) \/ Conflict(o) \/ SaveStep(o)
  \/ StartDeploy(o) \/ DeployStep(o)
  \/ LockUndeploy(o) \/ Undeploy(o)
  \/ Delete(o)
  \/ DraftFeature(o) \/ MoveBase(o) \/ BaseFeature(o) \/ BaseFails(o)

SweeperNext(s) == SweepExpired(s) \/ SweepRunning(s) \/ SweepClose(s) \/ SweepCommit(s)

Next ==
  \/ \E o \in Owners : OwnerNext(o)
  \/ \E s \in Sweepers : SweeperNext(s)
  \/ \E p \in Procs : RemovalStep(p)
  \/ \E f \in Features : RemoveFeature(f)
  \/ \E p \in Procs : Fails(p)
  \/ Quieten \/ Visit \/ Crash

Spec == Init /\ [][Next]_vars

(* A thread that holds the turn never waits for anything but the database  *)
(* and the disk, so it goes on.                                            *)
Fairness ==
  \A o \in Owners :
    WF_vars(SaveStep(o) \/ Record(o) \/ RecordFails(o) \/ PruneActivations(o) \/ Undeploy(o))

FairSpec == Spec /\ Fairness

-------------------------------------------------------------------------------
(* The version being served is one of the versions kept, with its code in  *)
(* storage, whatever saves prune, deployments race and crashes interrupt   *)
(* (LambdaHistory.Prune: "never touching the version that is live").  The  *)
(* exception is a version that had been compiled when a save deleted its   *)
(* code and failed before its row was gone.                                *)
OnlineVersionKept == active # None => active \in rows /\ active \in files \union torn

(* The newest version can be read back and deployed: its code was written  *)
(* before its row, and no pruning - also not one cut off by a crash -      *)
(* reaches it (LambdaHistory.Append).                                      *)
NewestHasCode == \A v \in rows : IsNewest(v, rows) => v \in files

(* The history names at most one stretch as still going on, and never one  *)
(* with another version than the one being served (LambdaHistory.Activate).*)
StretchesAgree ==
  /\ Cardinality(OpenIds) <= 1
  /\ \A s \in stretches : ~s.ended => active \in {None, s.version}

(* What is being served has its stretch in the history, deployments,       *)
(* undeployments and sweeps in whatever order - unless a removal, finished *)
(* or not, forgot it first (LambdaHistory.Activate and Close).             *)
OnlineIsOnRecord ==
  active # None /\ ~forgot => \E s \in stretches : ~s.ended /\ s.version = active

(* A save that is meant to follow a version, like the merge of a feature,  *)
(* makes the version right after it: nobody's save in between is undone    *)
(* (MetaService.Save with after).                                          *)
NothingUndone ==
  \A o \in Owners :
    pc[o] = "append" /\ life = "there" /\ target[o] # None => number[o] = target[o] + 1

(* Two saves never get the same number, and a number that was used is not  *)
(* used again however much is pruned: what is added is above everything    *)
(* there, and the newest only goes with the lambda (MetaService._turns).   *)
NumbersOnlyGrow ==
  [][/\ \A v \in rows' \ rows : \A w \in rows : w < v
     /\ \A v \in rows : IsNewest(v, rows) => v \in rows' \/ life' = "gone"]_vars

(* Once the save that prunes is through, the history is within what the    *)
(* tier keeps, the version online and the bases of features apart          *)
(* (LambdaHistory.Prune).                                                  *)
HistoryBounded ==
  [][\A o \in Owners :
       (pc[o] = "prune" /\ Obsolete(was[o]) = {}) \/ (pc[o] = "drop" /\ pc'[o] = "idle" /\ rows' # rows)
         => Cardinality(rows') <= Limit + 1 + Cardinality(Features)]_vars

(* Whoever holds the turn gives it back, whichever way its call ends       *)
(* (Turns.Turn.Dispose, the using of every Locked).                        *)
TurnGivenBack == \A o \in Owners : turn = o ~> turn # o

(* The store of versions this implements: seeding is a part of appearing.  *)
Store == INSTANCE VersionStore
           WITH state <- IF life = "seeding" THEN "there" ELSE life,
                kept <- rows,
                online <- active

ImplementsVersionStore == Store!Spec

-------------------------------------------------------------------------------
(* The parts of the inductive invariant behind OnlineVersionKept.          *)

(* What is done in the turn is done by whoever holds it.                   *)
TurnIsHeld == \A p \in Procs : pc[p] \in InTurn => turn = p

(* A lambda is seeded by one call, before anybody else knows of it.        *)
SeededAlone ==
  /\ life \in {"unborn", "seeding"} => \A p \in Procs : pc[p] \in {"idle", "seed", "seeded"}
  /\ \A p \in Procs : pc[p] \in {"seed", "seeded"} => life = "seeding"
  /\ \A p, q \in Procs : pc[p] \in {"seed", "seeded"} /\ pc[q] \in {"seed", "seeded"} => p = q
  /\ \A p \in Procs : pc[p] = "seeded" => 1 \in files

(* Versions are only there, and only online, while the lambda is.          *)
GoneIsEmpty ==
  /\ life # "there" => rows = {} /\ active = None
  /\ \A p \in Procs : pc[p] = "erase" => life = "gone"

(* Whoever saves knows what is online, and does not prune it; the code of  *)
(* the version being added is in storage.                                  *)
PruningSpares ==
  \A p \in Procs :
    /\ pc[p] \in {"save", "append", "prune", "delete", "drop"} => active \in {None, was[p]}
    /\ pc[p] \in {"delete", "drop"} => was[p] \notin drop[p] /\ None \notin drop[p]
    /\ pc[p] = "append" /\ life = "there" => number[p] \in files

(* What was compiled still has its code, unless a save is about to drop    *)
(* its row as well, or has failed to.                                      *)
CompiledHasCode ==
  /\ \A p \in Procs :
       pc[p] = "compiled" /\ target[p] \in rows /\ target[p] \notin files \union torn
         => \E q \in Procs : pc[q] = "drop" /\ target[p] \in drop[q]
  /\ \A p \in Procs :
       pc[p] = "record" /\ life = "there" => target[p] \in rows /\ target[p] \in files \union torn

(* There is a newest version wherever there is one; no save drops it, and  *)
(* what a save adds comes right after it, and after what it was to follow. *)
NewestLeads ==
  /\ rows # {} => \E m \in rows : IsNewest(m, rows)
  /\ \A p \in Procs :
       /\ pc[p] = "append" /\ life = "there" => IsNext(number[p], rows)
       /\ pc[p] \in {"delete", "drop"} => \A v \in drop[p] : ~IsNewest(v, rows)
       /\ pc[p] = "save" /\ life = "there" /\ target[p] # None => IsNewest(target[p], rows)
       /\ pc[p] \in {"idle", "seed", "seeded"} => target[p] = None

IInv ==
  /\ TypeOK /\ TurnIsHeld /\ SeededAlone /\ GoneIsEmpty
  /\ PruningSpares /\ CompiledHasCode /\ OnlineVersionKept
  /\ NewestLeads /\ NewestHasCode /\ NothingUndone

-------------------------------------------------------------------------------
(* Behind StretchesAgree: every stretch has an id of its own, at most one  *)
(* goes on, and whoever is about to record the next has read it.           *)
StretchesKnown ==
  /\ \A s \in stretches : s.id <= spells
  /\ \A s, t \in stretches : s.id = t.id => s = t
  /\ \A s, t \in stretches : ~s.ended /\ ~t.ended => s = t
  /\ \A s \in stretches : ~s.ended => active \in {None, s.version}
  /\ \A p \in Procs : pc[p] = "record" => active \in {None, was[p]} /\ OpenIds \subseteq open[p]

(* Behind HistoryBounded: what a save keeps of the rows is within the      *)
(* limit until it has dropped the others.                                  *)
HistoryLimit == Limit + 1 + Cardinality(Features)

DropSuffices ==
  \A p \in Procs : pc[p] \in {"delete", "drop"} => Cardinality(rows \ drop[p]) <= HistoryLimit

-------------------------------------------------------------------------------
(* What the code says of itself and does not keep.                         *)

(* "Null while it is still online": a stretch that did not end belongs to  *)
(* the version being served (ActivationEntity.Ended).                      *)
OpenMeansOnline == \A s \in stretches : ~s.ended => s.version = active

(* "Both have to leave nothing behind": when every call is through, no     *)
(* code of a removed lambda is in storage (LambdaRemoval).                 *)
RemovalLeavesNothing ==
  life = "gone" /\ (\A p \in Procs : pc[p] = "idle") => files = {}

(* "The base of a feature is kept like the version online"                 *)
(* (LambdaHistory.Prune).                                                  *)
BasesKept == Bases \subseteq rows
===============================================================================
