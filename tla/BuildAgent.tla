------------------------------- MODULE BuildAgent -------------------------------
(***************************************************************************)
(* The builds and changes one address asks for: the server that counts and *)
(* hands them over (Services/Building), the agent that queues, runs, stops *)
(* and forgets them (docker/agent/builder.mjs), and the containers they    *)
(* run in.                                                                 *)
(*                                                                         *)
(* The agent is one JavaScript thread: what a handler does between two     *)
(* awaits is one step.  Calls to it and kills of containers take time and  *)
(* may fail or come too early.                                             *)
(***************************************************************************)
EXTENDS Naturals, Sequences, FiniteSets

LOCAL INSTANCE SequencesExt

CONSTANTS
  Requests,          \* calls of StartAsync and ChangeAsync, at once
  Lambdas,
  NoLambda,          \* what a build is a change of
  PerDay,            \* BuildsPerDay
  QueueLimit,        \* the agent takes no more once more than these wait
  MaxJobs,           \* bound on the jobs taken
  MaxAsked,          \* bound on the count of an address
  MaxMishaps         \* bound on the nights, the answers lost and the restarts, together

ASSUME LambdaAssumption == NoLambda \notin Lambdas
ASSUME LimitAssumption == PerDay \in Nat \ {0} /\ QueueLimit \in Nat
ASSUME BoundAssumption ==
  {MaxJobs, MaxAsked, MaxMishaps} \subseteq Nat

VARIABLES
  pc,                \* what each call does next
  wants,             \* the lambda it is about
  lanes,             \* the lane it is for
  spentOn,           \* the day it was counted on
  count,             \* Tally.Count
  tally,             \* Tally.Day
  day,
  forgiven,          \* of today: given back though it was taken, or spent another day,
                     \* or forgotten by a server that started again
  jobs,              \* every job there was, oldest first
  known,             \* the ids in the agent's map of jobs
  latest,            \* the newest job of each lambda
  queue, running,    \* of each lane
  pumps,             \* the lanes with a pump scheduled
  failures

server == <<pc, wants, lanes, spentOn, count, tally, forgiven>>
agent == <<jobs, known, latest, queue, running, pumps>>
vars == <<pc, wants, lanes, spentOn, count, tally, day, forgiven,
          jobs, known, latest, queue, running, pumps, failures>>

Lanes == {"quick", "long"}
NoJob == 0
Ids == 1 .. MaxJobs
Made == 1 .. Len(jobs)

JobRecords ==
  [lambda : Lambdas \union {NoLambda}, lane : Lanes, spent : 0 .. MaxMishaps,
   state : {"queued", "running", "done", "failed", "cancelled", "lost"},
   stopped : BOOLEAN,                           \* job.cancelled
   box : {"none", "starting", "up", "gone"},    \* its container, gone until noticed
   killing : BOOLEAN]                           \* a kill is on its way to it

Active(j) == jobs[j].state \in {"queued", "running"}
UnderWay(l) == l # NoLambda /\ latest[l] # NoJob /\ Active(latest[l])
Waiting == Len(queue["quick"]) + Len(queue["long"])

TypeOK ==
  /\ pc \in [Requests -> {"idle", "post", "lost", "refused"}]
  /\ wants \in [Requests -> Lambdas \union {NoLambda}]
  /\ lanes \in [Requests -> Lanes]
  /\ spentOn \in [Requests -> 0 .. MaxMishaps]
  /\ count \in 0 .. MaxAsked /\ tally \in 0 .. MaxMishaps /\ day \in 0 .. MaxMishaps
  /\ forgiven \in Nat
  /\ jobs \in Seq(JobRecords) /\ known \subseteq Made
  /\ latest \in [Lambdas -> Made \union {NoJob}]
  /\ queue \in [Lanes -> Seq(Made)]
  /\ running \in [Lanes -> BOOLEAN] /\ pumps \subseteq Lanes
  /\ failures \in 0 .. MaxMishaps

Init ==
  /\ pc = [r \in Requests |-> "idle"]
  /\ wants = [r \in Requests |-> NoLambda]
  /\ lanes = [r \in Requests |-> "quick"]
  /\ spentOn = [r \in Requests |-> 0]
  /\ count = 0 /\ tally = 0 /\ day = 0 /\ forgiven = 0
  /\ jobs = <<>> /\ known = {}
  /\ latest = [l \in Lambdas |-> NoJob]
  /\ queue = [l \in Lanes |-> <<>>]
  /\ running = [l \in Lanes |-> FALSE] /\ pumps = {}
  /\ failures = 0

Go(r, from, to) == pc[r] = from /\ pc' = [pc EXCEPT ![r] = to]

End(r) ==
  /\ pc' = [pc EXCEPT ![r] = "idle"]
  /\ wants' = [wants EXCEPT ![r] = NoLambda]
  /\ lanes' = [lanes EXCEPT ![r] = "quick"]
  /\ spentOn' = [spentOn EXCEPT ![r] = 0]

Mishap == day + failures < MaxMishaps

(* All a refund knows is whose it is.                                      *)
Fails(r, how) ==
  /\ Go(r, "post", how)
  /\ wants' = [wants EXCEPT ![r] = NoLambda]
  /\ lanes' = [lanes EXCEPT ![r] = "quick"]

-------------------------------------------------------------------------------
(* A change is asked after before anything is spent.  What the answer says *)
(* may be stale, but the agent looks again; so asking and spending are one *)
(* step.  Spend counts the calls it refuses as well.                       *)
Today == IF tally = day THEN count ELSE 0

Count == tally' = day /\ Today < MaxAsked /\ count' = Today + 1

(* Definitions whose names end in a mistake are what a plausible bug would *)
(* make of the definition that follows them; no action uses them.          *)
Allowed_OneMore == Today <= PerDay

Allowed == Today < PerDay

Spend(r, l, lane) ==
  /\ ~UnderWay(l) /\ Allowed /\ Count
  /\ Go(r, "idle", "post")
  /\ wants' = [wants EXCEPT ![r] = l] /\ lanes' = [lanes EXCEPT ![r] = lane]
  /\ spentOn' = [spentOn EXCEPT ![r] = day]
  /\ UNCHANGED <<day, forgiven, agent, failures>>

UsedUp(l) ==
  /\ ~UnderWay(l) /\ ~Allowed /\ Count
  /\ UNCHANGED <<pc, wants, lanes, spentOn, day, forgiven, agent, failures>>

(* Refund, of today whatever day it was spent on.                          *)
GiveBack(stray) ==
  IF tally = day /\ count > 0
    THEN count' = count - 1 /\ forgiven' = forgiven + stray
    ELSE UNCHANGED <<count, forgiven>>

(* The agent was never asked ...                                           *)
Unreachable(r) ==
  /\ Mishap /\ failures' = failures + 1
  /\ Fails(r, "refused")
  /\ UNCHANGED <<spentOn, count, tally, day, forgiven, agent>>

(* ... or refused, or took the job and its answer is lost.                 *)
Refund(r) ==
  /\ pc[r] \in {"refused", "lost"} /\ End(r)
  /\ GiveBack(IF pc[r] = "refused" /\ spentOn[r] = day THEN 0 ELSE 1)
  /\ UNCHANGED <<tally, day, agent, failures>>

(* The counts are kept in memory: a server that starts again knows neither *)
(* what was spent nor the calls it was in.                                 *)
ServerRestart ==
  /\ Mishap /\ failures' = failures + 1
  /\ forgiven' = forgiven + (IF Today < PerDay THEN Today ELSE PerDay)
  /\ count' = 0 /\ tally' = 0
  /\ pc' = [r \in Requests |-> "idle"]
  /\ wants' = [r \in Requests |-> NoLambda]
  /\ lanes' = [r \in Requests |-> "quick"]
  /\ spentOn' = [r \in Requests |-> 0]
  /\ UNCHANGED <<day, agent>>

(* At midnight everybody starts again.                                     *)
Midnight ==
  /\ Mishap /\ day' = day + 1 /\ forgiven' = 0
  /\ UNCHANGED <<pc, wants, lanes, spentOn, count, tally, agent, failures>>

-------------------------------------------------------------------------------
(* POST /build: refused where too many wait, or a change of the lambda is  *)
(* under way; the check and the enqueueing are one step.                   *)
Room(lane) == Waiting <= QueueLimit

Enqueue(r) ==
  LET id == Len(jobs) + 1 IN
  /\ id \in Ids
  /\ jobs' = Append(jobs, [lambda |-> wants[r], lane |-> lanes[r], spent |-> spentOn[r],
                          state |-> "queued", stopped |-> FALSE,
                          box |-> "none", killing |-> FALSE])
  /\ known' = known \union {id}
  /\ latest' = [l \in Lambdas |-> IF l = wants[r] THEN id ELSE latest[l]]
  /\ queue' = [queue EXCEPT ![lanes[r]] = Append(@, id)]
  /\ pumps' = pumps \union {lanes[r]}

Take_Unchecked(r) ==
  /\ pc[r] = "post" /\ Room(lanes[r])
  /\ Enqueue(r) /\ End(r)
  /\ UNCHANGED <<count, tally, day, forgiven, running, failures>>

Take(r) ==
  /\ pc[r] = "post" /\ Room(lanes[r]) /\ ~UnderWay(wants[r])
  /\ Enqueue(r) /\ End(r)
  /\ UNCHANGED <<count, tally, day, forgiven, running, failures>>

(* Taken, but the connection breaks before it says so.                     *)
TakeUnheard(r) ==
  /\ Mishap /\ failures' = failures + 1
  /\ Room(lanes[r]) /\ ~UnderWay(wants[r])
  /\ Enqueue(r) /\ Fails(r, "lost")
  /\ UNCHANGED <<spentOn, count, tally, day, forgiven, running>>

TurnAway(r) ==
  /\ ~Room(lanes[r]) \/ UnderWay(wants[r])
  /\ Fails(r, "refused")
  /\ UNCHANGED <<spentOn, count, tally, day, forgiven, agent, failures>>

-------------------------------------------------------------------------------
Changed(j, state, stopped, box, killing) ==
  jobs' = [jobs EXCEPT ![j] = [@ EXCEPT !.state = state, !.stopped = stopped,
                                        !.box = box, !.killing = killing]]

(* pump: the oldest of a lane is run, unless something runs ...            *)
Shift(lane) == queue' = [queue EXCEPT ![lane] = Tail(@)]

Due(lane) == lane \in pumps /\ ~running[lane] /\ queue[lane] # <<>>
Chosen(lane) == Head(queue[lane])

Start(lane) ==
  /\ Due(lane) /\ Chosen(lane) \in known
  /\ Shift(lane)
  /\ Changed(Chosen(lane), "running", FALSE, "starting", FALSE)
  /\ running' = [running EXCEPT ![lane] = TRUE]
  /\ pumps' = pumps \ {lane}
  /\ UNCHANGED <<server, day, known, latest, failures>>

(* ... what was forgotten is skipped ...                                   *)
Skip(lane) ==
  /\ Due(lane) /\ Chosen(lane) \notin known
  /\ Shift(lane)
  /\ UNCHANGED <<server, day, jobs, known, latest, running, pumps, failures>>

(* ... and with nothing to do, it waits to be called again.                *)
Rest(lane) ==
  /\ lane \in pumps /\ (running[lane] \/ queue[lane] = <<>>)
  /\ pumps' = pumps \ {lane}
  /\ UNCHANGED <<server, day, jobs, known, latest, queue, running, failures>>

(* The container starts, is told to stop by the clock of the quick lane,   *)
(* and ends by itself or by the kill - which finds nothing to kill before  *)
(* it is up.                                                               *)
BoxUp(j) ==
  /\ jobs[j].box = "starting"
  /\ Changed(j, jobs[j].state, jobs[j].stopped, "up", jobs[j].killing)
  /\ UNCHANGED <<server, day, known, latest, queue, running, pumps, failures>>

BoxEnds(j) ==
  /\ jobs[j].box = "up" /\ jobs[j].state = "running"
  /\ Changed(j, jobs[j].state, jobs[j].stopped, "gone", FALSE)
  /\ UNCHANGED <<server, day, known, latest, queue, running, pumps, failures>>

Expire(j) ==
  /\ jobs[j].lane = "quick" /\ jobs[j].state = "running" /\ ~jobs[j].killing
  /\ jobs[j].box \in {"starting", "up"}
  /\ Changed(j, "running", jobs[j].stopped, jobs[j].box, TRUE)
  /\ UNCHANGED <<server, day, known, latest, queue, running, pumps, failures>>

KillLands(j) ==
  /\ jobs[j].killing
  /\ Changed(j, jobs[j].state, jobs[j].stopped,
             IF jobs[j].box = "up" THEN "gone" ELSE jobs[j].box, FALSE)
  /\ UNCHANGED <<server, day, known, latest, queue, running, pumps, failures>>

(* The client of the container ends with it: settled, and the lane goes on.*)
Outcomes_Anyhow(j) == {"done", "failed"}

Outcomes(j) == IF jobs[j].stopped THEN {"cancelled"} ELSE {"done", "failed"}

Closed_NoPump(j) ==
  /\ jobs[j].state = "running" /\ jobs[j].box = "gone"
  /\ \E state \in Outcomes(j) : Changed(j, state, jobs[j].stopped, "none", FALSE)
  /\ running' = [running EXCEPT ![jobs[j].lane] = FALSE]
  /\ UNCHANGED <<server, day, known, latest, queue, pumps, failures>>

Closed(j) ==
  /\ jobs[j].state = "running" /\ jobs[j].box = "gone"
  /\ \E state \in Outcomes(j) : Changed(j, state, jobs[j].stopped, "none", FALSE)
  /\ running' = [running EXCEPT ![jobs[j].lane] = FALSE]
  /\ pumps' = pumps \union {jobs[j].lane}
  /\ UNCHANGED <<server, day, known, latest, queue, failures>>

-------------------------------------------------------------------------------
Stoppable(j) == j \in known /\ jobs[j].lambda # NoLambda

(* cancel: off the queue, which has every job that is known and queued ... *)
Cancel(j) ==
  /\ Stoppable(j) /\ jobs[j].state = "queued"
  /\ \E i \in DOMAIN queue[jobs[j].lane] :
       /\ queue[jobs[j].lane][i] = j
       /\ queue' = [queue EXCEPT ![jobs[j].lane] = RemoveAt(@, i)]
  /\ Changed(j, "cancelled", FALSE, "none", FALSE)
  /\ UNCHANGED <<server, day, known, latest, running, pumps, failures>>

Stop_FreesLane(j) ==
  /\ Stoppable(j) /\ jobs[j].state = "running"
  /\ Changed(j, "running", TRUE, jobs[j].box, TRUE)
  /\ running' = [running EXCEPT ![jobs[j].lane] = FALSE]
  /\ pumps' = pumps \union {jobs[j].lane}
  /\ UNCHANGED <<server, day, known, latest, queue, failures>>

(* ... or killed, as often as it is asked for.                             *)
Stop(j) ==
  /\ Stoppable(j) /\ jobs[j].state = "running"
  /\ Changed(j, "running", TRUE, jobs[j].box, TRUE)
  /\ UNCHANGED <<server, day, known, latest, queue, running, pumps, failures>>

(* An hour after it was asked for a job is forgotten, whatever it does;    *)
(* of one that has ended nobody could tell.                                *)
Forget(j) ==
  /\ j \in known /\ Active(j) /\ known' = known \ {j}
  /\ latest' = [l \in Lambdas |-> IF latest[l] = j THEN NoJob ELSE latest[l]]
  /\ UNCHANGED <<server, day, jobs, queue, running, pumps, failures>>

(* The agent restarts: what it knew is gone, its containers go on.         *)
Lost(job) ==
  IF job.state \notin {"queued", "running"} THEN job
  ELSE [job EXCEPT !.state = "lost", !.killing = FALSE,
                   !.box = IF job.box = "none" THEN "none" ELSE "up"]

Restart ==
  /\ Mishap /\ failures' = failures + 1
  /\ jobs' = [j \in Made |-> Lost(jobs[j])]
  /\ known' = {} /\ latest' = [l \in Lambdas |-> NoJob]
  /\ queue' = [l \in Lanes |-> <<>>]
  /\ running' = [l \in Lanes |-> FALSE] /\ pumps' = {}
  /\ UNCHANGED <<server, day>>

-------------------------------------------------------------------------------
RequestNext(r) ==
  \/ \E l \in Lambdas \union {NoLambda}, lane \in Lanes : Spend(r, l, lane)
  \/ Take(r) \/ TakeUnheard(r) \/ TurnAway(r) \/ Unreachable(r) \/ Refund(r)

LaneNext(lane) == Start(lane) \/ Skip(lane) \/ Rest(lane)

JobNext(j) ==
  /\ j \in Made
  /\ \/ BoxUp(j) \/ BoxEnds(j) \/ Expire(j) \/ KillLands(j) \/ Closed(j)
     \/ Cancel(j) \/ Stop(j) \/ Forget(j)

Next ==
  \/ \E r \in Requests : RequestNext(r)
  \/ \E lane \in Lanes : LaneNext(lane)
  \/ \E j \in Ids : JobNext(j)
  \/ \E l \in Lambdas \union {NoLambda} : UsedUp(l)
  \/ Midnight \/ Restart \/ ServerRestart

Spec == Init /\ [][Next]_vars

-------------------------------------------------------------------------------
(* Two agents are never set on the same lambda, however the requests, the  *)
(* stops and the restarts fall - as long as its hour is not over           *)
(* (POST /build in builder.mjs).                                           *)
OneChange ==
  \A i, j \in known :
    Active(i) /\ Active(j) /\ jobs[i].lambda # NoLambda /\ jobs[i].lambda = jobs[j].lambda => i = j

(* A lane runs one job at a time, whichever way the one before it ended    *)
(* (pump in builder.mjs).                                                  *)
OneAtATime ==
  \A lane \in Lanes :
    running[lane] <=> Cardinality({j \in Made : jobs[j].lane = lane /\ jobs[j].state = "running"}) = 1

(* What was stopped is reported as stopped, and as nothing else (settle).  *)
StoppedIsCancelled ==
  \A j \in Made : jobs[j].stopped => jobs[j].state \in {"running", "cancelled", "lost"}

(* An address gets no more than its builds of a day, but for what was      *)
(* given back though it was taken, or spent on the day before, and for     *)
(* what was forgiven with a restart of the server (BuildAllowance).        *)
AllowanceKept == Cardinality({j \in Made : jobs[j].spent = day}) <= PerDay + forgiven

(* A lane never falls asleep with somebody waiting in it: something runs   *)
(* and will pump when it ends, or a pump is scheduled (pump in             *)
(* builder.mjs).                                                           *)
LaneAwake ==
  \A lane \in Lanes : queue[lane] # <<>> => running[lane] \/ lane \in pumps

-------------------------------------------------------------------------------
(* Behind them: what the agent's map, lanes and the server's count mean.   *)

(* The newest job of a lambda is the only one of it that may be under way. *)
KnownIsLatest ==
  \A j \in known : Active(j) /\ jobs[j].lambda # NoLambda => latest[jobs[j].lambda] = j

(* Who waits in a lane waits once, has not begun and is not stopped.       *)
QueueWaits ==
  \A lane \in Lanes : \A i \in DOMAIN queue[lane] :
    /\ jobs[queue[lane][i]].state = "queued" /\ jobs[queue[lane][i]].lane = lane
    /\ \A k \in DOMAIN queue[lane] : queue[lane][k] = queue[lane][i] => k = i

(* A lane is busy with the one job that runs in it.                        *)
Runs(j, lane) == jobs[j].lane = lane /\ jobs[j].state = "running"

LaneBusy ==
  \A lane \in Lanes :
    /\ running[lane] <=> \E j \in Made : Runs(j, lane)
    /\ \A i, j \in Made : Runs(i, lane) /\ Runs(j, lane) => i = j

(* What was taken today and what is on its way was counted, and counted    *)
(* only while there was something left.                                    *)
Taken == {j \in Made : jobs[j].spent = day}
OnTheWay == {r \in Requests : pc[r] \in {"post", "refused"} /\ spentOn[r] = day}

AllCounted ==
  /\ \A j \in Made : jobs[j].spent <= day
  /\ \A r \in Requests : spentOn[r] <= day
  /\ tally <= day /\ IsFiniteSet(OnTheWay)
  /\ Cardinality(Taken) + Cardinality(OnTheWay) <= Today + forgiven
  /\ Cardinality(Taken) + Cardinality(OnTheWay) <= PerDay + forgiven

IInv == TypeOK /\ KnownIsLatest /\ QueueWaits /\ LaneBusy /\ StoppedIsCancelled /\ LaneAwake /\ AllCounted

-------------------------------------------------------------------------------
(* What the code says of itself and does not keep.                         *)

(* "A job stopped while the container was still starting has nothing to    *)
(* kill yet at the moment it is asked; asking again once it runs catches   *)
(* that": a container that is up and was stopped has a kill on its way     *)
(* (run in builder.mjs).                                                   *)
StopReaches ==
  \A j \in Made :
    jobs[j].state = "running" /\ jobs[j].stopped /\ jobs[j].box = "up" => jobs[j].killing

(* "Two agents writing the same files at once would each undo the other":  *)
(* no two containers work on one lambda (POST /build in builder.mjs).      *)
OneAgent ==
  \A i, j \in Made :
    jobs[i].box = "up" /\ jobs[j].box = "up" /\ jobs[i].lambda # NoLambda
      /\ jobs[i].lambda = jobs[j].lambda => i = j

(* "A full queue or an agent that is down is not something the caller      *)
(* should pay for": once every call is through, an address is charged for  *)
(* what was taken of it and no more (BuildAllowance.Refund).               *)
CostsNothing ==
  tally = day /\ (\A r \in Requests : pc[r] = "idle") /\ forgiven = 0
    => (count \in 1 .. PerDay => count <= Cardinality({j \in Made : jobs[j].spent = day}))
===============================================================================
