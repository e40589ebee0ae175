---------------------------- MODULE BuildAgentProofs ----------------------------
(***************************************************************************)
(* What holds of BuildAgent for any number of requests and lambdas, any    *)
(* limits and bounds: one change of a lambda at a time, one job in a lane, *)
(* what is stopped is cancelled, no lane falls asleep, and an address gets *)
(* what it is allowed.                                                     *)
(***************************************************************************)
EXTENDS BuildAgent, SequenceTheorems, FiniteSetTheorems, TLAPS

LOCAL INSTANCE SequencesExt

States == {"queued", "running", "done", "failed", "cancelled", "lost"}
Boxes == {"none", "starting", "up", "gone"}

(* Taking something out of a queue closes the gap.                         *)
LEMMA RemovedAt ==
  ASSUME NEW S, NEW s \in Seq(S), NEW i \in 1 .. Len(s)
  PROVE  /\ RemoveAt(s, i) \in Seq(S) /\ Len(RemoveAt(s, i)) = Len(s) - 1
         /\ \A k \in 1 .. Len(s) - 1 : RemoveAt(s, i)[k] = s[IF k < i THEN k ELSE k + 1]
<1> DEFINE before == SubSeq(s, 1, i - 1)
           after == SubSeq(s, i + 1, Len(s))
<1>0. Len(s) \in Nat /\ i \in Nat /\ i >= 1 /\ i <= Len(s) /\ \A k \in 1 .. Len(s) : s[k] \in S
  BY LenProperties
<1>1. before \in Seq(S) /\ Len(before) = i - 1 /\ \A k \in 1 .. i - 1 : before[k] = s[k]
  <2>1. \A k \in 1 .. i - 1 : s[k] \in S
    BY <1>0
  <2>2. 1 \in Int /\ i - 1 \in Int
    BY <1>0
  <2> QED BY <1>0, <2>1, <2>2, SubSeqProperties
<1>2. after \in Seq(S) /\ Len(after) = Len(s) - i /\ \A k \in 1 .. Len(s) - i : after[k] = s[i + k]
  <2>1. \A k \in i + 1 .. Len(s) : s[k] \in S
    BY <1>0
  <2>2. i + 1 \in Int /\ Len(s) \in Int
    BY <1>0
  <2>3. /\ after \in Seq(S)
        /\ Len(after) = IF i + 1 <= Len(s) THEN Len(s) - (i + 1) + 1 ELSE 0
        /\ \A k \in 1 .. Len(s) - (i + 1) + 1 : after[k] = s[i + 1 + k - 1]
    BY <2>1, <2>2, SubSeqProperties
  <2> QED BY <1>0, <2>3
<1>3. RemoveAt(s, i) = before \o after
  BY DEF RemoveAt
<1> HIDE DEF before, after
<1>4. /\ before \o after \in Seq(S) /\ Len(before \o after) = Len(before) + Len(after)
      /\ \A k \in 1 .. Len(before) + Len(after) :
           (before \o after)[k] = IF k <= Len(before) THEN before[k] ELSE after[k - Len(before)]
  BY <1>1, <1>2, ConcatProperties
<1>5. Len(before) + Len(after) = Len(s) - 1
  BY <1>0, <1>1, <1>2
<1>6. ASSUME NEW k \in 1 .. Len(s) - 1 PROVE (before \o after)[k] = s[IF k < i THEN k ELSE k + 1]
  <2>1. (before \o after)[k] = IF k <= i - 1 THEN before[k] ELSE after[k - (i - 1)]
    BY <1>1, <1>4, <1>5
  <2>2. CASE k <= i - 1
    BY <1>0, <1>1, <2>1, <2>2
  <2>3. CASE ~(k <= i - 1)
    <3>1. k - (i - 1) \in 1 .. Len(s) - i /\ i + (k - (i - 1)) = k + 1
      BY <1>0, <2>3
    <3> QED BY <1>0, <1>2, <2>1, <2>3, <3>1
  <2> QED BY <2>2, <2>3
<1> QED BY <1>3, <1>4, <1>5, <1>6

(* Changing a job leaves what it is of and for, and every other job.       *)
LEMMA JobChanged ==
  ASSUME TypeOK, NEW j \in Made, NEW state \in States, NEW stopped \in BOOLEAN, NEW box \in Boxes,
         NEW killing \in BOOLEAN, Changed(j, state, stopped, box, killing)
  PROVE  /\ jobs' \in Seq(JobRecords) /\ Len(jobs') = Len(jobs) /\ Made' = Made
         /\ \A i \in Made \ {j} : jobs'[i] = jobs[i]
         /\ \A i \in Made : jobs'[i].lambda = jobs[i].lambda /\ jobs'[i].lane = jobs[i].lane
                            /\ jobs'[i].spent = jobs[i].spent
         /\ jobs'[j].state = state /\ jobs'[j].stopped = stopped
<1> DEFINE job == [jobs[j] EXCEPT !.state = state, !.stopped = stopped, !.box = box, !.killing = killing]
<1>1. jobs[j] \in JobRecords
  BY LenProperties DEF TypeOK, Made
<1>2. job \in JobRecords /\ job.lambda = jobs[j].lambda /\ job.lane = jobs[j].lane
      /\ job.spent = jobs[j].spent /\ job.state = state /\ job.stopped = stopped
  BY <1>1 DEF JobRecords, States, Boxes
<1>3. jobs' = [jobs EXCEPT ![j] = job]
  BY DEF Changed
<1> HIDE DEF job
<1>4. /\ jobs' \in Seq(JobRecords) /\ Len(jobs') = Len(jobs)
      /\ \A i \in 1 .. Len(jobs) : jobs'[i] = IF i = j THEN job ELSE jobs[i]
  BY <1>2, <1>3, ExceptSeq DEF TypeOK, Made
<1> QED BY <1>2, <1>4 DEF Made

(* A job that is taken comes last, of all and in its lane.                 *)
LEMMA Enqueued ==
  ASSUME TypeOK, NEW r \in Requests, Enqueue(r)
  PROVE  /\ jobs' \in Seq(JobRecords) /\ Len(jobs') = Len(jobs) + 1 /\ Made' = Made \union {Len(jobs) + 1}
         /\ Len(jobs) \in Nat /\ Len(jobs) + 1 \notin Made
         /\ \A i \in Made : jobs'[i] = jobs[i]
         /\ LET job == jobs'[Len(jobs) + 1] IN
              /\ job.lambda = wants[r] /\ job.lane = lanes[r] /\ job.spent = spentOn[r]
              /\ job.state = "queued" /\ job.stopped = FALSE
         /\ queue' \in [Lanes -> Seq(Made')]
         /\ \A lane \in Lanes \ {lanes[r]} : queue'[lane] = queue[lane]
         /\ LET waiting == queue[lanes[r]] IN
              /\ Len(queue'[lanes[r]]) = Len(waiting) + 1
              /\ queue'[lanes[r]][Len(waiting) + 1] = Len(jobs) + 1
              /\ \A i \in 1 .. Len(waiting) : queue'[lanes[r]][i] = waiting[i]
<1> DEFINE id == Len(jobs) + 1
           job == [lambda |-> wants[r], lane |-> lanes[r], spent |-> spentOn[r],
                   state |-> "queued", stopped |-> FALSE, box |-> "none", killing |-> FALSE]
<1>1. Len(jobs) \in Nat /\ jobs \in Seq(JobRecords)
  BY LenProperties DEF TypeOK
<1>2. job \in JobRecords /\ lanes[r] \in Lanes /\ job.lambda = wants[r] /\ job.lane = lanes[r]
      /\ job.spent = spentOn[r] /\ job.state = "queued" /\ job.stopped = FALSE
  BY DEF TypeOK, JobRecords
<1>3. jobs' = Append(jobs, job) /\ queue' = [queue EXCEPT ![lanes[r]] = Append(@, id)]
  BY DEF Enqueue
<1> HIDE DEF job
<1>4. /\ jobs' \in Seq(JobRecords) /\ Len(jobs') = Len(jobs) + 1
      /\ \A i \in 1 .. Len(jobs) : jobs'[i] = jobs[i]
      /\ jobs'[Len(jobs) + 1] = job
  BY <1>1, <1>2, <1>3, AppendProperties
<1>5. Made' = Made \union {id} /\ id \notin Made
  BY <1>1, <1>4 DEF Made
<1>6. \A lane \in Lanes : queue[lane] \in Seq(Made')
  BY <1>5, SeqMonotonic DEF TypeOK
<1>7. LET waiting == queue[lanes[r]] IN
      /\ Append(waiting, id) \in Seq(Made') /\ Len(Append(waiting, id)) = Len(waiting) + 1
      /\ Append(waiting, id)[Len(waiting) + 1] = id
      /\ \A i \in 1 .. Len(waiting) : Append(waiting, id)[i] = waiting[i]
  BY <1>2, <1>5, <1>6, AppendProperties
<1>8. queue \in [Lanes -> Seq(Made)]
  BY DEF TypeOK
<1>9. queue' \in [Lanes -> Seq(Made')] /\ queue'[lanes[r]] = Append(queue[lanes[r]], id)
      /\ \A lane \in Lanes \ {lanes[r]} : queue'[lane] = queue[lane]
  BY <1>2, <1>3, <1>6, <1>7, <1>8
<1> QED BY <1>1, <1>2, <1>4, <1>5, <1>7, <1>9 DEF Made

(* There are finitely many jobs, so what is counted has a number.          *)
LEMMA CountsAreNumbers ==
  ASSUME TypeOK, AllCounted
  PROVE  IsFiniteSet(Taken) /\ Cardinality(Taken) \in Nat /\ Cardinality(OnTheWay) \in Nat
<1>1. Taken \subseteq 1 .. Len(jobs) /\ Len(jobs) \in Nat
  BY LenProperties DEF Taken, Made, TypeOK
<1>2. IsFiniteSet(1 .. Len(jobs))
  BY <1>1, FS_Interval
<1>3. IsFiniteSet(Taken)
  BY <1>1, <1>2, FS_Subset
<1> QED BY <1>3, FS_CardinalityType DEF AllCounted

(* What is counted stays the same while nothing is taken, spent or given   *)
(* back.                                                                   *)
LEMMA CountedKeeps ==
  ASSUME AllCounted, Made' = Made, \A j \in Made : jobs'[j].spent = jobs[j].spent,
         UNCHANGED server, UNCHANGED day
  PROVE  AllCounted'
<1>1. Taken' = Taken
  BY DEF Taken
<1>2. OnTheWay' = OnTheWay /\ Today' = Today
  BY DEF OnTheWay, Today, server
<1> QED BY <1>1, <1>2 DEF AllCounted, server

LEMMA InitInvariant == Init => IInv
<1> SUFFICES ASSUME Init PROVE IInv OBVIOUS
<1> USE LambdaAssumption, LimitAssumption, BoundAssumption DEF Init
<1>1. Made = {}
  BY DEF Made
<1>2. TypeOK
  BY <1>1, EmptySeq DEF TypeOK, Lanes, NoJob
<1>3. KnownIsLatest /\ QueueWaits /\ StoppedIsCancelled /\ LaneAwake
  BY <1>1 DEF KnownIsLatest, QueueWaits, StoppedIsCancelled, LaneAwake, Lanes
<1>4. LaneBusy
  BY <1>1 DEF LaneBusy, Lanes
<1>5. AllCounted
  <2>1. Taken = {} /\ OnTheWay = {}
    BY <1>1 DEF Taken, OnTheWay
  <2> QED BY <1>1, <2>1, FS_EmptySet DEF AllCounted, Today
<1> QED BY <1>2, <1>3, <1>4, <1>5 DEF IInv

-------------------------------------------------------------------------------
(* The server counts, gives back and lets a day pass; no job changes.      *)
LEMMA SpendKeeps ==
  ASSUME IInv, NEW r \in Requests, NEW l \in Lambdas \union {NoLambda}, NEW lane \in Lanes, Spend(r, l, lane)
  PROVE  IInv'
<1> USE BoundAssumption, LimitAssumption DEF IInv, Spend, agent
<1>1. TypeOK'
  BY DEF TypeOK, Go, Count, Today, Made
<1>2. KnownIsLatest' /\ QueueWaits' /\ LaneBusy' /\ StoppedIsCancelled' /\ LaneAwake'
  BY DEF KnownIsLatest, QueueWaits, LaneBusy, StoppedIsCancelled, LaneAwake, Made, Active, Runs
<1>3. AllCounted'
  <2>1. Taken' = Taken /\ OnTheWay' = OnTheWay \union {r} /\ r \notin OnTheWay
    BY DEF Taken, OnTheWay, Go, TypeOK, Made
  <2>2. Today' = Today + 1 /\ Today < PerDay /\ Today \in Nat
        /\ Cardinality(Taken) + Cardinality(OnTheWay) <= Today + forgiven
    BY DEF Count, Today, Allowed, AllCounted, TypeOK
  <2>3. IsFiniteSet(OnTheWay) /\ Cardinality(OnTheWay) \in Nat
    BY CountsAreNumbers DEF AllCounted
  <2>4. Cardinality(Taken) \in Nat
    BY CountsAreNumbers
  <2>5. IsFiniteSet(OnTheWay') /\ Cardinality(OnTheWay') = Cardinality(OnTheWay) + 1
    BY <2>1, <2>3, FS_AddElement
  <2>6. (\A j \in Made : jobs[j].spent <= day)' /\ (\A q \in Requests : spentOn[q] <= day)' /\ tally' <= day'
    BY DEF AllCounted, Count, TypeOK, Made
  <2>7. forgiven \in Nat /\ forgiven' = forgiven
    BY DEF TypeOK
  <2> QED BY <2>1, <2>2, <2>3, <2>4, <2>5, <2>6, <2>7 DEF AllCounted
<1> QED BY <1>1, <1>2, <1>3

LEMMA UsedUpKeeps ==
  ASSUME IInv, NEW l \in Lambdas \union {NoLambda}, UsedUp(l)
  PROVE  IInv'
<1> USE BoundAssumption, LimitAssumption DEF IInv, UsedUp, agent
<1>1. TypeOK'
  BY DEF TypeOK, Count, Today, Made
<1>2. KnownIsLatest' /\ QueueWaits' /\ LaneBusy' /\ StoppedIsCancelled' /\ LaneAwake'
  BY DEF KnownIsLatest, QueueWaits, LaneBusy, StoppedIsCancelled, LaneAwake, Made, Active, Runs
<1>3. AllCounted'
  <2>1. Taken' = Taken /\ OnTheWay' = OnTheWay /\ Today' = Today + 1 /\ Today \in Nat /\ tally' = day
    BY DEF Taken, OnTheWay, Count, Today, Made, TypeOK
  <2>2. Cardinality(Taken) + Cardinality(OnTheWay) <= Today' + forgiven
    BY <2>1, CountsAreNumbers DEF AllCounted, TypeOK
  <2> QED BY <2>1, <2>2 DEF AllCounted, TypeOK, Made
<1> QED BY <1>1, <1>2, <1>3

(* The agent was never asked, or refuses: what was spent is still on its   *)
(* way back.                                                               *)
LEMMA FailsKeeps ==
  ASSUME IInv, NEW r \in Requests, Unreachable(r) \/ TurnAway(r)
  PROVE  IInv'
<1> USE BoundAssumption, LimitAssumption DEF IInv, Unreachable, TurnAway, Fails, Go, agent, Mishap
<1>1. TypeOK'
  <2>1. failures' \in 0 .. MaxMishaps
    BY DEF TypeOK
  <2>2. pc' \in [Requests -> {"idle", "post", "lost", "refused"}]
    BY DEF TypeOK
  <2>3. wants' \in [Requests -> Lambdas \union {NoLambda}]
    BY DEF TypeOK
  <2>4. lanes' \in [Requests -> Lanes]
    BY DEF TypeOK, Lanes
  <2> QED BY <2>1, <2>2, <2>3, <2>4 DEF TypeOK, Made
<1>2. KnownIsLatest' /\ QueueWaits' /\ LaneBusy' /\ StoppedIsCancelled' /\ LaneAwake'
  BY DEF KnownIsLatest, QueueWaits, LaneBusy, StoppedIsCancelled, LaneAwake, Made, Active, Runs
<1>3. AllCounted'
  <2>1. Taken' = Taken /\ OnTheWay' = OnTheWay /\ Today' = Today
    BY DEF Taken, OnTheWay, Today, Made, TypeOK
  <2> QED BY <2>1 DEF AllCounted, Made
<1> QED BY <1>1, <1>2, <1>3

LEMMA RefundKeeps ==
  ASSUME IInv, NEW r \in Requests, Refund(r)
  PROVE  IInv'
<1> USE BoundAssumption, LimitAssumption DEF IInv, Refund, End, agent
<1> DEFINE stray == IF pc[r] = "refused" /\ spentOn[r] = day THEN 0 ELSE 1
<1>0. stray \in {0, 1} /\ GiveBack(stray)
  OBVIOUS
<1> HIDE DEF stray
<1>1. TypeOK'
  <2>1. count' \in 0 .. MaxAsked /\ forgiven' \in Nat
    BY <1>0 DEF TypeOK, GiveBack
  <2>2. /\ pc' \in [Requests -> {"idle", "post", "lost", "refused"}]
        /\ wants' \in [Requests -> Lambdas \union {NoLambda}] /\ lanes' \in [Requests -> Lanes]
        /\ spentOn' \in [Requests -> 0 .. MaxMishaps]
    BY DEF TypeOK, Lanes
  <2> QED BY <2>1, <2>2 DEF TypeOK, Made
<1>2. KnownIsLatest' /\ QueueWaits' /\ LaneBusy' /\ StoppedIsCancelled' /\ LaneAwake'
  BY DEF KnownIsLatest, QueueWaits, LaneBusy, StoppedIsCancelled, LaneAwake, Made, Active, Runs
<1>3. AllCounted'
  <2>1. Taken' = Taken /\ OnTheWay' = OnTheWay \ {r} /\ (stray = 0 <=> r \in OnTheWay)
    BY DEF Taken, OnTheWay, Made, TypeOK, stray
  <2>2. IsFiniteSet(OnTheWay') /\ Cardinality(OnTheWay') = Cardinality(OnTheWay) - (1 - stray)
    <3>1. stray = 0 \/ stray = 1
      BY <1>0
    <3> QED BY <2>1, <3>1, FS_RemoveElement, CountsAreNumbers DEF AllCounted
  <2>3. Today' + forgiven' >= Today + forgiven - (1 - stray) /\ forgiven' >= forgiven
        /\ forgiven' \in Nat /\ Today' \in Nat
    <3>1. count \in Nat /\ forgiven \in Nat /\ tally' = tally /\ day' = day
      BY DEF TypeOK
    <3>2. CASE tally = day /\ count > 0
      BY <1>0, <3>1, <3>2 DEF GiveBack, Today
    <3>3. CASE ~(tally = day /\ count > 0)
      BY <1>0, <3>1, <3>3 DEF GiveBack, Today
    <3> QED BY <3>2, <3>3
  <2>4. tally' <= day' /\ (\A j \in Made : jobs[j].spent <= day)'
    BY DEF AllCounted, TypeOK, Made
  <2>5. (\A q \in Requests : spentOn[q] <= day)'
    BY DEF AllCounted, TypeOK
  <2>6. Today \in Nat /\ forgiven \in Nat /\ PerDay \in Nat
    BY DEF Today, TypeOK
  <2> QED BY <1>0, <2>1, <2>2, <2>3, <2>4, <2>5, <2>6, CountsAreNumbers DEF AllCounted
<1> QED BY <1>1, <1>2, <1>3

(* What was taken stays taken, and is forgiven from now on.                *)
LEMMA ServerRestartKeeps == ASSUME IInv, ServerRestart PROVE IInv'
<1> USE BoundAssumption, LimitAssumption DEF IInv, ServerRestart, agent, Mishap
<1> DEFINE more == IF Today < PerDay THEN Today ELSE PerDay
<1>0. Today \in Nat /\ PerDay \in Nat /\ forgiven \in Nat /\ day \in Nat
  BY DEF Today, TypeOK
<1>1. TypeOK'
  <2>1. forgiven' \in Nat /\ failures' \in 0 .. MaxMishaps
    BY <1>0 DEF TypeOK
  <2> QED BY <2>1, LambdaAssumption DEF TypeOK, Made, Lanes
<1>2. KnownIsLatest' /\ QueueWaits' /\ LaneBusy' /\ StoppedIsCancelled' /\ LaneAwake'
  BY DEF KnownIsLatest, QueueWaits, LaneBusy, StoppedIsCancelled, LaneAwake, Made, Active, Runs
<1>3. AllCounted'
  <2>1. Taken' = Taken /\ OnTheWay' = {} /\ Today' = 0
    BY DEF Taken, OnTheWay, Made, Today
  <2>2. Cardinality(OnTheWay') = 0 /\ IsFiniteSet(OnTheWay')
    BY <2>1, FS_EmptySet
  <2>3. /\ Cardinality(Taken) \in Nat /\ Cardinality(OnTheWay) \in Nat
        /\ Cardinality(Taken) + Cardinality(OnTheWay) <= Today + forgiven
        /\ Cardinality(Taken) + Cardinality(OnTheWay) <= PerDay + forgiven
    BY CountsAreNumbers DEF AllCounted
  <2>4. forgiven' = forgiven + more /\ more \in Nat /\ (more = Today \/ more = PerDay)
    BY <1>0
  <2> HIDE DEF more
  <2>5. Cardinality(Taken') + Cardinality(OnTheWay') <= 0 + forgiven'
    BY <1>0, <2>1, <2>2, <2>3, <2>4
  <2>6. tally' <= day' /\ (\A j \in Made : jobs[j].spent <= day)' /\ (\A q \in Requests : spentOn[q] <= day)'
    BY <1>0 DEF AllCounted, Made
  <2>7. PerDay + forgiven' >= 0 + forgiven' /\ forgiven' \in Nat /\ Cardinality(Taken') + Cardinality(OnTheWay') \in Nat
    BY <1>0, <2>1, <2>2, <2>3, <2>4
  <2> QED BY <1>0, <2>1, <2>2, <2>5, <2>6, <2>7 DEF AllCounted
<1> QED BY <1>1, <1>2, <1>3

(* Nothing of the new day is taken or spent yet.                           *)
LEMMA MidnightKeeps == ASSUME IInv, Midnight PROVE IInv'
<1> USE BoundAssumption, LimitAssumption DEF IInv, Midnight, agent, Mishap
<1>1. TypeOK'
  BY DEF TypeOK, Made
<1>2. KnownIsLatest' /\ QueueWaits' /\ LaneBusy' /\ StoppedIsCancelled' /\ LaneAwake'
  BY DEF KnownIsLatest, QueueWaits, LaneBusy, StoppedIsCancelled, LaneAwake, Made, Active, Runs
<1>3. AllCounted'
  <2>0. day \in Nat /\ day' = day + 1 /\ \A j \in Made : jobs[j].spent \in Nat
    <3>1. day \in Nat /\ jobs \in Seq(JobRecords)
      BY DEF TypeOK
    <3>2. \A j \in Made : jobs[j] \in JobRecords
      BY <3>1, ElementOfSeq DEF Made
    <3> QED BY <3>1, <3>2 DEF JobRecords
  <2>1. \A j \in Made : jobs[j].spent < day'
    BY <2>0 DEF AllCounted
  <2>2. \A q \in Requests : spentOn[q] < day' /\ spentOn[q] \in Nat
    BY <2>0 DEF AllCounted, TypeOK
  <2>3. Taken' = {} /\ OnTheWay' = {}
    BY <2>0, <2>1, <2>2 DEF Taken, OnTheWay, Made
  <2>4. Cardinality(Taken') = 0 /\ Cardinality(OnTheWay') = 0 /\ IsFiniteSet(OnTheWay')
    BY <2>3, FS_EmptySet
  <2>5. Today' + forgiven' >= 0 /\ PerDay + forgiven' >= 0 /\ tally' <= day'
    BY <2>0 DEF Today, TypeOK, AllCounted
  <2>6. (\A j \in Made : jobs[j].spent <= day)' /\ (\A q \in Requests : spentOn[q] <= day)'
    BY <2>0, <2>1, <2>2 DEF Made
  <2> QED BY <2>4, <2>5, <2>6 DEF AllCounted
<1> QED BY <1>1, <1>2, <1>3

-------------------------------------------------------------------------------
(* A job is taken: nothing of its lambda is under way, and it waits last.  *)
LEMMA TakeKeeps ==
  ASSUME IInv, NEW r \in Requests, Take(r) \/ TakeUnheard(r)
  PROVE  IInv'
<1> USE BoundAssumption, LimitAssumption, LambdaAssumption DEF IInv
<1> DEFINE id == Len(jobs) + 1
<1>0. /\ Enqueue(r) /\ pc[r] = "post" /\ ~UnderWay(wants[r]) /\ id \in Ids
      /\ pc' \in [Requests -> {"idle", "post", "lost", "refused"}] /\ pc'[r] \in {"idle", "lost"}
      /\ \A q \in Requests \ {r} : pc'[q] = pc[q] /\ spentOn'[q] = spentOn[q]
      /\ wants' \in [Requests -> Lambdas \union {NoLambda}] /\ lanes' \in [Requests -> Lanes]
      /\ spentOn' \in [Requests -> 0 .. MaxMishaps] /\ spentOn'[r] \in {0, spentOn[r]}
      /\ UNCHANGED <<count, tally, day, forgiven, running>>
  <2> USE DEF TypeOK
  <2>1. CASE Take(r)
    <3>1. Enqueue(r) /\ End(r) /\ pc[r] = "post" /\ ~UnderWay(wants[r]) /\ id \in Ids
          /\ UNCHANGED <<count, tally, day, forgiven, running>>
      BY <2>1 DEF Take, Enqueue
    <3>2. /\ pc' \in [Requests -> {"idle", "post", "lost", "refused"}] /\ pc'[r] = "idle"
          /\ \A q \in Requests \ {r} : pc'[q] = pc[q]
      BY <3>1 DEF End
    <3>3. /\ wants' \in [Requests -> Lambdas \union {NoLambda}] /\ lanes' \in [Requests -> Lanes]
      BY <3>1 DEF End, Lanes
    <3>4. /\ spentOn' \in [Requests -> 0 .. MaxMishaps] /\ spentOn'[r] = 0
          /\ \A q \in Requests \ {r} : spentOn'[q] = spentOn[q]
      BY <3>1 DEF End
    <3> QED BY <3>1, <3>2, <3>3, <3>4
  <2>2. CASE TakeUnheard(r)
    <3>1. Enqueue(r) /\ Fails(r, "lost") /\ ~UnderWay(wants[r]) /\ id \in Ids /\ spentOn' = spentOn
          /\ UNCHANGED <<count, tally, day, forgiven, running>>
      BY <2>2 DEF TakeUnheard, Enqueue
    <3>2. /\ pc[r] = "post" /\ pc' \in [Requests -> {"idle", "post", "lost", "refused"}] /\ pc'[r] = "lost"
          /\ \A q \in Requests \ {r} : pc'[q] = pc[q]
      BY <3>1 DEF Fails, Go
    <3>3. /\ wants' \in [Requests -> Lambdas \union {NoLambda}] /\ lanes' \in [Requests -> Lanes]
      BY <3>1 DEF Fails, Lanes
    <3>4. spentOn' \in [Requests -> 0 .. MaxMishaps] /\ spentOn'[r] = spentOn[r]
      BY <3>1
    <3> QED BY <3>1, <3>2, <3>3, <3>4
  <2> QED BY <2>1, <2>2
<1>1. failures' \in 0 .. MaxMishaps
  BY DEF Take, TakeUnheard, Mishap, TypeOK
<1>2. /\ jobs' \in Seq(JobRecords) /\ Len(jobs') = Len(jobs) + 1 /\ Made' = Made \union {id}
      /\ Len(jobs) \in Nat /\ id \notin Made
      /\ \A i \in Made : jobs'[i] = jobs[i]
      /\ jobs'[id].lambda = wants[r] /\ jobs'[id].lane = lanes[r] /\ jobs'[id].spent = spentOn[r]
      /\ jobs'[id].state = "queued" /\ jobs'[id].stopped = FALSE
  BY <1>0, Enqueued
<1>3. /\ queue' \in [Lanes -> Seq(Made')]
      /\ \A lane \in Lanes \ {lanes[r]} : queue'[lane] = queue[lane]
      /\ Len(queue'[lanes[r]]) = Len(queue[lanes[r]]) + 1
      /\ queue'[lanes[r]][Len(queue[lanes[r]]) + 1] = id
      /\ \A i \in 1 .. Len(queue[lanes[r]]) : queue'[lanes[r]][i] = queue[lanes[r]][i]
  BY <1>0, Enqueued
<1>4. /\ known' = known \union {id} /\ pumps' = pumps \union {lanes[r]}
      /\ latest' = [l \in Lambdas |-> IF l = wants[r] THEN id ELSE latest[l]]
      /\ lanes[r] \in Lanes /\ wants[r] \in Lambdas \union {NoLambda}
  BY <1>0 DEF Enqueue, TypeOK
<1> HIDE DEF id
<1>5. TypeOK'
  <2>1. known' \subseteq Made' /\ pumps' \subseteq Lanes /\ latest' \in [Lambdas -> Made' \union {NoJob}]
    BY <1>2, <1>4 DEF TypeOK
  <2> QED BY <1>0, <1>1, <1>2, <1>3, <2>1 DEF TypeOK
<1>6. KnownIsLatest'
  <2>1. \A j \in known : j \in Made
    BY DEF TypeOK
  <2>2. ASSUME NEW j \in known, Active(j), jobs[j].lambda # NoLambda
        PROVE  jobs[j].lambda # wants[r] /\ latest[jobs[j].lambda] = j /\ jobs[j].lambda \in Lambdas
    <3>1. jobs[j] \in JobRecords
      BY <2>1, ElementOfSeq DEF TypeOK, Made
    <3>2. jobs[j].lambda \in Lambdas
      BY <2>2, <3>1 DEF JobRecords
    <3>3. latest[jobs[j].lambda] = j
      BY <2>2 DEF KnownIsLatest
    <3>4. j # NoJob
      BY <1>2, <2>1 DEF NoJob, Made
    <3>5. UnderWay(jobs[j].lambda)
      BY <2>2, <3>3, <3>4 DEF UnderWay
    <3> QED BY <1>0, <3>2, <3>3, <3>5
  <2>3. ASSUME NEW j \in known', Active(j)', jobs'[j].lambda # NoLambda
        PROVE  latest'[jobs'[j].lambda] = j
    <3>1. CASE j = id
      BY <1>2, <1>4, <2>3, <3>1
    <3>2. CASE j # id
      BY <1>2, <1>4, <2>1, <2>2, <2>3, <3>2 DEF Active
    <3> QED BY <3>1, <3>2
  <2> QED BY <2>3 DEF KnownIsLatest
<1>7. QueueWaits'
  <2>1. \A lane \in Lanes : /\ DOMAIN queue[lane] = 1 .. Len(queue[lane]) /\ Len(queue[lane]) \in Nat
                            /\ DOMAIN queue'[lane] = 1 .. Len(queue'[lane])
                            /\ \A i \in DOMAIN queue[lane] : queue[lane][i] \in Made
    BY <1>3, LenProperties DEF TypeOK
  <2>2. ASSUME NEW lane \in Lanes, NEW i \in DOMAIN queue'[lane]
        PROVE  /\ jobs'[queue'[lane][i]].state = "queued" /\ jobs'[queue'[lane][i]].lane = lane
               /\ \A k \in DOMAIN queue'[lane] : queue'[lane][k] = queue'[lane][i] => k = i
    <3>1. CASE lane # lanes[r]
      <4>1. queue'[lane] = queue[lane] /\ queue[lane][i] \in Made
        BY <1>3, <2>1, <3>1
      <4> QED BY <1>2, <4>1 DEF QueueWaits
    <3>2. CASE lane = lanes[r]
      <4>1. \A k \in DOMAIN queue'[lane] :
              \/ k \in DOMAIN queue[lane] /\ queue'[lane][k] = queue[lane][k]
              \/ k = Len(queue[lane]) + 1 /\ queue'[lane][k] = id
        <5>1. ASSUME NEW k \in DOMAIN queue'[lane]
              PROVE  k \in DOMAIN queue[lane] \/ k = Len(queue[lane]) + 1
          BY <1>3, <2>1, <3>2
        <5> QED BY <1>3, <2>1, <3>2, <5>1
      <4>2. CASE i \in DOMAIN queue[lane]
        <5>1. queue[lane][i] \in Made /\ queue'[lane][i] = queue[lane][i] /\ queue[lane][i] # id
          BY <1>2, <1>3, <2>1, <3>2, <4>2
        <5>2. jobs[queue[lane][i]].state = "queued" /\ jobs[queue[lane][i]].lane = lane
              /\ \A k \in DOMAIN queue[lane] : queue[lane][k] = queue[lane][i] => k = i
          BY <4>2 DEF QueueWaits
        <5> QED BY <1>2, <4>1, <5>1, <5>2
      <4>3. CASE i = Len(queue[lane]) + 1 /\ queue'[lane][i] = id
        <5>1. \A k \in DOMAIN queue[lane] : queue[lane][k] # id
          BY <1>2, <2>1
        <5> QED BY <1>2, <1>4, <3>2, <4>1, <4>3, <5>1
      <4> QED BY <4>1, <4>2, <4>3
    <3> QED BY <3>1, <3>2
  <2> QED BY <2>2 DEF QueueWaits
<1>8. LaneBusy'
  <2>1. \A j \in Made', lane \in Lanes : Runs(j, lane)' <=> j \in Made /\ Runs(j, lane)
    BY <1>2 DEF Runs
  <2> QED BY <1>0, <1>2, <2>1 DEF LaneBusy
<1>9. StoppedIsCancelled'
  BY <1>2 DEF StoppedIsCancelled
<1>10. LaneAwake'
  BY <1>0, <1>3, <1>4 DEF LaneAwake
<1>11. AllCounted'
  <2>1. Taken' = IF spentOn[r] = day THEN Taken \union {id} ELSE Taken
    BY <1>0, <1>2 DEF Taken
  <2>2. id \notin Taken
    BY <1>2 DEF Taken
  <2>3. OnTheWay' = OnTheWay \ {r} /\ (r \in OnTheWay <=> spentOn[r] = day)
    BY <1>0 DEF OnTheWay
  <2>4. IsFiniteSet(Taken) /\ IsFiniteSet(OnTheWay)
        /\ Cardinality(Taken) \in Nat /\ Cardinality(OnTheWay) \in Nat
    BY CountsAreNumbers DEF AllCounted
  <2>5. IsFiniteSet(OnTheWay')
        /\ Cardinality(Taken') + Cardinality(OnTheWay') = Cardinality(Taken) + Cardinality(OnTheWay)
    <3>1. CASE spentOn[r] = day
      <4>1. Cardinality(Taken') = Cardinality(Taken) + 1
        BY <2>1, <2>2, <2>4, <3>1, FS_AddElement
      <4>2. Cardinality(OnTheWay') = Cardinality(OnTheWay) - 1 /\ IsFiniteSet(OnTheWay')
        BY <2>3, <2>4, <3>1, FS_RemoveElement
      <4> QED BY <2>4, <4>1, <4>2
    <3>2. CASE spentOn[r] # day
      BY <2>1, <2>3, <2>4, <3>2, FS_RemoveElement
    <3> QED BY <3>1, <3>2
  <2>6. Today' = Today /\ forgiven' = forgiven
    BY <1>0 DEF Today
  <2>7. (\A j \in Made : jobs[j].spent <= day)'
    BY <1>0, <1>2 DEF AllCounted
  <2>8. (\A q \in Requests : spentOn[q] <= day)' /\ tally' <= day'
    <3>1. day \in Nat /\ day' = day /\ \A q \in Requests : spentOn[q] <= day
      BY <1>0 DEF AllCounted, TypeOK
    <3>2. ASSUME NEW q \in Requests PROVE spentOn'[q] <= day
      BY <1>0, <3>1
    <3> QED BY <1>0, <3>1, <3>2 DEF AllCounted
  <2> QED BY <2>5, <2>6, <2>7, <2>8 DEF AllCounted
<1> QED BY <1>5, <1>6, <1>7, <1>8, <1>9, <1>10, <1>11

-------------------------------------------------------------------------------
(* What a lane's queue is without its first.                               *)
LEMMA Shifted ==
  ASSUME TypeOK, NEW lane \in Lanes, queue[lane] # <<>>, Shift(lane)
  PROVE  /\ queue' \in [Lanes -> Seq(Made)]
         /\ \A other \in Lanes \ {lane} : queue'[other] = queue[other]
         /\ DOMAIN queue[lane] = 1 .. Len(queue[lane]) /\ Len(queue[lane]) \in Nat \ {0}
         /\ DOMAIN queue'[lane] = 1 .. Len(queue[lane]) - 1
         /\ \A i \in DOMAIN queue'[lane] : queue'[lane][i] = queue[lane][i + 1]
         /\ Chosen(lane) = queue[lane][1] /\ Chosen(lane) \in Made
<1>1. queue[lane] \in Seq(Made) /\ queue' = [queue EXCEPT ![lane] = Tail(queue[lane])]
  BY DEF TypeOK, Shift
<1>2. /\ Tail(queue[lane]) \in Seq(Made) /\ Len(Tail(queue[lane])) = Len(queue[lane]) - 1
      /\ \A i \in 1 .. Len(Tail(queue[lane])) : Tail(queue[lane])[i] = queue[lane][i + 1]
      /\ Head(queue[lane]) \in Made
  BY <1>1, HeadTailProperties
<1>3. queue'[lane] = Tail(queue[lane]) /\ queue' \in [Lanes -> Seq(Made)]
      /\ \A other \in Lanes \ {lane} : queue'[other] = queue[other]
  BY <1>1, <1>2 DEF TypeOK
<1>4. /\ DOMAIN queue[lane] = 1 .. Len(queue[lane]) /\ Len(queue[lane]) \in Nat \ {0}
      /\ DOMAIN queue'[lane] = 1 .. Len(queue'[lane])
  BY <1>1, <1>2, <1>3, LenProperties, EmptySeq
<1> QED BY <1>1, <1>2, <1>3, <1>4 DEF Chosen

(* The oldest of a lane begins: it waited, and the lane was idle.          *)
LEMMA StartKeeps ==
  ASSUME IInv, NEW lane \in Lanes, Start(lane)
  PROVE  IInv'
<1> USE DEF IInv
<1> DEFINE j == Chosen(lane)
<1>1. Due(lane) /\ j \in known /\ queue[lane] # <<>> /\ ~running[lane] /\ Shift(lane)
      /\ Changed(j, "running", FALSE, "starting", FALSE)
      /\ running' = [running EXCEPT ![lane] = TRUE] /\ pumps' = pumps \ {lane}
      /\ UNCHANGED <<server, day, known, latest, failures>>
  BY DEF Start, Due
<1>2. /\ queue' \in [Lanes -> Seq(Made)]
      /\ \A other \in Lanes \ {lane} : queue'[other] = queue[other]
      /\ DOMAIN queue[lane] = 1 .. Len(queue[lane]) /\ Len(queue[lane]) \in Nat \ {0}
      /\ DOMAIN queue'[lane] = 1 .. Len(queue[lane]) - 1
      /\ \A i \in DOMAIN queue'[lane] : queue'[lane][i] = queue[lane][i + 1]
      /\ j = queue[lane][1] /\ j \in Made
  BY <1>1, Shifted
<1> HIDE DEF j
<1>3. /\ jobs' \in Seq(JobRecords) /\ Len(jobs') = Len(jobs) /\ Made' = Made
      /\ \A i \in Made \ {j} : jobs'[i] = jobs[i]
      /\ \A i \in Made : jobs'[i].lambda = jobs[i].lambda /\ jobs'[i].lane = jobs[i].lane
                         /\ jobs'[i].spent = jobs[i].spent
      /\ jobs'[j].state = "running" /\ jobs'[j].stopped = FALSE
  <2>1. "running" \in States /\ "starting" \in Boxes
    BY DEF States, Boxes
  <2> QED BY <1>1, <1>2, <2>1, JobChanged
<1>4. jobs[j].state = "queued" /\ jobs[j].lane = lane
      /\ \A k \in DOMAIN queue[lane] : queue[lane][k] = j => k = 1
  BY <1>2 DEF QueueWaits
<1>5. TypeOK'
  BY <1>1, <1>2, <1>3 DEF TypeOK, server
<1>6. KnownIsLatest'
  <2>1. \A i \in known : i \in Made
    BY DEF TypeOK
  <2>2. ASSUME NEW i \in known, Active(i)', jobs'[i].lambda # NoLambda PROVE latest'[jobs'[i].lambda] = i
    <3>1. Active(i) /\ jobs'[i].lambda = jobs[i].lambda
      <4>1. CASE i = j
        BY <1>3, <1>4, <2>1, <4>1 DEF Active
      <4>2. CASE i # j
        BY <1>3, <2>1, <2>2, <4>2 DEF Active
      <4> QED BY <4>1, <4>2
    <3> QED BY <1>1, <2>2, <3>1 DEF KnownIsLatest
  <2> QED BY <1>1, <2>2 DEF KnownIsLatest
<1>7. QueueWaits'
  <2>1. \A other \in Lanes : \A i \in DOMAIN queue[other] : queue[other][i] \in Made
    BY ElementOfSeq, LenProperties DEF TypeOK
  <2>2. ASSUME NEW other \in Lanes, NEW i \in DOMAIN queue'[other]
        PROVE  /\ jobs'[queue'[other][i]].state = "queued" /\ jobs'[queue'[other][i]].lane = other
               /\ \A k \in DOMAIN queue'[other] : queue'[other][k] = queue'[other][i] => k = i
    <3>1. CASE other # lane
      <4>1. queue[other][i] # j /\ queue'[other] = queue[other]
        BY <1>2, <1>4, <3>1 DEF QueueWaits
      <4> QED BY <1>3, <2>1, <4>1 DEF QueueWaits
    <3>2. CASE other = lane
      <4>1. \A k \in DOMAIN queue'[lane] : /\ k \in Nat /\ k + 1 \in DOMAIN queue[lane] /\ k + 1 # 1
                                           /\ queue'[lane][k] = queue[lane][k + 1]
        BY <1>2
      <4>2. i \in Nat /\ i + 1 \in DOMAIN queue[lane] /\ queue[lane][i + 1] # j /\ queue[lane][i + 1] \in Made
        BY <1>4, <2>1, <3>2, <4>1
      <4>3. ASSUME NEW k \in DOMAIN queue'[lane], queue'[lane][k] = queue'[lane][i] PROVE k = i
        <5>1. k + 1 = i + 1
          BY <3>2, <4>1, <4>2, <4>3 DEF QueueWaits
        <5> QED BY <4>1, <4>2, <5>1
      <4> QED BY <1>3, <3>2, <4>1, <4>2, <4>3 DEF QueueWaits
    <3> QED BY <3>1, <3>2
  <2> QED BY <2>2 DEF QueueWaits
<1>8. LaneBusy'
  <2>1. \A i \in Made, other \in Lanes : Runs(i, other)' <=> (Runs(i, other) \/ (i = j /\ other = lane))
    <3>1. ASSUME NEW i \in Made, NEW other \in Lanes, i # j PROVE Runs(i, other)' <=> Runs(i, other)
      BY <1>3, <3>1 DEF Runs
    <3>2. ASSUME NEW i \in Made, NEW other \in Lanes, i = j PROVE Runs(i, other)' <=> other = lane
      BY <1>2, <1>3, <1>4, <3>2 DEF Runs
    <3>3. \A other \in Lanes : ~Runs(j, other)
      BY <1>4 DEF Runs
    <3> QED BY <1>2, <3>1, <3>2, <3>3
  <2>2. ~ \E i \in Made : Runs(i, lane)
    BY <1>1 DEF LaneBusy
  <2>3. running'[lane] /\ \A other \in Lanes \ {lane} : running'[other] = running[other]
    BY <1>1 DEF TypeOK
  <2>4. ASSUME NEW other \in Lanes
        PROVE  /\ running'[other] <=> \E i \in Made : Runs(i, other)'
               /\ \A i, k \in Made : Runs(i, other)' /\ Runs(k, other)' => i = k
    <3>1. CASE other = lane
      BY <1>2, <2>1, <2>2, <2>3, <3>1
    <3>2. CASE other # lane
      BY <2>1, <2>3, <3>2 DEF LaneBusy
    <3> QED BY <3>1, <3>2
  <2> QED BY <1>3, <2>4 DEF LaneBusy
<1>9. StoppedIsCancelled'
  BY <1>3 DEF StoppedIsCancelled
<1>10. LaneAwake'
  <2>1. running'[lane] /\ \A other \in Lanes \ {lane} : running'[other] = running[other]
    BY <1>1 DEF TypeOK
  <2> QED BY <1>1, <1>2, <2>1 DEF LaneAwake
<1>11. AllCounted'
  BY <1>1, <1>3, CountedKeeps
<1> QED BY <1>5, <1>6, <1>7, <1>8, <1>9, <1>10, <1>11

(* What was forgotten is passed over, and a pump with nothing to do rests. *)
LEMMA PumpKeeps ==
  ASSUME IInv, NEW lane \in Lanes, Skip(lane) \/ Rest(lane)
  PROVE  IInv'
<1> USE DEF IInv
<1>1. UNCHANGED <<server, day, jobs, known, latest, running, failures>> /\ Made' = Made
  BY DEF Skip, Rest, Made
<1>2. CASE Skip(lane)
  <2>1. queue[lane] # <<>> /\ lane \in pumps /\ Shift(lane) /\ pumps' = pumps
    BY <1>2 DEF Skip, Due
  <2>2. /\ queue' \in [Lanes -> Seq(Made)]
        /\ \A other \in Lanes \ {lane} : queue'[other] = queue[other]
        /\ DOMAIN queue[lane] = 1 .. Len(queue[lane]) /\ Len(queue[lane]) \in Nat \ {0}
        /\ DOMAIN queue'[lane] = 1 .. Len(queue[lane]) - 1
        /\ \A i \in DOMAIN queue'[lane] : queue'[lane][i] = queue[lane][i + 1]
    BY <2>1, Shifted
  <2>3. TypeOK'
    BY <1>1, <2>1, <2>2 DEF TypeOK, server
  <2>4. \A k \in DOMAIN queue'[lane] : /\ k \in Nat /\ k + 1 \in DOMAIN queue[lane]
                                       /\ queue'[lane][k] = queue[lane][k + 1]
    BY <2>2
  <2>5. QueueWaits'
    <3>1. ASSUME NEW other \in Lanes, NEW i \in DOMAIN queue'[other]
          PROVE  /\ jobs'[queue'[other][i]].state = "queued" /\ jobs'[queue'[other][i]].lane = other
                 /\ \A k \in DOMAIN queue'[other] : queue'[other][k] = queue'[other][i] => k = i
      <4>1. CASE other # lane
        BY <1>1, <2>2, <4>1 DEF QueueWaits
      <4>2. CASE other = lane
        <5>1. ASSUME NEW k \in DOMAIN queue'[lane], queue'[lane][k] = queue'[lane][i] PROVE k = i
          <6>1. k + 1 = i + 1
            BY <2>4, <4>2, <5>1 DEF QueueWaits
          <6> QED BY <2>4, <4>2, <6>1
        <5> QED BY <1>1, <2>4, <4>2, <5>1 DEF QueueWaits
      <4> QED BY <4>1, <4>2
    <3> QED BY <3>1 DEF QueueWaits
  <2>6. KnownIsLatest' /\ LaneBusy' /\ StoppedIsCancelled'
    BY <1>1 DEF KnownIsLatest, LaneBusy, StoppedIsCancelled, Active, Runs
  <2>7. LaneAwake'
    BY <1>1, <2>1, <2>2 DEF LaneAwake
  <2>8. AllCounted'
    BY <1>1, CountedKeeps
  <2> QED BY <2>3, <2>5, <2>6, <2>7, <2>8
<1>3. CASE Rest(lane)
  <2>1. queue' = queue /\ pumps' = pumps \ {lane} /\ (running[lane] \/ queue[lane] = <<>>)
    BY <1>3 DEF Rest
  <2>2. TypeOK' /\ KnownIsLatest' /\ QueueWaits' /\ LaneBusy' /\ StoppedIsCancelled'
    BY <1>1, <2>1 DEF TypeOK, server, KnownIsLatest, QueueWaits, LaneBusy, StoppedIsCancelled, Active, Runs
  <2>3. LaneAwake'
    BY <1>1, <2>1 DEF LaneAwake
  <2>4. AllCounted'
    BY <1>1, CountedKeeps
  <2> QED BY <2>2, <2>3, <2>4
<1> QED BY <1>2, <1>3

-------------------------------------------------------------------------------
(* What a job's container or a stop does changes that job and no lane: who *)
(* waited waits, who ran runs, and who was stopped does not become         *)
(* something else.                                                         *)
LEMMA ChangeKeeps ==
  ASSUME IInv, NEW j \in Made, NEW stopped \in BOOLEAN, NEW box \in Boxes, NEW killing \in BOOLEAN,
         Changed(j, jobs[j].state, stopped, box, killing),
         stopped => jobs[j].stopped \/ jobs[j].state = "running",
         UNCHANGED <<server, day, known, latest, queue, running, pumps, failures>>
  PROVE  IInv'
<1> USE DEF IInv
<1>1. jobs[j].state \in States
  <2>1. jobs[j] \in JobRecords
    BY ElementOfSeq DEF TypeOK, Made
  <2> QED BY <2>1 DEF JobRecords, States
<1>2. /\ jobs' \in Seq(JobRecords) /\ Len(jobs') = Len(jobs) /\ Made' = Made
      /\ \A i \in Made \ {j} : jobs'[i] = jobs[i]
      /\ \A i \in Made : jobs'[i].lambda = jobs[i].lambda /\ jobs'[i].lane = jobs[i].lane
                         /\ jobs'[i].spent = jobs[i].spent
      /\ jobs'[j].state = jobs[j].state /\ jobs'[j].stopped = stopped
  BY <1>1, JobChanged
<1>3. \A i \in Made : jobs'[i].state = jobs[i].state
  BY <1>2
<1>4. TypeOK'
  BY <1>2 DEF TypeOK, server
<1>5. KnownIsLatest'
  BY <1>2, <1>3 DEF KnownIsLatest, Active, TypeOK
<1>6. QueueWaits'
  <2>1. \A lane \in Lanes : \A i \in DOMAIN queue[lane] : queue[lane][i] \in Made
    BY ElementOfSeq, LenProperties DEF TypeOK
  <2> QED BY <1>2, <1>3, <2>1 DEF QueueWaits
<1>7. LaneBusy'
  <2>1. \A i \in Made, lane \in Lanes : Runs(i, lane)' <=> Runs(i, lane)
    BY <1>2, <1>3 DEF Runs
  <2> QED BY <1>2, <2>1 DEF LaneBusy
<1>8. StoppedIsCancelled'
  BY <1>2, <1>3 DEF StoppedIsCancelled
<1>9. LaneAwake'
  BY DEF LaneAwake
<1>10. AllCounted'
  BY <1>2, CountedKeeps
<1> QED BY <1>4, <1>5, <1>6, <1>7, <1>8, <1>9, <1>10

LEMMA ContainerKeeps ==
  ASSUME IInv, NEW j \in Made, BoxUp(j) \/ BoxEnds(j) \/ Expire(j) \/ KillLands(j) \/ Stop(j)
  PROVE  IInv'
<1>1. jobs[j].stopped \in BOOLEAN /\ jobs[j].box \in Boxes /\ jobs[j].killing \in BOOLEAN
  <2>1. jobs[j] \in JobRecords
    BY ElementOfSeq DEF IInv, TypeOK, Made
  <2> QED BY <2>1 DEF JobRecords, Boxes
<1>2. "up" \in Boxes /\ "gone" \in Boxes
  BY DEF Boxes
<1>3. CASE BoxUp(j)
  BY <1>1, <1>2, <1>3, ChangeKeeps DEF BoxUp
<1>4. CASE BoxEnds(j)
  BY <1>1, <1>2, <1>4, ChangeKeeps DEF BoxEnds
<1>5. CASE Expire(j)
  BY <1>1, <1>2, <1>5, ChangeKeeps DEF Expire
<1>6. CASE KillLands(j)
  <2> DEFINE box == IF jobs[j].box = "up" THEN "gone" ELSE jobs[j].box
  <2>1. box \in Boxes
    BY <1>1, <1>2
  <2>2. Changed(j, jobs[j].state, jobs[j].stopped, box, FALSE)
        /\ UNCHANGED <<server, day, known, latest, queue, running, pumps, failures>>
    BY <1>6 DEF KillLands
  <2> HIDE DEF box
  <2> QED BY <1>1, <2>1, <2>2, ChangeKeeps
<1>7. CASE Stop(j)
  BY <1>1, <1>2, <1>7, ChangeKeeps DEF Stop
<1> QED BY <1>3, <1>4, <1>5, <1>6, <1>7

(* The one that ran has ended, its lane is free, and a pump follows.       *)
LEMMA ClosedKeeps ==
  ASSUME IInv, NEW j \in Made, Closed(j)
  PROVE  IInv'
<1> USE DEF IInv
<1>1. jobs[j] \in JobRecords
  BY ElementOfSeq DEF TypeOK, Made
<1>2. jobs[j].lane \in Lanes /\ jobs[j].stopped \in BOOLEAN
  BY <1>1 DEF JobRecords
<1>3. /\ jobs[j].state = "running"
      /\ running' = [running EXCEPT ![jobs[j].lane] = FALSE] /\ pumps' = pumps \union {jobs[j].lane}
      /\ UNCHANGED <<server, day, known, latest, queue, failures>>
  BY DEF Closed
<1>4. PICK state \in Outcomes(j) : Changed(j, state, jobs[j].stopped, "none", FALSE)
  BY DEF Closed
<1>5. state \in {"done", "failed", "cancelled"} /\ (jobs[j].stopped => state = "cancelled")
  BY <1>2, <1>4 DEF Outcomes
<1>6. /\ jobs' \in Seq(JobRecords) /\ Len(jobs') = Len(jobs) /\ Made' = Made
      /\ \A i \in Made \ {j} : jobs'[i] = jobs[i]
      /\ \A i \in Made : jobs'[i].lambda = jobs[i].lambda /\ jobs'[i].lane = jobs[i].lane
                         /\ jobs'[i].spent = jobs[i].spent
      /\ jobs'[j].state = state /\ jobs'[j].stopped = jobs[j].stopped
  <2>1. state \in States /\ "none" \in Boxes
    BY <1>5 DEF States, Boxes
  <2> QED BY <1>2, <1>4, <2>1, JobChanged
<1>7. running' \in [Lanes -> BOOLEAN] /\ ~running'[jobs[j].lane]
      /\ \A lane \in Lanes \ {jobs[j].lane} : running'[lane] = running[lane]
  BY <1>2, <1>3 DEF TypeOK
<1>8. TypeOK'
  BY <1>2, <1>3, <1>6, <1>7 DEF TypeOK, server
<1>9. KnownIsLatest'
  <2>1. \A i \in known : Active(i)' => Active(i) /\ i # j
    BY <1>3, <1>5, <1>6 DEF Active, TypeOK
  <2> QED BY <1>3, <1>6, <2>1 DEF KnownIsLatest, TypeOK
<1>10. QueueWaits'
  <2>1. \A lane \in Lanes : \A i \in DOMAIN queue[lane] : queue[lane][i] \in Made \ {j}
    BY <1>3, ElementOfSeq, LenProperties DEF TypeOK, QueueWaits
  <2> QED BY <1>3, <1>6, <2>1 DEF QueueWaits
<1>11. LaneBusy'
  <2>1. \A i \in Made \ {j}, lane \in Lanes : Runs(i, lane)' <=> Runs(i, lane)
    BY <1>6 DEF Runs
  <2>2. \A i \in Made, lane \in Lanes : i = j => ~Runs(i, lane)'
    BY <1>5, <1>6 DEF Runs
  <2>3. Runs(j, jobs[j].lane) /\ \A lane \in Lanes : Runs(j, lane) => lane = jobs[j].lane
    BY <1>3 DEF Runs
  <2>4. ASSUME NEW lane \in Lanes
        PROVE  /\ running'[lane] <=> \E i \in Made : Runs(i, lane)'
               /\ \A i, k \in Made : Runs(i, lane)' /\ Runs(k, lane)' => i = k
    <3>1. CASE lane = jobs[j].lane
      <4>1. \A i \in Made : Runs(i, lane) => i = j
        BY <2>3, <3>1 DEF LaneBusy
      <4>2. \A i \in Made : ~Runs(i, lane)'
        BY <2>1, <2>2, <4>1
      <4> QED BY <1>7, <3>1, <4>2
    <3>2. CASE lane # jobs[j].lane
      <4>1. \A i \in Made : Runs(i, lane)' <=> Runs(i, lane)
        BY <2>1, <2>2, <2>3, <3>2
      <4> QED BY <1>7, <3>2, <4>1 DEF LaneBusy
    <3> QED BY <3>1, <3>2
  <2> QED BY <1>6, <2>4 DEF LaneBusy
<1>12. StoppedIsCancelled'
  BY <1>5, <1>6 DEF StoppedIsCancelled
<1>13. LaneAwake'
  BY <1>3, <1>7 DEF LaneAwake
<1>14. AllCounted'
  BY <1>3, <1>6, CountedKeeps
<1> QED BY <1>8, <1>9, <1>10, <1>11, <1>12, <1>13, <1>14

(* Who waited is taken off its queue, and nobody else moves but up.        *)
LEMMA CancelKeeps ==
  ASSUME IInv, NEW j \in Made, Cancel(j)
  PROVE  IInv'
<1> USE DEF IInv
<1> DEFINE lane == jobs[j].lane
<1>1. lane \in Lanes
  <2>1. jobs[j] \in JobRecords
    BY ElementOfSeq DEF TypeOK, Made
  <2> QED BY <2>1 DEF JobRecords
<1>2. /\ jobs[j].state = "queued" /\ Changed(j, "cancelled", FALSE, "none", FALSE)
      /\ UNCHANGED <<server, day, known, latest, running, pumps, failures>>
  BY DEF Cancel
<1>3. PICK n \in DOMAIN queue[lane] : queue[lane][n] = j /\ queue' = [queue EXCEPT ![lane] = RemoveAt(@, n)]
  BY DEF Cancel
<1>4. \A other \in Lanes : /\ queue[other] \in Seq(Made) /\ DOMAIN queue[other] = 1 .. Len(queue[other])
                           /\ Len(queue[other]) \in Nat
                           /\ \A i \in DOMAIN queue[other] : queue[other][i] \in Made
  BY LenProperties, ElementOfSeq DEF TypeOK
<1>5. /\ jobs' \in Seq(JobRecords) /\ Len(jobs') = Len(jobs) /\ Made' = Made
      /\ \A i \in Made \ {j} : jobs'[i] = jobs[i]
      /\ \A i \in Made : jobs'[i].lambda = jobs[i].lambda /\ jobs'[i].lane = jobs[i].lane
                         /\ jobs'[i].spent = jobs[i].spent
      /\ jobs'[j].state = "cancelled" /\ jobs'[j].stopped = FALSE
  <2>1. "cancelled" \in States /\ "none" \in Boxes
    BY DEF States, Boxes
  <2> QED BY <1>2, <2>1, JobChanged
<1> HIDE DEF lane
<1>6. /\ queue' \in [Lanes -> Seq(Made)]
      /\ \A other \in Lanes \ {lane} : queue'[other] = queue[other]
      /\ DOMAIN queue'[lane] = 1 .. Len(queue[lane]) - 1
      /\ \A i \in DOMAIN queue'[lane] : queue'[lane][i] = queue[lane][IF i < n THEN i ELSE i + 1]
  <2>1. /\ RemoveAt(queue[lane], n) \in Seq(Made) /\ Len(RemoveAt(queue[lane], n)) = Len(queue[lane]) - 1
        /\ \A i \in 1 .. Len(queue[lane]) - 1 :
             RemoveAt(queue[lane], n)[i] = queue[lane][IF i < n THEN i ELSE i + 1]
    BY <1>1, <1>3, <1>4, RemovedAt
  <2>2. queue'[lane] = RemoveAt(queue[lane], n) /\ queue' \in [Lanes -> Seq(Made)]
        /\ \A other \in Lanes \ {lane} : queue'[other] = queue[other]
    BY <1>1, <1>3, <2>1 DEF TypeOK
  <2>3. DOMAIN queue'[lane] = 1 .. Len(queue'[lane])
    BY <2>1, <2>2, LenProperties
  <2> QED BY <2>1, <2>2, <2>3
<1>7. TypeOK'
  BY <1>2, <1>5, <1>6 DEF TypeOK, server
<1>8. KnownIsLatest'
  <2>1. \A i \in known : Active(i)' => Active(i)
    BY <1>2, <1>5 DEF Active, TypeOK
  <2> QED BY <1>2, <1>5, <2>1 DEF KnownIsLatest, TypeOK
<1>9. QueueWaits'
  <2>1. \A other \in Lanes : \A i \in DOMAIN queue[other] :
          queue[other][i] = j => other = lane /\ i = n
    BY <1>1, <1>3 DEF QueueWaits, lane
  <2>2. ASSUME NEW other \in Lanes, NEW i \in DOMAIN queue'[other]
        PROVE  /\ jobs'[queue'[other][i]].state = "queued" /\ jobs'[queue'[other][i]].lane = other
               /\ \A k \in DOMAIN queue'[other] : queue'[other][k] = queue'[other][i] => k = i
    <3>1. CASE other # lane
      <4>1. queue'[other] = queue[other] /\ queue[other][i] \in Made \ {j}
        BY <1>4, <1>6, <2>1, <3>1
      <4> QED BY <1>5, <4>1 DEF QueueWaits
    <3>2. CASE other = lane
      <4> DEFINE Was(k) == IF k < n THEN k ELSE k + 1
      <4>1. \A k \in DOMAIN queue'[lane] : /\ k \in Nat /\ Was(k) \in Nat /\ Was(k) \in DOMAIN queue[lane]
                                           /\ Was(k) # n /\ queue'[lane][k] = queue[lane][Was(k)]
        BY <1>1, <1>3, <1>4, <1>6
      <4>2. n \in Nat /\ \A k, m \in DOMAIN queue'[lane] : Was(k) = Was(m) => k = m
        BY <1>1, <1>3, <1>4, <1>6
      <4> HIDE DEF Was
      <4>3. queue[lane][Was(i)] \in Made \ {j}
        BY <1>1, <1>4, <2>1, <3>2, <4>1
      <4>4. ASSUME NEW k \in DOMAIN queue'[lane], queue'[lane][k] = queue'[lane][i] PROVE k = i
        <5>1. Was(k) = Was(i)
          BY <1>1, <3>2, <4>1, <4>4 DEF QueueWaits
        <5> QED BY <3>2, <4>2, <5>1
      <4> QED BY <1>1, <1>5, <3>2, <4>1, <4>3, <4>4 DEF QueueWaits
    <3> QED BY <3>1, <3>2
  <2> QED BY <2>2 DEF QueueWaits
<1>10. LaneBusy'
  <2>1. \A i \in Made, other \in Lanes : Runs(i, other)' <=> Runs(i, other)
    <3>1. \A i \in Made \ {j}, other \in Lanes : Runs(i, other)' <=> Runs(i, other)
      BY <1>5 DEF Runs
    <3>2. \A i \in Made, other \in Lanes : i = j => ~Runs(i, other) /\ ~Runs(i, other)'
      BY <1>2, <1>5 DEF Runs
    <3> QED BY <3>1, <3>2
  <2> QED BY <1>2, <1>5, <2>1 DEF LaneBusy
<1>11. StoppedIsCancelled'
  BY <1>5 DEF StoppedIsCancelled
<1>12. LaneAwake'
  <2>1. ASSUME NEW other \in Lanes, queue'[other] # <<>> PROVE queue[other] # <<>>
    <3>1. CASE other = lane
      BY <1>1, <1>3, <1>4, <3>1, EmptySeq
    <3>2. CASE other # lane
      BY <1>6, <2>1, <3>2
    <3> QED BY <3>1, <3>2
  <2> QED BY <1>2, <2>1 DEF LaneAwake
<1>13. AllCounted'
  BY <1>2, <1>5, CountedKeeps
<1> QED BY <1>7, <1>8, <1>9, <1>10, <1>11, <1>12, <1>13

(* What is forgotten is no longer known, nor the newest of its lambda.     *)
LEMMA ForgetKeeps ==
  ASSUME IInv, NEW j \in Made, Forget(j)
  PROVE  IInv'
<1> USE DEF IInv
<1>1. /\ known' = known \ {j} /\ latest' = [l \in Lambdas |-> IF latest[l] = j THEN NoJob ELSE latest[l]]
      /\ UNCHANGED <<server, day, jobs, queue, running, pumps, failures>> /\ Made' = Made
  BY DEF Forget, Made
<1>2. TypeOK'
  <2>1. latest' \in [Lambdas -> Made \union {NoJob}]
    BY <1>1 DEF TypeOK
  <2> QED BY <1>1, <2>1 DEF TypeOK, server
<1>3. KnownIsLatest'
  <2>1. ASSUME NEW i \in known', Active(i)', jobs'[i].lambda # NoLambda
        PROVE  latest'[jobs'[i].lambda] = i
    <3>1. i \in known /\ i # j /\ jobs[i] \in JobRecords /\ Active(i)
      BY <1>1, <2>1, ElementOfSeq DEF TypeOK, Made, Active
    <3>2. jobs[i].lambda \in Lambdas /\ latest[jobs[i].lambda] = i
      BY <1>1, <2>1, <3>1 DEF JobRecords, KnownIsLatest
    <3> QED BY <1>1, <3>1, <3>2
  <2> QED BY <2>1 DEF KnownIsLatest
<1>4. QueueWaits' /\ LaneBusy' /\ StoppedIsCancelled' /\ LaneAwake'
  BY <1>1 DEF QueueWaits, LaneBusy, StoppedIsCancelled, LaneAwake, Runs
<1>5. AllCounted'
  BY <1>1, CountedKeeps
<1> QED BY <1>2, <1>3, <1>4, <1>5

(* After a restart nothing is known, waits or runs.                        *)
LEMMA RestartKeeps ==
  ASSUME IInv, Restart
  PROVE  IInv'
<1> USE DEF IInv
<1>1. /\ Mishap /\ failures' = failures + 1 /\ jobs' = [j \in Made |-> Lost(jobs[j])]
      /\ known' = {} /\ latest' = [l \in Lambdas |-> NoJob]
      /\ queue' = [l \in Lanes |-> <<>>] /\ running' = [l \in Lanes |-> FALSE] /\ pumps' = {}
      /\ UNCHANGED <<server, day>>
  BY DEF Restart
<1>2. \A j \in Made : jobs[j] \in JobRecords
  BY ElementOfSeq DEF TypeOK, Made
<1>3. \A j \in Made : /\ Lost(jobs[j]) \in JobRecords /\ Lost(jobs[j]).spent = jobs[j].spent
                      /\ Lost(jobs[j]).state \notin {"queued", "running"}
                      /\ Lost(jobs[j]).stopped = jobs[j].stopped
                      /\ Lost(jobs[j]).state = jobs[j].state \/ Lost(jobs[j]).state = "lost"
  BY <1>2 DEF Lost, JobRecords
<1>4. jobs' \in Seq(JobRecords) /\ Made' = Made
  <2>1. Len(jobs) \in Nat
    BY LenProperties DEF TypeOK
  <2>2. jobs' \in [1 .. Len(jobs) -> JobRecords]
    BY <1>1, <1>3 DEF Made
  <2>3. jobs' \in Seq(JobRecords) /\ Len(jobs') = Len(jobs)
    BY <2>1, <2>2, SeqDef, LenProperties
  <2> QED BY <2>3 DEF Made
<1>5. \A j \in Made : jobs'[j] = Lost(jobs[j])
  BY <1>1
<1>6. TypeOK'
  <2>1. failures' \in 0 .. MaxMishaps
    BY <1>1, BoundAssumption DEF Mishap, TypeOK
  <2>2. queue' \in [Lanes -> Seq(Made)]
    BY <1>1, EmptySeq
  <2> QED BY <1>1, <1>4, <2>1, <2>2 DEF TypeOK, server
<1>7. KnownIsLatest' /\ QueueWaits' /\ LaneAwake'
  BY <1>1 DEF KnownIsLatest, QueueWaits, LaneAwake
<1>8. LaneBusy'
  <2>1. \A j \in Made, lane \in Lanes : ~Runs(j, lane)'
    BY <1>3, <1>5 DEF Runs
  <2> QED BY <1>1, <1>4, <2>1 DEF LaneBusy
<1>9. StoppedIsCancelled'
  BY <1>3, <1>4, <1>5 DEF StoppedIsCancelled
<1>10. AllCounted'
  BY <1>1, <1>3, <1>4, <1>5, CountedKeeps
<1> QED BY <1>6, <1>7, <1>8, <1>9, <1>10

-------------------------------------------------------------------------------
LEMMA StepInvariant == IInv /\ [Next]_vars => IInv'
<1> SUFFICES ASSUME IInv, [Next]_vars PROVE IInv' OBVIOUS
<1>1. ASSUME NEW r \in Requests, RequestNext(r) PROVE IInv'
  BY <1>1, SpendKeeps, TakeKeeps, FailsKeeps, RefundKeeps DEF RequestNext
<1>2. ASSUME NEW lane \in Lanes, LaneNext(lane) PROVE IInv'
  BY <1>2, StartKeeps, PumpKeeps DEF LaneNext
<1>3. ASSUME NEW j \in Ids, JobNext(j) PROVE IInv'
  BY <1>3, ContainerKeeps, ClosedKeeps, CancelKeeps, ForgetKeeps DEF JobNext
<1>4. ASSUME NEW l \in Lambdas \union {NoLambda}, UsedUp(l) PROVE IInv'
  BY <1>4, UsedUpKeeps
<1>5. CASE UNCHANGED vars
  <2>1. TypeOK'
    BY <1>5 DEF vars, IInv, TypeOK, Made
  <2>2. KnownIsLatest' /\ QueueWaits' /\ LaneBusy' /\ StoppedIsCancelled' /\ LaneAwake'
    BY <1>5 DEF vars, IInv, KnownIsLatest, QueueWaits, LaneBusy, StoppedIsCancelled, LaneAwake,
                Made, Active, Runs
  <2>3. AllCounted'
    BY <1>5, CountedKeeps DEF vars, server, IInv, Made
  <2> QED BY <2>1, <2>2, <2>3 DEF IInv
<1> QED BY <1>1, <1>2, <1>3, <1>4, <1>5, MidnightKeeps, RestartKeeps, ServerRestartKeeps DEF Next

-------------------------------------------------------------------------------
(* What the agent's map, its lanes and the server's count mean, always.    *)
THEOREM Invariant == Spec => []IInv
<1> QED BY InitInvariant, StepInvariant, PTL DEF Spec

(* POST /build asks for the newest job of a lambda only; that is enough    *)
(* for two agents never to be set on it.                                   *)
THEOREM OneChangeAtOnce == Spec => []OneChange
<1>1. IInv => OneChange
  BY DEF IInv, KnownIsLatest, OneChange
<1> QED BY <1>1, Invariant, PTL

(* A lane runs one job at a time.                                          *)
THEOREM LanesTakeTurns == Spec => []OneAtATime
<1>1. ASSUME IInv PROVE OneAtATime
  <2>1. ASSUME NEW lane \in Lanes
        PROVE  running[lane]
                 <=> Cardinality({j \in Made : jobs[j].lane = lane /\ jobs[j].state = "running"}) = 1
    <3> DEFINE active == {j \in Made : jobs[j].lane = lane /\ jobs[j].state = "running"}
    <3>1. /\ running[lane] <=> active # {}
          /\ \A i, j \in active : i = j
      BY <1>1 DEF IInv, LaneBusy, Runs
    <3> HIDE DEF active
    <3>2. CASE active = {}
      <4>1. Cardinality(active) = 0
        BY <3>2, FS_EmptySet
      <4> QED BY <3>1, <3>2, <4>1 DEF active
    <3>3. CASE active # {}
      <4>1. PICK j \in active : TRUE
        BY <3>3
      <4>2. active = {j}
        BY <3>1, <4>1
      <4>3. Cardinality(active) = 1
        BY <4>2, FS_Singleton
      <4> QED BY <3>1, <3>3, <4>3 DEF active
    <3> QED BY <3>2, <3>3
  <2> QED BY <2>1 DEF OneAtATime
<1> QED BY <1>1, Invariant, PTL

(* What was stopped never ends as anything else.                           *)
THEOREM StopIsKept == Spec => []StoppedIsCancelled
<1>1. IInv => StoppedIsCancelled
  BY DEF IInv
<1> QED BY <1>1, Invariant, PTL

(* Nobody waits in a lane that nothing will pump.                          *)
THEOREM NoLaneSleeps == Spec => []LaneAwake
<1>1. IInv => LaneAwake
  BY DEF IInv
<1> QED BY <1>1, Invariant, PTL

(* An address gets no more than its builds of a day, but for what was      *)
(* given back though it was taken.                                         *)
THEOREM NoMoreThanAllowed == Spec => []AllowanceKept
<1>1. ASSUME IInv PROVE AllowanceKept
  <2>1. Cardinality(Taken) + Cardinality(OnTheWay) <= PerDay + forgiven /\ forgiven \in Nat /\ PerDay \in Nat
    BY <1>1, LimitAssumption DEF IInv, AllCounted, TypeOK
  <2>2. Cardinality(Taken) \in Nat /\ Cardinality(OnTheWay) \in Nat
    BY <1>1, CountsAreNumbers DEF IInv
  <2>3. Cardinality(Taken) <= PerDay + forgiven
    BY <2>1, <2>2
  <2> QED BY <2>3 DEF AllowanceKept, Taken
<1> QED BY <1>1, Invariant, PTL
===============================================================================
