---------------------------- MODULE PagesProofs ----------------------------
(***************************************************************************)
(* Three of the pages of the front end: the end of a job of the agent is   *)
(* said once, what the code section takes to be saved is what the server   *)
(* keeps and a save of a feature replaces nothing unseen, and no read of   *)
(* the control center brings back what was before one already shown - for  *)
(* any number of jobs, edits, saves, changes and reads under way.          *)
(***************************************************************************)
EXTENDS AgentWatch, CodeEditing, ControlCenter, SequenceTheorems, TLAPS

LOCAL INSTANCE SequencesExt

-----------------------------------------------------------------------------
(***************************************************************************)
(* Watching the agent (AgentWatch).                                        *)
(***************************************************************************)
(***************************************************************************)
(* What taking an element out of a sequence leaves.                        *)
(***************************************************************************)
LEMMA RemoveAtProperties ==
  ASSUME NEW S, NEW s \in Seq(S), NEW i \in 1..Len(s)
  PROVE  /\ RemoveAt(s, i) \in Seq(S) /\ Len(RemoveAt(s, i)) = Len(s) - 1
         /\ \A k \in 1..(Len(s) - 1) : RemoveAt(s, i)[k] = IF k < i THEN s[k] ELSE s[k + 1]
<1>0. Len(s) \in Nat
  OBVIOUS
<1> DEFINE front == SubSeq(s, 1, i - 1)
           back == SubSeq(s, i + 1, Len(s))
<1>1. front \in Seq(S) /\ Len(front) = i - 1 /\ \A k \in 1..(i - 1) : front[k] = s[k]
  OBVIOUS
<1>2. back \in Seq(S) /\ Len(back) = Len(s) - i /\ \A k \in 1..(Len(s) - i) : back[k] = s[i + k]
  OBVIOUS
<1> HIDE DEF front, back
<1>3. RemoveAt(s, i) = front \o back
  BY DEF RemoveAt, front, back
<1>4. /\ front \o back \in Seq(S) /\ Len(front \o back) = Len(front) + Len(back)
      /\ \A k \in 1..(Len(front) + Len(back)) : (front \o back)[k] = IF k <= Len(front) THEN front[k] ELSE back[k - Len(front)]
  BY <1>1, <1>2, ConcatProperties, Zenon
<1> DEFINE left == RemoveAt(s, i)
<1>5. /\ left \in Seq(S) /\ Len(left) = Len(front) + Len(back)
      /\ \A k \in 1..(Len(front) + Len(back)) : left[k] = IF k <= Len(front) THEN front[k] ELSE back[k - Len(front)]
  BY <1>3, <1>4, Zenon
<1> HIDE DEF left
<1>6. Len(left) = Len(s) - 1
  BY <1>1, <1>2, <1>5
<1>7. ASSUME NEW k \in 1..(Len(s) - 1) PROVE left[k] = IF k < i THEN s[k] ELSE s[k + 1]
  <2>0. k \in Nat /\ Len(front) = i - 1 /\ Len(back) = Len(s) - i /\ k \in 1..(Len(front) + Len(back))
    BY <1>0, <1>1, <1>2
  <2>3. left[k] = IF k <= i - 1 THEN front[k] ELSE back[k - (i - 1)]
    BY <1>5, <2>0
  <2>1. CASE k < i
    <3>1. k \in 1..(i - 1) /\ k <= i - 1
      BY <2>0, <2>1
    <3> QED
      BY <1>1, <2>1, <2>3, <3>1
  <2>2. CASE k >= i
    <3>1. left[k] = back[k - (i - 1)] /\ k - (i - 1) \in 1..(Len(s) - i)
      BY <1>0, <2>0, <2>2, <2>3
    <3>2. i + (k - (i - 1)) = k + 1 /\ ~(k < i)
      BY <1>0, <2>0, <2>2
    <3> QED
      BY <1>2, <3>1, <3>2
  <2> QED
    BY <2>1, <2>2
<1> QED
  BY <1>5, <1>6, <1>7 DEF left

-----------------------------------------------------------------------------
(***************************************************************************)
(* Watching the agent.                                                     *)
(***************************************************************************)
AnAnswer == [to: Requests, job: Jobs \union {NoJob, Refused}]

Told(answer) == answer.job # Refused

\* One answer to each request, none of those that wait (OneAnswerEach).
Single(coming, out) ==
  /\ \A i \in 1..Len(coming) : coming[i].job = Refused => coming[i].to = "start"
  /\ \A i, k \in 1..Len(coming) : coming[i].to = coming[k].to => i = k
  /\ \A i \in 1..Len(coming) : coming[i].to \notin out

\* From what is known over the answers to the server, nothing goes back (EndsKnown).
Forward(coming, told, now) ==
  /\ Stage(told) <= Stage(now)
  /\ \A i \in 1..Len(coming) :
       Told(coming[i]) =>
         /\ Stage(told) <= Stage(coming[i].job) /\ Stage(coming[i].job) <= Stage(now)
         /\ \A k \in 1..Len(coming) : i <= k /\ Told(coming[k]) => Stage(coming[i].job) <= Stage(coming[k].job)

LEMMA StageType == \A j \in Jobs \union {NoJob} : Stage(j) \in Nat
  BY AgentWatchAssumption DEF Stage, Jobs

\* An answer taken or no longer heard leaves the others as they were.
LEMMA AnswerRemoved ==
  ASSUME NEW coming \in Seq(AnAnswer), NEW i \in 1..Len(coming), NEW out, NEW told, NEW now,
         Single(coming, out)
  PROVE  /\ RemoveAt(coming, i) \in Seq(AnAnswer)
         /\ Single(RemoveAt(coming, i), out \union {coming[i].to})
         /\ Forward(coming, told, now) => Forward(RemoveAt(coming, i), told, now)
<1> DEFINE left == RemoveAt(coming, i)
<1>1. /\ left \in Seq(AnAnswer) /\ Len(left) = Len(coming) - 1
      /\ \A k \in 1..(Len(coming) - 1) : left[k] = IF k < i THEN coming[k] ELSE coming[k + 1]
  BY RemoveAtProperties
<1> HIDE DEF left
<1> DEFINE from(k) == IF k < i THEN k ELSE k + 1
<1>2. \A k \in 1..Len(left) : from(k) \in 1..Len(coming) /\ from(k) # i /\ left[k] = coming[from(k)]
  BY <1>1
<1>3. \A k, m \in 1..Len(left) : (k <= m <=> from(k) <= from(m)) /\ (from(k) = from(m) => k = m)
  BY <1>1
<1> HIDE DEF from
<1>4. Single(left, out \union {coming[i].to})
  <2>1. \A k \in 1..Len(left) : left[k].to \notin out \union {coming[i].to}
    BY <1>2 DEF Single
  <2>2. \A k, m \in 1..Len(left) : left[k].to = left[m].to => k = m
    <3>1. SUFFICES ASSUME NEW k \in 1..Len(left), NEW m \in 1..Len(left), left[k].to = left[m].to
                   PROVE  k = m
      OBVIOUS
    <3>2. from(k) \in 1..Len(coming) /\ from(m) \in 1..Len(coming) /\ coming[from(k)].to = coming[from(m)].to
      BY <1>2, <3>1
    <3>3. from(k) = from(m)
      BY <3>2 DEF Single
    <3> QED
      BY <1>3, <3>3
  <2> QED
    BY <1>2, <2>1, <2>2 DEF Single
<1>5. Forward(coming, told, now) => Forward(left, told, now)
  BY <1>2, <1>3 DEF Forward
<1> QED
  BY <1>1, <1>4, <1>5 DEF left

LEMMA UnheardKeeps ==
  ASSUME NEW coming \in Seq(AnAnswer), NEW request, NEW out, NEW told, NEW now,
         Single(coming, out)
  PROVE  /\ Unheard(request, coming) \in Seq(AnAnswer)
         /\ Single(Unheard(request, coming), out \union {request})
         /\ Forward(coming, told, now) => Forward(Unheard(request, coming), told, now)
<1>0. DOMAIN coming = 1..Len(coming)
  OBVIOUS
<1>1. CASE \E i \in DOMAIN coming : coming[i].to = request
  <2> DEFINE i == CHOOSE k \in DOMAIN coming : coming[k].to = request
  <2>1. i \in 1..Len(coming) /\ coming[i].to = request
    BY <1>0, <1>1
  <2>2. Unheard(request, coming) = RemoveAt(coming, i)
    BY <1>1 DEF Unheard
  <2> HIDE DEF i
  <2> QED
    BY <2>1, <2>2, AnswerRemoved
<1>2. CASE ~\E i \in DOMAIN coming : coming[i].to = request
  <2>1. Unheard(request, coming) = coming
    BY <1>2 DEF Unheard
  <2>2. Single(coming, out \union {request})
    BY <1>0, <1>2 DEF Single
  <2> QED
    BY <2>1, <2>2
<1> QED
  BY <1>1, <1>2

\* The server answers with the change as it is from then on.
LEMMA AnswerGiven ==
  ASSUME NEW coming \in Seq(AnAnswer), NEW answer \in AnAnswer, NEW out, answer.to \in out,
         NEW told \in Jobs \union {NoJob}, NEW before \in Jobs \union {NoJob}, NEW now \in Jobs \union {NoJob},
         Single(coming, out), Stage(before) <= Stage(now),
         answer.job = now \/ (answer.job = Refused /\ answer.to = "start")
  PROVE  /\ Append(coming, answer) \in Seq(AnAnswer)
         /\ Single(Append(coming, answer), out \ {answer.to})
         /\ Forward(coming, told, before) => Forward(Append(coming, answer), told, now)
<1> DEFINE longer == Append(coming, answer)
<1>1. /\ longer \in Seq(AnAnswer) /\ Len(longer) = Len(coming) + 1 /\ Len(coming) \in Nat
      /\ longer[Len(longer)] = answer /\ \A i \in 1..Len(coming) : longer[i] = coming[i]
  OBVIOUS
<1> HIDE DEF longer
<1>2. Single(longer, out \ {answer.to})
  <2>1. \A i \in 1..Len(longer) : longer[i].job = Refused => longer[i].to = "start"
    <3>1. ASSUME answer.job = Refused PROVE answer.to = "start"
      BY <3>1, AgentWatchAssumption DEF Jobs
    <3>2. ASSUME NEW i \in 1..Len(longer), longer[i].job = Refused PROVE longer[i].to = "start"
      <4>1. CASE i = Len(longer) BY <1>1, <3>1, <3>2, <4>1
      <4>2. CASE i # Len(longer) BY <1>1, <3>2, <4>2 DEF Single
      <4> QED BY <4>1, <4>2
    <3> QED BY <3>2
  <2>2. ASSUME NEW i \in 1..Len(longer), NEW k \in 1..Len(longer), longer[i].to = longer[k].to PROVE i = k
    <3>1. \A m \in 1..Len(coming) : longer[m].to # answer.to
      BY <1>1 DEF Single
    <3>2. CASE i = Len(longer) \/ k = Len(longer)
      BY <1>1, <2>2, <3>1, <3>2
    <3>3. CASE i # Len(longer) /\ k # Len(longer)
      BY <1>1, <2>2, <3>3 DEF Single
    <3> QED
      BY <3>2, <3>3
  <2>3. ASSUME NEW i \in 1..Len(longer) PROVE longer[i].to \notin out \ {answer.to}
    <3>1. CASE i = Len(longer) BY <1>1, <3>1
    <3>2. CASE i # Len(longer) BY <1>1, <3>2 DEF Single
    <3> QED BY <3>1, <3>2
  <2> QED
    BY <2>1, <2>2, <2>3 DEF Single
<1>3. ASSUME Forward(coming, told, before) PROVE Forward(longer, told, now)
  <2>0. Stage(told) \in Nat /\ Stage(before) \in Nat /\ Stage(now) \in Nat
    BY StageType
  <2>1. \A i \in 1..Len(coming) : Told(coming[i]) => Stage(coming[i].job) \in Nat
    <3>1. \A i \in 1..Len(coming) : coming[i] \in AnAnswer
      OBVIOUS
    <3>2. \A a \in AnAnswer : Told(a) => a.job \in Jobs \union {NoJob}
      BY DEF AnAnswer, Told
    <3> QED BY <3>1, <3>2, StageType
  <2>2. ASSUME NEW i \in 1..Len(longer), Told(longer[i])
        PROVE  Stage(told) <= Stage(longer[i].job) /\ Stage(longer[i].job) <= Stage(now)
    <3>1. CASE i = Len(longer)
      BY <1>1, <1>3, <2>0, <2>2, <3>1 DEF Forward, Told
    <3>2. CASE i # Len(longer)
      BY <1>1, <1>3, <2>0, <2>1, <2>2, <3>2 DEF Forward
    <3> QED BY <3>1, <3>2
  <2>3. ASSUME NEW i \in 1..Len(longer), NEW k \in 1..Len(longer), i <= k, Told(longer[i]), Told(longer[k])
        PROVE  Stage(longer[i].job) <= Stage(longer[k].job)
    <3>1. CASE k = Len(longer)
      BY <1>1, <2>2, <2>3, <3>1 DEF Told
    <3>2. CASE k # Len(longer)
      BY <1>1, <1>3, <2>3, <3>2 DEF Forward
    <3> QED BY <3>1, <3>2
  <2>4. Stage(told) <= Stage(now)
    BY <1>3, <2>0 DEF Forward
  <2> QED
    BY <2>2, <2>3, <2>4 DEF Forward
<1> QED
  BY <1>1, <1>2, <1>3 DEF longer

\* Taking the first answer: what follows it is no older.
LEMMA FirstTaken ==
  ASSUME NEW coming \in Seq(AnAnswer), 1 \in 1..Len(coming), Told(coming[1]), NEW told, NEW now, Forward(coming, told, now)
  PROVE  Forward(RemoveAt(coming, 1), coming[1].job, now)
<1> DEFINE left == RemoveAt(coming, 1)
<1>1. /\ left \in Seq(AnAnswer) /\ Len(left) = Len(coming) - 1
      /\ \A k \in 1..(Len(coming) - 1) : left[k] = coming[k + 1]
  BY RemoveAtProperties
<1> HIDE DEF left
<1>2. \A k \in 1..Len(left) : k + 1 \in 1..Len(coming) /\ 1 <= k + 1 /\ left[k] = coming[k + 1]
  BY <1>1
<1>3. \A k, m \in 1..Len(left) : k <= m => k + 1 <= m + 1
  OBVIOUS
<1>4. Forward(left, coming[1].job, now)
  BY <1>2, <1>3 DEF Forward
<1> QED
  BY <1>4 DEF left

\* Fewer requests wait, or the server is further: what is known is no less so.
LEMMA Weaker ==
  ASSUME NEW coming \in Seq(AnAnswer), NEW out, NEW fewer, fewer \subseteq out, Single(coming, out)
  PROVE  Single(coming, fewer)
  BY DEF Single

LEMMA ServerGoesOn ==
  ASSUME NEW coming \in Seq(AnAnswer), NEW told \in Jobs \union {NoJob}, NEW before \in Jobs \union {NoJob},
         NEW now \in Jobs \union {NoJob}, Forward(coming, told, before), Stage(before) <= Stage(now)
  PROVE  Forward(coming, told, now)
<1>1. Stage(told) \in Nat /\ Stage(before) \in Nat /\ Stage(now) \in Nat
  BY StageType
<1>2. \A i \in 1..Len(coming) : Told(coming[i]) => Stage(coming[i].job) \in Nat
  <2>1. \A i \in 1..Len(coming) : coming[i] \in AnAnswer
    OBVIOUS
  <2>2. \A a \in AnAnswer : Told(a) => a.job \in Jobs \union {NoJob}
    BY DEF AnAnswer, Told
  <2> QED
    BY <2>1, <2>2, StageType
<1> QED
  BY <1>1, <1>2 DEF Forward

\* How often each end was said, for what is known of the change.
Counted(times, told) == \A id \in 1..MaxJobs : times[id] = 0 \/ (times[id] = 1 /\ Stage(told) >= 2 * id)

\* An answer that shows the end of a change says it the first time (take).
LEMMA TakenOnce ==
  ASSUME NEW told \in Jobs \union {NoJob}, NEW j \in Jobs \union {NoJob}, Stage(told) <= Stage(j),
         NEW times \in [1..MaxJobs -> Nat], Counted(times, told)
  PROVE  LET after == IF EndedIn(told, j) THEN [times EXCEPT ![j.id] = @ + 1] ELSE times
         IN after \in [1..MaxJobs -> Nat] /\ Counted(after, j)
<1>0. Stage(told) \in Nat /\ Stage(j) \in Nat
  BY StageType
<1>1. CASE EndedIn(told, j)
  <2>1. /\ told \in Jobs /\ j \in Jobs /\ told.id = j.id /\ j.id \in 1..MaxJobs /\ j.id \in Nat
        /\ told # NoJob /\ j # NoJob /\ told.active /\ ~j.active
    BY <1>1, AgentWatchAssumption DEF EndedIn, Jobs
  <2>2. Stage(told) = 2 * j.id - 1 /\ Stage(j) = 2 * j.id
    BY <2>1 DEF Stage
  <2>3. times[j.id] = 0
    BY <2>1, <2>2 DEF Counted
  <2> QED
    BY <1>0, <1>1, <2>1, <2>2, <2>3 DEF Counted
<1>2. CASE ~EndedIn(told, j)
  BY <1>0, <1>2, AgentWatchAssumption DEF Counted
<1> QED
  BY <1>1, <1>2

LEMMA AgentInvariantStarts == AgentInit => AgentInv
<1> SUFFICES ASSUME AgentInit PROVE AgentInv
  OBVIOUS
<1>1. /\ job = NoJob /\ last = NoJob /\ tick = "asked" /\ asked = {"tick"} /\ answers = <<>>
      /\ watching \in BOOLEAN /\ unseen = FALSE /\ by = "tick" /\ said = [id \in 1..MaxJobs |-> 0]
      /\ overtaken = FALSE
  BY DEF AgentInit
<1>2. DOMAIN answers = {} /\ answers \in Seq([to: Requests, job: Jobs \union {NoJob, Refused}])
  BY <1>1
<1>3. AgentTypeOK
  BY <1>1, <1>2 DEF AgentTypeOK, Requests
<1>4. OneAnswerEach
  BY <1>1, <1>2 DEF OneAnswerEach
<1>5. EndsKnown
  BY <1>1, <1>2 DEF EndsKnown, Stage
<1> QED
  BY <1>3, <1>4, <1>5 DEF AgentInv

\* Every step keeps the invariant: of one page, its requests and the server.
LEMMA AgentInvariantStep ==
  ASSUME AgentInv, [AgentNext]_agentVars
  PROVE  AgentInv'
<1> DEFINE Known == Jobs \union {NoJob}
           Ordered(o, coming, told, now) == o \/ Forward(coming, told, now)
           CountedFrom(o, times, told) == o \/ Counted(times, told)
           Idle(t, coming, out) ==
             t # "asked" => "tick" \notin out /\ \A i \in 1..Len(coming) : coming[i].to # "tick"
<1>0. /\ job \in Known /\ last \in Known /\ tick \in {"stopped", "timer", "asked"}
      /\ asked \subseteq Requests /\ answers \in Seq(AnAnswer) /\ DOMAIN answers = 1..Len(answers)
      /\ watching \in BOOLEAN /\ unseen \in BOOLEAN /\ by \in Requests /\ said \in [1..MaxJobs -> Nat]
      /\ overtaken \in BOOLEAN /\ Single(answers, asked) /\ Idle(tick, answers, asked)
      /\ Ordered(overtaken, answers, last, job) /\ CountedFrom(overtaken, said, last)
  <2>1. AgentTypeOK /\ OneAnswerEach /\ (overtaken \/ EndsKnown)
    BY DEF AgentInv
  <2>2. answers \in Seq(AnAnswer) /\ DOMAIN answers = 1..Len(answers)
    BY <2>1 DEF AgentTypeOK, AnAnswer
  <2>3. Single(answers, asked) /\ Idle(tick, answers, asked)
    BY <2>1, <2>2 DEF OneAnswerEach, Single
  <2>4. overtaken \/ (Forward(answers, last, job) /\ Counted(said, last))
    BY <2>1, <2>2 DEF EndsKnown, Forward, Counted, Informs, Told
  <2> QED
    BY <2>1, <2>2, <2>3, <2>4 DEF AgentTypeOK
\* What has to be shown of a step.
<1>1. ASSUME job' \in Known, last' \in Known, tick' \in {"stopped", "timer", "asked"},
             asked' \subseteq Requests, answers' \in Seq(AnAnswer),
             watching' \in BOOLEAN, unseen' \in BOOLEAN, by' \in Requests, said' \in [1..MaxJobs -> Nat],
             overtaken' \in BOOLEAN, Single(answers', asked'), Idle(tick', answers', asked'),
             Ordered(overtaken', answers', last', job'), CountedFrom(overtaken', said', last')
      PROVE  AgentInv'
  <2>1. AgentTypeOK'
    BY <1>1 DEF AgentTypeOK, AnAnswer
  <2>2. DOMAIN answers' = 1..Len(answers')
    BY <1>1
  <2>3. OneAnswerEach'
    BY <1>1, <2>2 DEF OneAnswerEach, Single
  <2>4. overtaken' \/ EndsKnown'
    BY <1>1, <2>2 DEF EndsKnown, Forward, Counted, Informs, Told
  <2> QED
    BY <2>1, <2>3, <2>4 DEF AgentInv
<1> HIDE DEF Known
\* The server answers a request that waits.
<1>2. ASSUME NEW request \in asked, NEW j \in Known \union {Refused}, j = job' \/ (j = Refused /\ request = "start"),
             job' \in Known, Stage(job) <= Stage(job'), Answer(request, j),
             UNCHANGED <<last, tick, watching, unseen, by, said, overtaken>>
      PROVE  AgentInv'
  <2> DEFINE answer == [to |-> request, job |-> j]
  <2>1. answer \in AnAnswer /\ answer.to = request /\ answer.job = j
    BY <1>0, <1>2 DEF AnAnswer, Known
  <2>2. answers' = Append(answers, answer) /\ asked' = asked \ {request}
    BY <1>2 DEF Answer
  <2> HIDE DEF answer
  <2>3. answers' \in Seq(AnAnswer) /\ Single(answers', asked') /\ Ordered(overtaken, answers', last, job')
    BY <1>0, <1>2, <2>1, <2>2, AnswerGiven DEF Known
  <2>4. Idle(tick', answers', asked')
    <3>1. ASSUME tick # "asked", NEW i \in 1..Len(answers') PROVE answers'[i].to # "tick"
      <4>1. Len(answers') = Len(answers) + 1 /\ Len(answers) \in Nat
            /\ answers'[Len(answers')] = answer /\ \A k \in 1..Len(answers) : answers'[k] = answers[k]
        BY <1>0, <2>1, <2>2
      <4>2. request # "tick"
        BY <1>0, <1>2, <3>1
      <4>3. CASE i = Len(answers')
        BY <2>1, <4>1, <4>2, <4>3
      <4>4. CASE i # Len(answers')
        BY <1>0, <3>1, <4>1, <4>4
      <4> QED
        BY <4>3, <4>4
    <3> QED
      BY <1>0, <1>2, <2>2, <3>1
  <2> QED
    BY <1>0, <1>1, <1>2, <2>2, <2>3, <2>4
\* The change goes on at the server.
<1>3. ASSUME job' \in Known, Stage(job) <= Stage(job'),
             UNCHANGED <<last, tick, asked, answers, watching, unseen, by, said, overtaken>>
      PROVE  AgentInv'
  <2>1. Ordered(overtaken, answers, last, job')
    BY <1>0, <1>3, ServerGoesOn DEF Known
  <2> QED
    BY <1>0, <1>1, <1>3, <2>1
<1>4. ASSUME NextId <= MaxJobs
      PROVE  NewJob \in Known /\ Stage(job) <= Stage(NewJob)
  <2>1. NextId \in 1..MaxJobs /\ (job # NoJob => job.id \in Nat /\ NextId = job.id + 1)
    BY <1>0, <1>4, AgentWatchAssumption DEF NextId, Known, Jobs
  <2>2. NewJob \in Jobs /\ NewJob.active /\ NewJob.id = NextId
    BY <2>1 DEF NewJob, Jobs
  <2>3. NewJob # NoJob
    BY <2>2, AgentWatchAssumption
  <2> QED
    BY <1>0, <2>1, <2>2, <2>3 DEF Stage, Known
<1>5. ASSUME IsActive(job)
      PROVE  [job EXCEPT !.active = FALSE] \in Known /\ Stage(job) <= Stage([job EXCEPT !.active = FALSE])
  <2> DEFINE over == [job EXCEPT !.active = FALSE]
  <2>0. job \in Jobs /\ job # NoJob /\ job.active
    BY <1>0, <1>5 DEF IsActive, Known
  <2>1. job.id \in Nat /\ over \in Jobs /\ over.id = job.id /\ ~over.active
    <3>1. job.id \in 1..MaxJobs /\ MaxJobs \in Nat
      BY <2>0, AgentWatchAssumption DEF Jobs
    <3>2. over \in Jobs /\ over.id = job.id /\ over.active = FALSE
      BY <2>0 DEF Jobs
    <3> QED
      BY <3>1, <3>2
  <2>2. over # NoJob
    BY <2>1, AgentWatchAssumption
  <2> HIDE DEF over
  <2>3. over \in Known /\ Stage(job) <= Stage(over)
    BY <2>0, <2>1, <2>2 DEF Stage, Known
  <2> QED
    BY <2>3 DEF over
<1>6. Stage(job) <= Stage(job) /\ Stage(last) <= Stage(last)
  BY <1>0, StageType DEF Known
<1>7. CASE AgentServer
  <2>1. CASE AnswerTick
    BY <1>0, <1>2, <1>6, <2>1 DEF AnswerTick
  <2>2. CASE AnswerStart
    <3>1. "start" \in asked /\ UNCHANGED <<last, tick, watching, unseen, by, said, overtaken>>
      BY <2>2 DEF AnswerStart
    <3>2. CASE NextId <= MaxJobs /\ job' = NewJob /\ Answer("start", NewJob)
      BY <1>2, <1>4, <3>1, <3>2
    <3>3. CASE Answer("start", Refused) /\ job' = job
      BY <1>0, <1>2, <1>6, <3>1, <3>3
    <3> QED
      BY <2>2, <3>2, <3>3 DEF AnswerStart
  <2>3. CASE AnswerStop
    <3>1. "stop" \in asked /\ UNCHANGED <<last, tick, watching, unseen, by, said, overtaken>>
      BY <2>3 DEF AnswerStop
    <3>2. PICK j \in {job} \union (IF IsActive(job) THEN {[job EXCEPT !.active = FALSE]} ELSE {}) :
            job' = j /\ Answer("stop", j)
      BY <2>3 DEF AnswerStop
    <3>3. j \in Known /\ Stage(job) <= Stage(j)
      BY <1>0, <1>5, <1>6, <3>2
    <3> QED
      BY <1>2, <3>1, <3>2, <3>3
  <2>4. CASE JobEnds
    BY <1>3, <1>5, <2>4 DEF JobEnds
  <2>5. CASE StartedElsewhere
    BY <1>3, <1>4, <2>5 DEF StartedElsewhere
  <2> QED
    BY <1>7, <2>1, <2>2, <2>3, <2>4, <2>5 DEF AgentServer
\* An answer arrives: those left are in order if they were, and if it was the first
\* they are no older.
<1>8. ASSUME NEW i \in DOMAIN answers
      PROVE  /\ i \in 1..Len(answers) /\ answers[i] \in AnAnswer
             /\ RemoveAt(answers, i) \in Seq(AnAnswer)
             /\ Single(RemoveAt(answers, i), asked \union {answers[i].to})
             /\ Ordered(overtaken, RemoveAt(answers, i), last, job)
             /\ answers[i].to \notin asked
             /\ answers[i].to # "start" => Told(answers[i])
             /\ Told(answers[i]) => answers[i].job \in Known
             /\ Told(answers[i]) /\ i = 1 => Ordered(overtaken, RemoveAt(answers, i), answers[i].job, job)
  <2>1. i \in 1..Len(answers)
    BY <1>0, <1>8
  <2>2. answers[i] \in AnAnswer
    BY <1>0, <2>1
  <2>3. /\ RemoveAt(answers, i) \in Seq(AnAnswer)
        /\ Single(RemoveAt(answers, i), asked \union {answers[i].to})
        /\ Forward(answers, last, job) => Forward(RemoveAt(answers, i), last, job)
    BY <1>0, <2>1, AnswerRemoved
  <2>4. answers[i].to \notin asked /\ (answers[i].to # "start" => Told(answers[i]))
    BY <1>0, <2>1 DEF Single, Told
  <2>5. Told(answers[i]) => answers[i].job \in Known
    BY <2>2 DEF AnAnswer, Told, Known
  <2>6. ASSUME Told(answers[i]), i = 1 PROVE Ordered(overtaken, RemoveAt(answers, i), answers[i].job, job)
    BY <1>0, <2>1, <2>6, FirstTaken
  <2>7. Ordered(overtaken, RemoveAt(answers, i), last, job)
    BY <1>0, <2>3
  <2> HIDE DEF Ordered
  <2> QED
    BY <2>1, <2>2, <2>3, <2>4, <2>5, <2>6, <2>7
<1>9. ASSUME NEW i \in 1..Len(answers), NEW marked \in BOOLEAN, answers[i] \in AnAnswer, Told(answers[i]),
             answers[i].job \in Known, TakeWith(answers[i], marked), Overtaking(i)
      PROVE  /\ last' = answers[i].job /\ last' \in Known /\ by' \in Requests /\ unseen' \in BOOLEAN
             /\ said' \in [1..MaxJobs -> Nat] /\ overtaken' \in BOOLEAN /\ (overtaken' \/ (~overtaken /\ i = 1))
             /\ CountedFrom(overtaken', said', last')
  <2> DEFINE j == answers[i].job
  <2>1. last' = j /\ by' \in Requests /\ unseen' \in BOOLEAN
    BY <1>9 DEF TakeWith, AnAnswer
  <2>2. said' = IF EndedIn(last, j) THEN [said EXCEPT ![j.id] = @ + 1] ELSE said
    BY <1>9 DEF TakeWith
  <2>3. overtaken' \in BOOLEAN /\ (overtaken' \/ (~overtaken /\ i = 1))
    BY <1>0, <1>9 DEF Overtaking
  <2>4. last \in Jobs \union {NoJob} /\ j \in Jobs \union {NoJob} /\ said \in [1..MaxJobs -> Nat]
    BY <1>0, <1>9 DEF Known
  <2>5. ~overtaken' => Stage(last) <= Stage(j) /\ Counted(said, last)
    BY <1>0, <1>9, <2>3 DEF Forward
  <2> HIDE DEF j
  <2>6. said' \in [1..MaxJobs -> Nat]
    <3>1. CASE EndedIn(last, j)
      <4>1. j \in Jobs /\ j.id \in 1..MaxJobs
        BY <2>4, <3>1 DEF EndedIn, Jobs
      <4> QED
        BY <2>2, <2>4, <3>1, <4>1
    <3>2. CASE ~EndedIn(last, j)
      BY <2>2, <2>4, <3>2
    <3> QED
      BY <3>1, <3>2
  <2>7. ~overtaken' => Counted(said', j)
    BY <2>2, <2>4, <2>5, TakenOnce
  <2> QED
    BY <1>9, <2>1, <2>3, <2>6, <2>7 DEF j
\* The polling starts over.
<1>10. ASSUME NEW coming \in Seq(AnAnswer), NEW out, NEW waiting, out \subseteq Requests, out \subseteq waiting,
              last' \in Known, Single(coming, waiting), Ordered(overtaken', coming, last', job), AskAgain(out, coming),
              UNCHANGED job, watching' \in BOOLEAN, unseen' \in BOOLEAN, by' \in Requests,
              said' \in [1..MaxJobs -> Nat], overtaken' \in BOOLEAN, CountedFrom(overtaken', said', last')
       PROVE  AgentInv'
  <2>1. tick' = "asked" /\ asked' = out \union {"tick"} /\ answers' = Unheard("tick", coming)
    BY <1>10 DEF AskAgain
  <2>2. /\ answers' \in Seq(AnAnswer) /\ Single(answers', waiting \union {"tick"})
        /\ Ordered(overtaken', answers', last', job)
    BY <1>10, <2>1, UnheardKeeps
  <2>3. Single(answers', asked')
    <3>1. asked' \subseteq waiting \union {"tick"}
      BY <1>10, <2>1
    <3> QED
      BY <2>2, <3>1, Weaker
  <2>4. asked' \subseteq Requests
    BY <1>10, <2>1 DEF Requests
  <2> QED
    BY <1>0, <1>1, <1>10, <2>1, <2>2, <2>3, <2>4
<1>11. CASE TickAnswered
  <2>1. PICK i \in DOMAIN answers :
          /\ Overtaking(i) /\ answers[i].to = "tick" /\ Take(answers[i]) /\ answers' = RemoveAt(answers, i)
          /\ tick' = IF IsActive(answers[i].job) THEN "timer" ELSE "stopped"
    BY <1>11 DEF TickAnswered
  <2>2. UNCHANGED <<job, asked, watching>>
    BY <1>11 DEF TickAnswered
  <2>3. TakeWith(answers[i], unseen \/ (EndedIn(last, answers[i].job) /\ ~watching)) /\ Told(answers[i])
    BY <1>8, <2>1 DEF Take
  <2>4. /\ last' = answers[i].job /\ last' \in Known /\ by' \in Requests /\ unseen' \in BOOLEAN
        /\ said' \in [1..MaxJobs -> Nat] /\ overtaken' \in BOOLEAN /\ (overtaken' \/ (~overtaken /\ i = 1))
        /\ CountedFrom(overtaken', said', last')
    BY <1>8, <1>9, <2>1, <2>3
  <2>5. answers' \in Seq(AnAnswer) /\ Single(answers', asked \union {"tick"}) /\ Ordered(overtaken', answers', last', job)
    BY <1>8, <2>1, <2>3, <2>4
  <2>6. Single(answers', asked') /\ Idle(tick', answers', asked') /\ tick' \in {"timer", "stopped"}
    BY <1>8, <2>1, <2>2, <2>5 DEF Single
  <2> QED
    BY <1>0, <1>1, <2>2, <2>4, <2>5, <2>6
<1>12. CASE StartAnswered
  <2>1. PICK i \in DOMAIN answers :
          /\ Overtaking(i) /\ answers[i].to = "start"
          /\ IF answers[i].job = Refused THEN UNCHANGED <<last, by, said, unseen>> ELSE TakeWith(answers[i], FALSE)
          /\ AskAgain(asked, RemoveAt(answers, i))
    BY <1>12 DEF StartAnswered
  <2>2. UNCHANGED <<job, watching>> /\ overtaken' = (overtaken \/ i # 1)
    BY <1>12, <2>1 DEF StartAnswered, Overtaking
  <2> DEFINE left == RemoveAt(answers, i)
  <2>0. left \in Seq(AnAnswer) /\ Single(left, asked \union {"start"})
    BY <1>8, <2>1
  <2>3. CASE answers[i].job = Refused
    <3>1. Ordered(overtaken', RemoveAt(answers, i), last', job) /\ CountedFrom(overtaken', said', last')
      BY <1>0, <1>8, <2>1, <2>2, <2>3
    <3> HIDE DEF left, Ordered, CountedFrom, Idle
    <3>2. AskAgain(asked, left) /\ Ordered(overtaken', left, last', job)
      BY <2>1, <3>1 DEF left
    <3>3. last' \in Known /\ UNCHANGED job /\ watching' \in BOOLEAN /\ unseen' \in BOOLEAN /\ by' \in Requests
          /\ said' \in [1..MaxJobs -> Nat] /\ overtaken' \in BOOLEAN
      BY <1>0, <2>1, <2>2, <2>3
    <3> QED
      BY <1>0, <1>10, <2>0, <3>1, <3>2, <3>3
  <2>4. CASE answers[i].job # Refused
    <3>1. Told(answers[i]) /\ TakeWith(answers[i], FALSE)
      BY <2>1, <2>4 DEF Told
    <3>2. /\ last' = answers[i].job /\ last' \in Known /\ by' \in Requests /\ unseen' \in BOOLEAN
          /\ said' \in [1..MaxJobs -> Nat] /\ overtaken' \in BOOLEAN /\ (overtaken' \/ (~overtaken /\ i = 1))
          /\ CountedFrom(overtaken', said', last')
      BY <1>8, <1>9, <2>1, <3>1
    <3>3. Ordered(overtaken', RemoveAt(answers, i), last', job)
      BY <1>8, <3>1, <3>2
    <3> HIDE DEF left, Ordered, CountedFrom, Idle
    <3>4. AskAgain(asked, left) /\ Ordered(overtaken', left, last', job)
      BY <2>1, <3>3 DEF left
    <3>5. UNCHANGED job /\ watching' \in BOOLEAN
      BY <1>0, <2>2
    <3> QED
      BY <1>0, <1>10, <2>0, <3>2, <3>4, <3>5
  <2> QED
    BY <2>3, <2>4
<1>13. CASE StopAnswered
  <2>1. PICK i \in DOMAIN answers :
          /\ Overtaking(i) /\ answers[i].to = "stop" /\ Take(answers[i]) /\ answers' = RemoveAt(answers, i)
    BY <1>13 DEF StopAnswered
  <2>2. UNCHANGED <<job, tick, asked, watching>>
    BY <1>13 DEF StopAnswered
  <2>3. TakeWith(answers[i], unseen \/ (EndedIn(last, answers[i].job) /\ ~watching)) /\ Told(answers[i])
    BY <1>8, <2>1 DEF Take
  <2>4. /\ last' = answers[i].job /\ last' \in Known /\ by' \in Requests /\ unseen' \in BOOLEAN
        /\ said' \in [1..MaxJobs -> Nat] /\ overtaken' \in BOOLEAN /\ (overtaken' \/ (~overtaken /\ i = 1))
        /\ CountedFrom(overtaken', said', last')
    BY <1>8, <1>9, <2>1, <2>3
  <2>5. answers' \in Seq(AnAnswer) /\ Single(answers', asked \union {"stop"}) /\ Ordered(overtaken', answers', last', job)
    BY <1>8, <2>1, <2>3, <2>4
  <2>6. Single(answers', asked')
    BY <2>2, <2>5 DEF Single
  <2>7. Idle(tick', answers', asked')
    <3>1. ASSUME tick # "asked", NEW k \in 1..Len(answers') PROVE answers'[k].to # "tick"
      <4>1. /\ Len(answers') = Len(answers) - 1 /\ Len(answers) \in Nat
            /\ \A m \in 1..(Len(answers) - 1) : answers'[m] = IF m < i THEN answers[m] ELSE answers[m + 1]
        <5>1. i \in 1..Len(answers) /\ answers' = RemoveAt(answers, i) /\ answers \in Seq(AnAnswer)
          BY <1>0, <1>8, <2>1
        <5>2. /\ Len(RemoveAt(answers, i)) = Len(answers) - 1
              /\ \A m \in 1..(Len(answers) - 1) : RemoveAt(answers, i)[m] = IF m < i THEN answers[m] ELSE answers[m + 1]
          BY <5>1, RemoveAtProperties
        <5> QED
          BY <5>1, <5>2
      <4>2. \E m \in 1..Len(answers) : answers'[k] = answers[m]
        <5>1. CASE k < i BY <4>1, <5>1
        <5>2. CASE ~(k < i) BY <1>8, <4>1, <5>2
        <5> QED BY <5>1, <5>2
      <4> QED
        BY <1>0, <3>1, <4>2
    <3> QED
      BY <1>0, <2>2, <3>1
  <2> QED
    BY <1>0, <1>1, <2>2, <2>4, <2>5, <2>6, <2>7
<1>14. CASE TickFails
  <2>1. /\ tick' = IF IsActive(last) THEN "timer" ELSE "stopped"
        /\ asked' = asked \ {"tick"} /\ answers' = Unheard("tick", answers)
        /\ UNCHANGED <<job, last, watching, unseen, by, said, overtaken>>
    BY <1>14 DEF TickFails
  <2>2. /\ answers' \in Seq(AnAnswer) /\ Single(answers', asked \union {"tick"})
        /\ Ordered(overtaken, answers', last, job)
    BY <1>0, <2>1, UnheardKeeps
  <2>3. Single(answers', asked') /\ Idle(tick', answers', asked')
    BY <2>1, <2>2 DEF Single
  <2> QED
    BY <1>0, <1>1, <2>1, <2>2, <2>3
<1>15. CASE TimerFires
  <2>1. /\ tick = "timer" /\ tick' = "asked" /\ asked' = asked \union {"tick"}
        /\ UNCHANGED <<job, last, answers, watching, unseen, by, said, overtaken>>
    BY <1>15 DEF TimerFires
  <2>2. Single(answers', asked')
    BY <1>0, <2>1 DEF Single
  <2> QED
    BY <1>0, <1>1, <2>1, <2>2 DEF Requests
\* Asking for a start or a stop, when none waits.
<1>16. ASSUME NEW request \in {"start", "stop"}, ~Waiting(request), asked' = asked \union {request},
              UNCHANGED <<job, last, tick, answers, watching, unseen, by, said, overtaken>>
       PROVE  AgentInv'
  <2>1. Single(answers', asked')
    BY <1>0, <1>16 DEF Single, Waiting
  <2> QED
    BY <1>0, <1>1, <1>16, <2>1 DEF Requests
<1>17. CASE Start \/ Stop
  BY <1>16, <1>17 DEF Start, Stop
<1>18. CASE StartFails
  <2>1. AskAgain(asked \ {"start"}, Unheard("start", answers)) /\ UNCHANGED <<job, last, watching, unseen, by, said, overtaken>>
    BY <1>18 DEF StartFails
  <2>2. /\ Unheard("start", answers) \in Seq(AnAnswer) /\ Single(Unheard("start", answers), asked \union {"start"})
        /\ Ordered(overtaken, Unheard("start", answers), last, job)
    BY <1>0, UnheardKeeps
  <2> QED
    BY <1>0, <1>10, <2>1, <2>2
<1>19. CASE StopFails
  <2>1. /\ asked' = asked \ {"stop"} /\ answers' = Unheard("stop", answers)
        /\ UNCHANGED <<job, last, tick, watching, unseen, by, said, overtaken>>
    BY <1>19 DEF StopFails
  <2>2. /\ answers' \in Seq(AnAnswer) /\ Single(answers', asked \union {"stop"})
        /\ Ordered(overtaken, answers', last, job)
    BY <1>0, <2>1, UnheardKeeps
  <2>3. Single(answers', asked')
    BY <2>1, <2>2 DEF Single
  <2>4. Idle(tick', answers', asked')
    <3>1. ASSUME tick # "asked" PROVE \A i \in 1..Len(answers') : answers'[i].to # "tick"
      <4>1. Single(answers, asked \union {"tick"})
        BY <1>0, <3>1 DEF Single
      <4>2. Single(answers', asked \union {"tick"} \union {"stop"})
        BY <1>0, <2>1, <4>1, UnheardKeeps
      <4> QED
        BY <4>2 DEF Single
    <3> QED
      BY <1>0, <2>1, <3>1
  <2> QED
    BY <1>0, <1>1, <2>1, <2>2, <2>3, <2>4
<1>20. CASE Open \/ Leave
  BY <1>0, <1>10, <1>20 DEF Open, Leave
<1>21. CASE UNCHANGED agentVars
  BY <1>0, <1>1, <1>21 DEF agentVars
<1> QED
  BY <1>7, <1>11, <1>12, <1>13, <1>14, <1>15, <1>17, <1>18, <1>19, <1>20, <1>21
     DEF AgentNext, AgentPage, AnswerArrives

\* A page never says the end of a change twice, for any number of changes, of requests
\* that fail and of sections opened and left, as long as no answer has arrived before
\* one given earlier (onFinished: "Said once").
THEOREM EndIsSaidOnce == AgentSpec => []EndSaidOnce
<1>1. AgentInv /\ [AgentNext]_agentVars => AgentInv'
  BY AgentInvariantStep
<1>2. AgentInv => EndSaidOnce
  BY DEF AgentInv, AgentTypeOK, EndsKnown, EndSaidOnce
<1> QED
  BY <1>1, <1>2, AgentInvariantStarts, PTL DEF AgentSpec

-----------------------------------------------------------------------------
(***************************************************************************)
(* The code section (CodeEditing).                                         *)
(***************************************************************************)
\* The reads there may be of n saves.
ReadsOf(n) == SUBSET [id: 1..MaxReads, at: 0..n]

-----------------------------------------------------------------------------
(***************************************************************************)
(* What a save does to what is kept, and an effect to the reads.           *)
(***************************************************************************)
\* A save adds one and leaves the others as they are (MetaService, FeatureService).
LEMMA SaveAppends ==
  ASSUME CodeTypeOK, NEW content \in Content, kept' = Append(kept, content)
  PROVE /\ kept' \in Seq(Content)
        /\ Len(kept') = Len(kept) + 1
        /\ kept'[Len(kept')] = content
        /\ \A n \in 1..Len(kept) : kept'[n] = kept[n]
  BY DEF CodeTypeOK

\* More saves leave every read one of them.
LEMMA ReadsGrow == ASSUME NEW m \in Nat, NEW n \in Nat, m <= n, NEW under \in ReadsOf(m) PROVE under \in ReadsOf(n)
  BY DEF ReadsOf

LEMMA ReadFeatureType ==
  ASSUME NEW n \in Nat, NEW under \in ReadsOf(n)
  PROVE ReadFeature(under) \in ReadsOf(n)
  BY DEF ReadFeature, FreeSlots, ReadsOf

\* An effect adds reads of what there is (the useEffects of CodeTab).
LEMMA EffectsType ==
  ASSUME CodeTypeOK, NEW under \in ReadsOf(Len(kept)), NEW polled \in BOOLEAN,
         feature' = feature, kept' = kept, newest' \in 1..Len(kept), picked' \in 0..Len(kept),
         Effects(under, polled)
  PROVE reads' \in ReadsOf(Len(kept))
<1>1. Requested' \in 1..Len(kept) /\ Len(kept) \in Nat
  BY DEF Requested, CodeTypeOK
<1>2. {[id |-> 1, at |-> Requested']} \in ReadsOf(Len(kept))
  BY <1>1, CodeAssumption DEF ReadsOf
<1>3. ReadFeature(under) \in ReadsOf(Len(kept))
  BY <1>1, ReadFeatureType
<1> QED
  BY <1>2, <1>3 DEF Effects

-----------------------------------------------------------------------------
(***************************************************************************)
(* The inductive invariant.                                                *)
(***************************************************************************)
LEMMA CodeInvariantStarts == CodeInit => CodeInv
<1> SUFFICES ASSUME CodeInit PROVE CodeInv
  OBVIOUS
<1>1. kept \in Seq(Content) /\ Len(kept) = 1 /\ kept[1] = {}
  BY DEF CodeInit, Content
<1>2. CodeTypeOK
  <2>1. sent \in [files: Content, base: 0..Len(kept), unread: BOOLEAN, became: 0..Len(kept), answered: 0..Len(kept)]
    BY <1>1 DEF CodeInit, Unsent, Content
  <2>2. reads \in SUBSET [id: 1..MaxReads, at: 0..Len(kept)]
    BY <1>1, CodeAssumption DEF CodeInit
  <2>3. /\ Len(kept) \in 1..MaxKept /\ newest \in 1..Len(kept) /\ picked \in 0..Len(kept) /\ held \in 0..Len(kept)
        /\ feature \in BOOLEAN /\ busy = "idle" /\ unread = FALSE /\ saved = None /\ upload = None
        /\ files \in Content /\ given \in Content /\ seen \in Content
    BY <1>1, CodeAssumption DEF CodeInit, Content
  <2> QED
    BY <1>1, <2>1, <2>2, <2>3 DEF CodeTypeOK
<1> QED
  BY <1>1, <1>2, CodeAssumption DEF CodeInit, CodeInv, SavedIsHeld, SentIsKept, AnswerIsKept, ShownIsSeen

LEMMA CodeInvariantStep == CodeInv /\ [CodeNext]_codeVars => CodeInv'
<1> SUFFICES ASSUME CodeInv, [CodeNext]_codeVars PROVE CodeInv'
  OBVIOUS
<1> USE CodeAssumption DEF CodeInv, SavedIsHeld, SentIsKept, AnswerIsKept, ShownIsSeen, Content
<1> DEFINE Known == Len(kept)
<1>0. Known \in Nat \ {0} /\ reads \in ReadsOf(Known) /\ CodeTypeOK
      /\ Len(kept) \in Nat /\ newest \in 1..Len(kept) /\ picked \in 0..Len(kept)
      /\ \A e \in Fresh : e \in Edits
  BY DEF CodeTypeOK, ReadsOf, Fresh, Unmade
<1> HIDE DEF Known
<1>1. CASE SavedElsewhere
  <2>1. PICK e \in Fresh : kept' = Append(kept, kept[Len(kept)] \union {e})
    BY <1>1 DEF SavedElsewhere
  <2>2. kept[Len(kept)] \union {e} \in Content
    BY <1>0 DEF CodeTypeOK
  <2>3. /\ kept' \in Seq(Content) /\ Len(kept') = Len(kept) + 1
        /\ \A n \in 1..Len(kept) : kept'[n] = kept[n]
    BY <1>0, <2>1, <2>2, SaveAppends
  <2>4. reads \in ReadsOf(Len(kept'))
    BY <1>0, <2>3, ReadsGrow DEF Known
  <2>5. CodeTypeOK'
    <3>1. UNCHANGED <<feature, newest, files, picked, held, saved, unread, busy, sent, reads, upload, given, seen>>
      BY <1>1 DEF SavedElsewhere, standing
    <3>2. Len(kept') \in 1..MaxKept
      BY <1>1, <1>0, <2>3 DEF SavedElsewhere, CodeTypeOK
    <3>3. newest \in 1..Len(kept') /\ picked \in 0..Len(kept') /\ held \in 0..Len(kept')
      BY <1>0, <2>3 DEF CodeTypeOK
    <3>4. sent \in [files: Content, base: 0..Len(kept'), unread: BOOLEAN, became: 0..Len(kept'), answered: 0..Len(kept')]
      BY <1>0, <2>3 DEF CodeTypeOK
    <3> QED BY <1>0, <2>3, <2>4, <3>1, <3>2, <3>3, <3>4 DEF CodeTypeOK, ReadsOf
  <2> QED
    <3>1. UNCHANGED <<feature, files, held, saved, unread, busy, sent, seen>>
      BY <1>1 DEF SavedElsewhere, standing
    <3>2. held \in 0..Len(kept) /\ sent.base \in 0..Len(kept) /\ sent.became \in 0..Len(kept)
      BY <1>0 DEF CodeTypeOK
    <3>3. SavedIsHeld' /\ SentIsKept' /\ AnswerIsKept'
      BY <1>0, <2>3, <3>1, <3>2
    <3>4. ShownIsSeen'
      BY <1>0, <2>3, <3>1, <3>2
    <3> QED
      BY <2>5, <3>1, <3>3, <3>4
<1>2. CASE FrameReads
  <2>0. UNCHANGED <<feature, kept>> /\ Effects(reads, TRUE)
    BY <1>2 DEF FrameReads, server, standing
  <2>00. newest' \in 1..Len(kept) /\ picked' \in 0..Len(kept)
    <3>1. newest' \in newest..Len(kept) /\ picked' = picked
      BY <1>2 DEF FrameReads, server, standing
    <3> QED
      BY <3>1, <1>0
  <2>1. UNCHANGED <<feature, kept>> /\ newest' \in 1..Len(kept) /\ picked' \in 0..Len(kept) /\ Effects(reads, TRUE)
    BY <2>0, <2>00
  <2>2. reads' \in ReadsOf(Len(kept'))
    BY <2>1, <1>0, EffectsType DEF Known
  <2>3. CodeTypeOK'
    BY <1>2, <1>0, <2>1, <2>2 DEF FrameReads, CodeTypeOK, ReadsOf, server, standing, Shows, Unsent
  <2> QED
    BY <1>2, <1>0, <2>1, <2>3 DEF FrameReads, CodeTypeOK, server, standing, Shows, Unsent, Dirty
<1>3. CASE AnswerRead
  <2>1. reads' \in ReadsOf(Len(kept))
    BY <1>3, <1>0 DEF AnswerRead, ReadsOf, Known
  <2>2. CodeTypeOK'
    BY <1>3, <1>0, <2>1 DEF AnswerRead, CodeTypeOK, ReadsOf, server, standing
  <2> QED
    BY <1>3, <2>2 DEF AnswerRead, CodeTypeOK, server, standing
<1>4. CASE ReadArrives
  <2>1. PICK r \in reads : /\ r.at # 0 /\ Adopted(r.at)
                         /\ UNCHANGED <<feature, kept, newest, picked, busy, sent, upload, given>>
                         /\ Effects(reads \ {r}, FALSE)
    BY <1>4 DEF ReadArrives, server
  <2>2. r.at \in 1..Len(kept) /\ reads \ {r} \in ReadsOf(Known)
    BY <1>0, <2>1 DEF ReadsOf, Known
  <2>3. reads' \in ReadsOf(Len(kept'))
    BY <2>1, <2>2, <1>0, EffectsType DEF Known, CodeTypeOK
  <2>4. kept[r.at] \in Content
    BY <2>2, <1>0 DEF CodeTypeOK
  <2>5. CodeTypeOK'
    BY <1>0, <2>1, <2>2, <2>3, <2>4 DEF CodeTypeOK, Adopted, Shows, ReadsOf
  <2> QED
    BY <1>0, <2>1, <2>2, <2>4, <2>5 DEF CodeTypeOK, Adopted, Shows
<1>5. CASE ReadFails
  <2>1. CodeTypeOK'
    BY <1>5, <1>0 DEF ReadFails, CodeTypeOK, server, standing
  <2> QED
    BY <1>5, <2>1 DEF ReadFails, CodeTypeOK, server, standing
<1>6. CASE ReadAgain
  <2>1. reads' \in ReadsOf(Len(kept))
    BY <1>6, <1>0, ReadFeatureType DEF ReadAgain, Known
  <2>2. CodeTypeOK'
    BY <1>6, <1>0, <2>1 DEF ReadAgain, CodeTypeOK, ReadsOf, server, standing
  <2> QED
    BY <1>6, <2>2 DEF ReadAgain, CodeTypeOK, server, standing
<1>7. CASE PickVersion
  <2>0. UNCHANGED <<feature, kept>> /\ Effects(reads, FALSE)
    BY <1>7 DEF PickVersion, server, standing
  <2>00. newest' \in 1..Len(kept) /\ picked' \in 0..Len(kept)
    <3>1. newest' = newest /\ picked' \in 1..newest
      BY <1>7 DEF PickVersion, server, standing
    <3> QED
      BY <3>1, <1>0
  <2>1. UNCHANGED <<feature, kept>> /\ newest' \in 1..Len(kept) /\ picked' \in 0..Len(kept) /\ Effects(reads, FALSE)
    BY <2>0, <2>00
  <2>2. reads' \in ReadsOf(Len(kept'))
    BY <2>1, <1>0, EffectsType DEF Known
  <2>3. CodeTypeOK'
    BY <1>7, <1>0, <2>1, <2>2 DEF PickVersion, CodeTypeOK, ReadsOf, server, standing, Shows, Unsent
  <2> QED
    BY <1>7, <1>0, <2>1, <2>3 DEF PickVersion, CodeTypeOK, server, standing, Shows, Unsent, Dirty
<1>8. CASE Type
  <2>1. UNCHANGED <<feature, kept>> /\ newest' \in 1..Len(kept) /\ picked' \in 0..Len(kept) /\ Effects(reads, FALSE)
    BY <1>8, <1>0 DEF Type, server, standing, CodeTypeOK
  <2>2. reads' \in ReadsOf(Len(kept'))
    BY <2>1, <1>0, EffectsType DEF Known
  <2>3. CodeTypeOK'
    BY <1>8, <1>0, <2>1, <2>2 DEF Type, CodeTypeOK, ReadsOf, server, standing, Shows, Unsent
  <2> QED
    BY <1>8, <1>0, <2>1, <2>3 DEF Type, CodeTypeOK, server, standing, Shows, Unsent, Dirty
<1>9. CASE Upload
  BY <1>9 DEF Upload, CodeTypeOK, server, standing
<1>10. CASE Uploaded
  <2>1. UNCHANGED <<feature, kept>> /\ newest' \in 1..Len(kept) /\ picked' \in 0..Len(kept) /\ Effects(reads, FALSE)
    BY <1>10, <1>0 DEF Uploaded, server, standing, CodeTypeOK
  <2>2. reads' \in ReadsOf(Len(kept'))
    BY <2>1, <1>0, EffectsType DEF Known
  <2>3. CodeTypeOK'
    BY <1>10, <1>0, <2>1, <2>2 DEF Uploaded, CodeTypeOK, ReadsOf, server, standing, Shows, Unsent
  <2> QED
    BY <1>10, <1>0, <2>1, <2>3 DEF Uploaded, CodeTypeOK, server, standing, Shows, Unsent, Dirty
<1>11. CASE Commit
  <2>1. UNCHANGED <<feature, kept>> /\ newest' \in 1..Len(kept) /\ picked' \in 0..Len(kept) /\ Effects(reads, FALSE)
    BY <1>11, <1>0 DEF Commit, server, standing, CodeTypeOK
  <2>2. reads' \in ReadsOf(Len(kept'))
    BY <2>1, <1>0, EffectsType DEF Known
  <2>3. CodeTypeOK'
    <3>1. /\ busy' = "asked" /\ sent' = [files |-> files, base |-> held, unread |-> unread, became |-> 0, answered |-> 0]
          /\ UNCHANGED <<feature, kept, newest, picked, files, held, saved, unread, upload, given, seen>>
      BY <1>11 DEF Commit, Sending, server
    <3>2. sent' \in [files: Content, base: 0..Len(kept), unread: BOOLEAN, became: 0..Len(kept), answered: 0..Len(kept)]
      BY <1>0, <3>1 DEF CodeTypeOK
    <3>3. reads' \in SUBSET [id: 1..MaxReads, at: 0..Len(kept)]
      BY <2>2, <3>1 DEF ReadsOf
    <3> QED BY <1>0, <3>1, <3>2, <3>3 DEF CodeTypeOK
  <2> QED
    BY <1>11, <1>0, <2>1, <2>3 DEF Commit, Sending, CodeTypeOK, server, standing, Shows, Unsent, Dirty
<1>12. CASE ServerSaves
  <2>1. sent.files \in Content /\ kept' = Append(kept, sent.files)
    BY <1>12, <1>0 DEF ServerSaves, CodeTypeOK
  <2>2. /\ kept' \in Seq(Content) /\ Len(kept') = Len(kept) + 1 /\ kept'[Len(kept')] = sent.files
        /\ \A n \in 1..Len(kept) : kept'[n] = kept[n]
    BY <1>0, <2>1, SaveAppends
  <2>3. reads \in ReadsOf(Len(kept'))
    BY <1>0, <2>2, ReadsGrow DEF Known
  <2>4. /\ sent' = [sent EXCEPT !.became = Len(kept) + 1, !.answered = IF feature THEN 0 ELSE Len(kept) + 1]
        /\ busy = "asked" /\ busy' = IF feature THEN "saved" ELSE "answered"
        /\ UNCHANGED <<feature, newest, picked, files, held, saved, unread, reads, upload, given, seen>>
    BY <1>12 DEF ServerSaves
  <2>5. /\ sent'.became = Len(kept') /\ sent'.files = sent.files /\ sent'.base = sent.base /\ sent'.unread = sent.unread
        /\ sent'.answered = IF feature THEN 0 ELSE Len(kept')
        /\ sent' \in [files: Content, base: 0..Len(kept), unread: BOOLEAN, became: 0..Len(kept'), answered: 0..Len(kept')]
    <3>1. sent \in [files: Content, base: 0..Len(kept), unread: BOOLEAN, became: 0..Len(kept), answered: 0..Len(kept)]
      BY <1>0 DEF CodeTypeOK
    <3>2. Len(kept) + 1 = Len(kept') /\ Len(kept') \in 0..Len(kept') /\ 0 \in 0..Len(kept')
      BY <1>0, <2>2
    <3> QED BY <2>4, <3>1, <3>2
  <2>6. sent' \in [files: Content, base: 0..Len(kept'), unread: BOOLEAN, became: 0..Len(kept'), answered: 0..Len(kept')]
    BY <1>0, <2>2, <2>5
  <2>7. Len(kept') \in 1..MaxKept
    BY <1>12, <1>0, <2>2 DEF ServerSaves, CodeTypeOK
  <2>8. CodeTypeOK'
    <3>1. UNCHANGED <<feature, newest, picked, files, held, saved, unread, upload, given, seen>> /\ busy' \in {"saved", "answered"}
      BY <2>4
    <3>2. newest \in 1..Len(kept') /\ picked \in 0..Len(kept') /\ held \in 0..Len(kept')
      BY <1>0, <2>2 DEF CodeTypeOK
    <3>3. /\ feature \in BOOLEAN /\ unread \in BOOLEAN /\ files \in Content /\ (saved = None \/ saved \in Content)
          /\ (upload = None \/ upload \in Content) /\ given \in Content /\ seen \in Content
      BY <1>0 DEF CodeTypeOK
    <3>4. reads' \in SUBSET [id: 1..MaxReads, at: 0..Len(kept')]
      BY <2>3, <2>4 DEF ReadsOf
    <3> HIDE DEF Content
    <3> QED BY <2>2, <2>6, <2>7, <3>1, <3>2, <3>3, <3>4 DEF CodeTypeOK
  <2>9. SavedIsHeld'
    BY <1>0, <2>2, <2>4 DEF CodeTypeOK
  <2>10. SentIsKept' /\ AnswerIsKept'
    BY <1>0, <2>2, <2>4, <2>5
  <2>11. ShownIsSeen'
    <3>1. files' \subseteq seen' /\ busy' # "asked" /\ sent'.files \subseteq seen'
      BY <2>4, <2>5
    <3>2. held' # 0 /\ ~unread' => kept'[held'] \subseteq seen'
      BY <1>0, <2>2, <2>4 DEF CodeTypeOK
    <3> QED BY <3>1, <3>2
  <2> QED
    BY <2>4, <2>8, <2>9, <2>10, <2>11
<1>13. CASE SaveAnswered
  <2>0. UNCHANGED <<feature, kept>> /\ Effects(reads, FALSE)
    BY <1>13 DEF SaveAnswered, server, standing
  <2>00. newest' \in 1..Len(kept) /\ picked' \in 0..Len(kept)
    <3>1. newest' = newest /\ picked' = 0
      BY <1>13 DEF SaveAnswered, server, standing
    <3> QED
      BY <3>1, <1>0
  <2>1. UNCHANGED <<feature, kept>> /\ newest' \in 1..Len(kept) /\ picked' \in 0..Len(kept) /\ Effects(reads, FALSE)
    BY <2>0, <2>00
  <2>2. reads' \in ReadsOf(Len(kept'))
    BY <2>1, <1>0, EffectsType DEF Known
  <2>3. CodeTypeOK'
    BY <1>13, <1>0, <2>1, <2>2 DEF SaveAnswered, CodeTypeOK, ReadsOf, server, standing, Shows, Unsent
  <2>4. /\ busy = "answered" /\ busy' = "refreshing" /\ saved' = sent.files /\ held' = sent.answered
        /\ unread' = (sent.answered # sent.became)
        /\ UNCHANGED <<kept, files, sent, seen>>
    BY <1>13 DEF SaveAnswered, server
  <2>5. sent.became # 0 /\ sent.answered # 0 /\ kept[sent.became] = sent.files /\ sent.files \in Content /\ sent.files \subseteq seen
    BY <1>0, <2>4 DEF CodeTypeOK
  <2>6. saved' # None
    BY <2>4, <2>5
  <2>7. SavedIsHeld' /\ SentIsKept' /\ AnswerIsKept'
    BY <2>4, <2>5
  <2>8. ShownIsSeen'
    BY <2>4, <2>5
  <2> QED
    BY <2>3, <2>4, <2>5, <2>6, <2>7, <2>8
<1>14. CASE SaveFails
  <2>1. UNCHANGED <<feature, kept>> /\ newest' \in 1..Len(kept) /\ picked' \in 0..Len(kept) /\ Effects(reads, FALSE)
    BY <1>14, <1>0 DEF SaveFails, server, standing, CodeTypeOK
  <2>2. reads' \in ReadsOf(Len(kept'))
    BY <2>1, <1>0, EffectsType DEF Known
  <2>3. CodeTypeOK'
    BY <1>14, <1>0, <2>1, <2>2 DEF SaveFails, CodeTypeOK, ReadsOf, server, standing, Shows, Unsent
  <2> QED
    BY <1>14, <1>0, <2>1, <2>3 DEF SaveFails, CodeTypeOK, server, standing, Shows, Unsent, Dirty
<1>15. CASE Work
  <2>1. UNCHANGED <<feature, kept>> /\ newest' \in 1..Len(kept) /\ picked' \in 0..Len(kept) /\ Effects(reads, FALSE)
    BY <1>15, <1>0 DEF Work, server, standing, CodeTypeOK
  <2>2. reads' \in ReadsOf(Len(kept'))
    BY <2>1, <1>0, EffectsType DEF Known
  <2>3. CodeTypeOK'
    BY <1>15, <1>0, <2>1, <2>2 DEF Work, CodeTypeOK, ReadsOf, server, standing, Shows, Unsent
  <2> QED
    BY <1>15, <1>0, <2>1, <2>3 DEF Work, CodeTypeOK, server, standing, Shows, Unsent, Dirty
<1>16. CASE Finished
  <2>0. UNCHANGED <<feature, kept>> /\ Effects(reads, TRUE)
    BY <1>16 DEF Finished, server, standing
  <2>00. newest' \in 1..Len(kept) /\ picked' \in 0..Len(kept)
    <3>1. picked' = picked /\ (newest' = newest \/ newest' \in newest..Len(kept))
      BY <1>16 DEF Finished, server, standing
    <3> QED
      BY <3>1, <1>0
  <2>1. UNCHANGED <<feature, kept>> /\ newest' \in 1..Len(kept) /\ picked' \in 0..Len(kept) /\ Effects(reads, TRUE)
    BY <2>0, <2>00
  <2>2. reads' \in ReadsOf(Len(kept'))
    BY <2>1, <1>0, EffectsType DEF Known
  <2>3. CodeTypeOK'
    BY <1>16, <1>0, <2>1, <2>2 DEF Finished, CodeTypeOK, ReadsOf, server, standing, Shows, Unsent
  <2> QED
    BY <1>16, <1>0, <2>1, <2>3 DEF Finished, CodeTypeOK, server, standing, Shows, Unsent, Dirty
<1>17. CASE Previewed
  <2>1. /\ busy = "saved" /\ busy' = "answered" /\ sent' = [sent EXCEPT !.answered = Len(kept)]
        /\ UNCHANGED <<feature, kept, newest, picked, files, held, saved, unread, reads, upload, given, seen>>
    BY <1>17 DEF Previewed, server
  <2>2. /\ sent' \in [files: Content, base: 0..Len(kept), unread: BOOLEAN, became: 0..Len(kept), answered: 0..Len(kept)]
        /\ sent'.files = sent.files /\ sent'.became = sent.became /\ sent'.answered = Len(kept)
    <3>1. sent \in [files: Content, base: 0..Len(kept), unread: BOOLEAN, became: 0..Len(kept), answered: 0..Len(kept)]
      BY <1>0 DEF CodeTypeOK
    <3>2. Len(kept) \in 0..Len(kept)
      BY <1>0
    <3> QED BY <2>1, <3>1, <3>2
  <2>3. CodeTypeOK'
    BY <1>0, <2>1, <2>2 DEF CodeTypeOK
  <2> QED
    BY <1>0, <2>1, <2>2, <2>3
<1>18. CASE UNCHANGED codeVars
  <2>1. UNCHANGED <<feature, kept, newest, picked, files, saved, held, unread, busy, sent, reads, upload, given, seen>>
    BY <1>18 DEF codeVars
  <2>2. CodeTypeOK'
    BY <1>0, <2>1 DEF CodeTypeOK
  <2> QED
    BY <2>1, <2>2
<1> QED
  BY <1>1, <1>2, <1>3, <1>4, <1>5, <1>6, <1>7, <1>8, <1>9, <1>10, <1>11, <1>12, <1>13, <1>14, <1>15, <1>16, <1>17, <1>18 DEF CodeNext

\* The invariant holds whatever order reads, saves and edits come in (CodeTab).
THEOREM CodeInvariant == CodeSpec => []CodeInv
  BY CodeInvariantStarts, CodeInvariantStep, PTL DEF CodeSpec

-----------------------------------------------------------------------------
(***************************************************************************)
(* What follows.                                                           *)
(***************************************************************************)
\* The state of the code section, and of a save under way, is of its type.
THEOREM CodeTypeCorrect == CodeSpec => []CodeTypeOK
<1>1. CodeInv => CodeTypeOK
  BY DEF CodeInv
<1> QED
  BY <1>1, CodeInvariant, PTL

\* What the page takes to be saved is what the server keeps under the number it
\* has for it, however late reads and answers are (loaded and held in CodeTab) -
\* unless the number is another's save, answered for the own one.
THEOREM SavedStaysHeld == CodeSpec => []SavedIsHeld
<1>1. CodeInv => SavedIsHeld
  BY DEF CodeInv
<1> QED
  BY <1>1, CodeInvariant, PTL

\* A save of a feature replaces nothing this page never showed: what it says it
\* builds on was shown here - or is another's save, answered for the own one - and
\* it is refused unless that is the newest.
THEOREM SavesReplaceNothingUnseen == CodeSpec => SavesBuildOn
<1>1. ASSUME CodeInv, [CodeNext]_codeVars, feature, kept' # kept
      PROVE  kept[Len(kept)] \subseteq kept'[Len(kept')] \union seen \/ sent.unread
  <2>1. CASE SavedElsewhere
    <3>1. PICK e \in Fresh : kept' = Append(kept, kept[Len(kept)] \union {e})
      BY <2>1 DEF SavedElsewhere
    <3> QED
      BY <1>1, <3>1 DEF CodeInv, CodeTypeOK
  <2>2. CASE ServerSaves
    BY <1>1, <2>2 DEF ServerSaves, Accepted, CodeInv, ShownIsSeen
  <2> QED
    BY <1>1, <2>1, <2>2 DEF CodeNext, codeVars, server, FrameReads, AnswerRead, ReadArrives, ReadFails, ReadAgain,
                            PickVersion, Type, Upload, Uploaded, Commit, Previewed, SaveAnswered, SaveFails, Work, Finished
<1>2. CodeInv /\ [CodeNext]_codeVars
      => [feature /\ kept' # kept => kept[Len(kept)] \subseteq kept'[Len(kept')] \union seen \/ sent.unread]_codeVars
  BY <1>1
<1> QED
  BY <1>2, CodeInvariant, PTL DEF CodeSpec, SavesBuildOn

-----------------------------------------------------------------------------
(***************************************************************************)
(* The frame of the control center (ControlCenter).                        *)
(***************************************************************************)
Read == [got: [Parts -> Answered], issued: Readings]

\* Reads that may still be applied, with what is known and the lambda as it is.
ReadsStand(under, had, now) ==
  /\ \A i \in 1..Len(under), p \in Parts :
       /\ had[p] <= under[i].issued[p] /\ under[i].issued[p] <= now[p]
       /\ under[i].got[p] \in 0..MaxChanges => under[i].issued[p] <= under[i].got[p]
  /\ \A i, k \in 1..Len(under), p \in Parts : i <= k => under[i].issued[p] <= under[k].issued[p]
  /\ \A p \in Parts : had[p] <= now[p]

-----------------------------------------------------------------------------
(***************************************************************************)
(* What the operators on the reads keep.                                   *)
(***************************************************************************)
\* One more read, issued now (refresh).
LEMMA IssueKeeps ==
  ASSUME NEW under \in Seq(Read), NEW had \in Readings, NEW now \in Readings, ReadsStand(under, had, now),
         NEW next \in Read, next.issued = now, \A p \in Parts : next.got[p] = Pending
  PROVE  Append(under, next) \in Seq(Read) /\ Len(Append(under, next)) = Len(under) + 1
         /\ ReadsStand(Append(under, next), had, now)
<1> DEFINE longer == Append(under, next)
<1>1. /\ longer \in Seq(Read) /\ Len(longer) = Len(under) + 1 /\ Len(under) \in Nat
      /\ longer[Len(longer)] = next /\ \A i \in 1..Len(under) : longer[i] = under[i]
  OBVIOUS
<1> HIDE DEF longer
<1>2. ASSUME NEW i \in 1..Len(longer), NEW p \in Parts
      PROVE  /\ had[p] <= longer[i].issued[p] /\ longer[i].issued[p] <= now[p]
             /\ longer[i].got[p] \in 0..MaxChanges => longer[i].issued[p] <= longer[i].got[p]
  <2>1. now[p] \in Nat
    BY FrameAssumption DEF Readings
  <2>2. CASE i = Len(longer)
    BY <1>1, <2>1, <2>2, FrameAssumption DEF ReadsStand
  <2>3. CASE i # Len(longer)
    BY <1>1, <2>3 DEF ReadsStand
  <2> QED
    BY <2>2, <2>3
<1>3. ASSUME NEW i \in 1..Len(longer), NEW k \in 1..Len(longer), NEW p \in Parts, i <= k
      PROVE  longer[i].issued[p] <= longer[k].issued[p]
  <2>1. now[p] \in Nat
    BY FrameAssumption DEF Readings
  <2>2. CASE k = Len(longer)
    BY <1>1, <1>2, <2>2
  <2>3. CASE k # Len(longer)
    BY <1>1, <1>3, <2>3 DEF ReadsStand
  <2> QED
    BY <2>2, <2>3
<1>4. ReadsStand(longer, had, now)
  BY <1>2, <1>3 DEF ReadsStand
<1> QED
  BY <1>1, <1>4 DEF longer

\* A read given up is taken out from between the others.
LEMMA WithoutKeeps ==
  ASSUME FrameTypeOK, ReadsStand(refreshes, known, world), NEW i \in 1..Len(refreshes)
  PROVE  Without(i) \in Seq(Read) /\ Len(Without(i)) = Len(refreshes) - 1 /\ ReadsStand(Without(i), known, world)
<1> DEFINE left == Without(i)
<1>1. refreshes \in Seq(Read) /\ Len(refreshes) \in Nat
  BY DEF FrameTypeOK, Read
<1>2. /\ left \in Seq(Read) /\ Len(left) = Len(refreshes) - 1
      /\ \A k \in 1..Len(left) : left[k] = IF k < i THEN refreshes[k] ELSE refreshes[k + 1]
  <2>1. left = RemoveAt(refreshes, i)
    BY DEF Without, RemoveAt
  <2> HIDE DEF left, Read
  <2> QED BY <1>1, <2>1, RemoveAtProperties
<1> HIDE DEF left
<1>3. ASSUME NEW k \in 1..Len(left)
      PROVE  \E n \in 1..Len(refreshes) : left[k] = refreshes[n] /\ n = IF k < i THEN k ELSE k + 1
  BY <1>1, <1>2
<1>4. ASSUME NEW j \in 1..Len(left), NEW k \in 1..Len(left), NEW p \in Parts, j <= k
      PROVE  left[j].issued[p] <= left[k].issued[p]
  <2>1. PICK m \in 1..Len(refreshes) : left[j] = refreshes[m] /\ m = IF j < i THEN j ELSE j + 1
    BY <1>3
  <2>2. PICK n \in 1..Len(refreshes) : left[k] = refreshes[n] /\ n = IF k < i THEN k ELSE k + 1
    BY <1>3
  <2>3. m <= n
    BY <1>1, <1>2, <1>4, <2>1, <2>2
  <2> QED
    BY <2>1, <2>2, <2>3 DEF ReadsStand
<1>5. ReadsStand(left, known, world)
  BY <1>3, <1>4 DEF ReadsStand
<1> QED
  BY <1>2, <1>5 DEF left

\* What is left once a read is applied are those issued after it, and it brought
\* nothing older than they will (ApplyRead).
LEMMA NewerKeeps ==
  ASSUME FrameTypeOK, ReadsStand(refreshes, known, world), NEW i \in 1..Len(refreshes),
         NEW after \in Readings,
         \A p \in Parts : after[p] = known[p] \/ after[p] = refreshes[i].issued[p]
  PROVE  StillNewer(i) \in Seq(Read) /\ Len(StillNewer(i)) = Len(refreshes) - i /\ ReadsStand(StillNewer(i), after, world)
<1> DEFINE left == StillNewer(i)
<1>1. refreshes \in Seq(Read) /\ Len(refreshes) \in Nat
  BY DEF FrameTypeOK, Read
<1>2. left \in Seq(Read) /\ Len(left) = Len(refreshes) - i /\ \A k \in 1..Len(left) : left[k] = refreshes[i + k]
  BY <1>1 DEF StillNewer
<1> HIDE DEF left
<1>3. \A k \in 1..Len(left) : i + k \in 1..Len(refreshes) /\ i <= i + k
  BY <1>1, <1>2
<1>4. ASSUME NEW k \in 1..Len(left), NEW p \in Parts
      PROVE  /\ after[p] <= left[k].issued[p] /\ left[k].issued[p] <= world[p]
             /\ left[k].got[p] \in 0..MaxChanges => left[k].issued[p] <= left[k].got[p]
  BY <1>2, <1>3 DEF ReadsStand
<1>5. ASSUME NEW j \in 1..Len(left), NEW k \in 1..Len(left), NEW p \in Parts, j <= k
      PROVE  left[j].issued[p] <= left[k].issued[p]
  <2>1. i + j \in 1..Len(refreshes) /\ i + k \in 1..Len(refreshes) /\ i + j <= i + k
    BY <1>1, <1>2, <1>3, <1>5
  <2>2. refreshes[i + j].issued[p] <= refreshes[i + k].issued[p]
    BY <2>1 DEF ReadsStand
  <2> QED BY <1>2, <2>2
<1>6. \A p \in Parts : after[p] <= world[p]
  BY DEF ReadsStand
<1>7. ReadsStand(left, after, world)
  BY <1>4, <1>5, <1>6 DEF ReadsStand
<1> QED
  BY <1>2, <1>7 DEF left

-----------------------------------------------------------------------------
(***************************************************************************)
(* The inductive invariant.                                                *)
(***************************************************************************)
\* The order of the reads, spelled as the lemmas have it.
LEMMA OrderIsStanding ==
  ASSUME FrameTypeOK PROVE ReadsInOrder <=> ReadsStand(refreshes, known, world)
<1>1. DOMAIN refreshes = 1..Len(refreshes)
  BY DEF FrameTypeOK
<1> QED
  BY <1>1 DEF ReadsInOrder, ReadsStand

LEMMA IssuedType ==
  ASSUME world \in Readings
  PROVE  Issued \in Read /\ Issued.issued = world /\ \A p \in Parts : Issued.got[p] = Pending
  BY DEF Issued, Read, Answered

LEMMA FrameInvariantStarts == FrameInit => FrameInv
<1> SUFFICES ASSUME FrameInit PROVE FrameInv
  OBVIOUS
<1>1. 0 \in 0..MaxChanges /\ world \in Readings /\ frame = world /\ known = world /\ \A p \in Parts : world[p] = 0
  BY FrameAssumption DEF FrameInit, Readings
<1>2. refreshes = <<Issued>> /\ acted = Pending
  BY DEF FrameInit
<1>3. Issued \in Read /\ Issued.issued = world /\ \A p \in Parts : Issued.got[p] = Pending
  BY <1>1, IssuedType
<1>4. /\ refreshes \in Seq(Read) /\ Len(refreshes) = 1 /\ DOMAIN refreshes = {1} /\ refreshes[1] = Issued
  BY <1>2, <1>3
<1>5. FrameTypeOK
  BY <1>1, <1>2, <1>4, FrameAssumption DEF FrameTypeOK, Read
<1>6. ReadsInOrder
  BY <1>1, <1>3, <1>4, FrameAssumption DEF ReadsInOrder
<1> QED
  BY <1>1, <1>5, <1>6 DEF FrameInv, NothingBroughtBack

LEMMA FrameInvariantStep == FrameInv /\ [FrameNext]_frameVars => FrameInv'
<1> SUFFICES ASSUME FrameInv, [FrameNext]_frameVars PROVE FrameInv'
  OBVIOUS
<1>0. /\ FrameTypeOK /\ ReadsInOrder /\ NothingBroughtBack /\ ReadsStand(refreshes, known, world)
      /\ refreshes \in Seq(Read) /\ Len(refreshes) \in 0..MaxRefreshes /\ DOMAIN refreshes = 1..Len(refreshes)
      /\ world \in Readings /\ frame \in Readings /\ known \in Readings
      /\ acted = Pending \/ acted \in [part: Parts, as: 0..MaxChanges]
  <2>1. FrameTypeOK /\ ReadsInOrder /\ NothingBroughtBack
    BY DEF FrameInv
  <2> QED
    BY <2>1, OrderIsStanding, FrameAssumption DEF FrameTypeOK, Read
<1>9. \A p \in Parts : world[p] \in Nat /\ frame[p] \in Nat /\ known[p] \in Nat
  BY <1>0, FrameAssumption DEF Readings
<1>14. ASSUME NEW i \in 1..Len(refreshes)
       PROVE  /\ refreshes[i] \in Read /\ refreshes[i].got \in [Parts -> Answered]
              /\ \A p \in Parts : refreshes[i].got[p] \in Answered /\ refreshes[i].issued[p] \in Nat
  <2>1. refreshes[i] \in Read
    BY <1>0
  <2> QED
    BY <2>1, FrameAssumption DEF Read, Readings
\* One answered is still a read, and the others stay.
<1>15. ASSUME NEW i \in 1..Len(refreshes), NEW got \in [Parts -> Answered], refreshes' = [refreshes EXCEPT ![i].got = got]
       PROVE  /\ refreshes' \in Seq(Read) /\ Len(refreshes') = Len(refreshes)
              /\ \A k \in 1..Len(refreshes) : refreshes'[k].issued = refreshes[k].issued
                                              /\ refreshes'[k].got = IF k = i THEN got ELSE refreshes[k].got
  <2> DEFINE next == [refreshes[i] EXCEPT !.got = got]
  <2>1. next \in Read /\ next.got = got /\ next.issued = refreshes[i].issued
    BY <1>14 DEF Read
  <2>2. refreshes' = [refreshes EXCEPT ![i] = next]
    BY <1>15
  <2> HIDE DEF next
  <2> QED
    BY <1>0, <2>1, <2>2
\* What has to be shown of a step.
<1>10. ASSUME refreshes' \in Seq(Read), Len(refreshes') <= MaxRefreshes, ReadsStand(refreshes', known', world'),
              world' \in Readings, frame' \in Readings, known' \in Readings,
              acted' = Pending \/ acted' \in [part: Parts, as: 0..MaxChanges],
              \A p \in Parts : frame'[p] >= known'[p]
       PROVE  FrameInv'
  <2>1. FrameTypeOK'
    BY <1>10 DEF FrameTypeOK, Read
  <2>2. DOMAIN refreshes' = 1..Len(refreshes')
    BY <1>10
  <2>3. ReadsInOrder'
    BY <1>10, <2>2 DEF ReadsInOrder, ReadsStand
  <2> QED
    BY <1>10, <2>1, <2>3 DEF FrameInv, NothingBroughtBack
<1>1. CASE Refresh
  <2>1. refreshes' = Append(refreshes, Issued) /\ Len(refreshes) < MaxRefreshes /\ UNCHANGED <<world, frame, acted, known>>
    BY <1>1 DEF Refresh
  <2>2. refreshes' \in Seq(Read) /\ Len(refreshes') = Len(refreshes) + 1 /\ ReadsStand(refreshes', known, world)
    BY <1>0, <2>1, IssueKeeps, IssuedType
  <2> QED
    BY <1>0, <1>10, <2>1, <2>2, FrameAssumption DEF NothingBroughtBack
<1>2. CASE AnswerPart
  <2>0. PICK i \in 1..Len(refreshes), q \in Parts :
          \E answer \in {world[q], Lost} : refreshes' = [refreshes EXCEPT ![i].got[q] = answer]
    BY <1>0, <1>2 DEF AnswerPart
  <2>1. PICK answer \in {world[q], Lost} : refreshes' = [refreshes EXCEPT ![i].got[q] = answer]
    BY <2>0
  <2>2. answer \in Answered
    BY <1>0 DEF Answered, Readings
  <2>3. UNCHANGED <<world, frame, acted, known>>
    BY <1>2 DEF AnswerPart
  <2> DEFINE got == [refreshes[i].got EXCEPT ![q] = answer]
  <2>4. /\ got \in [Parts -> Answered] /\ \A p \in Parts : got[p] = world[p] \/ got[p] = Lost \/ got[p] = refreshes[i].got[p]
        /\ refreshes' = [refreshes EXCEPT ![i].got = got]
    BY <1>14, <2>1, <2>2
  <2> HIDE DEF got
  <2>6. /\ refreshes' \in Seq(Read) /\ Len(refreshes') = Len(refreshes)
        /\ \A k \in 1..Len(refreshes) : refreshes'[k].issued = refreshes[k].issued
                                        /\ refreshes'[k].got = IF k = i THEN got ELSE refreshes[k].got
    BY <1>15, <2>4
  <2>5. ReadsStand(refreshes', known', world')
    <3>1. \A k \in 1..Len(refreshes), p \in Parts :
            /\ known[p] <= refreshes[k].issued[p] /\ refreshes[k].issued[p] <= world[p]
            /\ refreshes[k].got[p] \in 0..MaxChanges => refreshes[k].issued[p] <= refreshes[k].got[p]
      BY <1>0 DEF ReadsStand
    <3>2. ASSUME NEW k \in 1..Len(refreshes), NEW p \in Parts, refreshes'[k].got[p] \in 0..MaxChanges
          PROVE  refreshes'[k].issued[p] <= refreshes'[k].got[p]
      BY <2>4, <2>6, <3>1, <3>2, FrameAssumption
    <3>3. \A j, k \in 1..Len(refreshes), p \in Parts : j <= k => refreshes[j].issued[p] <= refreshes[k].issued[p]
      BY <1>0 DEF ReadsStand
    <3>4. \A p \in Parts : known[p] <= world[p]
      BY <1>0 DEF ReadsStand
    <3> QED BY <2>3, <2>6, <3>1, <3>2, <3>3, <3>4 DEF ReadsStand
  <2> QED
    BY <1>0, <1>10, <2>3, <2>5, <2>6 DEF NothingBroughtBack
<1>3. CASE AnswerRest
  <2> DEFINE rest(i) == [p \in Parts |-> IF refreshes[i].got[p] = Pending THEN world[p] ELSE refreshes[i].got[p]]
  <2>1. PICK i \in 1..Len(refreshes) : refreshes' = [refreshes EXCEPT ![i].got = rest(i)]
    BY <1>0, <1>3 DEF AnswerRest
  <2>2. rest(i) \in [Parts -> Answered]
    BY <1>0, <1>14 DEF Answered, Readings
  <2>3. UNCHANGED <<world, frame, acted, known>>
    BY <1>3 DEF AnswerRest
  <2>4. /\ refreshes' \in Seq(Read) /\ Len(refreshes') = Len(refreshes)
        /\ \A k \in 1..Len(refreshes) : refreshes'[k].issued = refreshes[k].issued
                                        /\ refreshes'[k].got = IF k = i THEN rest(i) ELSE refreshes[k].got
    BY <1>15, <2>1, <2>2
  <2>5. \A p \in Parts : rest(i)[p] = world[p] \/ rest(i)[p] = refreshes[i].got[p]
    OBVIOUS
  <2> HIDE DEF rest
  <2>6. ReadsStand(refreshes', known', world')
    BY <1>0, <2>1, <2>3, <2>4, <2>5, FrameAssumption DEF ReadsStand
  <2> QED
    BY <1>0, <1>10, <2>3, <2>4, <2>6 DEF NothingBroughtBack
<1>4. CASE Apply
  <2>1. PICK i \in 1..Len(refreshes) : ApplyRead(i)
    BY <1>0, <1>4 DEF Apply
  <2>2. /\ \A p \in Parts : refreshes[i].got[p] # Pending
        /\ refreshes' = StillNewer(i) /\ UNCHANGED <<world, acted>>
        /\ frame' = [p \in Parts |-> IF refreshes[i].got[p] = Lost THEN frame[p] ELSE refreshes[i].got[p]]
        /\ known' = [p \in Parts |-> IF refreshes[i].got[p] = Lost THEN known[p] ELSE Later(known[p], refreshes[i].issued[p])]
    BY <2>1 DEF ApplyRead, Whole, Brought
  <2>3. ASSUME NEW p \in Parts
        PROVE  /\ refreshes[i].got[p] \in 0..MaxChanges \union {Lost}
               /\ refreshes[i].issued[p] \in 0..MaxChanges
               /\ Later(known[p], refreshes[i].issued[p]) = refreshes[i].issued[p]
    <3>1. refreshes[i] \in Read
      BY <1>0
    <3>2. refreshes[i].got[p] \in Answered /\ refreshes[i].issued[p] \in 0..MaxChanges /\ known[p] \in 0..MaxChanges
      BY <1>0, <3>1 DEF Read, Readings
    <3>3. known[p] <= refreshes[i].issued[p]
      BY <1>0 DEF ReadsStand
    <3> QED
      BY <2>2, <3>2, <3>3, FrameAssumption DEF Later, Answered
  <2>4. /\ frame' \in Readings /\ known' \in Readings
        /\ \A p \in Parts : known'[p] = known[p] \/ known'[p] = refreshes[i].issued[p]
    BY <1>0, <2>2, <2>3 DEF Readings
  <2>5. ASSUME NEW p \in Parts PROVE frame'[p] >= known'[p]
    <3>1. CASE refreshes[i].got[p] = Lost
      BY <1>0, <2>2, <3>1 DEF NothingBroughtBack
    <3>2. CASE refreshes[i].got[p] # Lost
      <4>1. refreshes[i].got[p] \in 0..MaxChanges
        BY <2>3, <3>2
      <4>2. refreshes[i].issued[p] <= refreshes[i].got[p]
        BY <1>0, <4>1 DEF ReadsStand
      <4> QED
        BY <2>2, <2>3, <3>2, <4>1, <4>2, FrameAssumption
    <3> QED
      BY <3>1, <3>2
  <2>6. StillNewer(i) \in Seq(Read) /\ Len(StillNewer(i)) = Len(refreshes) - i /\ ReadsStand(StillNewer(i), known', world)
    BY <1>0, <2>4, NewerKeeps
  <2>7. Len(refreshes') <= MaxRefreshes
    BY <1>0, <2>2, <2>6, FrameAssumption
  <2> QED
    BY <1>0, <1>10, <2>2, <2>4, <2>5, <2>6, <2>7
<1>5. CASE RefreshFails
  <2>1. PICK i \in 1..Len(refreshes) : refreshes' = Without(i)
    BY <1>0, <1>5 DEF RefreshFails
  <2>2. UNCHANGED <<world, frame, acted, known>>
    BY <1>5 DEF RefreshFails
  <2>3. refreshes' \in Seq(Read) /\ Len(refreshes') = Len(refreshes) - 1 /\ ReadsStand(refreshes', known, world)
    BY <1>0, <2>1, WithoutKeeps
  <2> QED
    BY <1>0, <1>10, <2>2, <2>3, FrameAssumption DEF NothingBroughtBack
\* A change leaves what is known and the reads as they are, and the lambda newer.
<1>6. ASSUME NEW q \in Parts, world[q] < MaxChanges, world' = Changed(q)
      PROVE  world' \in Readings /\ ReadsStand(refreshes, known, world')
  <2>1. world' \in Readings /\ \A p \in Parts : world'[p] \in Nat /\ world[p] <= world'[p]
    BY <1>0, <1>6, <1>9, FrameAssumption DEF Changed, Readings
  <2>2. \A i \in 1..Len(refreshes), p \in Parts : refreshes[i].issued[p] \in Nat
    BY <1>14
  <2> QED
    BY <1>0, <1>9, <2>1, <2>2 DEF ReadsStand
<1>7. CASE ChangedElsewhere
  <2>1. PICK q \in Parts : world[q] < MaxChanges /\ world' = Changed(q)
    BY <1>7 DEF ChangedElsewhere
  <2>2. UNCHANGED <<frame, refreshes, acted, known>>
    BY <1>7 DEF ChangedElsewhere
  <2> QED
    BY <1>0, <1>6, <1>10, <2>1, <2>2, FrameAssumption DEF NothingBroughtBack
<1>8. CASE Act
  <2>1. PICK q \in Parts : world[q] < MaxChanges /\ world' = Changed(q) /\ acted' = [part |-> q, as |-> world[q] + 1]
    BY <1>8 DEF Act
  <2>2. UNCHANGED <<frame, refreshes, known>>
    BY <1>8 DEF Act
  <2>3. acted' \in [part: Parts, as: 0..MaxChanges]
    BY <1>9, <2>1, FrameAssumption
  <2> QED
    BY <1>0, <1>6, <1>10, <2>1, <2>2, <2>3, FrameAssumption DEF NothingBroughtBack
<1>11. CASE ActAnswered
  <2>1. acted \in [part: Parts, as: 0..MaxChanges]
    BY <1>0, <1>11 DEF ActAnswered
  <2>2. /\ Len(refreshes) < MaxRefreshes /\ world' = world /\ acted' = Pending
        /\ refreshes' = Append(refreshes, Issued)
        /\ frame' = [frame EXCEPT ![acted.part] = acted.as]
        /\ known' = [known EXCEPT ![acted.part] = Earlier(known[acted.part], acted.as)]
    BY <1>11 DEF ActAnswered
  <2>3. /\ Earlier(known[acted.part], acted.as) \in 0..MaxChanges
        /\ Earlier(known[acted.part], acted.as) <= known[acted.part]
        /\ Earlier(known[acted.part], acted.as) <= acted.as
    BY <1>0, <2>1, FrameAssumption DEF Earlier, Readings
  <2>4. /\ frame' \in Readings /\ known' \in Readings
        /\ \A p \in Parts : known'[p] \in Nat /\ known'[p] <= known[p] /\ frame'[p] >= known'[p]
    BY <1>0, <1>9, <2>1, <2>2, <2>3, FrameAssumption DEF Readings, NothingBroughtBack
  <2>5. \A i \in 1..Len(refreshes), p \in Parts : refreshes[i].issued[p] \in Nat
    BY <1>14
  <2>6. ReadsStand(refreshes, known', world)
    BY <1>0, <1>9, <2>4, <2>5 DEF ReadsStand
  <2>7. refreshes' \in Seq(Read) /\ Len(refreshes') = Len(refreshes) + 1 /\ ReadsStand(refreshes', known', world)
    BY <1>0, <2>2, <2>4, <2>6, IssueKeeps, IssuedType
  <2> QED
    BY <1>0, <1>10, <2>2, <2>4, <2>7, FrameAssumption
<1>12. CASE ActFails
  BY <1>0, <1>10, <1>12 DEF ActFails, NothingBroughtBack
<1>13. CASE UNCHANGED frameVars
  BY <1>0, <1>10, <1>13 DEF frameVars, NothingBroughtBack
<1> QED
  BY <1>1, <1>2, <1>3, <1>4, <1>5, <1>7, <1>8, <1>11, <1>12, <1>13 DEF FrameNext

\* The invariant holds whatever order answers come in, and whichever are lost (refresh).
THEOREM FrameInvariant == FrameSpec => []FrameInv
  BY FrameInvariantStarts, FrameInvariantStep, PTL DEF FrameSpec

\* What the page knows, and what is under way, is of its type.
THEOREM FrameTypeCorrect == FrameSpec => []FrameTypeOK
<1>1. FrameInv => FrameTypeOK
  BY DEF FrameInv
<1> QED
  BY <1>1, FrameInvariant, PTL

\* No slow read brings back what was before one already shown, for any parts and
\* any number of reads under way (applied and issued in Editor).
THEOREM NeverBroughtBack == FrameSpec => []NothingBroughtBack
<1>1. FrameInv => NothingBroughtBack
  BY DEF FrameInv
<1> QED
  BY <1>1, FrameInvariant, PTL
=============================================================================
