--------------------------- MODULE AgentWatch ---------------------------
(***************************************************************************)
(* The agent changing a lambda, as an open control center knows it         *)
(* (control/agent.ts): the page asks after the change while the last one   *)
(* it knows is under way, and takes the answers of starting and stopping   *)
(* one as they come.  Several requests are under way at once, each a fetch *)
(* of its own: an answer shows the change as it was when the server gave   *)
(* it, and may arrive after a later one.  The server is external: it has   *)
(* one change of this lambda at a time (BuildAgent models it).             *)
(***************************************************************************)
EXTENDS Integers, Sequences

LOCAL INSTANCE SequencesExt

CONSTANTS
  NoJob,     \* no change asked for yet
  Refused,   \* the answer to a start the server does not take
  MaxJobs    \* bound: changes asked for

Jobs == [id: 1..MaxJobs, active: BOOLEAN]

ASSUME AgentWatchAssumption ==
  MaxJobs \in Nat /\ {NoJob, Refused} \intersect Jobs = {} /\ NoJob # Refused

VARIABLES
  job,       \* the change the server has: its number and whether it is active
  last,      \* the change as this page last took it
  tick,      \* the polling: stopped, a timer running, or its request under way
  asked,     \* requests the server has not answered: of {"tick", "start", "stop"}
  answers,   \* answers on their way, in the order they were given
  watching,  \* whether the Change section is open
  unseen,    \* a change ended while the owner was somewhere else
  by,        \* the request whose answer the page took last
  said,      \* how often the end of each change was said (onFinished)
  overtaken  \* whether an answer has arrived before one given earlier

agentVars == <<job, last, tick, asked, answers, watching, unseen, by, said, overtaken>>

Requests == {"tick", "start", "stop"}

IsActive(j) == j # NoJob /\ j.active

AgentTypeOK ==
  /\ job \in Jobs \union {NoJob} /\ last \in Jobs \union {NoJob}
  /\ tick \in {"stopped", "timer", "asked"}
  /\ asked \subseteq Requests
  /\ answers \in Seq([to: Requests, job: Jobs \union {NoJob, Refused}])
  /\ watching \in BOOLEAN /\ unseen \in BOOLEAN
  /\ by \in Requests
  /\ said \in [1..MaxJobs -> Nat] /\ overtaken \in BOOLEAN

AgentInit ==
  /\ job = NoJob /\ last = NoJob
  /\ tick = "asked" /\ asked = {"tick"} /\ answers = <<>>
  /\ watching \in BOOLEAN /\ unseen = FALSE /\ by = "tick"
  /\ said = [id \in 1..MaxJobs |-> 0] /\ overtaken = FALSE

-----------------------------------------------------------------------------
(***************************************************************************)
(* take: what an answer changes.                                           *)
(***************************************************************************)
EndedIn_Any(before, next) == before # NoJob /\ next # NoJob /\ before.id = next.id /\ ~next.active
EndedIn(before, next) ==
  /\ before # NoJob /\ next # NoJob /\ before.id = next.id
  /\ before.active /\ ~next.active

TakeWith(answer, marked) ==
  /\ last' = answer.job
  /\ by' = answer.to
  /\ said' = IF EndedIn(last, answer.job) THEN [said EXCEPT ![answer.job.id] = @ + 1] ELSE said
  /\ unseen' = marked

Take(answer) == TakeWith(answer, unseen \/ (EndedIn(last, answer.job) /\ ~watching))

\* The answers given but that to one request, which has one at most (OneAnswerEach).
Unheard(request, given) ==
  IF \E i \in DOMAIN given : given[i].to = request
    THEN RemoveAt(given, CHOOSE i \in DOMAIN given : given[i].to = request)
    ELSE given

\* A new round of the polling: what the round before asked is no longer heard.
AskAgain(sent, given) ==
  /\ tick' = "asked"
  /\ asked' = sent \union {"tick"}
  /\ answers' = Unheard("tick", given)

-----------------------------------------------------------------------------
(***************************************************************************)
(* The server.                                                             *)
(***************************************************************************)
Answer(request, j) ==
  /\ asked' = asked \ {request}
  /\ answers' = Append(answers, [to |-> request, job |-> j])

AnswerTick ==
  /\ "tick" \in asked
  /\ Answer("tick", job)
  /\ UNCHANGED <<job, last, tick, watching, unseen, by, said, overtaken>>

NextId == IF job = NoJob THEN 1 ELSE job.id + 1
NewJob == [id |-> NextId, active |-> TRUE]

\* One change of a lambda at a time: a second one is refused, as is any past the allowance.
AnswerStart ==
  /\ "start" \in asked
  /\ \/ /\ ~IsActive(job) /\ NextId <= MaxJobs
        /\ job' = NewJob
        /\ Answer("start", NewJob)
     \/ Answer("start", Refused) /\ UNCHANGED job
  /\ UNCHANGED <<last, tick, watching, unseen, by, said, overtaken>>

\* A change that waits ends as it is stopped; one that runs has its container killed and ends after.
AnswerStop ==
  /\ "stop" \in asked
  /\ \E j \in {job} \union (IF IsActive(job) THEN {[job EXCEPT !.active = FALSE]} ELSE {}) :
       job' = j /\ Answer("stop", j)
  /\ UNCHANGED <<last, tick, watching, unseen, by, said, overtaken>>

JobEnds ==
  /\ IsActive(job)
  /\ job' = [job EXCEPT !.active = FALSE]
  /\ UNCHANGED <<last, tick, asked, answers, watching, unseen, by, said, overtaken>>

\* Another tab or device asks for a change.
StartedElsewhere ==
  /\ ~IsActive(job) /\ NextId <= MaxJobs
  /\ job' = NewJob
  /\ UNCHANGED <<last, tick, asked, answers, watching, unseen, by, said, overtaken>>

-----------------------------------------------------------------------------
(***************************************************************************)
(* The page.                                                               *)
(***************************************************************************)
\* One of the answers arrives, while others given before it may still be on their way.
Overtaking(i) == overtaken' = (overtaken \/ i # 1)

\* tick: only a change that is still waiting or working is worth asking after.
TickAnswered_Stops ==
  /\ \E i \in DOMAIN answers :
       /\ Overtaking(i)
       /\ answers[i].to = "tick"
       /\ Take(answers[i])
       /\ tick' = IF IsActive(answers[i].job) /\ answers[i].job # last THEN "timer" ELSE "stopped"
       /\ answers' = RemoveAt(answers, i)
  /\ UNCHANGED <<job, asked, watching>>
TickAnswered ==
  /\ \E i \in DOMAIN answers :
       /\ Overtaking(i)
       /\ answers[i].to = "tick"
       /\ Take(answers[i])
       /\ tick' = IF IsActive(answers[i].job) THEN "timer" ELSE "stopped"
       /\ answers' = RemoveAt(answers, i)
  /\ UNCHANGED <<job, asked, watching>>

\* An answer that does not come: what is known decides whether to ask again.
TickFails ==
  /\ tick = "asked"
  /\ tick' = IF IsActive(last) THEN "timer" ELSE "stopped"
  /\ asked' = asked \ {"tick"}
  /\ answers' = Unheard("tick", answers)
  /\ UNCHANGED <<job, last, watching, unseen, by, said, overtaken>>

TimerFires ==
  /\ tick = "timer"
  /\ tick' = "asked" /\ asked' = asked \union {"tick"}
  /\ UNCHANGED <<job, last, answers, watching, unseen, by, said, overtaken>>

Waiting(request) == request \in asked \/ \E i \in DOMAIN answers : answers[i].to = request

\* The box to ask for a change is there while none is known to be under way.
Start ==
  /\ watching /\ ~IsActive(last) /\ ~Waiting("start")
  /\ asked' = asked \union {"start"}
  /\ UNCHANGED <<job, last, tick, answers, watching, unseen, by, said, overtaken>>

\* The answer of a start is taken, and the polling starts over - also when it was
\* refused: most likely one is under way already, asked for elsewhere.
StartAnswered ==
  /\ \E i \in DOMAIN answers :
       /\ Overtaking(i)
       /\ answers[i].to = "start"
       /\ IF answers[i].job = Refused THEN UNCHANGED <<last, by, said, unseen>>
          ELSE TakeWith(answers[i], FALSE)
       /\ AskAgain(asked, RemoveAt(answers, i))
  /\ UNCHANGED <<job, watching>>

\* The request, or its answer, is lost: the server may have started the change.
StartFails ==
  /\ Waiting("start")
  /\ AskAgain(asked \ {"start"}, Unheard("start", answers))
  /\ UNCHANGED <<job, last, watching, unseen, by, said, overtaken>>

Stop ==
  /\ watching /\ IsActive(last) /\ ~Waiting("stop")
  /\ asked' = asked \union {"stop"}
  /\ UNCHANGED <<job, last, tick, answers, watching, unseen, by, said, overtaken>>

StopAnswered ==
  /\ \E i \in DOMAIN answers :
       /\ Overtaking(i)
       /\ answers[i].to = "stop"
       /\ Take(answers[i])
       /\ answers' = RemoveAt(answers, i)
  /\ UNCHANGED <<job, tick, asked, watching>>

StopFails ==
  /\ Waiting("stop")
  /\ asked' = asked \ {"stop"}
  /\ answers' = Unheard("stop", answers)
  /\ UNCHANGED <<job, last, tick, watching, unseen, by, said, overtaken>>

\* Opening the section asks again, and is having seen how the last change ended.
Open ==
  /\ ~watching
  /\ watching' = TRUE /\ unseen' = FALSE
  /\ AskAgain(asked, answers)
  /\ UNCHANGED <<job, last, by, said, overtaken>>

Leave ==
  /\ watching
  /\ watching' = FALSE
  /\ AskAgain(asked, answers)
  /\ UNCHANGED <<job, last, unseen, by, said, overtaken>>

AnswerArrives == TickAnswered \/ StartAnswered \/ StopAnswered

AgentServer == AnswerTick \/ AnswerStart \/ AnswerStop \/ JobEnds \/ StartedElsewhere
AgentPage ==
  \/ AnswerArrives \/ TickFails \/ TimerFires
  \/ Start \/ StartFails \/ Stop \/ StopFails
  \/ Open \/ Leave
AgentNext == AgentServer \/ AgentPage

(***************************************************************************)
(* The timer fires, polls are answered now and then and answers arrive,    *)
(* and a change ends: the build agent stops one that runs too long.        *)
(***************************************************************************)
AgentFairness ==
  /\ WF_agentVars(TimerFires) /\ WF_agentVars(JobEnds)
  /\ SF_agentVars(AnswerTick) /\ SF_agentVars(AnswerArrives)

AgentSpec == AgentInit /\ [][AgentNext]_agentVars
AgentFairSpec == AgentSpec /\ AgentFairness

-----------------------------------------------------------------------------
(***************************************************************************)
(* Properties.                                                             *)
(***************************************************************************)
\* The end of a change this page watched is said once (onFinished: "Said once,
\* when a change this page watched run comes to an end"), over requests that fail,
\* rounds of polling that start over and changes asked for elsewhere, for as long
\* as every answer arrived after those given before it.  A slow answer that shows
\* the change running brings it back, and it ends a second time (EndSaidOnceAlways).
EndSaidOnce == overtaken \/ \A id \in 1..MaxJobs : said[id] <= 1

\* Behind it.  Each request is asked once at a time: it waits at the server or its
\* answer is on its way - a poll only while the timer is not running - and only a
\* start is refused.
OneAnswerEach ==
  /\ \A i \in DOMAIN answers : answers[i].job = Refused => answers[i].to = "start"
  /\ \A i, k \in DOMAIN answers : answers[i].to = answers[k].to => i = k
  /\ \A i \in DOMAIN answers : answers[i].to \notin asked
  /\ tick # "asked" => "tick" \notin asked /\ \A i \in DOMAIN answers : answers[i].to # "tick"

\* How far a change and those before it have come: asked for, and ended.
Stage(j) == IF j = NoJob THEN 0 ELSE IF j.active THEN 2 * j.id - 1 ELSE 2 * j.id

Informs(i) == answers[i].job # Refused

\* What is known, the answers on their way and the server follow each other, and
\* an end that was said is known.
EndsKnown ==
  /\ Stage(last) <= Stage(job)
  /\ \A i \in DOMAIN answers :
       Informs(i) => /\ Stage(last) <= Stage(answers[i].job) /\ Stage(answers[i].job) <= Stage(job)
                     /\ \A k \in DOMAIN answers : i <= k /\ Informs(k) => Stage(answers[i].job) <= Stage(answers[k].job)
  /\ \A id \in 1..MaxJobs : said[id] = 0 \/ (said[id] = 1 /\ Stage(last) >= 2 * id)

AgentInv == AgentTypeOK /\ OneAnswerEach /\ (overtaken \/ EndsKnown)

\* The page does not show a change as running for good (agent.ts: nobody should have
\* to sit on one section to see a change through): over answers that are late, lost
\* or overtake each other, sections opened and left, starts that are refused and
\* changes asked for elsewhere, the polling goes on until it knows the end of the
\* change it shows - unless what it shows is the answer of a stop (SpinnerStops).
SpinnerStopsPolled == []<>(~IsActive(last) \/ by = "stop")

(***************************************************************************)
(* What the code says of itself and does not keep.                         *)
(***************************************************************************)
\* onFinished is "said once" (agent.ts:60).  Starting, stopping and polling are
\* fetches of their own and nothing tells an older answer from a newer one: the
\* answer of a stop that shows the end arrives, then one of a poll from before,
\* then the end again.
EndSaidOnceAlways == \A id \in 1..MaxJobs : said[id] <= 1

\* The answer of a stop may show a change as running after the polling saw its end
\* and stopped; unlike a start it begins no new round, and it stays so until the
\* section is opened or left.
SpinnerStops == []<>~IsActive(last)
============================================================================
