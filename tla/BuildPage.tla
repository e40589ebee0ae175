--------------------------- MODULE BuildPage ---------------------------
(***************************************************************************)
(* The public page that has an app built from a sentence (pages/Build.tsx):*)
(* it starts a build and asks after it every few seconds until it hears    *)
(* how it ended.  A poll is not held back by one under way, and is heard   *)
(* whenever it arrives, whichever build it was of.                         *)
(*                                                                         *)
(* The server is external: its builds end, and a build agent that restarts *)
(* has forgotten them (BuildAgent models it).                              *)
(***************************************************************************)
EXTENDS Integers, Sequences, FiniteSets

CONSTANTS
  MaxBuilds, \* bound: builds asked for
  MaxAsking  \* bound: polls under way

ASSUME BuildPageAssumption == MaxBuilds \in Nat /\ MaxAsking \in Nat \ {0}

VARIABLES
  builds,    \* what became of each build so far
  state,     \* what the page says
  starting,  \* requests for a build under way
  intervals, \* builds an interval asks after
  polling,   \* the build of the interval started last (polling), 0 for none
  asking,    \* polls under way: of which build, and the answer ("sent" before there is one)
  result     \* the build whose outcome is shown, 0 for a start that failed

buildVars == <<builds, state, starting, intervals, polling, asking, result>>

Ended == {"done", "failed", "cancelled"}

BuildTypeOK ==
  /\ builds \in Seq({"running", "forgotten"} \union Ended) /\ Len(builds) <= MaxBuilds
  /\ state \in {"idle", "working", "done", "failed"}
  /\ starting \in 0..MaxBuilds
  /\ intervals \subseteq 1..Len(builds)
  /\ polling \in 0..Len(builds) /\ result \in 0..Len(builds)
  /\ asking \subseteq [poll: 1..MaxAsking, of: 1..Len(builds), answer: {"sent", "running"} \union Ended]

BuildPageInit ==
  /\ builds = <<>> /\ state = "idle" /\ starting = 0
  /\ intervals = {} /\ polling = 0 /\ asking = {} /\ result = 0

FreePolls == {i \in 1..MaxAsking : \A p \in asking : p.poll # i}
PollOf(build) == {[poll |-> i, of |-> build, answer |-> "sent"] : i \in {j \in FreePolls : \A k \in FreePolls : j <= k}}

-----------------------------------------------------------------------------
(***************************************************************************)
(* The server.                                                             *)
(***************************************************************************)
BuildEnds ==
  /\ \E b \in 1..Len(builds), how \in Ended : builds[b] = "running" /\ builds' = [builds EXCEPT ![b] = how]
  /\ UNCHANGED <<state, starting, intervals, polling, asking, result>>

AgentRestarts ==
  /\ builds # <<>>
  /\ builds' = [b \in DOMAIN builds |-> "forgotten"]
  /\ UNCHANGED <<state, starting, intervals, polling, asking, result>>

AnswerPoll ==
  /\ \E p \in asking :
       /\ p.answer = "sent" /\ builds[p.of] # "forgotten"
       /\ asking' = (asking \ {p}) \union {[p EXCEPT !.answer = builds[p.of]]}
  /\ UNCHANGED <<builds, state, starting, intervals, polling, result>>

-----------------------------------------------------------------------------
(***************************************************************************)
(* The page.                                                               *)
(***************************************************************************)
StartBuild ==
  /\ state = "idle" /\ starting < MaxBuilds
  /\ state' = "working" /\ starting' = starting + 1 /\ result' = 0
  /\ UNCHANGED <<builds, intervals, polling, asking>>

\* The build is asked after at once, and then on an interval.
Started ==
  /\ starting > 0 /\ Len(builds) < MaxBuilds
  /\ starting' = starting - 1
  /\ builds' = Append(builds, "running")
  /\ intervals' = intervals \union {Len(builds) + 1} /\ polling' = Len(builds) + 1
  /\ asking' = asking \union PollOf(Len(builds) + 1)
  /\ UNCHANGED <<state, result>>

\* Refused, or not answered.
StartRefused ==
  /\ starting > 0
  /\ starting' = starting - 1 /\ state' = "failed" /\ result' = 0
  /\ UNCHANGED <<builds, intervals, polling, asking>>

Interval ==
  /\ FreePolls # {}
  /\ \E b \in intervals : asking' = asking \union PollOf(b)
  /\ UNCHANGED <<builds, state, starting, intervals, polling, result>>

Terminal_NotCancelled == {"done", "failed"}
Terminal == Ended

\* An answer that says how a build ended stops the interval started last, whichever
\* build the answer is of.
Polled ==
  /\ \E p \in asking :
       /\ p.answer # "sent"
       /\ asking' = asking \ {p}
       /\ IF p.answer \in Terminal
          THEN /\ intervals' = intervals \ {polling} /\ result' = p.of
               /\ state' \in IF p.answer = "done" THEN {"done", "failed"} ELSE {"failed"}
          ELSE UNCHANGED <<intervals, result, state>>
  /\ UNCHANGED <<builds, starting, polling>>

\* A poll that fails - also as the build is not known any more - changes nothing.
PollLost ==
  /\ \E p \in asking : asking' = asking \ {p}
  /\ UNCHANGED <<builds, state, starting, intervals, polling, result>>

\* Try again, or build another.
Again ==
  /\ state \in {"done", "failed"}
  /\ state' = "idle"
  /\ UNCHANGED <<builds, starting, intervals, polling, asking, result>>

BuildPageNext ==
  \/ BuildEnds \/ AgentRestarts \/ AnswerPoll
  \/ StartBuild \/ Started \/ StartRefused \/ Interval \/ Polled \/ PollLost \/ Again

(***************************************************************************)
(* The interval fires, a build ends (its time is limited), and a poll is   *)
(* answered now and then.                                                  *)
(***************************************************************************)
BuildPageFairness ==
  /\ WF_buildVars(Interval) /\ WF_buildVars(BuildEnds) /\ WF_buildVars(Started \/ StartRefused)
  /\ WF_buildVars(PollLost) /\ SF_buildVars(AnswerPoll) /\ SF_buildVars(Polled)

BuildPageSpec == BuildPageInit /\ [][BuildPageNext]_buildVars
BuildPageFairSpec == BuildPageSpec /\ BuildPageFairness

-----------------------------------------------------------------------------
(***************************************************************************)
(* Properties.                                                             *)
(***************************************************************************)
Forgotten == polling \in intervals /\ builds[polling] = "forgotten"

\* The page does not say "working" for good ("a page that polled for ever on it
\* would be worse") - unless the agent restarted and knows nothing of the build,
\* which every poll hears and none says.
WorkingEnds == []<>(state # "working" \/ Forgotten)

\* What is shown is how the build asked for last ended.  A poll of the build
\* before, arriving late, breaks it: it is heard like any other, and stops the
\* interval of the new build as well.
OwnOutcome == state \in {"done", "failed"} /\ result # 0 => result = Len(builds)
============================================================================
