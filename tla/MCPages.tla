---------------------------- MODULE MCPages ----------------------------
(***************************************************************************)
(* The pages of the front end, each on its own: they share no state, so a  *)
(* behaviour opens one of them and leaves the others as they are before    *)
(* they are opened.  Every module here is checked as it stands, with its   *)
(* own initial states and its own next-state relation.                     *)
(***************************************************************************)
EXTENDS LineDiff, AgentWatch, LogFollowing, CodeEditing, ControlCenter, BuildPage

CONSTANTS x, y   \* the lines a file may have

VARIABLE page

pageVars == <<page, diffVars, agentVars, logVars, codeVars, frameVars, buildVars>>

LinesOfFiles == {x, y}
LogKinds == {{"all"}, {"all", "problems"}}

-----------------------------------------------------------------------------
DiffClosed == before = NoFile /\ after = NoFile /\ compared = NoLines
AgentClosed == AgentInit /\ ~watching
LogClosed ==
  /\ log = <<>> /\ run = 1 /\ owner = TRUE /\ following = FALSE /\ question = "all"
  /\ cursor = NoCursor /\ shown = <<>> /\ missed = FALSE /\ dropped = {} /\ blind = FALSE /\ polls = {}
CodeClosed == CodeInit /\ ~feature

PagesInit ==
  /\ page \in {"changes", "agent", "log", "code", "frame", "build"}
  /\ IF page = "changes" THEN DiffInit ELSE DiffClosed
  /\ IF page = "agent" THEN AgentInit ELSE AgentClosed
  /\ IF page = "log" THEN LogInit ELSE LogClosed
  /\ IF page = "code" THEN CodeInit ELSE CodeClosed
  /\ FrameInit /\ BuildPageInit

OnlyChanges == UNCHANGED <<page, agentVars, logVars, codeVars, frameVars, buildVars>>
OnlyAgent == UNCHANGED <<page, diffVars, logVars, codeVars, frameVars, buildVars>>
OnlyLog == UNCHANGED <<page, diffVars, agentVars, codeVars, frameVars, buildVars>>
OnlyCode == UNCHANGED <<page, diffVars, agentVars, logVars, frameVars, buildVars>>
OnlyFrame == UNCHANGED <<page, diffVars, agentVars, logVars, codeVars, buildVars>>
OnlyBuild == UNCHANGED <<page, diffVars, agentVars, logVars, codeVars, frameVars>>

PagesNext ==
  \/ page = "changes" /\ DiffNext /\ OnlyChanges
  \/ page = "agent" /\ AgentNext /\ OnlyAgent
  \/ page = "log" /\ LogNext /\ OnlyLog
  \/ page = "code" /\ CodeNext /\ OnlyCode
  \/ page = "frame" /\ FrameNext /\ OnlyFrame
  \/ page = "build" /\ BuildPageNext /\ OnlyBuild

(***************************************************************************)
(* The fairness of the page that is open: what each module states of its   *)
(* own actions, one kind of step at a time.                                *)
(***************************************************************************)
Timers ==
  \/ page = "agent" /\ TimerFires /\ OnlyAgent
  \/ page = "log" /\ Timer /\ OnlyLog
  \/ page = "code" /\ FrameCatchesUp /\ OnlyCode
  \/ page = "frame" /\ Refresh /\ OnlyFrame
  \/ page = "build" /\ Interval /\ OnlyBuild

WorkEnds ==
  \/ page = "agent" /\ JobEnds /\ OnlyAgent
  \/ page = "code" /\ Finished /\ OnlyCode
  \/ page = "frame" /\ Apply /\ OnlyFrame
  \/ page = "build" /\ BuildEnds /\ OnlyBuild

RequestsEnd ==
  \/ page = "code" /\ (Previewed \/ SaveAnswered \/ SaveFails) /\ OnlyCode
  \/ page = "frame" /\ AnswerPart /\ OnlyFrame
  \/ page = "build" /\ (Started \/ StartRefused) /\ OnlyBuild

ReadsEnd ==
  \/ page = "frame" /\ RefreshFails /\ OnlyFrame
  \/ page = "build" /\ PollLost /\ OnlyBuild

ServerAnswersReads ==
  \/ page = "agent" /\ AnswerTick /\ OnlyAgent
  \/ page = "log" /\ ServerAnswers /\ OnlyLog
  \/ page = "code" /\ AnswerRead /\ OnlyCode
  \/ page = "frame" /\ AnswerRest /\ OnlyFrame
  \/ page = "build" /\ AnswerPoll /\ OnlyBuild

AnswersAreTaken ==
  \/ page = "agent" /\ AnswerArrives /\ OnlyAgent
  \/ page = "log" /\ TakeAnswer /\ OnlyLog
  \/ page = "code" /\ ReadArrives /\ OnlyCode
  \/ page = "frame" /\ ApplyFull /\ OnlyFrame
  \/ page = "build" /\ Polled /\ OnlyBuild

PagesFairness ==
  /\ WF_pageVars(Timers) /\ WF_pageVars(WorkEnds) /\ WF_pageVars(RequestsEnd) /\ WF_pageVars(ReadsEnd)
  /\ SF_pageVars(ServerAnswersReads) /\ SF_pageVars(AnswersAreTaken)

PagesSpec == PagesInit /\ [][PagesNext]_pageVars /\ PagesFairness
============================================================================
