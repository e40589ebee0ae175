-------------------------- MODULE LogFollowing --------------------------
(***************************************************************************)
(* Following a log: the ring of lines the server keeps (LogBook.cs), and a *)
(* page that asks every few seconds for what came after the last line it   *)
(* knows.  Two pages follow it the same way and differ in what they hear:  *)
(* the owner's section (control/LogsTab.tsx) no longer hears an answer     *)
(* once the question changed or it was paused, the operator's              *)
(* (console/LogSection.tsx) hears them all.                                *)
(*                                                                         *)
(* A poll is not held back by one under way, so several are, and they are  *)
(* answered in any order.  A line is the kinds of question it answers.     *)
(***************************************************************************)
EXTENDS LineNumbers, Integers, Sequences, FiniteSets

CONSTANTS
  Questions,  \* what can be asked for: levels, and on the console lambdas and callers
  Kinds,      \* the kinds of line: sets of the questions a line answers
  Capacity,   \* lines the ring holds
  FirstLimit, \* lines an answer carries to a page without a cursor
  NextLimit,  \* and to one with a cursor
  Held,       \* lines a page holds (HELD, the window of the console)
  NoCursor,   \* the cursor of a page that knows no line
  Unanswered, \* a poll the server has not answered
  MaxLines,   \* bound: lines written in the first run of the server, while the owner follows
  NearRestart,\* bound: lines of a run that ends, of the ones after the first, and for the operator
  MaxPolls,   \* bound: polls under way
  MaxRuns     \* bound: runs of the server

ASSUME LogAssumption ==
  /\ {Capacity, FirstLimit, NextLimit, Held, MaxPolls, MaxRuns} \subseteq Nat \ {0}
  /\ Kinds \subseteq SUBSET Questions
  /\ {MaxLines, NearRestart} \subseteq Nat /\ NearRestart <= MaxLines /\ NoCursor \notin Nat

VARIABLES
  log,       \* the lines of this run: the questions each answers, by their number
  run,       \* which run of the server this is
  owner,     \* whether the page is the owner's section, or the operator's
  question,  \* what the page asks for
  following, \* whether it polls: not paused
  cursor,    \* the number of the last line it knows
  shown,     \* the lines it holds, oldest first
  missed,    \* whether it was told of lines it missed
  dropped,   \* the numbers of lines it held and let go
  blind,     \* whether it had a cursor and took an answer asked for without one
  polls      \* the polls under way, and their answers on the way back

logVars == <<log, run, owner, question, following, cursor, shown, missed, dropped, blind, polls>>

Line(n) == [run |-> run, number |-> n, answers |-> log[n]]
MaxOf(a, b) == IF a >= b THEN a ELSE b
MinOf(a, b) == IF a <= b THEN a ELSE b

AllLines == [run: 1..MaxRuns, number: 1..MaxLines, answers: Kinds]
Answers == [lines: Seq(AllLines), cursor: 0..MaxLines, missed: BOOLEAN]
Polls == [id: 1..MaxPolls, question: Questions, since: 0..MaxLines, first: BOOLEAN, answer: Answers \union {Unanswered}]

LogTypeOK ==
  /\ log \in Seq(Kinds) /\ Len(log) <= MaxLines
  /\ run \in 1..MaxRuns
  /\ owner \in BOOLEAN /\ following \in BOOLEAN
  /\ question \in Questions
  /\ cursor \in 0..MaxLines \union {NoCursor}
  /\ shown \in Seq(AllLines) /\ Len(shown) <= Held
  /\ missed \in BOOLEAN /\ blind \in BOOLEAN /\ dropped \subseteq 1..MaxLines
  /\ polls \subseteq Polls

-----------------------------------------------------------------------------
(***************************************************************************)
(* The ring (LogBook.Read): walked from the newest line to the reader's    *)
(* cursor; the newest that fit are answered, the rest said to be missed - *)
(* for a reader that had a cursor, and so is what the ring let go.         *)
(***************************************************************************)
Oldest == MaxOf(1, Len(log) - Capacity + 1)

Matching_SkipsOne(q, since) == {n \in Oldest..Len(log) : n > since + 1 /\ q \in log[n]}
Matching(q, since) == {n \in Oldest..Len(log) : n > since /\ q \in log[n]}

Newest(numbers, limit) == {n \in numbers : Cardinality({m \in numbers : m > n}) < limit}

Read(q, since, first) ==
  LET matching == Matching(q, since)
      carried == Newest(matching, IF first THEN FirstLimit ELSE NextLimit)
      gone == since > 0 /\ since + 1 < Oldest
      left == since > 0 /\ matching # carried
      numbers == InOrderOf(carried)
  IN [lines |-> [i \in DOMAIN numbers |-> Line(numbers[i])],
      cursor |-> Len(log),
      missed |-> gone \/ left]

-----------------------------------------------------------------------------
(***************************************************************************)
(* The page.                                                               *)
(***************************************************************************)
FreeIds(under) == {i \in 1..MaxPolls : \A p \in under : p.id # i}

Asking(q, since, under) ==
  [id |-> CHOOSE i \in FreeIds(under) : \A j \in FreeIds(under) : i <= j,
   question |-> q,
   since |-> IF since = NoCursor THEN 0 ELSE since,
   first |-> since = NoCursor,
   answer |-> Unanswered]

\* A poll is asked for what came after the cursor as it is now.
Poll(q, since, under) ==
  /\ FreeIds(under) # {}
  /\ polls' = under \union {Asking(q, since, under)}

LogInit ==
  /\ log = <<>> /\ run = 1
  /\ owner \in BOOLEAN /\ following = TRUE
  /\ question \in Questions
  /\ cursor = NoCursor /\ shown = <<>> /\ missed = FALSE /\ dropped = {} /\ blind = FALSE
  /\ polls = {Asking(question, NoCursor, {})}

\* Something on the server says something (LogBook.Write).
WriteLine ==
  /\ Len(log) < IF run = 1 /\ owner THEN MaxLines ELSE NearRestart
  /\ \E kind \in Kinds : log' = Append(log, kind)
  /\ UNCHANGED <<run, owner, question, following, cursor, shown, missed, dropped, blind, polls>>

\* A restart of the server: the ring is in memory, and the numbers start over.
\* What was under way is lost with its connection.
ServerRestarts ==
  /\ run < MaxRuns /\ Len(log) <= NearRestart
  /\ run' = run + 1 /\ log' = <<>> /\ polls' = {}
  /\ UNCHANGED <<owner, question, following, cursor, shown, missed, dropped, blind>>

ServerAnswers ==
  /\ \E p \in polls :
       /\ p.answer = Unanswered
       /\ polls' = (polls \ {p}) \union {[p EXCEPT !.answer = Read(p.question, p.since, p.first)]}
  /\ UNCHANGED <<log, run, owner, question, following, cursor, shown, missed, dropped, blind>>

Timer ==
  /\ following
  /\ Poll(question, cursor, polls)
  /\ UNCHANGED <<log, run, owner, question, following, cursor, shown, missed, dropped, blind>>

LastHeld(lines) == SubSeq(lines, MaxOf(1, Len(lines) - Held + 1), Len(lines))
LetGo(lines) == {lines[i].number : i \in 1..(Len(lines) - Held)}

TakeLines_KeepsCursor(p) ==
  /\ cursor' = IF p.answer.lines = <<>> /\ cursor # NoCursor THEN MaxOf(cursor, p.answer.cursor) ELSE p.answer.cursor
  /\ missed' = (missed \/ p.answer.missed)
  /\ shown' = LastHeld(shown \o p.answer.lines)
  /\ dropped' = dropped \union LetGo(shown \o p.answer.lines)
TakeLines(p) ==
  /\ cursor' = p.answer.cursor
  /\ missed' = (missed \/ p.answer.missed)
  /\ shown' = LastHeld(shown \o p.answer.lines)
  /\ dropped' = dropped \union LetGo(shown \o p.answer.lines)

TakeAnswer ==
  /\ \E p \in polls :
       /\ p.answer # Unanswered
       /\ TakeLines(p)
       /\ blind' = (blind \/ (p.since = 0 /\ cursor \notin {NoCursor, 0}))
       /\ polls' = polls \ {p}
  /\ UNCHANGED <<log, run, owner, question, following>>

\* A poll that fails says so and changes nothing: the next one asks the same.
PollFails ==
  /\ \E p \in polls : polls' = polls \ {p}
  /\ UNCHANGED <<log, run, owner, question, following, cursor, shown, missed, dropped, blind>>

\* The polls whose answers are still heard once the page asks something else.
StillHeard_All == polls
StillHeard == IF owner THEN {} ELSE polls

\* A change of what is asked for starts over, and asks at once while it follows -
\* on the console it asks at once in any case.
ChangeQuestion ==
  /\ \E q \in Questions \ {question} :
       /\ question' = q
       /\ IF following \/ ~owner THEN Poll(q, NoCursor, StillHeard) ELSE polls' = StillHeard
  /\ cursor' = NoCursor /\ shown' = <<>> /\ missed' = FALSE /\ dropped' = {} /\ blind' = FALSE
  /\ UNCHANGED <<log, run, owner, following>>

Pause ==
  /\ following
  /\ following' = FALSE
  /\ IF owner THEN polls' = StillHeard ELSE Poll(question, cursor, StillHeard)
  /\ UNCHANGED <<log, run, owner, question, cursor, shown, missed, dropped, blind>>

Resume ==
  /\ ~following
  /\ following' = TRUE
  /\ Poll(question, cursor, StillHeard)
  /\ UNCHANGED <<log, run, owner, question, cursor, shown, missed, dropped, blind>>

LogNext ==
  \/ WriteLine \/ ServerRestarts \/ ServerAnswers
  \/ Timer \/ TakeAnswer \/ PollFails
  \/ ChangeQuestion \/ Pause \/ Resume

(***************************************************************************)
(* The timer fires, and a poll is answered now and then.                   *)
(***************************************************************************)
LogFairness == WF_logVars(Timer) /\ SF_logVars(ServerAnswers) /\ SF_logVars(TakeAnswer)

LogSpec == LogInit /\ [][LogNext]_logVars
LogFairSpec == LogSpec /\ LogFairness

-----------------------------------------------------------------------------
(***************************************************************************)
(* Properties.                                                             *)
(***************************************************************************)
\* A change of filter is a different question: no line of the answer to one is
\* shown under another (LogSection.tsx: "the answer starts over rather than
\* appending lines from one query onto lines from another").
OneQuestion == \A i \in DOMAIN shown : question \in shown[i].answers

\* The owner's section keeps to it, whatever is under way as the level or the
\* feature changes (the alive flag of its effect).
OwnerOneQuestion == owner => OneQuestion

ShownOf(r) == {shown[i].number : i \in {j \in DOMAIN shown : shown[j].run = r}}

\* What the owner's section shows has no holes: every line of the question between
\* the oldest it shows and its cursor is shown, unless the server said lines
\* were missed - with polls overlapping, answered late, out of order or not at all.
\* Three cases are left out, in which it has holes nobody mentions: after a restart of
\* the server a late poll has the cursor of the run before; an answer asked for without
\* a cursor does not say what it left out, although another came before it; and
\* of answers out of order, the newer lines are let go before the older.
OwnerSeesAll ==
  owner /\ run = 1 /\ ~blind /\ ~missed /\ cursor # NoCursor =>
    \A m \in ShownOf(run) : \A n \in m..MinOf(cursor, Len(log)) :
      question \in log[n] => n \in ShownOf(run) \union dropped

(***************************************************************************)
(* Why it does: the lines known up to any cursor the page has, or has asked *)
(* with, are all of them from the first cursor it was given on, and the    *)
(* answers under way tell all that came after the one they were asked with.*)
(***************************************************************************)
NumbersOf(lines) == {lines[i].number : i \in DOMAIN lines}

QuestionKept ==
  owner =>
    /\ OneQuestion
    /\ \A p \in polls :
         /\ p.question = question
         /\ p.answer # Unanswered => \A i \in DOMAIN p.answer.lines : question \in p.answer.lines[i].answers

\* An answer tells the newest lines up to its cursor - if none were missed, all after the other.
Tells(p) ==
  LET lines == p.answer.lines
      upTo == p.answer.cursor
  IN /\ upTo \in p.since..Len(log)
     /\ \A i \in DOMAIN lines : lines[i].run = run /\ lines[i].number \in (p.since + 1)..upTo
     /\ \A n \in (p.since + 1)..upTo :
          /\ p.question \in log[n]
          /\ (\E m \in NumbersOf(lines) : m <= n) \/ (p.since > 0 /\ ~p.answer.missed)
          => n \in NumbersOf(lines)

KnownUpTo(upTo, first) ==
  \A n \in 1..upTo :
    question \in log[n] /\ (n > first \/ \E m \in ShownOf(run) : m <= n) => n \in ShownOf(run) \union dropped

KnowsNothing == cursor \in {NoCursor, 0} /\ shown = <<>> /\ \A p \in polls : p.since = 0

KnowsFrom(first) ==
  /\ cursor \in first..Len(log) /\ KnownUpTo(cursor, first)
  /\ \A p \in polls : p.since = 0 \/ (first <= p.since /\ KnownUpTo(p.since, first))

LinesKnown ==
  owner /\ run = 1 =>
    /\ cursor \in 0..Len(log) \union {NoCursor}
    /\ \A i \in DOMAIN shown : shown[i].run = 1
    /\ \A p \in polls : p.since <= Len(log) /\ (p.answer # Unanswered => Tells(p))
    /\ ~missed /\ ~blind => KnowsNothing \/ \E first \in 1..Len(log) : KnowsFrom(first)

LogInv == LogTypeOK /\ QuestionKept /\ LinesKnown

\* A page that goes on following comes to know the newest line, whatever was late,
\* failed or was told of a run of the server that is over.
FollowersCatchUp == []<>(~following \/ cursor = Len(log))
============================================================================
