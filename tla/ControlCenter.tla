------------------------- MODULE ControlCenter -------------------------
(***************************************************************************)
(* The frame of the control center (pages/Editor.tsx): what it knows of a  *)
(* lambda is read as a whole, from several answers of the server, on a     *)
(* timer, as a section opens and after every action - so that reads are    *)
(* under way at once and come back in any order.                           *)
(*                                                                         *)
(* The server is external: how often each part of the lambda changed.      *)
(***************************************************************************)
EXTENDS Integers, Sequences

CONSTANTS
  Required,   \* parts without which a read is given up: the lambda, its versions
  Optional,   \* parts whose last reading stays: features, figures, published source
  Pending,    \* not answered yet
  Lost,       \* not answered, and not going to be
  MaxChanges, \* bound: changes of each part
  MaxRefreshes\* bound: reads under way

Parts == Required \union Optional

ASSUME FrameAssumption ==
  /\ Required \intersect Optional = {}
  /\ MaxChanges \in Nat /\ MaxRefreshes \in Nat \ {0}
  /\ Pending \notin 0..MaxChanges /\ Lost \notin 0..MaxChanges /\ Pending # Lost

VARIABLES
  world,     \* the parts as they are on the server
  frame,     \* the parts as the page shows them
  refreshes, \* reads under way that may still be applied, in the order they were issued
  acted,     \* the answer of an action on its way: which part it shows, and as what
  known      \* each part as it was when the last read that brought it was issued

frameVars == <<world, frame, refreshes, acted, known>>

Readings == [Parts -> 0..MaxChanges]
Answered == 0..MaxChanges \union {Pending, Lost}

FrameTypeOK ==
  /\ world \in Readings /\ frame \in Readings /\ known \in Readings
  /\ refreshes \in Seq([got: [Parts -> Answered], issued: Readings])
  /\ Len(refreshes) <= MaxRefreshes
  /\ acted = Pending \/ acted \in [part: Parts, as: 0..MaxChanges]

-----------------------------------------------------------------------------
(***************************************************************************)
(* refresh: issued with the next number, asks for every part at once.      *)
(***************************************************************************)
Issued == [got |-> [p \in Parts |-> Pending], issued |-> world]

FrameInit ==
  /\ world = [p \in Parts |-> 0] /\ frame = world /\ known = world
  /\ refreshes = <<Issued>>
  /\ acted = Pending

\* The timer, a section opened, the tab come back to, or an action through that
\* left showing what it changed to this read (deploy, previewFeature, merged).
Refresh_NotWhileBusy ==
  /\ Len(refreshes) < MaxRefreshes /\ acted = Pending
  /\ refreshes' = Append(refreshes, Issued)
  /\ UNCHANGED <<world, frame, acted, known>>
Refresh ==
  /\ Len(refreshes) < MaxRefreshes
  /\ refreshes' = Append(refreshes, Issued)
  /\ UNCHANGED <<world, frame, acted, known>>

\* Each part is answered on its own, with what it is then - or not at all.
AnswerPart ==
  /\ \E i \in DOMAIN refreshes, p \in Parts :
       /\ refreshes[i].got[p] = Pending
       /\ \E answer \in {world[p], Lost} : refreshes' = [refreshes EXCEPT ![i].got[p] = answer]
  /\ UNCHANGED <<world, frame, acted, known>>

\* A read nothing is lost of: what is left of it is answered.
AnswerRest ==
  /\ \E i \in DOMAIN refreshes :
       LET got == refreshes[i].got
       IN /\ \E p \in Parts : got[p] = Pending
          /\ \A p \in Parts : got[p] # Lost
          /\ refreshes' = [refreshes EXCEPT ![i].got = [p \in Parts |-> IF got[p] = Pending THEN world[p] ELSE got[p]]]
  /\ UNCHANGED <<world, frame, acted, known>>

Whole(read) ==
  /\ \A p \in Parts : read.got[p] # Pending
  /\ \A p \in Required : read.got[p] # Lost

Brought(read, shown, before) == [p \in Parts |-> IF read.got[p] = Lost THEN before[p] ELSE shown[p]]

Without(i) == SubSeq(refreshes, 1, i - 1) \o SubSeq(refreshes, i + 1, Len(refreshes))

\* The reads still to be applied after the i-th: one issued before it is older than
\* the last applied, and changes nothing as it arrives.
StillNewer_Any(i) == Without(i)
StillNewer(i) == SubSeq(refreshes, i + 1, Len(refreshes))

Later(a, b) == IF a >= b THEN a ELSE b
Earlier(a, b) == IF a <= b THEN a ELSE b

ApplyRead(i) ==
  /\ Whole(refreshes[i])
  /\ frame' = Brought(refreshes[i], refreshes[i].got, frame)
  /\ known' = Brought(refreshes[i], [p \in Parts |-> Later(known[p], refreshes[i].issued[p])], known)
  /\ refreshes' = StillNewer(i)
  /\ UNCHANGED <<world, acted>>

Apply == \E i \in DOMAIN refreshes : ApplyRead(i)

\* A required part did not come: the read is given up at once, and what is shown stays.
RefreshFails ==
  /\ \E i \in DOMAIN refreshes :
       /\ \E p \in Required : refreshes[i].got[p] = Lost
       /\ refreshes' = Without(i)
  /\ UNCHANGED <<world, frame, acted, known>>

-----------------------------------------------------------------------------
(***************************************************************************)
(* What changes the lambda.                                                *)
(***************************************************************************)
Changed(p) == [world EXCEPT ![p] = @ + 1]

\* The agent, a visitor, another tab - or an action of this page that waits for its read.
ChangedElsewhere ==
  /\ \E p \in Parts : world[p] < MaxChanges /\ world' = Changed(p)
  /\ UNCHANGED <<frame, refreshes, acted, known>>

\* Taking the lambda offline answers with the lambda, starting a feature with the feature.
Act ==
  /\ acted = Pending
  /\ \E p \in Parts :
       /\ world[p] < MaxChanges
       /\ world' = Changed(p)
       /\ acted' = [part |-> p, as |-> world[p] + 1]
  /\ UNCHANGED <<frame, refreshes, known>>

\* That is shown at once, whichever reads are under way or were applied since, and
\* everything is read again.
ActAnswered ==
  /\ acted # Pending /\ Len(refreshes) < MaxRefreshes
  /\ frame' = [frame EXCEPT ![acted.part] = acted.as]
  /\ refreshes' = Append(refreshes, Issued)
  /\ known' = [known EXCEPT ![acted.part] = Earlier(@, acted.as)]
  /\ acted' = Pending
  /\ UNCHANGED world

ActFails ==
  /\ acted # Pending
  /\ acted' = Pending
  /\ UNCHANGED <<world, frame, refreshes, known>>

FrameNext ==
  \/ Refresh \/ AnswerPart \/ AnswerRest \/ Apply \/ RefreshFails
  \/ ChangedElsewhere \/ Act \/ ActAnswered \/ ActFails

(***************************************************************************)
(* The page stays visible, so its timer fires; every request ends one way  *)
(* or the other, and now and then all parts of a read are answered and it  *)
(* is applied.                                                             *)
(***************************************************************************)
ApplyFull == \E i \in DOMAIN refreshes : (\A p \in Parts : refreshes[i].got[p] # Lost) /\ ApplyRead(i)

FrameFairness ==
  /\ WF_frameVars(Refresh) /\ WF_frameVars(AnswerPart) /\ WF_frameVars(RefreshFails) /\ WF_frameVars(Apply)
  /\ SF_frameVars(AnswerRest) /\ SF_frameVars(ApplyFull)

FrameSpec == FrameInit /\ [][FrameNext]_frameVars
FrameFairSpec == FrameSpec /\ FrameFairness

-----------------------------------------------------------------------------
(***************************************************************************)
(* Properties.                                                             *)
(***************************************************************************)
\* No slow read brings back what was before one already shown ("only one newer
\* than the last applied is applied, or a slow poll would bring back what an
\* action had just changed"): what is shown of a part is at least as new as the
\* part was when the newest read that brought it was issued.  The answer of an
\* action is outside that order: it may be older than what a read brought, and a
\* read issued before the action and applied after its answer takes it back.
NothingBroughtBack == \A p \in Parts : frame[p] >= known[p]

\* Behind it: the reads are under way in the order they were issued, each brings a
\* part as it was at or after its issue, and none was issued before what is known.
ReadsInOrder ==
  /\ \A i \in DOMAIN refreshes, p \in Parts :
       /\ known[p] <= refreshes[i].issued[p] /\ refreshes[i].issued[p] <= world[p]
       /\ refreshes[i].got[p] \in 0..MaxChanges => refreshes[i].issued[p] <= refreshes[i].got[p]
  /\ \A i, k \in DOMAIN refreshes, p \in Parts :
       i <= k => refreshes[i].issued[p] <= refreshes[k].issued[p]
  /\ \A p \in Parts : known[p] <= world[p]

FrameInv == FrameTypeOK /\ ReadsInOrder /\ NothingBroughtBack

\* What the page shows comes to be the lambda as it is, over parts that are not
\* answered, reads given up, and answers that overtake each other.
ShownCatchesUp == []<>(frame = world)
============================================================================
