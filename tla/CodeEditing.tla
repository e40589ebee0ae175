-------------------------- MODULE CodeEditing --------------------------
(***************************************************************************)
(* The code section of the control center (control/CodeTab.tsx): files     *)
(* read from a version of the lambda, or from a feature, changed here and  *)
(* saved, while the agent and other tabs save as well.  The server keeps   *)
(* every save and is external here (MetaService and FeatureService model   *)
(* it); so is the frame around the section, which reads every so often     *)
(* which save is the newest (ControlCenter models it).                     *)
(*                                                                         *)
(* The contents of the files are the set of edits they show.               *)
(***************************************************************************)
EXTENDS Integers, Sequences

CONSTANTS
  Edits,     \* what can be typed, here and elsewhere, one edit after the other
  None,      \* nothing: no content is known, nothing is sent or being uploaded
  MaxKept,   \* bound: versions, or saves of the feature
  MaxReads   \* bound: reads of the feature under way

ASSUME CodeAssumption ==
  /\ MaxKept \in Nat \ {0} /\ MaxReads \in Nat \ {0}
  /\ Edits \subseteq Nat
  /\ \A content \in SUBSET Edits : content # None

VARIABLES
  feature,   \* whether a feature is open, or a version of the lambda
  kept,      \* what the server keeps: the contents by version, or by revision
  newest,    \* the newest of them, as the frame last read it
  picked,    \* the version asked for in the address, 0 for none
  files,     \* what is in the editor
  saved,     \* what was last read or saved here, None before the first read
  held,      \* loaded, or held: the version or revision that was, 0 for none
  busy,      \* what the buttons wait for
  unread,    \* whether held is a save by others that was not read here
  sent,      \* a save under way: the files, what they build on, what they became, the answer
  reads,     \* reads under way: what each was answered with, 0 for not yet
  upload,    \* the files as an upload under way found them
  given,     \* edits the owner agreed to lose
  seen       \* edits the editor has shown

codeVars == <<feature, kept, newest, picked, files, saved, held, unread, busy, sent, reads, upload, given, seen>>
server == <<feature, kept>>
standing == <<picked, held, saved, unread, busy, sent>>

Content == SUBSET Edits

CodeTypeOK ==
  /\ feature \in BOOLEAN
  /\ kept \in Seq(Content) /\ Len(kept) \in 1..MaxKept
  /\ newest \in 1..Len(kept)
  /\ picked \in 0..Len(kept) /\ held \in 0..Len(kept)
  /\ files \in Content /\ (saved = None \/ saved \in Content)
  /\ busy \in {"idle", "working", "asked", "saved", "answered", "refreshing"} /\ unread \in BOOLEAN
  /\ sent \in [files: Content, base: 0..Len(kept), unread: BOOLEAN, became: 0..Len(kept), answered: 0..Len(kept)]
  /\ reads \in SUBSET [id: 1..MaxReads, at: 0..Len(kept)]
  /\ upload = None \/ upload \in Content
  /\ given \in Content /\ seen \in Content

Dirty == saved # None /\ files # saved

Sending(content, base) == [files |-> content, base |-> base, unread |-> unread, became |-> 0, answered |-> 0]
Unsent == [files |-> {}, base |-> 0, unread |-> FALSE, became |-> 0, answered |-> 0]

\* The next edit: one that nobody made yet.
Unmade == Edits \ (seen \union UNION {kept[n] : n \in 1..Len(kept)})
Fresh == {e \in Unmade : \A f \in Unmade : e <= f}

-----------------------------------------------------------------------------
(***************************************************************************)
(* What a render is followed by: the effects that read again.              *)
(***************************************************************************)
\* The version shown: the one asked for, or the newest.
Requested == IF picked # 0 THEN picked ELSE newest

\* The feature was saved elsewhere since it was read here.
Elsewhere == feature /\ held # 0 /\ newest # held
Due == Elsewhere /\ ~Dirty /\ busy = "idle"

FreeSlots(under) == {i \in 1..MaxReads : \A r \in under : r.id # i}
ReadFeature(under) == under \union {[id |-> i, at |-> 0] : i \in {j \in FreeSlots(under) : \A k \in FreeSlots(under) : j <= k}}

\* A change of the version asked for reads it, and the read before is no longer heard.
\* A feature saved elsewhere is read while nothing is unsaved: as that comes to be
\* so, and with every poll of the frame; no read of a feature is ever unheard.
Effects_Once(under, polled) ==
  reads' = IF feature THEN IF Due' /\ ~Due THEN ReadFeature(under) ELSE under
           ELSE IF Requested' # Requested THEN {[id |-> 1, at |-> Requested']} ELSE under
Effects(under, polled) ==
  reads' = IF feature THEN IF Due' /\ (polled \/ ~Due) THEN ReadFeature(under) ELSE under
           ELSE IF Requested' # Requested THEN {[id |-> 1, at |-> Requested']} ELSE under

Shows(content) == files' = content /\ seen' = seen \union content

CodeInit ==
  /\ feature \in BOOLEAN
  /\ kept = << {} >> /\ newest = 1 /\ picked = 0
  /\ files = {} /\ saved = None /\ held = 0 /\ unread = FALSE
  /\ busy = "idle" /\ sent = Unsent
  /\ reads = {[id |-> 1, at |-> IF feature THEN 0 ELSE 1]}
  /\ upload = None /\ given = {} /\ seen = {}

-----------------------------------------------------------------------------
(***************************************************************************)
(* The server, the agent and the frame.                                    *)
(***************************************************************************)
SavedElsewhere ==
  /\ Len(kept) < MaxKept
  /\ \E e \in Fresh : kept' = Append(kept, kept[Len(kept)] \union {e})
  /\ UNCHANGED <<feature, newest, files, standing, reads, upload, given, seen>>

FrameReads ==
  /\ newest' \in newest..Len(kept)
  /\ UNCHANGED <<server, files, standing, upload, given, seen>>
  /\ Effects(reads, TRUE)

FrameCatchesUp == FrameReads /\ newest' = Len(kept)

\* A read of the feature is answered with what it is then.
AnswerRead ==
  /\ \E r \in reads : r.at = 0 /\ reads' = (reads \ {r}) \union {[r EXCEPT !.at = Len(kept)]}
  /\ UNCHANGED <<server, newest, files, standing, upload, given, seen>>

-----------------------------------------------------------------------------
(***************************************************************************)
(* Reading: adopt replaces what is in the editor, whatever that is.        *)
(***************************************************************************)
Adopted_FrameRevision(at) ==
  /\ Shows(kept[at]) /\ saved' = kept[at] /\ held' = IF feature THEN newest ELSE at
  /\ unread' = FALSE
Adopted(at) ==
  /\ Shows(kept[at]) /\ saved' = kept[at] /\ held' = at /\ unread' = FALSE

ReadArrives ==
  /\ \E r \in reads :
       /\ r.at # 0
       /\ Adopted(r.at)
       /\ UNCHANGED <<server, newest, picked, busy, sent, upload, given>>
       /\ Effects(reads \ {r}, FALSE)

ReadFails ==
  /\ \E r \in reads : reads' = reads \ {r}
  /\ UNCHANGED <<server, newest, files, standing, upload, given, seen>>

\* The owner has what was saved elsewhere read, over what is unsaved here.
ReadAgain ==
  /\ Elsewhere /\ Dirty
  /\ given' = given \union files
  /\ reads' = ReadFeature(reads)
  /\ UNCHANGED <<server, newest, files, standing, upload, seen>>

PickVersion ==
  /\ ~feature
  /\ \E v \in 1..newest : picked' = v
  /\ given' = IF Dirty THEN given \union files ELSE given
  /\ UNCHANGED <<server, newest, files, held, saved, unread, busy, sent, upload, seen>>
  /\ Effects(reads, FALSE)

-----------------------------------------------------------------------------
(***************************************************************************)
(* Changing: the editor takes text at any time, busy or not.               *)
(***************************************************************************)
Type ==
  /\ \E e \in Fresh : Shows(files \union {e})
  /\ UNCHANGED <<server, newest, standing, upload, given>>
  /\ Effects(reads, FALSE)

\* An upload reads the chosen files first, and then sets the files to those there
\* were as it began, with the new ones.
Upload ==
  /\ upload = None
  /\ upload' = files
  /\ UNCHANGED <<server, newest, files, standing, reads, given, seen>>

Uploaded ==
  /\ upload # None
  /\ \E e \in Fresh : Shows(upload \union {e})
  /\ upload' = None
  /\ UNCHANGED <<server, newest, standing, given>>
  /\ Effects(reads, FALSE)

-----------------------------------------------------------------------------
(***************************************************************************)
(* Saving.  The dialog that asks for a note first is left out: what is     *)
(* saved is what is in the editor as it is confirmed.                      *)
(***************************************************************************)
Commit_OnNewest ==
  /\ busy = "idle" /\ Dirty
  /\ busy' = "asked"
  /\ sent' = Sending(files, IF feature THEN newest ELSE held)
  /\ UNCHANGED <<server, newest, picked, files, held, saved, unread, upload, given, seen>>
  /\ Effects(reads, FALSE)
Commit ==
  /\ busy = "idle" /\ Dirty
  /\ busy' = "asked"
  /\ sent' = Sending(files, held)
  /\ UNCHANGED <<server, newest, picked, files, held, saved, unread, upload, given, seen>>
  /\ Effects(reads, FALSE)

\* A save of a feature is refused unless it builds on the newest one.
Accepted == feature => sent.base = Len(kept)

\* A version is answered with its number.
ServerSaves ==
  /\ busy = "asked" /\ Accepted /\ Len(kept) < MaxKept
  /\ LET number == Len(kept) + 1
     IN /\ kept' = Append(kept, sent.files)
        /\ sent' = [sent EXCEPT !.became = number, !.answered = IF feature THEN 0 ELSE number]
  /\ busy' = IF feature THEN "saved" ELSE "answered"
  /\ UNCHANGED <<feature, newest, picked, files, held, saved, unread, reads, upload, given, seen>>

\* The preview of a feature is compiled once it is saved, outside its turn, and what is
\* answered is the feature as it is by then: another save may have come meanwhile.
Previewed ==
  /\ busy = "saved"
  /\ busy' = "answered" /\ sent' = [sent EXCEPT !.answered = Len(kept)]
  /\ UNCHANGED <<server, newest, picked, files, held, saved, unread, reads, upload, given, seen>>

\* What was sent is what is saved now - not what was typed since - under the number that
\* is answered, and the newest is shown.
SaveAnswered ==
  /\ busy = "answered"
  /\ saved' = sent.files /\ held' = sent.answered /\ picked' = 0
  /\ unread' = (sent.answered # sent.became)
  /\ busy' = "refreshing"
  /\ UNCHANGED <<server, newest, files, sent, upload, given, seen>>
  /\ Effects(reads, FALSE)

\* Refused, or no answer came: it may have been saved all the same.
SaveFails ==
  /\ busy \in {"asked", "saved", "answered"}
  /\ busy' = "idle" /\ sent' = Unsent
  /\ UNCHANGED <<server, newest, picked, files, held, saved, unread, upload, given, seen>>
  /\ Effects(reads, FALSE)

\* Checking, or putting what is saved online.
Work ==
  /\ busy = "idle"
  /\ busy' = "working"
  /\ UNCHANGED <<server, newest, picked, files, held, saved, unread, sent, upload, given, seen>>
  /\ Effects(reads, FALSE)

\* The frame reads the lambda again once that, or a save, is through - or fails to.
Finished ==
  /\ busy \in {"working", "refreshing"}
  /\ busy' = "idle" /\ sent' = Unsent
  /\ newest' \in {newest} \union {n \in newest..Len(kept) : busy = "refreshing" => n >= sent.answered}
  /\ UNCHANGED <<server, picked, files, held, saved, unread, upload, given, seen>>
  /\ Effects(reads, TRUE)

CodeNext ==
  \/ SavedElsewhere \/ FrameReads \/ AnswerRead
  \/ ReadArrives \/ ReadFails \/ ReadAgain \/ PickVersion
  \/ Type \/ Upload \/ Uploaded
  \/ Commit \/ ServerSaves \/ Previewed \/ SaveAnswered \/ SaveFails \/ Work \/ Finished

(***************************************************************************)
(* The frame goes on polling, requests end one way or the other, and a     *)
(* read is answered now and then.                                          *)
(***************************************************************************)
CodeFairness ==
  /\ WF_codeVars(FrameCatchesUp) /\ SF_codeVars(AnswerRead) /\ SF_codeVars(ReadArrives)
  /\ WF_codeVars(Previewed \/ SaveAnswered \/ SaveFails) /\ WF_codeVars(Finished)

CodeSpec == CodeInit /\ [][CodeNext]_codeVars
CodeFairSpec == CodeSpec /\ CodeFairness

-----------------------------------------------------------------------------
(***************************************************************************)
(* Properties.                                                             *)
(***************************************************************************)
\* What the page takes to be saved is what the server keeps under the number the
\* page has for it: "edited" is said, and a save is refused, on that ground - with
\* reads that arrive during a save, saves elsewhere and answers that never come.
\* The one exception is a save by others while the preview of the page's own one
\* was compiled: its number is answered, and taken for that of the own one.
SavedIsHeld == held # 0 => saved = kept[held] \/ unread

\* Behind it, and behind the next: what a save became is what it sent, and what a
\* save builds on was shown here, as is all that is in the editor.
SentIsKept == busy \in {"saved", "answered"} => sent.became # 0 /\ kept[sent.became] = sent.files

AnswerIsKept == busy = "answered" => sent.answered # 0

ShownIsSeen ==
  /\ files \subseteq seen
  /\ held # 0 /\ ~unread => kept[held] \subseteq seen
  /\ busy = "asked" => sent.base # 0 /\ (sent.unread \/ kept[sent.base] \subseteq seen)
  /\ busy \in {"asked", "saved", "answered"} => sent.files \subseteq seen

CodeInv ==
  /\ CodeTypeOK
  /\ held = 0 <=> saved = None
  /\ SavedIsHeld /\ SentIsKept /\ AnswerIsKept /\ ShownIsSeen

\* A save of a feature replaces nothing this page never showed, whoever saved what
\* meanwhile ("refused if another came in between") - unless it builds on a save by
\* others whose number the page was answered for its own (SavesBuildOnAlways).
SavesBuildOn ==
  [][feature /\ kept' # kept => kept[Len(kept)] \subseteq kept'[Len(kept')] \union seen \/ sent.unread]_codeVars

\* While nothing is unsaved, a feature that was read once comes to be shown as it
\* is, over reads that fail and reads that arrive late.  A first read that fails is
\* not repeated, nor is one of a version, and a save by others that the page was
\* answered for its own one is not read before there is a next.
FeatureCatchesUp ==
  []<>(feature /\ held # 0 => Dirty \/ unread \/ (held = Len(kept) /\ files = kept[Len(kept)]))

(***************************************************************************)
(* What the code says of itself and does not keep.                         *)
(***************************************************************************)
\* A save of a feature is "made from the save read here, and refused if another came
\* in between" (CodeTab.tsx:284).  What it is answered with is the feature as it is
\* once its preview was compiled: the number of another save that came meanwhile is
\* then taken for the own one's, the next save passes for one made from it, and what
\* the other saved is replaced without this page ever having shown it.
SavesBuildOnAlways ==
  [][feature /\ kept' # kept => kept[Len(kept)] \subseteq kept'[Len(kept')] \union seen]_codeVars

\* Nothing typed is lost without being asked about ("Read again while nothing here
\* is unsaved").  It is lost where a read arrives that was begun while nothing was
\* unsaved, where a newer version is read - the owner's own one as well, over
\* what was typed while it was saved - and where an upload ends.
UnsavedKept ==
  [][saved # None => files \ files' \subseteq given \union sent.files \union UNION {kept[n] : n \in 1..Len(kept)}]_codeVars
============================================================================
