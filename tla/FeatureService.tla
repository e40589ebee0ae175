----------------------------- MODULE FeatureService -----------------------------
(***************************************************************************)
(* Features of one lambda and how they become its versions: started from a *)
(* version, saved, brought up to date, pushed to, merged, deleted and swept *)
(* (Services/Features/FeatureService.cs, the pushes of                     *)
(* Services/Git/GitPushes.cs).                                             *)
(*                                                                         *)
(* What code holds is the set of edits made to it.  A call on a feature    *)
(* that changes it holds the feature's turn; creating, reading, checking   *)
(* what is to be merged and sweeping do not.  Rows and files are written   *)
(* one after the other.  Some saves say which revision they are made from, *)
(* and are refused when it is no longer the newest; others do not.         *)
(***************************************************************************)
EXTENDS Naturals, Sequences

CONSTANTS
  Callers,           \* calls made by the editor, an agent or git
  Pushers,           \* those of them that may be git pushes
  Uploaders,         \* those that may save without saying what they had read
  Sweepers,          \* runs of the maintenance job
  Features,
  Nobody,            \* the turn of a feature is free
  MaxEdits,          \* bound on the edits made
  MaxVersion,        \* bound on the versions
  MaxFailures        \* bound on the commits that fail and the times the process dies

ASSUME BoundAssumption ==
  MaxEdits \in Nat /\ MaxVersion \in Nat \ {0} /\ MaxFailures \in Nat

ASSUME ProcessAssumption == Nobody \notin Callers /\ Pushers \union Uploaders \subseteq Callers

VARIABLES
  versions,          \* what each version of the lambda holds
  row,               \* "there", or why there is no row of a feature
  base,              \* BaseVersion
  revision,          \* Revision
  files,             \* files.json: what it holds, or NoFiles
  turn,              \* who holds the turn of each feature
  pc,                \* what each call does next
  feature,           \* the feature it is about
  code,              \* the code it holds in its hands
  read,              \* the revision it read
  brought,           \* the version it brought into the code or compared it with, or None
  known,             \* the rows a sweep has read
  edits,             \* edits made so far
  acked,             \* edits of each feature whose save was confirmed
  pushed,            \* features that were pushed to
  blind,             \* features saved by somebody who did not say what they had read
  moved,             \* features whose base was moved past what nobody had brought in
  undercut,          \* checks during which that was done
  failures

rows == <<row, base, revision>>
call == <<feature, code, read, brought>>
history == <<acked, pushed, blind, moved, undercut>>
vars == <<versions, row, base, revision, files, turn, pc, feature, code, read, brought,
          known, edits, acked, pushed, blind, moved, undercut, failures>>

Edits == 1 .. MaxEdits
None == 0
NoFiles == {0}             \* no code holds edit 0
Numbers == 1 .. MaxVersion
Newest == Len(versions)

There(f) == row[f] = "there"
Free(f) == turn[f] = Nobody
Has(f) == files[f] # NoFiles

TypeOK ==
  /\ versions \in Seq(SUBSET Edits) /\ Newest \in Numbers
  /\ row \in [Features -> {"none", "there", "undone", "merged", "deleted"}]
  /\ base \in [Features -> Numbers]
  /\ revision \in [Features -> 0 .. MaxEdits]
  /\ files \in [Features -> (SUBSET Edits) \union {NoFiles}]
  /\ turn \in [Features -> Callers \union {Nobody}]
  /\ pc \in [Callers -> {"idle", "write", "copy", "uncreate", "reading", "editing", "pushing", "saving", "bring",
                         "checking", "merged", "removing", "synced", "listed"}]
  /\ feature \in [Callers -> Features]
  /\ code \in [Callers -> SUBSET Edits]
  /\ read \in [Callers -> 0 .. MaxEdits]
  /\ brought \in [Callers -> Numbers \union {None}]
  /\ known \in [Sweepers -> SUBSET Features]
  /\ edits \in 0 .. MaxEdits
  /\ acked \in [Features -> SUBSET Edits]
  /\ pushed \subseteq Features /\ blind \subseteq Features /\ moved \subseteq Features
  /\ undercut \subseteq Callers
  /\ failures \in 0 .. MaxFailures

Init ==
  /\ versions = <<{}>>
  /\ row = [f \in Features |-> "none"]
  /\ base = [f \in Features |-> 1] /\ revision = [f \in Features |-> 0]
  /\ files = [f \in Features |-> NoFiles]
  /\ turn = [f \in Features |-> Nobody]
  /\ pc = [p \in Callers |-> "idle"]
  /\ feature \in [Callers -> Features]
  /\ code = [p \in Callers |-> {}] /\ read = [p \in Callers |-> 0]
  /\ brought = [p \in Callers |-> None]
  /\ known = [s \in Sweepers |-> Features]
  /\ edits = 0
  /\ acked = [f \in Features |-> {}]
  /\ pushed = {} /\ blind = {} /\ moved = {} /\ undercut = {}
  /\ failures = 0

Go(p, from, to) == pc[p] = from /\ pc' = [pc EXCEPT ![p] = to]

(* A call ends, and forgets what it read.                                  *)
End(p) ==
  /\ pc' = [pc EXCEPT ![p] = "idle"]
  /\ code' = [code EXCEPT ![p] = {}]
  /\ read' = [read EXCEPT ![p] = 0]
  /\ brought' = [brought EXCEPT ![p] = None]
  /\ UNCHANGED feature

(* Definitions whose names end in a mistake are what a plausible bug would *)
(* make of the definition that follows them; no action uses them.          *)
Take_Anyway(p) == turn' = [turn EXCEPT ![feature[p]] = p]

Take(p) == Free(feature[p]) /\ turn' = [turn EXCEPT ![feature[p]] = p]
GiveBack(p) == turn' = [turn EXCEPT ![feature[p]] = Nobody]

-------------------------------------------------------------------------------
(* A version saved, by the turn of the lambda: by a merge, or beside it    *)
(* from whatever version its author had read.                              *)
SaveVersion(content) == Newest < MaxVersion /\ versions' = Append(versions, content)

EditLambda ==
  /\ edits < MaxEdits
  /\ \E n \in 1 .. Newest : SaveVersion(versions[n] \union {edits + 1})
  /\ edits' = edits + 1
  /\ UNCHANGED <<rows, files, turn, pc, call, known, history, failures>>

(* CreateAsync: the row, then the folder, then the copy of the data; all   *)
(* of it is taken back when that fails.                                    *)
Create(p, f) ==
  /\ row[f] = "none"
  /\ Go(p, "idle", "write")
  /\ feature' = [feature EXCEPT ![p] = f]
  /\ row' = [row EXCEPT ![f] = "there"]
  /\ \E from \in 1 .. Newest :
       base' = [base EXCEPT ![f] = from] /\ code' = [code EXCEPT ![p] = versions[from]]
  /\ UNCHANGED <<versions, revision, files, turn, read, brought, known, edits, history, failures>>

WriteCode(p) ==
  /\ Go(p, "write", "copy")
  /\ files' = [files EXCEPT ![feature[p]] = code[p]]
  /\ UNCHANGED <<versions, rows, turn, call, known, edits, history, failures>>

Copied(p) ==
  /\ pc[p] = "copy" /\ End(p)
  /\ UNCHANGED <<versions, rows, files, turn, known, edits, history, failures>>

CopyFails(p) ==
  /\ pc[p] \in {"write", "copy"} /\ pc' = [pc EXCEPT ![p] = "uncreate"]
  /\ failures < MaxFailures /\ failures' = failures + 1
  /\ files' = [files EXCEPT ![feature[p]] = NoFiles]
  /\ UNCHANGED <<versions, rows, turn, call, known, edits, history>>

Uncreate(p) ==
  /\ pc[p] = "uncreate" /\ End(p)
  /\ row' = [row EXCEPT ![feature[p]] = IF @ = "there" THEN "undone" ELSE @]
  /\ UNCHANGED <<versions, base, revision, files, turn, known, edits, history, failures>>

-------------------------------------------------------------------------------
(* Get: the row, then the files, in nobody's turn.                         *)
Read_FilesFirst(p, f) ==
  /\ There(f) /\ Has(f)
  /\ Go(p, "idle", "reading")
  /\ feature' = [feature EXCEPT ![p] = f]
  /\ read' = [read EXCEPT ![p] = revision[f]]
  /\ code' = [code EXCEPT ![p] = files[f]]
  /\ UNCHANGED <<versions, rows, files, turn, brought, known, edits, history, failures>>

Read(p, f) ==
  /\ There(f)
  /\ Go(p, "idle", "reading")
  /\ feature' = [feature EXCEPT ![p] = f]
  /\ read' = [read EXCEPT ![p] = revision[f]]
  /\ UNCHANGED <<versions, rows, files, turn, code, brought, known, edits, history, failures>>

(* What was read is worked on, and what the newest version changed may be  *)
(* brought in.                                                             *)
ReadFiles(p) ==
  /\ Has(feature[p])
  /\ Go(p, "reading", "editing")
  /\ \E n \in {None, Newest} :
       /\ brought' = [brought EXCEPT ![p] = n]
       /\ code' = [code EXCEPT ![p] = files[feature[p]] \union (IF n = None THEN {} ELSE versions[n])]
  /\ UNCHANGED <<versions, rows, files, turn, feature, read, known, edits, history, failures>>

NoLongerAvailable(p) ==
  /\ ~Has(feature[p])
  /\ pc[p] = "reading" /\ End(p)
  /\ UNCHANGED <<versions, rows, files, turn, known, edits, history, failures>>

LockSave_Unchecked(p) ==
  /\ There(feature[p]) /\ edits < MaxEdits
  /\ pc[p] \in {"editing", "pushing"} /\ pc' = [pc EXCEPT ![p] = "saving"] /\ Take(p)
  /\ edits' = edits + 1
  /\ code' = [code EXCEPT ![p] = @ \union {edits + 1}]
  /\ files' = [files EXCEPT ![feature[p]] = code'[p]]
  /\ UNCHANGED <<versions, rows, feature, read, brought, known, history, failures>>

(* Save: in the turn, unless it was saved since the revision that was read *)
(* - or, by an upload, whatever was saved and read - the files ...         *)
LockSave(p) ==
  /\ There(feature[p]) /\ read[p] = revision[feature[p]] /\ edits < MaxEdits
  /\ pc[p] \in {"editing", "pushing"} /\ pc' = [pc EXCEPT ![p] = "saving"] /\ Take(p)
  /\ edits' = edits + 1
  /\ code' = [code EXCEPT ![p] = @ \union {edits + 1}]
  /\ files' = [files EXCEPT ![feature[p]] = code'[p]]
  /\ UNCHANGED <<versions, rows, feature, read, brought, known, history, failures>>

Upload(u, f) ==
  /\ There(f) /\ edits < MaxEdits
  /\ Go(u, "idle", "saving")
  /\ Free(f) /\ turn' = [turn EXCEPT ![f] = u]
  /\ feature' = [feature EXCEPT ![u] = f]
  /\ edits' = edits + 1
  /\ code' = [code EXCEPT ![u] = {edits + 1}]
  /\ files' = [files EXCEPT ![f] = {edits + 1}]
  /\ blind' = blind \union {f}
  /\ UNCHANGED <<versions, rows, read, brought, known, acked, pushed, moved, undercut, failures>>

(* ... and the row.  Whoever brought a version in moves the base next.     *)
SaveRow(p) ==
  /\ pc[p] = "saving" /\ There(feature[p])
  /\ revision' = [revision EXCEPT ![feature[p]] = @ + 1]
  /\ acked' = [acked EXCEPT ![feature[p]] = @ \union code[p]]
  /\ GiveBack(p)
  /\ IF brought[p] # None
     THEN pc' = [pc EXCEPT ![p] = "bring"] /\ UNCHANGED call
     ELSE End(p)
  /\ UNCHANGED <<versions, row, base, files, known, edits, pushed, blind, moved, undercut, failures>>

(* A commit fails and the call with it: of a save, of a removal - whatever *)
(* was merged before stays a version - or of taking a creation back.       *)
CommitFails(p) ==
  /\ pc[p] \in {"saving", "merged", "removing", "uncreate"} /\ End(p)
  /\ turn' = IF turn[feature[p]] = p THEN [turn EXCEPT ![feature[p]] = Nobody] ELSE turn
  /\ failures < MaxFailures /\ failures' = failures + 1
  /\ UNCHANGED <<versions, rows, files, known, edits, history>>

(* The row went with a creation that was taken back.                       *)
RowVanished(p) ==
  /\ pc[p] \in {"saving", "merged"} /\ ~There(feature[p])
  /\ End(p) /\ GiveBack(p)
  /\ UNCHANGED <<versions, rows, files, known, edits, history, failures>>

SaveRefused(p) ==
  /\ pc[p] \in {"editing", "pushing"} /\ Free(feature[p])
  /\ ~There(feature[p]) \/ read[p] # revision[feature[p]]
  /\ End(p)
  /\ UNCHANGED <<versions, rows, files, turn, known, edits, history, failures>>

Undercut(f) == {p \in Callers : pc[p] = "checking" /\ feature[p] = f}

(* Update: the base is moved to any version there is.  The one the same    *)
(* caller has just brought in and saved is the one it should be moved to,  *)
(* but nothing checks that.                                                *)
MoveBase(p, f, n) ==
  /\ pc[p] = "idle" \/ (pc[p] = "bring" /\ feature[p] = f)
  /\ There(f) /\ Free(f)
  /\ base' = [base EXCEPT ![f] = n]
  /\ IF pc[p] = "bring" /\ brought[p] = n
     THEN UNCHANGED <<moved, undercut>>
     ELSE moved' = moved \union {f} /\ undercut' = undercut \union Undercut(f)
  /\ End(p)
  /\ UNCHANGED <<versions, row, revision, files, turn, known, edits, acked, pushed, blind, failures>>

Rest(p) ==
  /\ pc[p] = "bring" /\ End(p)
  /\ UNCHANGED <<versions, rows, files, turn, known, edits, history, failures>>

-------------------------------------------------------------------------------
StartMerge_SameToo(p, f) ==
  /\ There(f) /\ Free(f) /\ Has(f) /\ base[f] = Newest
  /\ Go(p, "idle", "checking")
  /\ feature' = [feature EXCEPT ![p] = f]
  /\ code' = [code EXCEPT ![p] = files[f]] /\ read' = [read EXCEPT ![p] = revision[f]]
  /\ brought' = [brought EXCEPT ![p] = base[f]]
  /\ undercut' = undercut \ {p}
  /\ UNCHANGED <<versions, rows, files, turn, known, edits, acked, pushed, blind, moved, failures>>

(* MergeAsync: what is to be merged is read in the turn, and checked       *)
(* outside of it.                                                          *)
StartMerge(p, f) ==
  /\ There(f) /\ Free(f) /\ Has(f)
  /\ base[f] = Newest /\ files[f] # versions[base[f]]
  /\ Go(p, "idle", "checking")
  /\ feature' = [feature EXCEPT ![p] = f]
  /\ code' = [code EXCEPT ![p] = files[f]] /\ read' = [read EXCEPT ![p] = revision[f]]
  /\ brought' = [brought EXCEPT ![p] = base[f]]
  /\ undercut' = undercut \ {p}
  /\ UNCHANGED <<versions, rows, files, turn, known, edits, acked, pushed, blind, moved, failures>>

DoesNotCompile(p) ==
  /\ pc[p] = "checking" /\ End(p)
  /\ UNCHANGED <<versions, rows, files, turn, known, edits, history, failures>>

Merged_ToAnyBase(p) ==
  /\ There(feature[p]) /\ read[p] = revision[feature[p]]
  /\ Go(p, "checking", "merged") /\ Take(p)
  /\ SaveVersion(code[p])
  /\ UNCHANGED <<rows, files, call, known, edits, history, failures>>

(* Merged: in the turn again, what was checked becomes the next version,   *)
(* unless the feature was saved meanwhile or is not based on the newest.   *)
Merged(p) ==
  /\ There(feature[p]) /\ read[p] = revision[feature[p]] /\ base[feature[p]] = Newest
  /\ Go(p, "checking", "merged") /\ Take(p)
  /\ SaveVersion(code[p])
  /\ UNCHANGED <<rows, files, call, known, edits, history, failures>>

MergeRefused(p) ==
  /\ pc[p] = "checking" /\ Free(feature[p])
  /\ \/ ~There(feature[p])
     \/ read[p] # revision[feature[p]]
     \/ base[feature[p]] # Newest
  /\ End(p)
  /\ UNCHANGED <<versions, rows, files, turn, known, edits, history, failures>>

(* Remove: the row, then the folder.                                       *)
RemoveRow(p) ==
  /\ There(feature[p])
  /\ Go(p, "merged", "removing")
  /\ row' = [row EXCEPT ![feature[p]] = "merged"]
  /\ UNCHANGED <<versions, base, revision, files, turn, call, known, edits, history, failures>>

RemoveFiles(p) ==
  /\ pc[p] = "removing" /\ End(p) /\ GiveBack(p)
  /\ files' = [files EXCEPT ![feature[p]] = NoFiles]
  /\ UNCHANGED <<versions, rows, known, edits, history, failures>>

Delete(p, f) ==
  /\ There(f)
  /\ Free(f) /\ turn' = [turn EXCEPT ![f] = p]
  /\ Go(p, "idle", "removing")
  /\ feature' = [feature EXCEPT ![p] = f]
  /\ row' = [row EXCEPT ![f] = "deleted"]
  /\ UNCHANGED <<versions, base, revision, files, code, read, brought, known, edits, history, failures>>

-------------------------------------------------------------------------------
(* PushAsync: what the client built on is what the branch holds now ...    *)
PushSync(g, f) ==
  /\ There(f) /\ Has(f)
  /\ Go(g, "idle", "synced")
  /\ feature' = [feature EXCEPT ![g] = f]
  /\ code' = [code EXCEPT ![g] = files[f]]
  /\ UNCHANGED <<versions, rows, files, turn, read, brought, known, edits, history, failures>>

(* ... FeatureAsync: the feature is read again, and the pushed commits     *)
(* hold a version, the one it is based on or a later one ...               *)
PushFeature(g) ==
  /\ There(feature[g])
  /\ Go(g, "synced", "listed")
  /\ read' = [read EXCEPT ![g] = revision[feature[g]]]
  /\ \E n \in base[feature[g]] .. Newest :
       /\ brought' = [brought EXCEPT ![g] = n]
       /\ code' = [code EXCEPT ![g] = @ \union versions[n]]
  /\ UNCHANGED <<versions, rows, files, turn, feature, known, edits, history, failures>>

(* ... its base is moved to that version, if it is another ...             *)
PushBase(g) ==
  /\ There(feature[g]) /\ base[feature[g]] # brought[g]
  /\ Free(feature[g])
  /\ Go(g, "listed", "pushing")
  /\ base' = [base EXCEPT ![feature[g]] = brought[g]]
  /\ read' = [read EXCEPT ![g] = revision[feature[g]]]
  /\ brought' = [brought EXCEPT ![g] = None]
  /\ pushed' = pushed \union {feature[g]} /\ undercut' = undercut \union Undercut(feature[g])
  /\ UNCHANGED <<versions, row, revision, files, turn, feature, code, known, edits, acked, blind, moved, failures>>

(* ... and what was pushed is saved, like any save (LockSave).             *)
PushSave(g) ==
  /\ base[feature[g]] = brought[g]
  /\ Go(g, "listed", "pushing")
  /\ brought' = [brought EXCEPT ![g] = None]
  /\ pushed' = pushed \union {feature[g]}
  /\ UNCHANGED <<versions, rows, files, turn, feature, code, read, known, edits, acked, blind, moved, undercut, failures>>

PushVanished(g) ==
  /\ ~There(feature[g]) /\ pc[g] \in {"synced", "listed"}
  /\ End(g)
  /\ UNCHANGED <<versions, rows, files, turn, known, edits, history, failures>>

-------------------------------------------------------------------------------
(* Sweep: folders without a row are removed, by the rows read first.       *)
SweepBegin(s) ==
  /\ known[s] = Features
  /\ known' = [known EXCEPT ![s] = {f \in Features : There(f)}]
  /\ UNCHANGED <<versions, rows, files, turn, pc, call, edits, history, failures>>

SweepFolder(s, f) ==
  /\ f \notin known[s] /\ Has(f)
  /\ files' = [files EXCEPT ![f] = NoFiles]
  /\ UNCHANGED <<versions, rows, turn, pc, call, known, edits, history, failures>>

SweepEnd(s) ==
  /\ known[s] # Features
  /\ known' = [known EXCEPT ![s] = Features]
  /\ UNCHANGED <<versions, rows, files, turn, pc, call, edits, history, failures>>

(* The process dies and starts again: what is written stays.               *)
Crash ==
  /\ failures < MaxFailures /\ failures' = failures + 1
  /\ pc' = [p \in Callers |-> "idle"]
  /\ turn' = [f \in Features |-> Nobody]
  /\ code' = [p \in Callers |-> {}] /\ read' = [p \in Callers |-> 0]
  /\ brought' = [p \in Callers |-> None]
  /\ known' = [s \in Sweepers |-> Features]
  /\ UNCHANGED <<versions, rows, files, feature, edits, history>>

-------------------------------------------------------------------------------
SaveStep(p) == LockSave(p) \/ SaveRow(p) \/ CommitFails(p) \/ RowVanished(p) \/ SaveRefused(p)

MergeStep(p) == DoesNotCompile(p) \/ Merged(p) \/ MergeRefused(p) \/ RemoveRow(p) \/ RemoveFiles(p)

CreateStep(p) == WriteCode(p) \/ Copied(p) \/ CopyFails(p) \/ Uncreate(p)

CallNext(p) ==
  \/ \E f \in Features : Create(p, f) \/ Read(p, f) \/ StartMerge(p, f) \/ Delete(p, f)
  \/ \E f \in Features, n \in 1 .. Newest : MoveBase(p, f, n)
  \/ CreateStep(p) \/ ReadFiles(p) \/ NoLongerAvailable(p) \/ Rest(p) \/ SaveStep(p) \/ MergeStep(p)

PushNext(g) ==
  \/ \E f \in Features : PushSync(g, f)
  \/ PushFeature(g) \/ PushBase(g) \/ PushSave(g) \/ PushVanished(g)

SweeperNext(s) == SweepBegin(s) \/ SweepEnd(s) \/ \E f \in Features : SweepFolder(s, f)

Next ==
  \/ \E p \in Callers : CallNext(p)
  \/ \E g \in Pushers : PushNext(g)
  \/ \E u \in Uploaders, f \in Features : Upload(u, f)
  \/ \E s \in Sweepers : SweeperNext(s)
  \/ EditLambda \/ Crash

Spec == Init /\ [][Next]_vars

-------------------------------------------------------------------------------
(* The step that makes a feature the next version.                         *)
Merges(p) == pc[p] = "checking" /\ pc'[p] = "merged"

(* No merge undoes what a version changed: whatever the newest holds is in *)
(* the next one too, however saves, merges and moves of the base           *)
(* interleave - unless somebody said it was in where nobody had brought it *)
(* in, or replaced the feature by what was not made from it                *)
(* (FeatureService.Merged, Behind).                                        *)
VersionsBuildOn ==
  [][\A p \in Callers :
       Merges(p) /\ feature[p] \notin blind \union pushed \union moved
         => versions[Newest] \subseteq versions'[Newest + 1]]_vars

(* A feature is not merged twice, not even one that is left behind after   *)
(* its version was saved - unless its base is moved to that version, with  *)
(* nothing brought in, while it is checked (FeatureService.MergeAsync).    *)
MergedOnce ==
  [][\A p \in Callers :
       Merges(p) /\ p \notin undercut => versions'[Newest + 1] # versions[Newest]]_vars

InVersion(f) == \E v \in 1 .. Newest : acked[f] \subseteq versions[v]

Kept(f) ==
  /\ There(f) /\ Has(f) => acked[f] \subseteq files[f]
  /\ row[f] = "merged" => InVersion(f)

(* What a confirmed save made of a feature is in the feature until it is   *)
(* in a version, unless somebody deletes it - as long as whoever saves it  *)
(* says what the save was made from, and nobody pushes to it               *)
(* (FeatureService.Save and Merged).                                       *)
WorkKept == \A f \in Features \ (blind \union pushed) : Kept(f)

(* A turn is held by the one call that writes, from the version it saves   *)
(* to the folder it removes (FeatureService._stripes).                     *)
OneWriter ==
  \A f \in Features : \A p \in Callers :
    turn[f] = p <=> feature[p] = f /\ pc[p] \in {"saving", "merged", "removing"}

-------------------------------------------------------------------------------
(* Behind them: what every call knows of its feature between its steps.    *)

(* Versions are numbered as they come, revisions as they are saved.        *)
NumbersKnown ==
  /\ \A f \in Features : base[f] <= Newest /\ revision[f] <= edits
  /\ \A p \in Callers :
       /\ brought[p] <= Newest /\ read[p] <= revision[feature[p]]
       /\ pc[p] = "idle" => read[p] = 0 /\ brought[p] = None
       /\ pc[p] = "saving" => revision[feature[p]] < edits
       /\ pc[p] \in {"bring", "listed"} => brought[p] # None

(* A feature saved by nobody who did not know what was replaced, and one   *)
(* whose base holds what it says as well.                                  *)
Unforced(f) == f \notin blind \union pushed
Sound(f) == f \notin blind \union pushed \union moved

EditsMade ==
  /\ \A v \in 1 .. Newest : versions[v] \subseteq 1 .. edits
  /\ \A p \in Callers : code[p] \subseteq 1 .. edits
  /\ \A f \in Features : Has(f) => files[f] \subseteq 1 .. edits

(* Nobody is about a feature before it is started ...                      *)
BeforeStart ==
  \A f \in Features : row[f] = "none" =>
    /\ ~Has(f) /\ acked[f] = {}
    /\ \A p \in Callers : feature[p] = f => pc[p] = "idle"

(* ... and nobody saves it before its files are written, except an upload. *)
CreatorAlone ==
  \A p \in Callers : pc[p] = "write" /\ Unforced(feature[p]) =>
    /\ ~Has(feature[p]) /\ acked[feature[p]] = {}
    /\ Sound(feature[p]) => versions[base[feature[p]]] \subseteq code[p]
    /\ \A q \in Callers \ {p} : feature[q] = feature[p] => pc[q] \in {"idle", "reading", "removing"}

(* What the code of a feature has to hold: what was confirmed, the version *)
(* it is based on, and the versions its base is about to be moved to.      *)
Holds(f, content) ==
  /\ Unforced(f) => acked[f] \subseteq content
  /\ Sound(f) =>
       /\ versions[base[f]] \subseteq content
       /\ \A q \in Callers : pc[q] = "bring" /\ feature[q] = f => versions[brought[q]] \subseteq content

(* Its files do, and the code of every call that will not be refused.      *)
FilesHold == \A f \in Features : Has(f) => Holds(f, files[f])

CodeHolds ==
  \A p \in Callers :
    /\ pc[p] \in {"editing", "checking"} /\ read[p] = revision[feature[p]] => Holds(feature[p], code[p])
    /\ pc[p] \in {"editing", "saving"} /\ brought[p] # None => versions[brought[p]] \subseteq code[p]
    /\ pc[p] = "saving" =>
         /\ Holds(feature[p], code[p])
         /\ Unforced(feature[p]) /\ Has(feature[p]) => files[feature[p]] = code[p]

(* What is checked to be merged is not what the newest version is.         *)
MergeIsNew ==
  \A p \in Callers : pc[p] = "checking" /\ read[p] = revision[feature[p]] /\ p \notin undercut =>
    /\ base[feature[p]] = Newest => code[p] # versions[Newest]
    /\ \A q \in Callers : pc[q] = "bring" /\ feature[q] = feature[p] /\ brought[q] = Newest => code[p] # versions[Newest]

MergeHolds ==
  \A p \in Callers :
    pc[p] = "merged" /\ There(feature[p]) /\ Unforced(feature[p]) => InVersion(feature[p])

(* Whoever saves without having read is known to.                          *)
PushKnown == \A p \in Callers : pc[p] = "pushing" => feature[p] \in pushed /\ brought[p] = None

Standing == TypeOK /\ OneWriter /\ NumbersKnown /\ EditsMade /\ BeforeStart

Building == PushKnown /\ CreatorAlone /\ FilesHold /\ CodeHolds /\ MergeIsNew /\ MergeHolds

IInv == Standing /\ Building /\ WorkKept

-------------------------------------------------------------------------------
(* What the code says of itself and does not keep.                         *)

(* A push to a branch that moved on is refused: what was saved since the   *)
(* client fetched stays (GitPushes.FeatureAsync).                          *)
PushesKeepWork == \A f \in Features \ blind : Kept(f)

(* "A save made from what somebody else has since replaced would replace   *)
(* their work without anybody knowing": nor is it lost as a creation is    *)
(* taken back that others worked on already (FeatureService.CreateAsync).  *)
CreationKeepsWork == \A f \in Features : row[f] = "undone" => InVersion(f)

(* A folder without a row is one left behind, so a feature that was        *)
(* started has its files (FeatureService.Sweep).                           *)
StartedHasFiles ==
  \A f \in Features : There(f) => Has(f) \/ \E p \in Callers : feature[p] = f /\ pc[p] = "write"
===============================================================================
