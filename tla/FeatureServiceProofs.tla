------------------------- MODULE FeatureServiceProofs -------------------------
(***************************************************************************)
(* What holds of FeatureService for any number of calls, sweeps, features  *)
(* and edits: the turns exclude each other, no merge undoes the newest     *)
(* version or makes it over again, and confirmed work is kept.             *)
(*                                                                         *)
(* Most steps only take something away - a row, files, what a call was     *)
(* about - or read: one lemma covers them all (FewerKeep).  Versions that  *)
(* are appended share another, moves of a base a third, and each step that *)
(* writes files or rows has its own.                                       *)
(***************************************************************************)
EXTENDS FeatureService, TLAPS

(* Before anything is started there is one version, and it is empty.       *)
LEMMA InitInvariant == Init => IInv
<1> SUFFICES ASSUME Init PROVE IInv
  OBVIOUS
<1> USE BoundAssumption, ProcessAssumption DEF Init, Newest, Has, There
<1>1. TypeOK
  BY DEF TypeOK, Numbers, None
<1>2. OneWriter /\ NumbersKnown /\ EditsMade /\ BeforeStart /\ PushKnown /\ CreatorAlone
  BY <1>1 DEF TypeOK, OneWriter, NumbersKnown, EditsMade, BeforeStart, PushKnown, CreatorAlone, None, Numbers
<1>3. FilesHold /\ CodeHolds /\ MergeIsNew /\ MergeHolds /\ WorkKept
  BY <1>1 DEF TypeOK, FilesHold, CodeHolds, MergeIsNew, MergeHolds, WorkKept, Kept
<1> QED
  BY <1>1, <1>2, <1>3 DEF IInv, Standing, Building

-------------------------------------------------------------------------------
(* Every step keeps the types, and a turn with the call that writes.       *)
LEMMA TypeKept == ASSUME TypeOK, NumbersKnown, Next PROVE TypeOK'
<1> USE BoundAssumption, ProcessAssumption DEF TypeOK, Newest, Numbers, None, Edits
<1>0. ASSUME NEW p \in Callers, End(p)
      PROVE  /\ feature' \in [Callers -> Features] /\ code' \in [Callers -> SUBSET Edits]
             /\ read' \in [Callers -> 0 .. MaxEdits] /\ brought' \in [Callers -> Numbers \union {None}]
             /\ pc' = [pc EXCEPT ![p] = "idle"]
  BY <1>0 DEF End
<1>1. ASSUME NEW p \in Callers, NEW f \in Features, Create(p, f) PROVE TypeOK'
  <2>1. base' \in [Features -> Numbers] /\ code' \in [Callers -> SUBSET Edits]
    BY <1>1 DEF Create
  <2> QED
    BY <1>1, <2>1 DEF Create, Go, history
<1>2. ASSUME NEW p \in Callers, NEW f \in Features, Read(p, f) PROVE TypeOK'
  BY <1>2 DEF Read, Go, history, rows
<1>3. ASSUME NEW p \in Callers, NEW f \in Features, StartMerge(p, f) PROVE TypeOK'
  BY <1>3 DEF StartMerge, Go, rows, Has
<1>4. ASSUME NEW p \in Callers, NEW f \in Features, Delete(p, f) PROVE TypeOK'
  BY <1>4 DEF Delete, Go, history
<1>5. ASSUME NEW p \in Callers, NEW f \in Features, NEW n \in 1 .. Newest, MoveBase(p, f, n) PROVE TypeOK'
  <2>1. base' \in [Features -> Numbers] /\ moved' \subseteq Features /\ undercut' \subseteq Callers
    BY <1>5 DEF MoveBase, Undercut
  <2> QED
    BY <1>0, <1>5, <2>1 DEF MoveBase
<1>6. ASSUME NEW p \in Callers, WriteCode(p) PROVE TypeOK'
  BY <1>6 DEF WriteCode, Go, history, rows, call
<1>7. ASSUME NEW p \in Callers, CopyFails(p) PROVE TypeOK'
  BY <1>7 DEF CopyFails, history, rows, call
<1>8. ASSUME NEW p \in Callers, Copied(p) \/ Uncreate(p) PROVE TypeOK'
  <2>1. row' \in [Features -> {"none", "there", "undone", "merged", "deleted"}]
    <3>1. CASE Copied(p)
      BY <3>1 DEF Copied, rows
    <3>2. CASE Uncreate(p)
      <4>1. \E r \in {"none", "there", "undone", "merged", "deleted"} : row' = [row EXCEPT ![feature[p]] = r]
        BY <3>2 DEF Uncreate
      <4> QED
        BY <4>1
    <3> QED
      BY <1>8, <3>1, <3>2
  <2> QED
    BY <1>0, <1>8, <2>1 DEF Copied, Uncreate, history, rows
<1>9. ASSUME NEW p \in Callers, ReadFiles(p) PROVE TypeOK'
  <2>1. PICK n \in {None, Newest} :
          /\ brought' = [brought EXCEPT ![p] = n]
          /\ code' = [code EXCEPT ![p] = files[feature[p]] \union (IF n = None THEN {} ELSE versions[n])]
    BY <1>9 DEF ReadFiles
  <2>2. files[feature[p]] \in SUBSET Edits
    BY <1>9 DEF ReadFiles, Has
  <2>3. n # None => versions[n] \in SUBSET Edits
    BY <2>1
  <2>4. code' \in [Callers -> SUBSET Edits] /\ brought' \in [Callers -> Numbers \union {None}]
    BY <2>1, <2>2, <2>3
  <2> QED
    BY <2>4, <1>9 DEF ReadFiles, Go, history, rows
<1>10. ASSUME NEW p \in Callers, NoLongerAvailable(p) \/ Rest(p) PROVE TypeOK'
  BY <1>0, <1>10 DEF NoLongerAvailable, Rest, history, rows
<1>11. ASSUME NEW p \in Callers, LockSave(p) PROVE TypeOK'
  BY <1>11 DEF LockSave, Take, history, rows
<1>12. ASSUME NEW p \in Callers, SaveRow(p) PROVE TypeOK'
  <2>1. /\ feature' \in [Callers -> Features] /\ code' \in [Callers -> SUBSET Edits]
        /\ read' \in [Callers -> 0 .. MaxEdits] /\ brought' \in [Callers -> Numbers \union {None}]
        /\ pc' = [pc EXCEPT ![p] = "idle"] \/ pc' = [pc EXCEPT ![p] = "bring"]
    BY <1>0, <1>12 DEF SaveRow, call
  <2>2. revision' \in [Features -> 0 .. MaxEdits]
    BY <1>12 DEF SaveRow, NumbersKnown
  <2>3. acked' \in [Features -> SUBSET Edits]
    BY <1>12 DEF SaveRow
  <2> QED
    BY <2>1, <2>2, <2>3, <1>12 DEF SaveRow, GiveBack
<1>13. ASSUME NEW p \in Callers, CommitFails(p) PROVE TypeOK'
  <2>1. turn' \in [Features -> Callers \union {Nobody}] /\ failures' \in 0 .. MaxFailures
    BY <1>13 DEF CommitFails
  <2> QED
    BY <1>0, <1>13, <2>1 DEF CommitFails, history, rows
<1>14. ASSUME NEW p \in Callers, RowVanished(p) \/ SaveRefused(p) PROVE TypeOK'
  BY <1>0, <1>14 DEF RowVanished, SaveRefused, GiveBack, history, rows
<1>15. ASSUME NEW p \in Callers, DoesNotCompile(p) \/ MergeRefused(p) PROVE TypeOK'
  BY <1>0, <1>15 DEF DoesNotCompile, MergeRefused, history, rows
<1>16. ASSUME NEW p \in Callers, Merged(p) PROVE TypeOK'
  BY <1>16 DEF Merged, SaveVersion, Take, Go, history, rows, call
<1>17. ASSUME NEW p \in Callers, RemoveRow(p) PROVE TypeOK'
  BY <1>17 DEF RemoveRow, Go, history, call
<1>18. ASSUME NEW p \in Callers, RemoveFiles(p) PROVE TypeOK'
  BY <1>0, <1>18 DEF RemoveFiles, GiveBack, history, rows
<1>19. ASSUME NEW g \in Callers, NEW f \in Features, PushSync(g, f) PROVE TypeOK'
  BY <1>19 DEF PushSync, Go, Has, history, rows
<1>20. ASSUME NEW g \in Callers, PushFeature(g) PROVE TypeOK'
  <2>1. PICK n \in base[feature[g]] .. Newest :
          brought' = [brought EXCEPT ![g] = n] /\ code' = [code EXCEPT ![g] = @ \union versions[n]]
    BY <1>20 DEF PushFeature
  <2>2. n \in Numbers /\ versions[n] \in SUBSET Edits
    BY <2>1
  <2>3. code' \in [Callers -> SUBSET Edits] /\ brought' \in [Callers -> Numbers \union {None}]
    BY <2>1, <2>2
  <2> QED
    BY <2>3, <1>20 DEF PushFeature, Go, history, rows
<1>21. ASSUME NEW g \in Callers, PushBase(g) PROVE TypeOK'
  <2>1. base' \in [Features -> Numbers]
    BY <1>21, NumbersKnown DEF PushBase, Go, NumbersKnown
  <2>2. pushed' \subseteq Features /\ undercut' \subseteq Callers
    BY <1>21 DEF PushBase, Undercut
  <2> QED
    BY <1>21, <2>1, <2>2 DEF PushBase, Go
<1>22. ASSUME NEW g \in Callers, PushSave(g) \/ PushVanished(g) PROVE TypeOK'
  <2>1. CASE PushSave(g)
    BY <2>1 DEF PushSave, Go, rows
  <2>2. CASE PushVanished(g)
    BY <1>0, <2>2 DEF PushVanished, history, rows
  <2> QED
    BY <1>22, <2>1, <2>2
<1>23. ASSUME NEW u \in Callers, NEW f \in Features, Upload(u, f) PROVE TypeOK'
  BY <1>23 DEF Upload, Go, rows
<1>24. ASSUME NEW s \in Sweepers, SweeperNext(s) PROVE TypeOK'
  <2>1. CASE SweepBegin(s) \/ SweepEnd(s)
    <3>1. known' \in [Sweepers -> SUBSET Features]
      <4>1. {f \in Features : There(f)} \in SUBSET Features
        OBVIOUS
      <4> QED
        BY <2>1, <4>1 DEF SweepBegin, SweepEnd
    <3> QED
      BY <2>1, <3>1 DEF SweepBegin, SweepEnd, history, rows, call
  <2>2. ASSUME NEW f \in Features, SweepFolder(s, f) PROVE TypeOK'
    BY <2>2 DEF SweepFolder, history, rows, call
  <2> QED
    BY <1>24, <2>1, <2>2 DEF SweeperNext
<1>25. ASSUME EditLambda PROVE TypeOK'
  BY <1>25 DEF EditLambda, SaveVersion, history, rows, call
<1>26. ASSUME Crash PROVE TypeOK'
  BY <1>26 DEF Crash, history, rows
<1> QED
  BY <1>1, <1>2, <1>3, <1>4, <1>5, <1>6, <1>7, <1>8, <1>9, <1>10, <1>11, <1>12, <1>13,
     <1>14, <1>15, <1>16, <1>17, <1>18, <1>19, <1>20, <1>21, <1>22, <1>23, <1>24, <1>25, <1>26
  DEF Next, CallNext, PushNext, CreateStep, SaveStep, MergeStep

LEMMA TurnKept == ASSUME TypeOK, OneWriter, Next PROVE OneWriter'
<1> USE ProcessAssumption DEF TypeOK, OneWriter, Free
<1>1. ASSUME NEW p \in Callers, NEW f \in Features,
             Create(p, f) \/ Read(p, f) \/ StartMerge(p, f) \/ Delete(p, f) \/ PushSync(p, f) \/ Upload(p, f)
      PROVE  OneWriter'
  BY <1>1 DEF Create, Read, StartMerge, Delete, PushSync, Upload, Go
<1>2. ASSUME NEW p \in Callers, NEW f \in Features, NEW n \in 1 .. Newest, MoveBase(p, f, n) PROVE OneWriter'
  BY <1>2 DEF MoveBase, End
<1>3. ASSUME NEW p \in Callers, CreateStep(p) PROVE OneWriter'
  BY <1>3 DEF CreateStep, WriteCode, Copied, CopyFails, Uncreate, Go, End, call
<1>4. ASSUME NEW p \in Callers, ReadFiles(p) \/ NoLongerAvailable(p) \/ Rest(p) PROVE OneWriter'
  BY <1>4 DEF ReadFiles, NoLongerAvailable, Rest, Go, End
<1>5. ASSUME NEW p \in Callers, SaveStep(p) PROVE OneWriter'
  BY <1>5 DEF SaveStep, LockSave, SaveRow, CommitFails, RowVanished, SaveRefused, Take, GiveBack, End, call
<1>6. ASSUME NEW p \in Callers, MergeStep(p) PROVE OneWriter'
  BY <1>6 DEF MergeStep, DoesNotCompile, Merged, MergeRefused, RemoveRow, RemoveFiles, Take, GiveBack, Go, End, call
<1>7. ASSUME NEW g \in Callers, PushFeature(g) \/ PushBase(g) \/ PushSave(g) \/ PushVanished(g) PROVE OneWriter'
  BY <1>7 DEF PushFeature, PushBase, PushSave, PushVanished, Go, End
<1>8. ASSUME NEW s \in Sweepers, SweeperNext(s) PROVE OneWriter'
  BY <1>8 DEF SweeperNext, SweepBegin, SweepEnd, SweepFolder, call
<1>9. ASSUME EditLambda \/ Crash PROVE OneWriter'
  BY <1>9 DEF EditLambda, Crash, call
<1> QED
  BY <1>1, <1>2, <1>3, <1>4, <1>5, <1>6, <1>7, <1>8, <1>9 DEF Next, CallNext, PushNext

-------------------------------------------------------------------------------
(* What a step leaves of the calls that do not take it ...                 *)
Same(q) ==
  /\ pc'[q] = pc[q] /\ feature'[q] = feature[q]
  /\ code'[q] = code[q] /\ read'[q] = read[q] /\ brought'[q] = brought[q]

(* ... and what every call knows that takes one.                           *)
Knows(q) ==
  /\ code'[q] \subseteq 1 .. edits' /\ brought'[q] <= Newest /\ read'[q] <= revision[feature'[q]]
  /\ pc'[q] = "idle" => read'[q] = 0 /\ brought'[q] = None
  /\ pc'[q] = "listed" => brought'[q] # None
  /\ pc'[q] = "pushing" => brought'[q] = None /\ feature'[q] \in pushed'
  /\ pc'[q] = "idle" \/ row[feature'[q]] # "none"
  /\ \/ pc'[q] \in {"idle", "reading", "removing"}
     \/ Has(feature'[q])
     \/ feature'[q] = feature[q] /\ pc[q] \notin {"idle", "reading", "removing"}

(* A call that holds no code anything is asked of ...                      *)
Light(q) ==
  /\ Knows(q)
  /\ pc'[q] \in {"idle", "reading", "removing", "synced", "listed", "pushing", "uncreate"}

(* ... and one that holds the code of its feature, as it is.               *)
Ready(q) ==
  /\ Knows(q)
  /\ pc'[q] \in {"editing", "checking"}
  /\ read'[q] = revision[feature'[q]] => Holds(feature'[q], code'[q])
  /\ pc'[q] = "editing" /\ brought'[q] # None => versions[brought'[q]] \subseteq code'[q]
  /\ pc'[q] = "checking" => base[feature'[q]] = Newest /\ code'[q] # versions[Newest]

(* Nothing is added but to what a call knows: rows and files may go.       *)
Fewer ==
  /\ UNCHANGED <<versions, base, revision, edits, acked, blind, moved>>
  /\ pushed \subseteq pushed'
  /\ \A f \in Features :
       /\ files'[f] = files[f] \/ files'[f] = NoFiles
       /\ row'[f] = row[f] \/ (row[f] = "there" /\ row'[f] \in {"undone", "merged", "deleted"})
       /\ row'[f] = "merged" /\ row[f] = "there" /\ Unforced(f) => InVersion(f)
  /\ \A q \in Callers :
       /\ Same(q) \/ Light(q) \/ Ready(q)
       /\ Same(q) /\ q \in undercut => q \in undercut'

LEMMA FewerKeep == ASSUME IInv, TypeOK', OneWriter', Fewer PROVE IInv'
<1>0. /\ TypeOK /\ NumbersKnown /\ EditsMade /\ BeforeStart /\ PushKnown /\ CreatorAlone
      /\ FilesHold /\ CodeHolds /\ MergeIsNew /\ MergeHolds /\ WorkKept
  BY DEF IInv, Standing, Building
<1>1. /\ versions' = versions /\ base' = base /\ revision' = revision /\ edits' = edits
      /\ acked' = acked /\ blind' = blind /\ moved' = moved /\ pushed \subseteq pushed'
      /\ Newest' = Newest
  BY DEF Fewer, Newest
<1>2. \A q \in Callers : Same(q) \/ Light(q) \/ Ready(q)
  BY DEF Fewer
<1>3. \A f \in Features : Has(f)' => Has(f) /\ files'[f] = files[f]
  BY DEF Fewer, Has
<1>4. \A f \in Features : /\ Unforced(f)' => Unforced(f)
                          /\ Sound(f)' => Sound(f)
                          /\ InVersion(f)' <=> InVersion(f)
                          /\ There(f)' => There(f)
                          /\ (row[f] # "none") => row'[f] # "none"
                          /\ (row'[f] = "none") => row[f] = "none"
  BY <1>1 DEF Fewer, Unforced, Sound, InVersion, There
<1>5. \A q \in Callers : pc'[q] \in {"bring", "saving", "write", "merged", "copy"} => Same(q)
  BY <1>2 DEF Light, Ready
<1>6. \A f \in Features : \A content : Holds(f, content) => Holds(f, content)'
  BY <1>1, <1>4, <1>5 DEF Holds, Same
<1>7. feature \in [Callers -> Features] /\ feature' \in [Callers -> Features]
  BY <1>0 DEF TypeOK
<1>8. NumbersKnown'
  BY <1>0, <1>1, <1>2, <1>7 DEF NumbersKnown, Same, Light, Ready, Knows
<1>9. EditsMade'
  <2>1. \A q \in Callers : code'[q] \subseteq 1 .. edits
    BY <1>0, <1>1, <1>2 DEF EditsMade, Same, Light, Ready, Knows
  <2> QED
    BY <2>1, <1>0, <1>1, <1>3 DEF EditsMade
<1>10. BeforeStart'
  BY <1>0, <1>1, <1>2, <1>3, <1>4, <1>7 DEF BeforeStart, Same, Light, Ready, Knows
<1>11. PushKnown'
  BY <1>0, <1>1, <1>2, <1>7 DEF PushKnown, Same, Light, Ready, Knows
<1>12. CreatorAlone'
  <2>1. ASSUME NEW p \in Callers, pc'[p] = "write", Unforced(feature[p])'
        PROVE  /\ ~Has(feature[p])' /\ acked'[feature'[p]] = {}
               /\ Sound(feature[p])' => versions'[base'[feature'[p]]] \subseteq code'[p]
               /\ \A q \in Callers \ {p} : feature'[q] = feature'[p] => pc'[q] \in {"idle", "reading", "removing"}
    <3>1. Same(p) /\ Unforced(feature[p]) /\ pc[p] = "write" /\ feature'[p] = feature[p]
      BY <2>1, <1>4, <1>5, <1>7 DEF Same
    <3>2. /\ ~Has(feature[p]) /\ acked[feature[p]] = {}
          /\ Sound(feature[p]) => versions[base[feature[p]]] \subseteq code[p]
          /\ \A q \in Callers \ {p} : feature[q] = feature[p] => pc[q] \in {"idle", "reading", "removing"}
      BY <1>0, <3>1 DEF CreatorAlone
    <3>3. ASSUME NEW q \in Callers \ {p}, feature'[q] = feature'[p] PROVE pc'[q] \in {"idle", "reading", "removing"}
      BY <1>2, <3>1, <3>2, <3>3 DEF Same, Light, Ready, Knows
    <3> QED
      BY <3>1, <3>2, <3>3, <1>1, <1>3, <1>4, <1>7 DEF Same
  <2> QED
    BY <2>1 DEF CreatorAlone
<1>13. FilesHold'
  BY <1>0, <1>3, <1>6 DEF FilesHold
<1>14. CodeHolds'
  <2>1. ASSUME NEW p \in Callers, pc'[p] \in {"editing", "checking"}, read'[p] = revision'[feature'[p]]
        PROVE  Holds(feature[p], code[p])'
    BY <2>1, <1>0, <1>1, <1>2, <1>6, <1>7 DEF CodeHolds, Same, Light, Ready
  <2>2. ASSUME NEW p \in Callers, pc'[p] \in {"editing", "saving"}, brought'[p] # None
        PROVE  versions'[brought'[p]] \subseteq code'[p]
    BY <2>2, <1>0, <1>1, <1>2 DEF CodeHolds, Same, Light, Ready
  <2>3. ASSUME NEW p \in Callers, pc'[p] = "saving"
        PROVE  /\ Holds(feature[p], code[p])'
               /\ Unforced(feature[p])' /\ Has(feature[p])' => files'[feature'[p]] = code'[p]
    BY <2>3, <1>0, <1>3, <1>4, <1>5, <1>6, <1>7 DEF CodeHolds, Same
  <2> QED
    BY <2>1, <2>2, <2>3 DEF CodeHolds
<1>15. MergeIsNew'
  <2>1. ASSUME NEW p \in Callers, pc'[p] = "checking", read'[p] = revision'[feature'[p]], p \notin undercut'
        PROVE  /\ base'[feature'[p]] = Newest' => code'[p] # versions'[Newest']
               /\ \A q \in Callers : pc'[q] = "bring" /\ feature'[q] = feature'[p] /\ brought'[q] = Newest' => code'[p] # versions'[Newest']
    <3>1. CASE Same(p)
      <4>1. p \notin undercut
        BY <2>1, <3>1 DEF Fewer
      <4> QED
        BY <2>1, <3>1, <4>1, <1>0, <1>1, <1>5 DEF MergeIsNew, Same
    <3>2. CASE Ready(p)
      BY <2>1, <3>2, <1>1 DEF Ready
    <3> QED
      BY <2>1, <3>1, <3>2, <1>2 DEF Light
  <2> QED
    BY <2>1 DEF MergeIsNew
<1>16. MergeHolds'
  BY <1>0, <1>4, <1>5, <1>7 DEF MergeHolds, Same
<1>17. WorkKept'
  BY <1>0, <1>1, <1>3, <1>4 DEF WorkKept, Kept, Fewer, Unforced, There
<1> QED
  BY <1>8, <1>9, <1>10, <1>11, <1>12, <1>13, <1>14, <1>15, <1>16, <1>17 DEF IInv, Standing, Building

-------------------------------------------------------------------------------
(* The steps that only take away or read.  What a call knows as it ends.   *)
LEMMA Ends == ASSUME TypeOK, NumbersKnown, NEW p \in Callers, End(p), UNCHANGED <<edits, pushed>>
              PROVE  Light(p) /\ pc'[p] = "idle" /\ \A q \in Callers \ {p} : Same(q)
<1> USE DEF TypeOK, End, NumbersKnown, Numbers, Newest
<1>1. Light(p) /\ pc'[p] = "idle"
  BY DEF Light, Knows, None
<1>2. \A q \in Callers \ {p} : Same(q)
  BY DEF Same
<1> QED
  BY <1>1, <1>2

(* A call that ends after it read, wrote, or was refused.                  *)
LEMMA EndKeeps ==
  ASSUME IInv, TypeOK', OneWriter', NEW p \in Callers,
         Copied(p) \/ NoLongerAvailable(p) \/ Rest(p) \/ CommitFails(p) \/ RowVanished(p) \/ SaveRefused(p)
           \/ DoesNotCompile(p) \/ MergeRefused(p) \/ RemoveFiles(p) \/ PushVanished(p) \/ Uncreate(p)
  PROVE  IInv'
<1>0. TypeOK /\ NumbersKnown
  BY DEF IInv, Standing
<1>1. /\ UNCHANGED <<versions, base, revision, edits, acked, pushed, blind, moved, undercut>> /\ End(p)
      /\ UNCHANGED row \/ Uncreate(p)
      /\ UNCHANGED files \/ RemoveFiles(p)
  BY DEF Copied, NoLongerAvailable, Rest, CommitFails, RowVanished, SaveRefused, DoesNotCompile, MergeRefused,
         RemoveFiles, PushVanished, Uncreate, rows, history
<1>2. Light(p) /\ \A q \in Callers \ {p} : Same(q)
  BY <1>0, <1>1, Ends
<1>3. \A f \in Features : files'[f] = files[f] \/ files'[f] = NoFiles
  BY <1>0, <1>1 DEF TypeOK, RemoveFiles
<1>4. \A f \in Features : row'[f] = row[f] \/ (row[f] = "there" /\ row'[f] = "undone")
  BY <1>0, <1>1 DEF TypeOK, Uncreate
<1>5. Fewer
  BY <1>1, <1>2, <1>3, <1>4 DEF Fewer
<1> QED
  BY <1>5, FewerKeep

(* A call that reads a feature, or begins to.                              *)
LEMMA ReadKeeps ==
  ASSUME IInv, TypeOK', OneWriter', NEW p \in Callers,
         \/ \E f \in Features : Read(p, f) \/ StartMerge(p, f) \/ PushSync(p, f)
         \/ ReadFiles(p) \/ PushFeature(p) \/ PushSave(p)
  PROVE  IInv'
<1>0. TypeOK /\ NumbersKnown /\ EditsMade /\ BeforeStart /\ CreatorAlone /\ FilesHold
  BY DEF IInv, Standing, Building
<1>1. /\ UNCHANGED <<versions, base, revision, row, files, edits, acked, blind, moved>>
      /\ pushed \subseteq pushed' /\ undercut \ {p} \subseteq undercut' /\ pc'[p] # pc[p]
  BY <1>0 DEF Read, StartMerge, PushSync, ReadFiles, PushFeature, PushSave, Go, rows, history, TypeOK
<1>2. \A q \in Callers \ {p} : Same(q)
  <2>1. CASE ReadFiles(p) \/ PushFeature(p)
    BY <1>0, <2>1 DEF ReadFiles, PushFeature, Go, TypeOK, Same
  <2>2. CASE PushSave(p)
    BY <1>0, <2>2 DEF PushSave, Go, TypeOK, Same
  <2>3. ASSUME NEW f \in Features, Read(p, f) \/ PushSync(p, f) PROVE \A q \in Callers \ {p} : Same(q)
    BY <1>0, <2>3 DEF Read, PushSync, Go, TypeOK, Same
  <2>4. ASSUME NEW f \in Features, StartMerge(p, f) PROVE \A q \in Callers \ {p} : Same(q)
    BY <1>0, <2>4 DEF StartMerge, Go, TypeOK, Same
  <2> QED
    BY <2>1, <2>2, <2>3, <2>4
<1>3. ASSUME ReadFiles(p) PROVE Ready(p)
  <2>1. PICK n \in {None, Newest} :
          /\ brought' = [brought EXCEPT ![p] = n]
          /\ code' = [code EXCEPT ![p] = files[feature[p]] \union (IF n = None THEN {} ELSE versions[n])]
    BY <1>3 DEF ReadFiles
  <2>2. code'[p] = files[feature[p]] \union (IF n = None THEN {} ELSE versions[n]) /\ brought'[p] = n
    BY <1>0, <2>1 DEF TypeOK
  <2>3. Newest \in Nat /\ Newest >= 1
    BY <1>0, BoundAssumption DEF TypeOK, Numbers
  <2>4. n <= Newest /\ (n # None => n \in 1 .. Newest)
    BY <2>1, <2>3 DEF None
  <2>5. /\ Holds(feature[p], files[feature[p]]) /\ files[feature[p]] \subseteq 1 .. edits
        /\ n # None => versions[n] \subseteq 1 .. edits
    BY <1>0, <1>3, <2>4 DEF TypeOK, ReadFiles, FilesHold, EditsMade
  <2>6. /\ files[feature[p]] \subseteq code'[p] /\ code'[p] \subseteq 1 .. edits
        /\ brought'[p] # None => versions[brought'[p]] \subseteq code'[p]
    BY <2>2, <2>5
  <2>7. Holds(feature[p], code'[p])
    BY <2>5, <2>6 DEF Holds
  <2>8. /\ pc[p] = "reading" /\ pc'[p] = "editing" /\ feature' = feature /\ read' = read /\ edits' = edits
        /\ Has(feature[p]) /\ feature[p] \in Features
    BY <1>0, <1>3 DEF TypeOK, ReadFiles, Go
  <2>9. Knows(p)
    BY <1>0, <2>2, <2>4, <2>6, <2>8 DEF Knows, NumbersKnown, BeforeStart
  <2> QED
    BY <2>6, <2>7, <2>8, <2>9 DEF Ready
<1>4. Light(p) \/ Ready(p)
  <2> USE <1>0 DEF TypeOK, NumbersKnown, Newest, Numbers, None, Go, rows, history, Knows, There
  <2>1. ASSUME NEW f \in Features, Read(p, f) PROVE Light(p)
    BY <2>1 DEF Read, Light, EditsMade
  <2>2. ASSUME NEW f \in Features, PushSync(p, f) PROVE Light(p)
    BY <2>2 DEF PushSync, Light, EditsMade
  <2>3. ASSUME PushSave(p) PROVE Light(p)
    BY <2>3 DEF PushSave, Light, EditsMade, BeforeStart
  <2>4. ASSUME PushFeature(p) PROVE Light(p)
    <3>1. PICK n \in base[feature[p]] .. Newest :
            brought' = [brought EXCEPT ![p] = n] /\ code' = [code EXCEPT ![p] = @ \union versions[n]]
      BY <2>4 DEF PushFeature
    <3>2. code'[p] \subseteq 1 .. edits' /\ brought'[p] <= Newest /\ brought'[p] # None
      BY <2>4, <3>1 DEF PushFeature, EditsMade
    <3> QED
      BY <2>4, <3>2 DEF PushFeature, Light, BeforeStart
  <2>5. ASSUME NEW f \in Features, StartMerge(p, f) PROVE Ready(p)
    <3>1. Holds(f, files[f]) /\ files[f] \subseteq 1 .. edits
      BY <2>5 DEF StartMerge, FilesHold, EditsMade
    <3> QED
      BY <2>5, <3>1 DEF StartMerge, Ready
  <2> QED
    BY <1>3, <2>1, <2>2, <2>3, <2>4, <2>5
<1>5. Fewer
  BY <1>1, <1>2, <1>4 DEF Fewer, Same
<1> QED
  BY <1>5, FewerKeep

(* What is taken away by a call that goes on.                              *)
LEMMA TakenAwayKeeps ==
  ASSUME IInv, TypeOK', OneWriter', NEW p \in Callers,
         CopyFails(p) \/ RemoveRow(p) \/ \E f \in Features : Delete(p, f)
  PROVE  IInv'
<1>0. TypeOK /\ NumbersKnown /\ EditsMade /\ BeforeStart /\ MergeHolds
  BY DEF IInv, Standing, Building
<1>1. /\ UNCHANGED <<versions, base, revision, edits, acked, blind, moved, pushed, undercut>>
      /\ \A q \in Callers \ {p} : Same(q)
  BY <1>0 DEF CopyFails, RemoveRow, Delete, Go, rows, call, history, TypeOK, Same
<1>2. /\ \A f \in Features : files'[f] = files[f] \/ files'[f] = NoFiles
      /\ \A f \in Features : row'[f] = row[f] \/ (row[f] = "there" /\ row'[f] \in {"merged", "deleted"})
  BY <1>0 DEF CopyFails, RemoveRow, Delete, rows, TypeOK, There
<1>3. ASSUME NEW f \in Features, row'[f] = "merged", row[f] = "there", Unforced(f) PROVE InVersion(f)
  BY <1>0, <1>3 DEF CopyFails, RemoveRow, Delete, Go, rows, TypeOK, MergeHolds, There
<1>4. Light(p)
  BY <1>0 DEF CopyFails, RemoveRow, Delete, Go, rows, call, history, TypeOK, Light, Knows, NumbersKnown, EditsMade,
              BeforeStart, There
<1>5. Fewer
  BY <1>1, <1>2, <1>3, <1>4 DEF Fewer
<1> QED
  BY <1>5, FewerKeep

(* A sweep, and the process that dies.                                     *)
LEMMA SweepKeeps == ASSUME IInv, TypeOK', OneWriter', NEW s \in Sweepers, SweeperNext(s) PROVE IInv'
<1>0. TypeOK
  BY DEF IInv, Standing
<1>1. Fewer
  BY <1>0 DEF SweeperNext, SweepBegin, SweepEnd, SweepFolder, rows, call, history, TypeOK, Fewer, Same
<1> QED
  BY <1>1, FewerKeep

LEMMA CrashKeeps == ASSUME IInv, TypeOK', OneWriter', Crash PROVE IInv'
<1>0. TypeOK /\ NumbersKnown
  BY DEF IInv, Standing
<1>1. \A q \in Callers : Light(q)
  BY <1>0 DEF Crash, TypeOK, NumbersKnown, Newest, Numbers, Light, Knows, None
<1>2. UNCHANGED <<versions, base, revision, row, files, edits, acked, blind, moved, pushed, undercut>>
  BY DEF Crash, rows, history
<1>3. Fewer
  BY <1>1, <1>2 DEF Fewer
<1> QED
  BY <1>3, FewerKeep

-------------------------------------------------------------------------------
(* Another version: what a feature is asked to hold stays what it was, for *)
(* nothing is based on the new one yet.                                    *)
LEMMA AnotherVersionKeeps ==
  ASSUME IInv, TypeOK', OneWriter', EditsMade', NEW content, versions' = Append(versions, content), edits <= edits',
         UNCHANGED <<row, base, revision, files, feature, code, read, brought, acked, pushed, blind, moved, undercut>>,
         \A q \in Callers :
           pc'[q] = pc[q]
             \/ (pc[q] = "checking" /\ pc'[q] = "merged" /\ (Unforced(feature[q]) => acked[feature[q]] \subseteq content))
  PROVE  IInv'
<1>0. /\ TypeOK /\ NumbersKnown /\ BeforeStart /\ PushKnown /\ CreatorAlone
      /\ FilesHold /\ CodeHolds /\ MergeIsNew /\ MergeHolds /\ WorkKept
  BY DEF IInv, Standing, Building
<1>1. /\ Newest \in Nat /\ Newest' = Newest + 1 /\ versions'[Newest'] = content
      /\ \A n \in 1 .. Newest : versions'[n] = versions[n]
  BY <1>0 DEF TypeOK, Newest, Numbers
<1>2. /\ \A f \in Features : base[f] \in 1 .. Newest
      /\ \A q \in Callers : brought[q] # None => brought[q] \in 1 .. Newest
      /\ feature \in [Callers -> Features]
  BY <1>0 DEF TypeOK, NumbersKnown, Newest, Numbers, None
<1>3. \A f \in Features : /\ Has(f)' <=> Has(f)
                          /\ There(f)' <=> There(f)
                          /\ Unforced(f)' <=> Unforced(f)
                          /\ Sound(f)' <=> Sound(f)
                          /\ InVersion(f) => InVersion(f)'
  <2>1. \A n \in 1 .. Newest : n \in 1 .. Newest' /\ versions'[n] = versions[n]
    <3>1. \A k \in Nat : \A m : m = k + 1 => 1 .. k \subseteq 1 .. m
      OBVIOUS
    <3> QED
      BY <1>1, <3>1
  <2> QED
    BY <2>1 DEF Has, There, Unforced, Sound, InVersion
<1>4. \A q \in Callers : pc'[q] # "merged" => pc'[q] = pc[q]
  OBVIOUS
<1>5. ASSUME NEW f \in Features, NEW c, Holds(f, c) PROVE Holds(f, c)'
  <2>1. \A q \in Callers : pc'[q] = "bring" => pc[q] = "bring" /\ brought[q] # None
    BY <1>0, <1>4 DEF NumbersKnown
  <2> QED
    BY <1>1, <1>2, <1>3, <1>5, <2>1 DEF Holds
<1>6. NumbersKnown'
  BY <1>0, <1>1, <1>4 DEF NumbersKnown, TypeOK, Numbers, None
<1>7. BeforeStart'
  BY <1>0, <1>2, <1>3 DEF BeforeStart
<1>8. PushKnown'
  BY <1>0, <1>4 DEF PushKnown
<1>9. CreatorAlone'
  <2>1. \A q \in Callers : pc'[q] \in {"idle", "reading", "removing"} <=> pc[q] \in {"idle", "reading", "removing"}
    OBVIOUS
  <2>2. \A f \in Features : versions'[base'[f]] = versions[base[f]]
    BY <1>1, <1>2
  <2>3. ASSUME NEW p \in Callers, pc'[p] = "write", Unforced(feature[p])'
        PROVE  /\ ~Has(feature[p])' /\ acked'[feature'[p]] = {}
               /\ Sound(feature[p])' => versions'[base'[feature'[p]]] \subseteq code'[p]
               /\ \A q \in Callers \ {p} : feature'[q] = feature'[p] => pc'[q] \in {"idle", "reading", "removing"}
    <3>1. pc[p] = "write" /\ Unforced(feature[p]) /\ feature[p] \in Features
      BY <1>2, <1>3, <2>3
    <3>2. /\ ~Has(feature[p]) /\ acked[feature[p]] = {}
          /\ Sound(feature[p]) => versions[base[feature[p]]] \subseteq code[p]
          /\ \A q \in Callers \ {p} : feature[q] = feature[p] => pc[q] \in {"idle", "reading", "removing"}
      BY <1>0, <3>1 DEF CreatorAlone
    <3> QED
      BY <1>3, <2>1, <2>2, <3>1, <3>2
  <2> QED
    BY <2>3 DEF CreatorAlone
<1>10. FilesHold'
  BY <1>0, <1>3, <1>5 DEF FilesHold
<1>11. CodeHolds'
  BY <1>0, <1>1, <1>2, <1>3, <1>4, <1>5 DEF CodeHolds
<1>12. MergeIsNew'
  <2>1. \A f \in Features : base'[f] # Newest'
    BY <1>1, <1>2
  <2>2. \A q \in Callers : brought'[q] # Newest'
    BY <1>1, <1>2 DEF None
  <2> QED
    BY <1>2, <2>1, <2>2 DEF MergeIsNew
<1>13. MergeHolds'
  <2>1. ASSUME NEW p \in Callers, pc'[p] = "merged", There(feature[p])', Unforced(feature[p])' PROVE InVersion(feature[p])'
    <3>1. CASE pc[p] = "merged"
      BY <1>0, <1>2, <1>3, <2>1, <3>1 DEF MergeHolds
    <3>2. CASE pc[p] # "merged"
      BY <1>1, <1>2, <1>3, <2>1, <3>2 DEF InVersion
    <3> QED
      BY <3>1, <3>2
  <2> QED
    BY <2>1 DEF MergeHolds
<1>14. WorkKept'
  BY <1>0, <1>3 DEF WorkKept, Kept, Unforced
<1> QED
  BY <1>6, <1>7, <1>8, <1>9, <1>10, <1>11, <1>12, <1>13, <1>14 DEF IInv, Standing, Building

(* Saved beside the features, or by a merge: of what was confirmed.        *)
LEMMA SaveVersionKeeps ==
  ASSUME IInv, TypeOK', OneWriter', EditLambda \/ \E p \in Callers : Merged(p)
  PROVE  IInv'
<1>0. TypeOK /\ NumbersKnown /\ EditsMade /\ CodeHolds
  BY DEF IInv, Standing, Building
<1> DEFINE Saved(content) ==
      /\ versions' = Append(versions, content) /\ content \subseteq 1 .. edits' /\ edits <= edits'
      /\ \A p \in Callers : Merged(p) => content = code[p]
<1>1. PICK content : Saved(content)
  <2>1. ASSUME EditLambda PROVE \E n \in 1 .. Newest : versions' = Append(versions, versions[n] \union {edits + 1})
    BY <2>1 DEF EditLambda, SaveVersion
  <2>2. ASSUME EditLambda PROVE edits' = edits + 1 /\ pc' = pc
    BY <2>2 DEF EditLambda
  <2>3. ASSUME NEW p \in Callers, Merged(p)
        PROVE  versions' = Append(versions, code[p]) /\ edits' = edits /\ pc[p] = "checking" /\ pc' = [pc EXCEPT ![p] = "merged"]
    BY <2>3 DEF Merged, SaveVersion, Go
  <2>4. CASE EditLambda
    <3>1. \A p \in Callers : ~Merged(p)
      BY <2>2, <2>3, <2>4, <1>0 DEF TypeOK
    <3>2. PICK n \in 1 .. Newest : versions' = Append(versions, versions[n] \union {edits + 1})
      BY <2>1, <2>4
    <3>3. versions[n] \union {edits + 1} \subseteq 1 .. edits' /\ edits <= edits'
      BY <1>0, <2>2, <2>4 DEF EditsMade, TypeOK
    <3> QED
      BY <3>1, <3>2, <3>3
  <2>5. ASSUME NEW p \in Callers, Merged(p) PROVE Saved(code[p])
    <3>1. \A q \in Callers : Merged(q) => q = p
      BY <2>3, <2>5, <1>0 DEF TypeOK
    <3>2. code[p] \subseteq 1 .. edits' /\ edits <= edits'
      BY <1>0, <2>3, <2>5 DEF EditsMade, TypeOK
    <3> QED
      BY <2>3, <2>5, <3>1, <3>2
  <2> QED
    BY <2>4, <2>5
<1>2. UNCHANGED <<row, base, revision, files, feature, code, read, brought, acked, pushed, blind, moved, undercut>>
  BY DEF EditLambda, Merged, rows, call, history
<1>3. EditsMade'
  <2>1. Newest' = Newest + 1 /\ versions'[Newest'] = content /\ \A n \in 1 .. Newest : versions'[n] = versions[n]
    BY <1>0, <1>1 DEF TypeOK, Newest
  <2>2. 1 .. edits \subseteq 1 .. edits' /\ Newest \in Nat
    BY <1>0, <1>1 DEF TypeOK, Newest
  <2>3. \A n \in 1 .. Newest' : n = Newest' \/ n \in 1 .. Newest
    BY <2>1, <2>2
  <2>4. \A n \in 1 .. Newest' : versions'[n] \subseteq 1 .. edits'
    BY <1>0, <1>1, <2>1, <2>2, <2>3 DEF EditsMade
  <2> QED
    BY <1>0, <1>2, <2>2, <2>4 DEF EditsMade, Has
<1>4. ASSUME NEW q \in Callers
      PROVE  pc'[q] = pc[q]
               \/ (pc[q] = "checking" /\ pc'[q] = "merged" /\ (Unforced(feature[q]) => acked[feature[q]] \subseteq content))
  <2>1. CASE EditLambda
    BY <2>1 DEF EditLambda
  <2>2. ASSUME NEW p \in Callers, Merged(p) PROVE pc'[q] = pc[q] \/ (pc[q] = "checking" /\ pc'[q] = "merged" /\ (Unforced(feature[q]) => acked[feature[q]] \subseteq content))
    <3>1. pc[p] = "checking" /\ read[p] = revision[feature[p]] /\ pc' = [pc EXCEPT ![p] = "merged"]
      BY <2>2 DEF Merged, Go
    <3>2. Holds(feature[p], code[p])
      BY <1>0, <3>1 DEF CodeHolds
    <3> QED
      BY <1>0, <1>1, <2>2, <3>1, <3>2 DEF TypeOK, Holds
  <2> QED
    BY <2>1, <2>2
<1> QED
  BY <1>1, <1>2, <1>3, <1>4, AnotherVersionKeeps

-------------------------------------------------------------------------------
(* The base of a feature is moved: to what was brought into everything it  *)
(* holds, or it is known not to say what the feature holds.                *)
LEMMA BaseMovedKeeps ==
  ASSUME IInv, TypeOK', OneWriter', NEW p \in Callers, NEW f \in Features, NEW n \in 1 .. Newest,
         base' = [base EXCEPT ![f] = n],
         UNCHANGED <<versions, row, revision, files, edits, acked, blind>>,
         pushed \subseteq pushed', moved \subseteq moved', undercut \subseteq undercut',
         Light(p), \A q \in Callers \ {p} : Same(q),
         \/ pc[p] = "bring" /\ feature[p] = f /\ brought[p] = n
         \/ f \in pushed' \union moved' /\ Undercut(f) \subseteq undercut'
  PROVE  IInv'
<1>0. /\ TypeOK /\ NumbersKnown /\ EditsMade /\ BeforeStart /\ PushKnown /\ CreatorAlone
      /\ FilesHold /\ CodeHolds /\ MergeIsNew /\ MergeHolds /\ WorkKept
  BY DEF IInv, Standing, Building
<1>1. /\ versions' = versions /\ row' = row /\ revision' = revision /\ files' = files /\ edits' = edits
      /\ acked' = acked /\ blind' = blind /\ Newest' = Newest
  BY DEF Newest
<1>2. feature \in [Callers -> Features] /\ feature' \in [Callers -> Features]
  BY <1>0 DEF TypeOK
<1>3. \A g \in Features : /\ Has(g)' <=> Has(g)
                          /\ There(g)' <=> There(g)
                          /\ Unforced(g)' => Unforced(g)
                          /\ Sound(g)' => Sound(g)
                          /\ InVersion(g)' <=> InVersion(g)
                          /\ base'[g] = IF g = f THEN n ELSE base[g]
  BY <1>0, <1>1 DEF Has, There, Unforced, Sound, InVersion, TypeOK
<1>4. \A q \in Callers : pc'[q] \in {"bring", "saving", "write", "merged", "copy", "editing", "checking"} => Same(q) /\ q # p
  BY DEF Light
<1>5. ASSUME NEW g \in Features, NEW content, Holds(g, content) PROVE Holds(g, content)'
  <2>1. ASSUME Sound(g)', g = f PROVE versions[n] \subseteq content
    BY <1>3, <1>5, <2>1 DEF Holds, Sound
  <2>2. ASSUME NEW q \in Callers, pc'[q] = "bring" PROVE pc[q] = "bring" /\ feature'[q] = feature[q] /\ brought'[q] = brought[q]
    BY <1>4, <2>2 DEF Same
  <2> QED
    BY <1>1, <1>3, <1>5, <2>1, <2>2 DEF Holds
<1>6. NumbersKnown'
  BY <1>0, <1>1, <1>2, <1>3 DEF NumbersKnown, Same, Light, Knows, Newest
<1>7. EditsMade'
  BY <1>0, <1>1, <1>3 DEF EditsMade, Same, Light, Knows
<1>8. BeforeStart'
  BY <1>0, <1>1, <1>2, <1>3 DEF BeforeStart, Same, Light, Knows
<1>9. PushKnown'
  BY <1>0, <1>2 DEF PushKnown, Same, Light, Knows
<1>10. CreatorAlone'
  <2>1. ASSUME NEW c \in Callers, pc'[c] = "write", Unforced(feature[c])'
        PROVE  /\ ~Has(feature[c])' /\ acked'[feature'[c]] = {}
               /\ Sound(feature[c])' => versions'[base'[feature'[c]]] \subseteq code'[c]
               /\ \A q \in Callers \ {c} : feature'[q] = feature'[c] => pc'[q] \in {"idle", "reading", "removing"}
    <3>1. Same(c) /\ c # p /\ Unforced(feature[c]) /\ pc[c] = "write" /\ feature[c] \in Features /\ feature'[c] = feature[c]
      BY <2>1, <1>2, <1>3, <1>4 DEF Same
    <3>2. /\ ~Has(feature[c]) /\ acked[feature[c]] = {}
          /\ Sound(feature[c]) => versions[base[feature[c]]] \subseteq code[c]
          /\ \A q \in Callers \ {c} : feature[q] = feature[c] => pc[q] \in {"idle", "reading", "removing"}
      BY <1>0, <3>1 DEF CreatorAlone
    <3>3. ASSUME NEW q \in Callers \ {c}, feature'[q] = feature'[c] PROVE pc'[q] \in {"idle", "reading", "removing"}
      BY <3>1, <3>2, <3>3 DEF Same, Light, Knows
    <3>4. Sound(feature[c])' => feature[c] # f
      BY <3>1, <3>2 DEF Sound
    <3> QED
      BY <3>1, <3>2, <3>3, <3>4, <1>1, <1>3 DEF Same
  <2> QED
    BY <2>1 DEF CreatorAlone
<1>11. FilesHold'
  BY <1>0, <1>1, <1>3, <1>5 DEF FilesHold
<1>12. CodeHolds'
  <2>1. ASSUME NEW c \in Callers, pc'[c] \in {"editing", "checking", "saving"} PROVE Same(c) /\ feature[c] \in Features
    BY <1>2, <1>4, <2>1
  <2> QED
    BY <1>0, <1>1, <1>3, <1>5, <2>1 DEF CodeHolds, Same
<1>13. MergeIsNew'
  <2>1. ASSUME NEW c \in Callers, pc'[c] = "checking", read'[c] = revision'[feature'[c]], c \notin undercut'
        PROVE  /\ base'[feature'[c]] = Newest' => code'[c] # versions'[Newest']
               /\ \A q \in Callers : pc'[q] = "bring" /\ feature'[q] = feature'[c] /\ brought'[q] = Newest' => code'[c] # versions'[Newest']
    <3>1. Same(c) /\ c \notin undercut /\ feature[c] \in Features
      BY <1>2, <1>4, <2>1
    <3>2. /\ base[feature[c]] = Newest => code[c] # versions[Newest]
          /\ \A q \in Callers : pc[q] = "bring" /\ feature[q] = feature[c] /\ brought[q] = Newest => code[c] # versions[Newest]
      BY <1>0, <1>1, <2>1, <3>1 DEF MergeIsNew, Same
    <3>3. feature[c] = f => pc[p] = "bring" /\ feature[p] = f /\ brought[p] = n
      BY <2>1, <3>1 DEF Undercut, Same
    <3>4. base'[feature[c]] = Newest => code[c] # versions[Newest]
      BY <1>3, <3>1, <3>2, <3>3
    <3> QED
      BY <1>1, <1>4, <3>1, <3>2, <3>4 DEF Same
  <2> QED
    BY <2>1 DEF MergeIsNew
<1>14. MergeHolds'
  BY <1>0, <1>2, <1>3, <1>4 DEF MergeHolds, Same
<1>15. WorkKept'
  BY <1>0, <1>1, <1>3 DEF WorkKept, Kept, Unforced
<1> QED
  BY <1>6, <1>7, <1>8, <1>9, <1>10, <1>11, <1>12, <1>13, <1>14, <1>15 DEF IInv, Standing, Building

LEMMA MoveKeeps ==
  ASSUME IInv, TypeOK', OneWriter', NEW p \in Callers,
         PushBase(p) \/ \E f \in Features, n \in 1 .. Newest : MoveBase(p, f, n)
  PROVE  IInv'
<1>0. TypeOK /\ NumbersKnown /\ EditsMade /\ BeforeStart
  BY DEF IInv, Standing
<1>1. CASE PushBase(p)
  <2>1. Light(p) /\ \A q \in Callers \ {p} : Same(q)
    BY <1>0, <1>1 DEF PushBase, Go, TypeOK, NumbersKnown, EditsMade, BeforeStart, Light, Knows, Same, None, There, Newest, Numbers
  <2>2. feature[p] \in Features /\ brought[p] \in 1 .. Newest
    BY <1>0, <1>1 DEF PushBase, Go, TypeOK, NumbersKnown, None, Newest, Numbers
  <2> QED
    BY <1>1, <2>1, <2>2, BaseMovedKeeps DEF PushBase
<1>2. ASSUME NEW f \in Features, NEW n \in 1 .. Newest, MoveBase(p, f, n) PROVE IInv'
  <2>1. Light(p) /\ \A q \in Callers \ {p} : Same(q)
    BY <1>0, <1>2, Ends DEF MoveBase
  <2> QED
    BY <1>2, <2>1, BaseMovedKeeps DEF MoveBase
<1> QED
  BY <1>1, <1>2

-------------------------------------------------------------------------------
(* The steps that write.  A feature is started: nobody is about it yet.    *)
LEMMA CreateKeeps == ASSUME IInv, TypeOK', OneWriter', NEW p \in Callers, NEW f \in Features, Create(p, f) PROVE IInv'
<1>0. /\ TypeOK /\ NumbersKnown /\ EditsMade /\ BeforeStart /\ PushKnown /\ CreatorAlone
      /\ FilesHold /\ CodeHolds /\ MergeIsNew /\ MergeHolds /\ WorkKept
  BY DEF IInv, Standing, Building
<1>1. /\ versions' = versions /\ revision' = revision /\ files' = files /\ edits' = edits
      /\ acked' = acked /\ pushed' = pushed /\ blind' = blind /\ moved' = moved /\ undercut' = undercut
      /\ read' = read /\ brought' = brought /\ Newest' = Newest
  BY DEF Create, history, Newest
<1>2. /\ ~Has(f) /\ acked[f] = {} /\ row[f] = "none"
      /\ \A q \in Callers : feature[q] = f => pc[q] = "idle"
  BY <1>0 DEF Create, BeforeStart
<1>3. PICK from \in 1 .. Newest : base' = [base EXCEPT ![f] = from] /\ code' = [code EXCEPT ![p] = versions[from]]
  BY DEF Create
<1>4. /\ pc[p] = "idle" /\ pc'[p] = "write" /\ feature'[p] = f /\ code'[p] = versions[from] /\ base'[f] = from
      /\ \A q \in Callers \ {p} : Same(q)
  BY <1>0, <1>1, <1>3 DEF Create, Go, TypeOK, Same
<1>5. \A g \in Features \ {f} : base'[g] = base[g] /\ row'[g] = row[g]
  BY <1>0, <1>3 DEF Create, TypeOK
<1>6. /\ row'[f] = "there" /\ feature \in [Callers -> Features]
      /\ \A g \in Features : /\ Has(g)' <=> Has(g)
                             /\ Unforced(g)' <=> Unforced(g)
                             /\ Sound(g)' <=> Sound(g)
                             /\ InVersion(g)' <=> InVersion(g)
  BY <1>0, <1>1 DEF Create, TypeOK, Has, Unforced, Sound, InVersion
<1>7. \A q \in Callers : pc'[q] \notin {"idle", "write"} => Same(q) /\ feature[q] # f /\ q # p
  BY <1>2, <1>4 DEF Same
<1>8. ASSUME NEW g \in Features \ {f}, NEW content, Holds(g, content) PROVE Holds(g, content)'
  BY <1>1, <1>5, <1>6, <1>7, <1>8 DEF Holds, Same
<1>9. NumbersKnown'
  BY <1>0, <1>1, <1>3, <1>4, <1>5, <1>7 DEF NumbersKnown, Same, TypeOK, Newest, Numbers
<1>10. EditsMade'
  BY <1>0, <1>1, <1>4, <1>6 DEF EditsMade, Same
<1>11. BeforeStart'
  BY <1>0, <1>1, <1>4, <1>5, <1>6 DEF BeforeStart, Same
<1>12. PushKnown'
  BY <1>0, <1>1, <1>7 DEF PushKnown, Same
<1>13. CreatorAlone'
  <2>1. ASSUME NEW c \in Callers, pc'[c] = "write", Unforced(feature[c])'
        PROVE  /\ ~Has(feature[c])' /\ acked'[feature'[c]] = {}
               /\ Sound(feature[c])' => versions'[base'[feature'[c]]] \subseteq code'[c]
               /\ \A q \in Callers \ {c} : feature'[q] = feature'[c] => pc'[q] \in {"idle", "reading", "removing"}
    <3>1. CASE c = p
      BY <1>1, <1>2, <1>4, <1>6, <3>1 DEF Same
    <3>2. CASE c # p
      <4>1. pc[c] = "write" /\ Unforced(feature[c]) /\ Same(c) /\ feature[c] \in Features \ {f} /\ feature'[c] = feature[c]
        BY <1>2, <1>4, <1>6, <2>1, <3>2 DEF Same
      <4>2. /\ ~Has(feature[c]) /\ acked[feature[c]] = {}
            /\ Sound(feature[c]) => versions[base[feature[c]]] \subseteq code[c]
            /\ \A q \in Callers \ {c} : feature[q] = feature[c] => pc[q] \in {"idle", "reading", "removing"}
        BY <1>0, <4>1 DEF CreatorAlone
      <4> QED
        BY <1>1, <1>4, <1>5, <1>6, <4>1, <4>2 DEF Same
    <3> QED
      BY <3>1, <3>2
  <2> QED
    BY <2>1 DEF CreatorAlone
<1>14. FilesHold'
  BY <1>0, <1>1, <1>2, <1>6, <1>8 DEF FilesHold
<1>15. CodeHolds'
  BY <1>0, <1>1, <1>6, <1>7, <1>8 DEF CodeHolds, Same
<1>16. MergeIsNew'
  <2>1. ASSUME NEW c \in Callers, pc'[c] = "checking" PROVE Same(c) /\ feature[c] \in Features \ {f} /\ base'[feature[c]] = base[feature[c]]
    BY <1>5, <1>6, <1>7, <2>1
  <2> QED
    BY <1>0, <1>1, <1>7, <2>1 DEF MergeIsNew, Same
<1>17. MergeHolds'
  BY <1>0, <1>1, <1>5, <1>6, <1>7 DEF MergeHolds, Same, There
<1>18. WorkKept'
  BY <1>0, <1>1, <1>2, <1>5, <1>6 DEF WorkKept, Kept, Unforced, There
<1> QED
  BY <1>9, <1>10, <1>11, <1>12, <1>13, <1>14, <1>15, <1>16, <1>17, <1>18 DEF IInv, Standing, Building

(* Its files start as the version it is based on, and nobody saved it yet. *)
LEMMA WriteCodeKeeps == ASSUME IInv, TypeOK', OneWriter', NEW p \in Callers, WriteCode(p) PROVE IInv'
<1>0. /\ TypeOK /\ NumbersKnown /\ EditsMade /\ BeforeStart /\ PushKnown /\ CreatorAlone
      /\ FilesHold /\ CodeHolds /\ MergeIsNew /\ MergeHolds /\ WorkKept
  BY DEF IInv, Standing, Building
<1> DEFINE f == feature[p]
<1>1. /\ versions' = versions /\ row' = row /\ base' = base /\ revision' = revision /\ edits' = edits
      /\ acked' = acked /\ pushed' = pushed /\ blind' = blind /\ moved' = moved /\ undercut' = undercut
      /\ feature' = feature /\ code' = code /\ read' = read /\ brought' = brought /\ Newest' = Newest
  BY DEF WriteCode, rows, call, history, Newest
<1>2. /\ pc[p] = "write" /\ pc'[p] = "copy" /\ \A q \in Callers \ {p} : pc'[q] = pc[q]
      /\ f \in Features /\ files'[f] = code[p] /\ \A g \in Features \ {f} : files'[g] = files[g]
  BY <1>0 DEF WriteCode, Go, TypeOK
<1>3. Unforced(f) => /\ acked[f] = {}
                     /\ Sound(f) => versions[base[f]] \subseteq code[p]
                     /\ \A q \in Callers \ {p} : feature[q] = f => pc[q] \in {"idle", "reading", "removing"}
  BY <1>0, <1>2 DEF CreatorAlone
<1>4. \A g \in Features : /\ g # f => (Has(g)' <=> Has(g))
                          /\ Unforced(g)' <=> Unforced(g)
                          /\ Sound(g)' <=> Sound(g)
                          /\ There(g)' <=> There(g)
                          /\ InVersion(g)' <=> InVersion(g)
  BY <1>1, <1>2 DEF Has, There, Unforced, Sound, InVersion
<1>5. ASSUME NEW g, NEW content, Holds(g, content) PROVE Holds(g, content)'
  BY <1>1, <1>2, <1>5 DEF Holds, Unforced, Sound
<1> HIDE DEF f
<1>6. NumbersKnown' /\ PushKnown'
  BY <1>0, <1>1, <1>2 DEF NumbersKnown, PushKnown
<1>7. EditsMade'
  BY <1>0, <1>1, <1>2, <1>4 DEF EditsMade
<1>8. BeforeStart'
  BY <1>0, <1>1, <1>2, <1>4 DEF BeforeStart, f
<1>9. CreatorAlone'
  <2>1. ASSUME NEW c \in Callers, pc'[c] = "write", Unforced(feature[c])'
        PROVE  /\ ~Has(feature[c])' /\ acked'[feature'[c]] = {}
               /\ Sound(feature[c])' => versions'[base'[feature'[c]]] \subseteq code'[c]
               /\ \A q \in Callers \ {c} : feature'[q] = feature'[c] => pc'[q] \in {"idle", "reading", "removing"}
    <3>1. pc[c] = "write" /\ c # p /\ feature[c] \in Features /\ Unforced(feature[c])
      BY <1>0, <1>1, <1>2, <1>4, <2>1 DEF TypeOK
    <3>2. /\ ~Has(feature[c]) /\ acked[feature[c]] = {}
          /\ Sound(feature[c]) => versions[base[feature[c]]] \subseteq code[c]
          /\ \A q \in Callers \ {c} : feature[q] = feature[c] => pc[q] \in {"idle", "reading", "removing"}
      BY <1>0, <3>1 DEF CreatorAlone
    <3> QED
      BY <1>1, <1>2, <1>4, <3>1, <3>2 DEF f
  <2> QED
    BY <2>1 DEF CreatorAlone
<1>10. FilesHold'
  <2>1. Holds(f, code[p])
    BY <1>2, <1>3 DEF Holds, Sound, Unforced
  <2>2. ASSUME NEW g \in Features, Has(g)' PROVE Holds(g, files'[g])
    BY <1>0, <1>2, <1>4, <2>1, <2>2 DEF FilesHold
  <2>3. ASSUME NEW g \in Features, Has(g)' PROVE Holds(g, files[g])'
    BY <1>1, <1>2, <2>2, <2>3 DEF Holds, Unforced, Sound
  <2> QED
    BY <2>3 DEF FilesHold
<1>11. CodeHolds'
  <2>1. ASSUME NEW c \in Callers, pc'[c] \in {"editing", "checking", "saving"}
        PROVE  pc[c] = pc'[c] /\ feature[c] \in Features /\ (feature[c] = f => ~Unforced(f))
    BY <1>0, <1>2, <1>3, <2>1 DEF TypeOK
  <2>2. ASSUME NEW c \in Callers, pc'[c] \in {"editing", "checking"}, read'[c] = revision'[feature'[c]] PROVE Holds(feature[c], code[c])'
    BY <1>0, <1>1, <1>5, <2>1, <2>2 DEF CodeHolds
  <2>3. ASSUME NEW c \in Callers, pc'[c] \in {"editing", "saving"}, brought'[c] # None PROVE versions'[brought'[c]] \subseteq code'[c]
    BY <1>0, <1>1, <2>1, <2>3 DEF CodeHolds
  <2>4. ASSUME NEW c \in Callers, pc'[c] = "saving"
        PROVE  Holds(feature[c], code[c])' /\ (Unforced(feature[c])' /\ Has(feature[c])' => files'[feature'[c]] = code'[c])
    BY <1>0, <1>1, <1>2, <1>4, <1>5, <2>1, <2>4 DEF CodeHolds
  <2> QED
    BY <2>2, <2>3, <2>4 DEF CodeHolds
<1>12. MergeIsNew' /\ MergeHolds'
  BY <1>0, <1>1, <1>2, <1>4 DEF MergeIsNew, MergeHolds, TypeOK
<1>13. WorkKept'
  BY <1>0, <1>1, <1>2, <1>3, <1>4 DEF WorkKept, Kept, Unforced
<1> QED
  BY <1>6, <1>7, <1>8, <1>9, <1>10, <1>11, <1>12, <1>13 DEF IInv, Standing, Building

(* A save: the files, made of what was read, which nobody saved since.     *)
LEMMA LockSaveKeeps == ASSUME IInv, TypeOK', OneWriter', NEW p \in Callers, LockSave(p) PROVE IInv'
<1>0. /\ TypeOK /\ OneWriter /\ NumbersKnown /\ EditsMade /\ BeforeStart /\ PushKnown /\ CreatorAlone
      /\ FilesHold /\ CodeHolds /\ MergeIsNew /\ MergeHolds /\ WorkKept
  BY DEF IInv, Standing, Building
<1> DEFINE f == feature[p]
<1>1. /\ versions' = versions /\ row' = row /\ base' = base /\ revision' = revision /\ edits' = edits + 1
      /\ acked' = acked /\ pushed' = pushed /\ blind' = blind /\ moved' = moved /\ undercut' = undercut
      /\ feature' = feature /\ read' = read /\ brought' = brought /\ Newest' = Newest
  BY DEF LockSave, rows, history, Newest
<1>2. /\ pc[p] \in {"editing", "pushing"} /\ pc'[p] = "saving" /\ \A q \in Callers \ {p} : pc'[q] = pc[q] /\ code'[q] = code[q]
      /\ f \in Features /\ code'[p] = code[p] \union {edits + 1} /\ There(f) /\ read[p] = revision[f] /\ turn[f] = Nobody
      /\ files'[f] = code'[p] /\ \A g \in Features \ {f} : files'[g] = files[g]
  BY <1>0 DEF LockSave, Take, Free, TypeOK
<1>3. \A q \in Callers : feature[q] = f => pc[q] \notin {"saving", "merged", "removing"}
  BY <1>0, <1>2, ProcessAssumption DEF OneWriter
<1>4. \A g \in Features : /\ g # f => (Has(g)' <=> Has(g))
                          /\ Unforced(g)' <=> Unforced(g)
                          /\ Sound(g)' <=> Sound(g)
                          /\ There(g)' <=> There(g)
                          /\ InVersion(g)' <=> InVersion(g)
  BY <1>1, <1>2 DEF Has, There, Unforced, Sound, InVersion
<1>5. \A g, content : Holds(g, content) => Holds(g, content)'
  BY <1>1, <1>2 DEF Holds, Unforced, Sound
<1>6. Holds(f, code[p])
  BY <1>0, <1>2 DEF CodeHolds, PushKnown, Holds, Unforced, Sound
<1>7. Holds(f, code'[p])
  BY <1>2, <1>6 DEF Holds
<1> HIDE DEF f
<1>8. edits \in Nat /\ 1 .. edits \subseteq 1 .. edits' /\ edits' \in 1 .. edits'
  BY <1>0, <1>1 DEF TypeOK
<1>9. NumbersKnown'
  BY <1>0, <1>1, <1>2, <1>8 DEF NumbersKnown, TypeOK, f, Numbers, None
<1>10. PushKnown'
  BY <1>0, <1>1, <1>2 DEF PushKnown
<1>11. EditsMade'
  <2>1. code'[p] \subseteq 1 .. edits'
    BY <1>0, <1>1, <1>2, <1>8 DEF EditsMade
  <2> QED
    BY <1>0, <1>1, <1>2, <1>4, <1>8, <2>1 DEF EditsMade
<1>12. BeforeStart'
  BY <1>0, <1>1, <1>2, <1>4 DEF BeforeStart, There, f
<1>13. CreatorAlone'
  <2>1. ASSUME NEW c \in Callers, pc'[c] = "write", Unforced(feature[c])'
        PROVE  /\ ~Has(feature[c])' /\ acked'[feature'[c]] = {}
               /\ Sound(feature[c])' => versions'[base'[feature'[c]]] \subseteq code'[c]
               /\ \A q \in Callers \ {c} : feature'[q] = feature'[c] => pc'[q] \in {"idle", "reading", "removing"}
    <3>1. pc[c] = "write" /\ c # p /\ feature[c] \in Features /\ Unforced(feature[c])
      BY <1>0, <1>1, <1>2, <1>4, <2>1 DEF TypeOK
    <3>2. /\ ~Has(feature[c]) /\ acked[feature[c]] = {}
          /\ Sound(feature[c]) => versions[base[feature[c]]] \subseteq code[c]
          /\ \A q \in Callers \ {c} : feature[q] = feature[c] => pc[q] \in {"idle", "reading", "removing"}
      BY <1>0, <3>1 DEF CreatorAlone
    <3> QED
      BY <1>1, <1>2, <1>4, <3>1, <3>2 DEF f
  <2> QED
    BY <2>1 DEF CreatorAlone
<1>14. FilesHold'
  <2>1. ASSUME NEW g \in Features, Has(g)' PROVE Holds(g, files'[g])
    BY <1>0, <1>2, <1>4, <1>7, <2>1 DEF FilesHold
  <2>2. ASSUME NEW g \in Features, Has(g)' PROVE Holds(g, files[g])'
    BY <1>1, <1>2, <2>1, <2>2 DEF Holds, Unforced, Sound
  <2> QED
    BY <2>2 DEF FilesHold
<1>15. CodeHolds'
  <2>1. ASSUME NEW c \in Callers, pc'[c] \in {"editing", "checking"}, read'[c] = revision'[feature'[c]] PROVE Holds(feature[c], code[c])'
    BY <1>0, <1>1, <1>2, <1>5, <2>1 DEF CodeHolds
  <2>2. ASSUME NEW c \in Callers, pc'[c] \in {"editing", "saving"}, brought'[c] # None PROVE versions'[brought'[c]] \subseteq code'[c]
    BY <1>0, <1>1, <1>2, <2>2 DEF CodeHolds, PushKnown
  <2>3. ASSUME NEW c \in Callers, pc'[c] = "saving"
        PROVE  Holds(feature[c], code[c])' /\ (Unforced(feature[c])' /\ Has(feature[c])' => files'[feature'[c]] = code'[c])
    <3>1. CASE c = p
      BY <1>1, <1>2, <1>7, <3>1 DEF Holds, Unforced, Sound, f
    <3>2. CASE c # p
      <4>1. feature[c] # f /\ feature[c] \in Features /\ pc[c] = "saving" /\ code'[c] = code[c]
        BY <1>0, <1>2, <1>3, <2>3, <3>2 DEF TypeOK
      <4> QED
        BY <1>0, <1>1, <1>2, <1>4, <1>5, <4>1 DEF CodeHolds
    <3> QED
      BY <3>1, <3>2
  <2> QED
    BY <2>1, <2>2, <2>3 DEF CodeHolds
<1>16. MergeIsNew' /\ MergeHolds'
  <2>1. \A c \in Callers : pc'[c] \in {"checking", "bring", "merged"} => c # p
    BY <1>2
  <2>2. MergeIsNew'
    BY <1>0, <1>1, <1>2, <2>1 DEF MergeIsNew
  <2>3. MergeHolds'
    BY <1>0, <1>1, <1>2, <1>4, <2>1 DEF MergeHolds, TypeOK
  <2> QED
    BY <2>2, <2>3
<1>17. WorkKept'
  BY <1>0, <1>1, <1>2, <1>4, <1>7 DEF WorkKept, Kept, Unforced, Holds
<1> QED
  BY <1>9, <1>10, <1>11, <1>12, <1>13, <1>14, <1>15, <1>16, <1>17 DEF IInv, Standing, Building

(* Saved by somebody who did not say what was read: nothing is asked of    *)
(* that feature from then on.                                              *)
LEMMA UploadKeeps == ASSUME IInv, TypeOK', OneWriter', NEW p \in Callers, NEW f \in Features, Upload(p, f) PROVE IInv'
<1>0. /\ TypeOK /\ OneWriter /\ NumbersKnown /\ EditsMade /\ BeforeStart /\ PushKnown /\ CreatorAlone
      /\ FilesHold /\ CodeHolds /\ MergeIsNew /\ MergeHolds /\ WorkKept
  BY DEF IInv, Standing, Building
<1>1. /\ versions' = versions /\ row' = row /\ base' = base /\ revision' = revision /\ edits' = edits + 1
      /\ acked' = acked /\ pushed' = pushed /\ blind' = blind \union {f} /\ moved' = moved /\ undercut' = undercut
      /\ read' = read /\ brought' = brought /\ Newest' = Newest
  BY DEF Upload, rows, Newest
<1>2. /\ pc[p] = "idle" /\ pc'[p] = "saving" /\ feature'[p] = f /\ code'[p] = {edits + 1} /\ There(f)
      /\ \A q \in Callers \ {p} : pc'[q] = pc[q] /\ code'[q] = code[q] /\ feature'[q] = feature[q]
      /\ files'[f] = {edits + 1} /\ \A g \in Features \ {f} : files'[g] = files[g]
  BY <1>0 DEF Upload, Go, TypeOK
<1>3. \A q \in Callers : feature[q] \in Features /\ feature'[q] \in Features /\ (pc'[q] # "saving" => q # p)
  BY <1>0, <1>2 DEF TypeOK
<1>4. \A g \in Features : /\ g # f => (Has(g)' <=> Has(g))
                          /\ Unforced(g)' <=> Unforced(g) /\ g # f
                          /\ Sound(g)' <=> Sound(g) /\ g # f
                          /\ There(g)' <=> There(g)
                          /\ InVersion(g)' <=> InVersion(g)
  BY <1>1, <1>2 DEF Has, There, Unforced, Sound, InVersion
<1>5. \A g \in Features : \A content : (g # f => Holds(g, content)) => Holds(g, content)'
  BY <1>1, <1>2, <1>4 DEF Holds
<1>6. edits \in Nat /\ 1 .. edits \subseteq 1 .. edits' /\ edits' \in 1 .. edits'
  BY <1>0, <1>1 DEF TypeOK
<1>7. revision[f] <= edits /\ read[p] = 0 /\ brought[p] = None
  BY <1>0, <1>2 DEF NumbersKnown
<1>8. NumbersKnown'
  <2>1. \A g \in Features : revision[g] \in Nat /\ revision'[g] <= edits /\ base'[g] <= Newest'
    BY <1>0, <1>1 DEF NumbersKnown, TypeOK
  <2>2. ASSUME NEW q \in Callers
        PROVE  /\ brought'[q] <= Newest' /\ read'[q] <= revision'[feature'[q]]
               /\ pc'[q] = "idle" => read'[q] = 0 /\ brought'[q] = None
               /\ pc'[q] = "saving" => revision'[feature'[q]] < edits'
               /\ pc'[q] \in {"bring", "listed"} => brought'[q] # None
    <3>1. CASE q = p
      BY <1>0, <1>1, <1>2, <1>6, <1>7, <2>1, <3>1 DEF NumbersKnown
    <3>2. CASE q # p
      BY <1>0, <1>1, <1>2, <1>3, <1>6, <2>1, <3>2 DEF NumbersKnown
    <3> QED
      BY <3>1, <3>2
  <2>3. \A g \in Features : revision'[g] <= edits'
    BY <1>1, <1>6, <2>1
  <2> QED
    BY <2>1, <2>2, <2>3 DEF NumbersKnown
<1>9. PushKnown'
  BY <1>0, <1>1, <1>2 DEF PushKnown
<1>10. EditsMade'
  <2>1. code'[p] \subseteq 1 .. edits' /\ files'[f] \subseteq 1 .. edits'
    BY <1>1, <1>2, <1>6
  <2> QED
    BY <1>0, <1>1, <1>2, <1>4, <1>6, <2>1 DEF EditsMade
<1>11. BeforeStart'
  BY <1>0, <1>1, <1>2, <1>4 DEF BeforeStart, There
<1>12. CreatorAlone'
  BY <1>0, <1>1, <1>2, <1>3, <1>4 DEF CreatorAlone
<1>13. FilesHold'
  BY <1>0, <1>1, <1>2, <1>4, <1>5 DEF FilesHold
<1>14. CodeHolds'
  <2>1. ASSUME NEW c \in Callers, pc'[c] \in {"editing", "checking"}, read'[c] = revision'[feature'[c]] PROVE Holds(feature[c], code[c])'
    BY <1>0, <1>1, <1>2, <1>3, <1>5, <2>1 DEF CodeHolds
  <2>2. ASSUME NEW c \in Callers, pc'[c] \in {"editing", "saving"}, brought'[c] # None PROVE versions'[brought'[c]] \subseteq code'[c]
    BY <1>0, <1>1, <1>2, <1>7, <2>2 DEF CodeHolds
  <2>3. ASSUME NEW c \in Callers, pc'[c] = "saving"
        PROVE  Holds(feature[c], code[c])' /\ (Unforced(feature[c])' /\ Has(feature[c])' => files'[feature'[c]] = code'[c])
    BY <1>0, <1>1, <1>2, <1>3, <1>4, <1>5, <2>3 DEF CodeHolds
  <2> QED
    BY <2>1, <2>2, <2>3 DEF CodeHolds
<1>15. MergeIsNew'
  BY <1>0, <1>1, <1>2, <1>3 DEF MergeIsNew
<1>16. MergeHolds'
  BY <1>0, <1>1, <1>2, <1>3, <1>4 DEF MergeHolds
<1>17. WorkKept'
  BY <1>0, <1>1, <1>2, <1>4 DEF WorkKept, Kept, Unforced
<1> QED
  BY <1>8, <1>9, <1>10, <1>11, <1>12, <1>13, <1>14, <1>15, <1>16, <1>17 DEF IInv, Standing, Building

(* The row of a save: what it wrote before is what is confirmed.           *)
LEMMA SaveRowKeeps == ASSUME IInv, TypeOK', OneWriter', NEW p \in Callers, SaveRow(p) PROVE IInv'
<1>0. /\ TypeOK /\ OneWriter /\ NumbersKnown /\ EditsMade /\ BeforeStart /\ PushKnown /\ CreatorAlone
      /\ FilesHold /\ CodeHolds /\ MergeIsNew /\ MergeHolds /\ WorkKept
  BY DEF IInv, Standing, Building
<1> DEFINE f == feature[p]
<1>1. /\ versions' = versions /\ row' = row /\ base' = base /\ files' = files /\ edits' = edits /\ feature' = feature
      /\ pushed' = pushed /\ blind' = blind /\ moved' = moved /\ undercut' = undercut /\ Newest' = Newest
  BY DEF SaveRow, End, call, Newest
<1>2. /\ pc[p] = "saving" /\ f \in Features /\ There(f)
      /\ revision'[f] = revision[f] + 1 /\ \A g \in Features \ {f} : revision'[g] = revision[g] /\ acked'[g] = acked[g]
      /\ acked'[f] = acked[f] \union code[p]
      /\ \A q \in Callers \ {p} : Same(q)
      /\ \/ brought[p] # None /\ pc'[p] = "bring" /\ code'[p] = code[p] /\ read'[p] = read[p] /\ brought'[p] = brought[p]
         \/ pc'[p] = "idle" /\ code'[p] = {} /\ read'[p] = 0 /\ brought'[p] = None
  BY <1>0 DEF SaveRow, End, call, TypeOK, Same
<1>3. \A q \in Callers \ {p} : feature[q] = f => pc'[q] \notin {"saving", "merged", "removing"}
  BY <1>0, <1>2 DEF OneWriter, Same
<1>4. /\ feature \in [Callers -> Features]
      /\ \A g \in Features : /\ Has(g)' <=> Has(g)
                             /\ Unforced(g)' <=> Unforced(g)
                             /\ Sound(g)' <=> Sound(g)
                             /\ There(g)' <=> There(g)
                             /\ g # f => (InVersion(g)' <=> InVersion(g))
  BY <1>0, <1>1, <1>2 DEF Has, There, Unforced, Sound, InVersion, TypeOK
<1>5. ASSUME NEW g \in Features \ {f}, NEW content, Holds(g, content) PROVE Holds(g, content)'
  <2>1. \A q \in Callers : pc'[q] = "bring" /\ feature'[q] = g => pc[q] = "bring" /\ feature[q] = g /\ brought'[q] = brought[q]
    BY <1>1, <1>2 DEF Same
  <2> QED
    BY <1>1, <1>2, <1>4, <1>5, <2>1 DEF Holds
<1>6. ASSUME NEW content, content = code[p], NEW g, g = f PROVE Holds(g, content)'
  <2>1. Holds(f, code[p]) /\ (brought[p] # None => versions[brought[p]] \subseteq code[p])
    BY <1>0, <1>2 DEF CodeHolds
  <2>2. Unforced(f) => acked'[f] \subseteq code[p]
    BY <1>2, <2>1 DEF Holds
  <2>3. Sound(f) => /\ versions[base[f]] \subseteq code[p]
                    /\ \A q \in Callers : pc'[q] = "bring" /\ feature[q] = f => versions[brought'[q]] \subseteq code[p]
    BY <1>1, <1>2, <2>1 DEF Holds, Same
  <2> HIDE DEF f
  <2> QED
    BY <1>1, <1>2, <1>4, <1>6, <2>2, <2>3 DEF Holds
<1> HIDE DEF f
<1>7. revision[f] \in Nat /\ revision[f] < edits /\ \A q \in Callers : read[q] <= revision[feature[q]] /\ read[q] \in Nat
  BY <1>0, <1>2 DEF NumbersKnown, TypeOK, f
<1>8. NumbersKnown'
  <2>0. /\ edits \in Nat /\ \A g \in Features : revision[g] \in Nat /\ revision[g] <= edits /\ base[g] <= Newest
        /\ \A g \in Features : revision'[g] = revision[g] \/ (g = f /\ revision'[g] = revision[f] + 1)
    BY <1>0, <1>2 DEF NumbersKnown, TypeOK
  <2>1. \A g \in Features : base'[g] <= Newest' /\ revision'[g] <= edits'
    BY <2>0, <1>1, <1>7
  <2>2. ASSUME NEW q \in Callers
        PROVE  /\ brought'[q] <= Newest' /\ read'[q] <= revision'[feature'[q]]
               /\ pc'[q] = "idle" => read'[q] = 0 /\ brought'[q] = None
               /\ pc'[q] = "saving" => revision'[feature'[q]] < edits'
               /\ pc'[q] \in {"bring", "listed"} => brought'[q] # None
    <3>1. revision'[feature[q]] \in Nat /\ revision[feature[q]] <= revision'[feature[q]]
      BY <2>0, <1>4, <1>7
    <3>2. CASE q = p
      BY <1>0, <1>1, <1>2, <1>7, <3>1, <3>2 DEF NumbersKnown, None, Newest, TypeOK
    <3>3. CASE q # p
      <4>1. Same(q) /\ (pc[q] = "saving" => feature[q] # f)
        BY <1>2, <1>3, <3>3 DEF Same
      <4> QED
        BY <1>0, <1>1, <1>2, <1>4, <1>7, <3>1, <4>1 DEF NumbersKnown, Same
    <3> QED
      BY <3>2, <3>3
  <2> QED
    BY <2>1, <2>2 DEF NumbersKnown
<1>9. PushKnown'
  BY <1>0, <1>1, <1>2 DEF PushKnown, Same
<1>10. EditsMade'
  BY <1>0, <1>1, <1>2, <1>4 DEF EditsMade, Same
<1>11. BeforeStart'
  BY <1>0, <1>1, <1>2, <1>4 DEF BeforeStart, There, Same
<1>12. CreatorAlone'
  <2>1. ASSUME NEW c \in Callers, pc'[c] = "write", Unforced(feature[c])'
        PROVE  /\ ~Has(feature[c])' /\ acked'[feature'[c]] = {}
               /\ Sound(feature[c])' => versions'[base'[feature'[c]]] \subseteq code'[c]
               /\ \A q \in Callers \ {c} : feature'[q] = feature'[c] => pc'[q] \in {"idle", "reading", "removing"}
    <3>1. pc[c] = "write" /\ Same(c) /\ c # p /\ feature[c] \in Features /\ Unforced(feature[c])
      BY <1>1, <1>2, <1>4, <2>1 DEF Same
    <3>2. /\ ~Has(feature[c]) /\ acked[feature[c]] = {}
          /\ Sound(feature[c]) => versions[base[feature[c]]] \subseteq code[c]
          /\ \A q \in Callers \ {c} : feature[q] = feature[c] => pc[q] \in {"idle", "reading", "removing"}
      BY <1>0, <3>1 DEF CreatorAlone
    <3>3. feature[c] # f
      BY <1>2, <3>1, <3>2 DEF f
    <3> QED
      BY <1>1, <1>2, <1>4, <3>1, <3>2, <3>3 DEF Same, f
  <2> QED
    BY <2>1 DEF CreatorAlone
<1>13. FilesHold'
  <2>1. ASSUME NEW g \in Features, Has(g)' PROVE \A content : content = files[g] => Holds(g, content)'
    <3>1. CASE g # f
      BY <1>0, <1>4, <1>5, <2>1, <3>1 DEF FilesHold
    <3>2. CASE g = f /\ Unforced(f)
      <4>1. files[g] = code[p]
        BY <1>0, <1>2, <1>4, <2>1, <3>2 DEF CodeHolds, f
      <4> QED
        BY <1>6, <3>2, <4>1
    <3>3. CASE g = f /\ ~Unforced(f)
      BY <1>2, <1>4, <3>3 DEF Holds, Unforced, Sound
    <3> QED
      BY <3>1, <3>2, <3>3
  <2> QED
    BY <1>1, <2>1 DEF FilesHold
<1>14. CodeHolds'
  <2>1. ASSUME NEW c \in Callers, pc'[c] \in {"editing", "checking"}, read'[c] = revision'[feature'[c]]
        PROVE  Same(c) /\ feature[c] \in Features \ {f}
    BY <1>1, <1>2, <1>4, <1>7, <2>1 DEF Same, f
  <2>2. ASSUME NEW c \in Callers, pc'[c] = "saving" PROVE Same(c) /\ feature[c] \in Features \ {f}
    BY <1>1, <1>2, <1>3, <1>4, <2>2
  <2>3. ASSUME NEW c \in Callers, pc'[c] \in {"editing", "saving"}, brought'[c] # None PROVE versions'[brought'[c]] \subseteq code'[c]
    BY <1>0, <1>1, <1>2, <2>3 DEF CodeHolds, Same
  <2>4. ASSUME NEW c \in Callers, pc'[c] \in {"editing", "checking"}, read'[c] = revision'[feature'[c]] PROVE Holds(feature[c], code[c])'
    BY <1>0, <1>1, <1>2, <1>5, <2>1, <2>4 DEF CodeHolds, Same
  <2>5. ASSUME NEW c \in Callers, pc'[c] = "saving"
        PROVE  Holds(feature[c], code[c])' /\ (Unforced(feature[c])' /\ Has(feature[c])' => files'[feature'[c]] = code'[c])
    BY <1>0, <1>1, <1>4, <1>5, <2>2, <2>5 DEF CodeHolds, Same
  <2> QED
    BY <2>3, <2>4, <2>5 DEF CodeHolds
<1>15. MergeIsNew'
  <2>1. ASSUME NEW c \in Callers, pc'[c] = "checking", read'[c] = revision'[feature'[c]]
        PROVE  Same(c) /\ feature[c] \in Features \ {f} /\ read[c] = revision[feature[c]] /\ pc[c] = "checking"
    BY <1>1, <1>2, <1>4, <1>7, <2>1 DEF Same, f
  <2>2. \A q \in Callers : pc'[q] = "bring" /\ feature'[q] # f => Same(q)
    BY <1>1, <1>2 DEF f
  <2> QED
    BY <1>0, <1>1, <2>1, <2>2 DEF MergeIsNew, Same
<1>16. MergeHolds'
  <2>1. ASSUME NEW c \in Callers, pc'[c] = "merged" PROVE Same(c) /\ feature[c] \in Features \ {f}
    BY <1>2, <1>3, <1>4, <2>1
  <2> QED
    BY <1>0, <1>1, <1>4, <2>1 DEF MergeHolds, Same
<1>17. WorkKept'
  <2>1. ASSUME Unforced(f), Has(f) PROVE acked'[f] \subseteq files[f]
    <3>1. files[f] = code[p] /\ Holds(f, code[p])
      BY <1>0, <1>2, <2>1 DEF CodeHolds, f
    <3> QED
      BY <1>2, <2>1, <3>1 DEF Holds
  <2>2. ASSUME NEW g \in Features \ (blind' \union pushed') PROVE Kept(g)'
    <3>1. Kept(g) /\ Unforced(g)
      BY <1>0, <1>1, <2>2 DEF WorkKept, Unforced
    <3> QED
      BY <1>1, <1>2, <1>4, <2>1, <3>1 DEF Kept, There
  <2> QED
    BY <2>2 DEF WorkKept
<1> QED
  BY <1>8, <1>9, <1>10, <1>11, <1>12, <1>13, <1>14, <1>15, <1>16, <1>17 DEF IInv, Standing, Building

-------------------------------------------------------------------------------
(* Every step keeps the invariant.                                         *)
LEMMA StepKeeps == ASSUME IInv, [Next]_vars PROVE IInv'
<1>1. TypeOK /\ OneWriter /\ NumbersKnown
  BY DEF IInv, Standing
<1>2. CASE UNCHANGED vars
  <2>1. TypeOK' /\ OneWriter'
    BY <1>1, <1>2 DEF vars, TypeOK, OneWriter, Newest
  <2>2. Fewer
    BY <1>2 DEF vars, Fewer, Same
  <2> QED
    BY <2>1, <2>2, FewerKeep
<1>3. CASE Next
  <2>1. TypeOK' /\ OneWriter'
    BY <1>1, <1>3, TypeKept, TurnKept
  <2>2. ASSUME NEW p \in Callers, CallNext(p) PROVE IInv'
    BY <2>1, <2>2, CreateKeeps, WriteCodeKeeps, EndKeeps, ReadKeeps, TakenAwayKeeps, SaveVersionKeeps, MoveKeeps,
       LockSaveKeeps, SaveRowKeeps
    DEF CallNext, CreateStep, SaveStep, MergeStep
  <2>3. ASSUME NEW g \in Pushers, PushNext(g) PROVE IInv'
    BY <2>1, <2>3, ProcessAssumption, EndKeeps, ReadKeeps, MoveKeeps DEF PushNext
  <2>4. ASSUME NEW u \in Uploaders, NEW f \in Features, Upload(u, f) PROVE IInv'
    BY <2>1, <2>4, ProcessAssumption, UploadKeeps
  <2>5. ASSUME NEW s \in Sweepers, SweeperNext(s) PROVE IInv'
    BY <2>1, <2>5, SweepKeeps
  <2>6. CASE EditLambda \/ Crash
    BY <2>1, <2>6, SaveVersionKeeps, CrashKeeps
  <2> QED
    BY <1>3, <2>2, <2>3, <2>4, <2>5, <2>6 DEF Next
<1> QED
  BY <1>2, <1>3

(* What every call knows of its feature between its steps, always.         *)
THEOREM Invariant == Spec => []IInv
<1>1. IInv /\ [Next]_vars => IInv'
  BY StepKeeps
<1> QED
  BY <1>1, InitInvariant, PTL DEF Spec

(* A merge makes a version of what the newest one is in, and of something  *)
(* else than the newest.                                                   *)
LEMMA MergeFound == ASSUME IInv, [Next]_vars, NEW p \in Callers, Merges(p) PROVE Merged(p)
<1>1. TypeOK
  BY DEF IInv, Standing
<1>2. Next
  BY DEF vars, Merges
<1> USE <1>1 DEF Merges, TypeOK
<1>3. ASSUME NEW q \in Callers, CallNext(q) PROVE Merged(p)
  <2>1. ASSUME NEW f \in Features, NEW n \in 1 .. Newest, MoveBase(q, f, n) PROVE FALSE
    BY <2>1 DEF MoveBase, End
  <2>2. ASSUME NEW f \in Features, Create(q, f) \/ Read(q, f) \/ StartMerge(q, f) \/ Delete(q, f) PROVE FALSE
    BY <2>2 DEF Create, Read, StartMerge, Delete, Go
  <2>3. CASE CreateStep(q) \/ ReadFiles(q) \/ NoLongerAvailable(q) \/ Rest(q)
    BY <2>3 DEF CreateStep, WriteCode, Copied, CopyFails, Uncreate, ReadFiles, NoLongerAvailable, Rest, Go, End
  <2>4. CASE SaveStep(q)
    BY <2>4 DEF SaveStep, LockSave, SaveRow, CommitFails, RowVanished, SaveRefused, End
  <2>5. CASE MergeStep(q)
    <3>1. CASE Merged(q)
      <4>1. q = p
        BY <3>1 DEF Merged, Go
      <4> QED
        BY <3>1, <4>1
    <3>2. CASE DoesNotCompile(q) \/ MergeRefused(q) \/ RemoveRow(q) \/ RemoveFiles(q)
      BY <3>2 DEF DoesNotCompile, MergeRefused, RemoveRow, RemoveFiles, Go, End
    <3> QED
      BY <2>5, <3>1, <3>2 DEF MergeStep
  <2> QED
    BY <1>3, <2>1, <2>2, <2>3, <2>4, <2>5 DEF CallNext
<1>4. ASSUME NEW g \in Callers, NEW f \in Features, PushSync(g, f) \/ Upload(g, f) PROVE FALSE
  BY <1>4 DEF PushSync, Upload, Go
<1>5. ASSUME NEW g \in Callers, PushFeature(g) \/ PushBase(g) \/ PushSave(g) \/ PushVanished(g) PROVE FALSE
  BY <1>5 DEF PushFeature, PushBase, PushSave, PushVanished, Go, End
<1>6. ASSUME NEW s \in Sweepers, SweeperNext(s) PROVE FALSE
  BY <1>6 DEF SweeperNext, SweepBegin, SweepEnd, SweepFolder
<1>7. ~EditLambda /\ ~Crash
  BY DEF EditLambda, Crash
<1> QED
  BY <1>2, <1>3, <1>4, <1>5, <1>6, <1>7, ProcessAssumption DEF Next, PushNext

LEMMA MergeMakes ==
  ASSUME IInv, NEW p \in Callers, Merged(p)
  PROVE  /\ versions'[Newest + 1] = code[p]
         /\ feature[p] \notin blind \union pushed \union moved => versions[Newest] \subseteq code[p]
         /\ p \notin undercut => code[p] # versions[Newest]
<1>1. TypeOK /\ CodeHolds /\ MergeIsNew
  BY DEF IInv, Standing, Building
<1>2. versions'[Newest + 1] = code[p]
  BY <1>1 DEF Merged, SaveVersion, TypeOK, Newest
<1>3. pc[p] = "checking" /\ read[p] = revision[feature[p]] /\ base[feature[p]] = Newest
  BY DEF Merged, Go
<1> QED
  BY <1>1, <1>2, <1>3 DEF CodeHolds, MergeIsNew, Holds, Sound

-------------------------------------------------------------------------------
(* A feature's turn is held by the one call that writes.                   *)
THEOREM WritersTakeTurns == Spec => []OneWriter
<1>1. IInv => OneWriter
  BY DEF IInv, Standing
<1> QED
  BY <1>1, Invariant, PTL

(* What a confirmed save made of a feature is in it until it is in a       *)
(* version, unless somebody pushes to it or saves it without saying what   *)
(* the save was made from.                                                 *)
THEOREM ConfirmedWorkKept == Spec => []WorkKept
<1>1. IInv => WorkKept
  BY DEF IInv
<1> QED
  BY <1>1, Invariant, PTL

(* What the newest version holds is in the one a merge makes, unless the   *)
(* feature was overwritten unseen or said to be based on what nobody had   *)
(* brought in.                                                             *)
THEOREM NoMergeUndoes == Spec => VersionsBuildOn
<1> DEFINE Builds == \A p \in Callers : Merges(p) /\ feature[p] \notin blind \union pushed \union moved
                                         => versions[Newest] \subseteq versions'[Newest + 1]
<1>1. IInv /\ [Next]_vars => Builds
  BY MergeFound, MergeMakes
<1>2. [][Builds]_vars <=> VersionsBuildOn
  BY DEF VersionsBuildOn
<1> HIDE DEF Builds
<1>3. Spec => [][Builds]_vars
  BY <1>1, Invariant, PTL DEF Spec
<1> QED
  BY <1>2, <1>3

(* No merge makes the newest version over again, unless the base is moved  *)
(* past what was not brought in while the merge is checked.                *)
THEOREM NoneMergedTwice == Spec => MergedOnce
<1> DEFINE New == \A p \in Callers : Merges(p) /\ p \notin undercut => versions'[Newest + 1] # versions[Newest]
<1>1. IInv /\ [Next]_vars => New
  BY MergeFound, MergeMakes
<1>2. [][New]_vars <=> MergedOnce
  BY DEF MergedOnce
<1> HIDE DEF New
<1>3. Spec => [][New]_vars
  BY <1>1, Invariant, PTL DEF Spec
<1> QED
  BY <1>2, <1>3
===============================================================================
