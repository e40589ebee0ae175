---------------------------- MODULE LineDiff ----------------------------
(***************************************************************************)
(* What changed between two versions of a file (control/diff.ts): the      *)
(* lines the two share at both ends are set aside, the rest is compared by *)
(* a longest common subsequence, and the result is cut into hunks.         *)
(*                                                                         *)
(* A file is absent (NoFile) or a record of its lines and of how they end, *)
(* which is not compared: CRLF is made LF first.  A binary file is compared *)
(* as a whole.  The page compares once, for the versions opened.           *)
(***************************************************************************)
EXTENDS LineNumbers, Integers, Sequences, FiniteSetsExt

CONSTANTS
  Lines,    \* the texts a line may have
  Endings,  \* how the lines of a file may end: in "LF", in CRLF, in some of each
  Longest,  \* bound: lines of a file
  Context,  \* unchanged lines shown on either side of a change (CONTEXT)
  Most,     \* cells of the table past which lines are not compared (MOST)
  NoFile,   \* a file a version does not have
  NoLines   \* the comparison of files too large, or binary

\* A line of a comparison (DiffLine), with its number on the side it is on.
DiffedLines == [kind: {"same", "added", "removed"}, text: Lines, number: Nat]

ASSUME LineDiffAssumption ==
  /\ {Longest, Context, Most} \subseteq Nat
  /\ NoLines \notin Seq(DiffedLines)
  /\ "LF" \in Endings
  /\ NoFile \notin [binary: BOOLEAN, code: Seq(Lines), endings: Endings]

VARIABLES
  before, after,  \* the file in the two versions
  compared        \* what the page shows of them; NoLines until it compared

diffVars == <<before, after, compared>>

FileTexts == UNION {[1..n -> Lines] : n \in 0..Longest}

\* What a binary file has is one text, and a single line has no end.
Files ==
  {NoFile} \union {f \in [binary: BOOLEAN, code: FileTexts, endings: Endings] :
                     /\ f.binary => Len(f.code) < 2
                     /\ Len(f.code) < 2 => f.endings = "LF"}

\* The lines of a file, however they end, and all of what it has.
Split(file) == IF file = NoFile THEN <<>> ELSE file.code
Text(file) == <<file.code, file.endings>>

(***************************************************************************)
(* diffLines: set aside what the two share at the start and at the end.    *)
(***************************************************************************)
SharedStart(a, b) ==
  Max({n \in 0..Min({Len(a), Len(b)}) : SubSeq(a, 1, n) = SubSeq(b, 1, n)})

\* The end stops where the start did, so that no line is set aside twice.
SharedEnd_Twice(a, b) ==
  Max({n \in 0..Min({Len(a), Len(b)}) :
         SubSeq(a, Len(a) - n + 1, Len(a)) = SubSeq(b, Len(b) - n + 1, Len(b))})
SharedEnd(a, b) ==
  Max({n \in 0..(Min({Len(a), Len(b)}) - SharedStart(a, b)) :
         SubSeq(a, Len(a) - n + 1, Len(a)) = SubSeq(b, Len(b) - n + 1, Len(b))})

Middle(s, start, end) == SubSeq(s, start + 1, Len(s) - end)

\* How far two files are read: up to before line i of one and line j of the other.
Places(a, b) == (1..(Len(a) + 1)) \X (1..(Len(b) + 1))

\* The length of the longest common subsequence of what is left from i and j on.
LengthTable(a, b) ==
  LET table[at \in Places(a, b)] ==
        LET i == at[1]
            j == at[2]
        IN IF i > Len(a) \/ j > Len(b) THEN 0
           ELSE IF a[i] = b[j] THEN table[<<i + 1, j + 1>>] + 1
           ELSE Max({table[<<i + 1, j>>], table[<<i, j + 1>>]})
  IN table

DiffLine(kind, text, number) == [kind |-> kind, text |-> text, number |-> number]

\* What went comes before what replaced it.
Walks(a, b, start) ==
  LET table == LengthTable(a, b)
      walk[at \in Places(a, b)] ==
        LET i == at[1]
            j == at[2]
        IN IF i <= Len(a) /\ j <= Len(b) /\ a[i] = b[j]
             THEN <<DiffLine("same", b[j], start + j)>> \o walk[<<i + 1, j + 1>>]
           ELSE IF i <= Len(a) /\ (j > Len(b) \/ table[<<i + 1, j>>] >= table[<<i, j + 1>>])
             THEN <<DiffLine("removed", a[i], start + i)>> \o walk[<<i + 1, j>>]
           ELSE IF j <= Len(b)
             THEN <<DiffLine("added", b[j], start + j)>> \o walk[<<i, j + 1>>]
           ELSE <<>>
  IN walk

Walk(a, b, start) == Walks(a, b, start)[<<1, 1>>]

DiffLines(a, b) ==
  LET start == SharedStart(a, b)
      end == SharedEnd(a, b)
      middleA == Middle(a, start, end)
      middleB == Middle(b, start, end)
  IN IF Len(middleA) * Len(middleB) > Most THEN NoLines
     ELSE [i \in 1..start |-> DiffLine("same", a[i], i)]
          \o Walk(middleA, middleB, start)
          \o [k \in 1..end |-> DiffLine("same", b[Len(b) - end + k], Len(b) - end + k)]

(***************************************************************************)
(* group: the changed lines with a few either side, joined where they      *)
(* would overlap.  One line after the other, with the hunk under way (open *)
(* or not) and the unchanged lines at its end (quiet).                     *)
(***************************************************************************)
NoHunk == [hunks |-> <<>>, open |-> FALSE, current |-> <<>>, quiet |-> 0]

DropLast(s, n) == SubSeq(s, 1, Len(s) - n)

ChangedLine(acc, lines, index) ==
  LET context == SubSeq(lines, Max({1, index - Context}), index - 1)
  IN [hunks |-> acc.hunks, open |-> TRUE,
      current |-> Append(IF acc.open THEN acc.current ELSE context, lines[index]), quiet |-> 0]

SameLine_Early(acc, lines, index) ==
  LET current == Append(acc.current, lines[index])
      quiet == acc.quiet + 1
  IN IF ~acc.open THEN acc
     ELSE IF quiet > Context
       THEN [hunks |-> Append(acc.hunks, DropLast(current, quiet - Context)),
             open |-> FALSE, current |-> <<>>, quiet |-> 0]
     ELSE [hunks |-> acc.hunks, open |-> TRUE, current |-> current, quiet |-> quiet]
SameLine(acc, lines, index) ==
  LET current == Append(acc.current, lines[index])
      quiet == acc.quiet + 1
  IN IF ~acc.open THEN acc
     ELSE IF quiet > Context * 2
       THEN [hunks |-> Append(acc.hunks, DropLast(current, quiet - Context)),
             open |-> FALSE, current |-> <<>>, quiet |-> 0]
     ELSE [hunks |-> acc.hunks, open |-> TRUE, current |-> current, quiet |-> quiet]

GroupedUpTo(lines) ==
  LET upTo[index \in 0..Len(lines)] ==
        IF index = 0 THEN NoHunk
        ELSE IF lines[index].kind = "same" THEN SameLine(upTo[index - 1], lines, index)
        ELSE ChangedLine(upTo[index - 1], lines, index)
  IN upTo

Group(lines) ==
  LET all == GroupedUpTo(lines)[Len(lines)]
  IN IF ~all.open THEN all.hunks
     ELSE Append(all.hunks, DropLast(all.current, Max({0, all.quiet - Context})))

(***************************************************************************)
(* compare, for one file.                                                  *)
(***************************************************************************)
CountKind(lines, kind) == Cardinality({i \in DOMAIN lines : lines[i].kind = kind})

FileDiff(a, b) ==
  LET left == Split(a)
      right == Split(b)
      binary == \E f \in {a, b} : f # NoFile /\ f.binary
      lines == IF binary THEN NoLines ELSE DiffLines(left, right)
      added == IF binary THEN 0 ELSE IF lines = NoLines THEN Len(right) ELSE CountKind(lines, "added")
      removed == IF binary THEN 0 ELSE IF lines = NoLines THEN Len(left) ELSE CountKind(lines, "removed")
      unchanged == IF binary THEN Text(a) = Text(b) ELSE added + removed = 0
  IN [status |-> IF a = NoFile THEN "added" ELSE IF b = NoFile THEN "removed"
                 ELSE IF unchanged THEN "same" ELSE "changed",
      added |-> added, removed |-> removed, lines |-> lines,
      hunks |-> IF lines = NoLines THEN NoLines ELSE Group(lines)]

-----------------------------------------------------------------------------

DiffInit ==
  /\ before \in Files /\ after \in Files
  /\ before # NoFile \/ after # NoFile
  /\ compared = NoLines

CompareFiles ==
  /\ compared = NoLines
  /\ compared' = FileDiff(before, after)
  /\ UNCHANGED <<before, after>>

DiffNext == CompareFiles

DiffSpec == DiffInit /\ [][DiffNext]_diffVars

-----------------------------------------------------------------------------
(***************************************************************************)
(* Properties, against definitions that know nothing of the algorithm.     *)
(***************************************************************************)
\* What a sequence has at a set of places.
At(s, places) == [k \in 1..Cardinality(places) |-> s[InOrderOf(places)[k]]]

TextsOf(lines, left) ==
  At([i \in DOMAIN lines |-> lines[i].text], {i \in DOMAIN lines : lines[i].kind # left})

\* The length of the longest subsequence two sequences share.
LongestShared(a, b) ==
  Max({Cardinality(p) : p \in {q \in SUBSET DOMAIN a : \E r \in SUBSET DOMAIN b : At(a, q) = At(b, r)}})

\* What the page shows can be read as either version: without what was added
\* it is the file before, without what was removed it is the file after, and
\* every line is numbered as on the side it is on.
ReadsAsBoth(lines) ==
  /\ TextsOf(lines, "added") = Split(before)
  /\ TextsOf(lines, "removed") = Split(after)
  /\ \A i \in DOMAIN lines :
       LET side == IF lines[i].kind = "removed" THEN Split(before) ELSE Split(after)
       IN lines[i].number \in DOMAIN side /\ side[lines[i].number] = lines[i].text

\* The comparison (diffLines, compare) is a shortest one: it can be read as either
\* version, no line is said to have changed that need not be - setting the shared
\* ends aside first loses nothing - and a file both versions have is "same"
\* exactly when its lines are, whatever way they end: a change of line endings
\* alone is none, and a binary file is "same" when all of it is.
LeastChanged ==
  compared # NoLines =>
    /\ before # NoFile /\ after # NoFile => ((compared.status = "same") <=> (Split(before) = Split(after)))
    /\ compared.lines # NoLines =>
         /\ ReadsAsBoth(compared.lines)
         /\ CountKind(compared.lines, "same") = LongestShared(Split(before), Split(after))

Near(lines, i) == \E j \in DOMAIN lines : lines[j].kind # "same" /\ j - i \in (-Context)..Context

\* The hunks are the lines near a change, and no other: each is a stretch of them
\* with nothing left out, as long as can be, so that two stretches of context that
\* meet are one hunk (group).
HunksTell ==
  compared # NoLines /\ compared.lines # NoLines =>
    LET lines == compared.lines
        near == {i \in DOMAIN lines : Near(lines, i)}
        starts == {i \in near : i - 1 \notin near}
        ends == {i \in near : i + 1 \notin near}
    IN compared.hunks = [h \in 1..Cardinality(starts) |->
                           SubSeq(lines, InOrderOf(starts)[h], InOrderOf(ends)[h])]
============================================================================
