---------------------------- MODULE ResolutionCache ----------------------------
(***************************************************************************)
(* Which lambda answers to a key, remembered for as long as nothing was    *)
(* written: the cache (Services/Meta/ResolutionCache.cs), the counter of   *)
(* writes that says so (Data/DatabaseChanges.cs), and the three ways there *)
(* are to write: a transaction, a statement that returns nothing, and a    *)
(* save of one row, which commits as its result is read.  The database is  *)
(* the number of the writes that are visible in it.                        *)
(***************************************************************************)
EXTENDS Naturals, FiniteSets

CONSTANTS
  Readers,           \* requests being resolved at once
  Writers,           \* calls that write to the database
  Keys,
  Missing,           \* nothing is remembered of a key
  MostEntries,
  MaxWrites          \* bound on the writes

ASSUME BoundAssumption == MostEntries \in Nat \ {0} /\ MaxWrites \in Nat
ASSUME ReaderAssumption == IsFiniteSet(Readers)

VARIABLES
  value,             \* the writes visible in the database
  generation,        \* DatabaseChanges.Generation
  entries,           \* _entries: what is remembered of each key
  returned,          \* the newest write that was counted once it was visible
  unnoticed,         \* the writes that never were
  writing,           \* where each writer is
  own,               \* the write it made
  pc,                \* what each request does next
  key,
  read,              \* the generation it read
  answer,            \* what it found, as the writes the oldest of its queries saw
  floor              \* what had been returned when it came in

reading == <<pc, key, read, answer, floor>>
database == <<value, generation, returned, unnoticed, writing, own>>
vars == <<value, generation, entries, returned, unnoticed, writing, own, pc, key, read, answer, floor>>

Values == 0 .. MaxWrites
Entries == [generation : Nat, found : Values]
ASSUME MissingAssumption == Missing \notin Entries

Remembered == {k \in Keys : entries[k] # Missing}

TypeOK ==
  /\ value \in Values /\ returned \in Values
  /\ generation \in Nat
  /\ unnoticed \subseteq Values
  /\ entries \in [Keys -> Entries \union {Missing}]
  /\ writing \in [Writers -> {"idle", "executed", "returning", "visible"}]
  /\ own \in [Writers -> Values]
  /\ pc \in [Readers -> {"idle", "begun", "look", "load", "data", "loaded", "store", "answered"}]
  /\ key \in [Readers -> Keys \union {Missing}]
  /\ \A r \in Readers : pc[r] # "idle" => key[r] \in Keys
  /\ read \in [Readers -> Nat]
  /\ answer \in [Readers -> Values]
  /\ floor \in [Readers -> Values]

Init ==
  /\ value = 0 /\ generation = 0 /\ returned = 0 /\ unnoticed = {}
  /\ entries = [k \in Keys |-> Missing]
  /\ writing = [w \in Writers |-> "idle"] /\ own = [w \in Writers |-> 0]
  /\ pc = [r \in Readers |-> "idle"]
  /\ key = [r \in Readers |-> Missing] /\ read = [r \in Readers |-> 0]
  /\ answer = [r \in Readers |-> 0] /\ floor = [r \in Readers |-> 0]

Move(w, from, to) == writing[w] = from /\ writing' = [writing EXCEPT ![w] = to]
Go(r, from, to) == pc[r] = from /\ pc' = [pc EXCEPT ![r] = to]

-------------------------------------------------------------------------------
(* SQLite lets one transaction write at a time, a statement of its own     *)
(* being one as well.                                                      *)
MayWrite ==
  /\ value < MaxWrites /\ generation < 2 * MaxWrites
  /\ \A w \in Writers : writing[w] \notin {"executed", "returning"}

(* A command of a transaction has run, and is counted ...                  *)
Execute(w) ==
  /\ MayWrite
  /\ Move(w, "idle", "executed")
  /\ generation' = generation + 1
  /\ UNCHANGED <<value, entries, returned, unnoticed, own, reading>>

(* ... its commit makes it visible ...                                     *)
Commit(w) ==
  /\ Move(w, "executed", "visible")
  /\ value' = value + 1 /\ own' = [own EXCEPT ![w] = value + 1]
  /\ UNCHANGED <<generation, entries, returned, unnoticed, reading>>

(* ... as running a statement that returns no rows does (ExecuteUpdate and *)
(* ExecuteDelete).                                                         *)
Statement(w) ==
  /\ MayWrite
  /\ Move(w, "idle", "visible")
  /\ value' = value + 1 /\ own' = [own EXCEPT ![w] = value + 1]
  /\ UNCHANGED <<generation, entries, returned, unnoticed, reading>>

(* A save of a single row is one statement with RETURNING and outside of a *)
(* transaction: it is counted when its reader is there ...                 *)
SaveRow(w) ==
  /\ MayWrite
  /\ Move(w, "idle", "returning")
  /\ generation' = generation + 1
  /\ UNCHANGED <<value, entries, returned, unnoticed, own, reading>>

(* ... commits when that was read to its end, and is not counted again.    *)
RowSaved(w) ==
  /\ Move(w, "returning", "idle")
  /\ value' = value + 1 /\ unnoticed' = unnoticed \union {value + 1}
  /\ UNCHANGED <<generation, entries, returned, own, reading>>

(* Either may fail, or be taken back.                                      *)
Rollback(w) ==
  /\ Move(w, "executed", "idle") \/ Move(w, "returning", "idle")
  /\ UNCHANGED <<value, generation, entries, returned, unnoticed, own, reading>>

Count_Not(w) ==
  /\ Move(w, "visible", "idle")
  /\ returned' = IF own[w] > returned THEN own[w] ELSE returned
  /\ own' = [own EXCEPT ![w] = 0]
  /\ UNCHANGED <<value, generation, entries, unnoticed, reading>>

(* Counted again, or for the first time, before the call returns.          *)
Count(w) ==
  /\ Move(w, "visible", "idle")
  /\ generation' = generation + 1
  /\ returned' = IF own[w] > returned THEN own[w] ELSE returned
  /\ own' = [own EXCEPT ![w] = 0]
  /\ UNCHANGED <<value, entries, unnoticed, reading>>

-------------------------------------------------------------------------------
Begin(r, k) ==
  /\ Go(r, "idle", "begun")
  /\ key' = [key EXCEPT ![r] = k]
  /\ floor' = [floor EXCEPT ![r] = returned]
  /\ UNCHANGED <<database, entries, read, answer>>

ReadGeneration(r) ==
  /\ Go(r, "begun", "look")
  /\ read' = [read EXCEPT ![r] = generation]
  /\ UNCHANGED <<database, entries, key, answer, floor>>

Known(r) == entries[key[r]] # Missing /\ entries[key[r]].generation = read[r]

Hit(r) ==
  /\ Go(r, "look", "answered")
  /\ Known(r)
  /\ answer' = [answer EXCEPT ![r] = entries[key[r]].found]
  /\ UNCHANGED <<database, entries, key, read, floor>>

(* The lambda is queried, then its deployment, then whether its workspace  *)
(* is on: what is written in between shows in the one and not in the other,*)
(* and the answer is as old as the first of them.                          *)
LoadLambda(r) ==
  /\ Go(r, "look", "load") \/ Go(r, "look", "loaded")
  /\ ~Known(r)
  /\ answer' = [answer EXCEPT ![r] = value]
  /\ UNCHANGED <<database, entries, key, read, floor>>

LoadDeployment(r) ==
  /\ Go(r, "load", "data")
  /\ UNCHANGED <<database, entries, key, read, answer, floor>>

(* Without a deployment the answer is nothing, whatever the lambda was.    *)
NotDeployed(r) ==
  /\ Go(r, "load", "loaded")
  /\ answer' = [answer EXCEPT ![r] = value]
  /\ UNCHANGED <<database, entries, key, read, floor>>

LoadWorkspace(r) ==
  /\ Go(r, "data", "loaded")
  /\ UNCHANGED <<database, entries, key, read, answer, floor>>

StartOver_Late(r) ==
  /\ Go(r, "loaded", "store")
  /\ entries' = IF Cardinality(Remembered) > MostEntries THEN [k \in Keys |-> Missing] ELSE entries
  /\ UNCHANGED <<database, key, read, answer, floor>>

(* Past the limit it starts over.                                          *)
StartOver(r) ==
  /\ Go(r, "loaded", "store")
  /\ entries' = IF Cardinality(Remembered) >= MostEntries THEN [k \in Keys |-> Missing] ELSE entries
  /\ UNCHANGED <<database, key, read, answer, floor>>

Remember(r) ==
  /\ Go(r, "store", "answered")
  /\ entries' = [entries EXCEPT ![key[r]] =
        [generation |-> read[r], found |-> answer[r]]]
  /\ UNCHANGED <<database, key, read, answer, floor>>

Answered(r) ==
  /\ Go(r, "answered", "idle")
  /\ answer' = [answer EXCEPT ![r] = 0]
  /\ key' = [key EXCEPT ![r] = Missing]
  /\ read' = [read EXCEPT ![r] = 0] /\ floor' = [floor EXCEPT ![r] = 0]
  /\ UNCHANGED <<database, entries>>

-------------------------------------------------------------------------------
WriterNext(w) ==
  \/ Execute(w) \/ Commit(w) \/ Statement(w) \/ Count(w)
  \/ SaveRow(w) \/ RowSaved(w) \/ Rollback(w)

ReaderNext(r) ==
  \/ \E k \in Keys : Begin(r, k)
  \/ ReadGeneration(r) \/ Hit(r) \/ LoadLambda(r) \/ LoadDeployment(r) \/ NotDeployed(r) \/ LoadWorkspace(r)
  \/ StartOver(r) \/ Remember(r) \/ Answered(r)

Next == (\E w \in Writers : WriterNext(w)) \/ (\E r \in Readers : ReaderNext(r))

Spec == Init /\ [][Next]_vars

-------------------------------------------------------------------------------
(* A request never gets an answer from before a write that had been        *)
(* counted, visible, when it came in: whoever deploys, and then asks, is   *)
(* answered by what was deployed (ResolutionCache, DatabaseChanges).  What *)
(* the save of a single row wrote is not among it.                         *)
FreshAnswers ==
  \A r \in Readers : pc[r] = "answered" => answer[r] >= floor[r]

(* Once every write is through, what would be answered from memory lacks   *)
(* nothing but saves of single rows since, and nothing read across any     *)
(* other write - half before, half after it - is remembered as current     *)
(* (DatabaseChanges, ResolutionCache).                                     *)
CurrentWhenQuiet ==
  (\A w \in Writers : writing[w] = "idle") =>
    \A k \in Remembered : entries[k].generation = generation =>
      \A n \in Values : entries[k].found < n /\ n <= value => n \in unnoticed

(* The keys of a scanner do not fill the memory: requests that pass the    *)
(* check together are all it goes past its limit (MostEntries).            *)
EntriesBounded == Cardinality(Remembered) < MostEntries + Cardinality(Readers)

-------------------------------------------------------------------------------
(* What the code says of itself and does not keep.                         *)

(* "A single write outside of a transaction is already visible" when its   *)
(* command is counted, "whatever was read in between ... is already stale  *)
(* by the time it is looked at again" (DatabaseChanges.cs:25-30): the save *)
(* of a single row is not, is counted that once, and what a request read   *)
(* before it stays current until somebody writes again.                    *)
NothingStaleKept ==
  (\A w \in Writers : writing[w] = "idle") =>
    \A k \in Remembered : entries[k].generation = generation => entries[k].found = value

-------------------------------------------------------------------------------
(* The parts of the inductive invariant behind the first two.              *)

GenerationsPast ==
  /\ \A k \in Remembered : entries[k].generation <= generation
  /\ \A r \in Readers : read[r] <= generation

WritesSeen ==
  /\ returned <= value
  /\ \A w \in Writers : writing[w] = "visible" => own[w] <= value
  /\ \A w \in Writers : writing[w] \in {"executed", "returning"} =>
       value < MaxWrites /\ \A u \in Writers : writing[u] \in {"executed", "returning"} => u = w
  /\ \A r \in Readers : floor[r] <= returned /\ answer[r] <= value
  /\ \A k \in Remembered : entries[k].found <= value

Loaded(r) == pc[r] \in {"load", "data", "loaded", "store"}

(* What was read under the generation there is now has seen every write    *)
(* that was counted, and misses at most those that are not counted yet and *)
(* those that never will be.                                               *)
Seen(v) ==
  /\ returned <= v
  /\ \A n \in Values : v < n /\ n <= value =>
       n \in unnoticed \/ \E w \in Writers : writing[w] = "visible" /\ own[w] = n

CurrentSeen ==
  /\ \A k \in Remembered : entries[k].generation = generation => Seen(entries[k].found)
  /\ \A r \in Readers : Loaded(r) /\ read[r] = generation => Seen(answer[r])

(* A request that read an older generation knows of no write that what was *)
(* remembered under the same one has not seen.                             *)
OlderSeen ==
  \A r \in Readers :
    /\ Loaded(r) => floor[r] <= answer[r]
    /\ pc[r] = "look" =>
         /\ \A k \in Remembered : entries[k].generation = read[r] => floor[r] <= entries[k].found
         /\ \A s \in Readers : Loaded(s) /\ read[s] = read[r] => floor[r] <= answer[s]

(* Behind EntriesBounded: each request past the check adds one at most.    *)
Adding == {r \in Readers : pc[r] = "store"}

RoomKept ==
  /\ IsFiniteSet(Remembered)
  /\ Cardinality(Remembered) + Cardinality(Adding) < MostEntries + Cardinality(Readers)

IInv ==
  /\ TypeOK /\ GenerationsPast /\ WritesSeen /\ CurrentSeen /\ OlderSeen /\ FreshAnswers
===============================================================================
