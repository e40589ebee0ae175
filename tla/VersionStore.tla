----------------------------- MODULE VersionStore -----------------------------
(***************************************************************************)
(* What a lambda promises its owner about its versions, without turns,     *)
(* files, sweeps or crashes: versions are numbered one after the other,    *)
(* the one online and the newest are never discarded, only a version that  *)
(* is kept goes online, and a removed lambda does not come back.           *)
(* MetaService implements this specification.                              *)
(***************************************************************************)
EXTENDS Naturals

CONSTANT MaxVersion         \* bound on the numbers handed out

VARIABLES
  state,                    \* "unborn", "there" or "gone"
  kept,                     \* the numbers of the versions that can be read and deployed
  online                    \* the number being served, or None

vars == <<state, kept, online>>

None == 0

Versions == 1 .. MaxVersion

(* v is the number the next version gets, the newest being one below it.   *)
IsNext(v, S) ==
  \/ S = {} /\ v = 1
  \/ v - 1 \in S /\ \A w \in S : w < v

IsNewest(v, S) == v \in S /\ \A w \in S : w <= v

Init == state = "unborn" /\ kept = {} /\ online = None

Appear ==
  /\ state = "unborn"
  /\ state' = "there"
  /\ UNCHANGED <<kept, online>>

Add ==
  /\ state = "there"
  /\ \E v \in Versions : IsNext(v, kept) /\ kept' = kept \union {v}
  /\ UNCHANGED <<state, online>>

Discard ==
  /\ state = "there"
  /\ \E old \in SUBSET kept :
        /\ \A v \in old : v # online /\ ~IsNewest(v, kept)
        /\ kept' = kept \ old
  /\ UNCHANGED <<state, online>>

GoOnline ==
  /\ state = "there"
  /\ online' \in kept
  /\ UNCHANGED <<state, kept>>

GoOffline ==
  /\ online' = None
  /\ UNCHANGED <<state, kept>>

Remove ==
  /\ state = "there"
  /\ state' = "gone" /\ kept' = {} /\ online' = None

Next == Appear \/ Add \/ Discard \/ GoOnline \/ GoOffline \/ Remove

Spec == Init /\ [][Next]_vars
===============================================================================
