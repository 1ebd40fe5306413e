----------------------------- MODULE Containers -----------------------------
(***************************************************************************)
(* Hashes and arrays of the language, side by side.  They share no state,  *)
(* so a behaviour is one of one of them.                                   *)
(***************************************************************************)
EXTENDS Integers

CONSTANTS Key, Value, Code, Allocates, Pairs, NoPair, MaxFused, \* hashes
          Element, MaxIndex, Others, Unready                    \* arrays

VARIABLES kind, \* "hash" or "array"
          pair, refs, index, fused_refs, fpairs_count, first, last, visit,
          felements, fsize, fused, walk, call

hash == <<pair, refs, index, fused_refs, fpairs_count, first, last, visit>>
array == <<felements, fsize, fused, walk, call>>

Hash == INSTANCE OrderedHash WITH Null <- NoPair, cycle <- visit
Array == INSTANCE SparseArray WITH Careless <- Unready, cycle <- walk

ASSUME HashConstants == Hash!ConstantsOK
ASSUME ArrayConstants == Array!ConstantsOK
-----------------------------------------------------------------------------
ContainersInit ==
    /\ Hash!Init /\ Array!Init
    /\ kind \in {"hash", "array"}

ContainersNext ==
    \/ kind = "hash" /\ Hash!Next /\ UNCHANGED <<kind, array>>
    \/ kind = "array" /\ Array!Next /\ UNCHANGED <<kind, hash>>

ContainersSpec == ContainersInit /\ [][ContainersNext]_<<kind, hash, array>>
-----------------------------------------------------------------------------
\* Through their pointers and cached numbers, a hash is an ordered map and an array
\* has elements at indices, and each call does to them what it says
ImplementMaps ==
    /\ Hash!Map!Init /\ Array!Map!Init
    /\ [][(kind = "hash" => Hash!MapStep) /\ (kind = "array" => Array!MapStep)]_<<Hash!Order, Array!Elements, call>>

\* The pairs found by their keys are those of the list, see OrderedHash.tla
ListAgrees == Hash!ListAgrees

\* at() and set() of an array find the element with this order, see SparseArray.tla
AtFinds == Array!AtFinds

\* A cycle over a hash or an array comes to all that stays in it while it lasts
CyclesVisit == Hash!StayersVisited /\ Array!StayersVisited
=============================================================================
