---------------------------- MODULE Reachability ----------------------------
(***************************************************************************)
(* Object graphs as the collector sees them (trait ObjectGraph of          *)
(* src/src/marker.rs): every object has one reference per field, and       *)
(* refs_of returns the objects its fields name.  Reachability is defined as*)
(* the smallest closed set that contains the roots, without recursion, so  *)
(* that proofs can use the definition directly.                            *)
(***************************************************************************)

CONSTANTS
  Objects,  \* ids of heap objects (u32 in the code)
  Fields,   \* the reference fields of an object
  Null      \* the empty reference

ASSUME NullAssumption == Null \notin Objects

(* The graphs: a heap maps an object and a field to a reference. *)
Ref  == Objects \union {Null}
Heap == [Objects -> [Fields -> Ref]]

(* Faulty: an empty field is reported as a reference. *)
RefsOf_WithNull(heap, id) == {heap[id][f] : f \in Fields}

(* refs_of(id): the outgoing edges of one object. *)
RefsOf(heap, id) == {heap[id][f] : f \in Fields} \ {Null}

(* S cannot be left by following a reference. *)
Closed(heap, S) == \A id \in S : RefsOf(heap, id) \subseteq S

(* The objects reachable from a set of roots. *)
Reachable(heap, roots) ==
  {id \in Objects :
     \A S \in SUBSET Objects : (roots \subseteq S /\ Closed(heap, S)) => id \in S}

=============================================================================
