---------------------------- MODULE TriColorMark ----------------------------
(***************************************************************************)
(* The stop-the-world tri-color marker, mark() of src/src/marker.rs, run   *)
(* on any object graph.  One step enters a root or scans a grey object; the*)
(* graph does not change meanwhile.  grey is a VecDeque in the code, where *)
(* `seen` keeps an object from entering twice; the order of scanning is    *)
(* left open here.                                                         *)
(***************************************************************************)
EXTENDS Reachability, FiniteSets, Naturals

CONSTANTS
  Roots,  \* graph.roots()
  Listed  \* graph.all_ids(): nothing says that it lists every object

ASSUME MarkAssumption == Roots \subseteq Objects /\ Listed \subseteq Objects

VARIABLES
  heap,     \* the graph
  color,    \* the coloring: Absent where the map has no entry
  grey,     \* the work list
  seen,     \* objects ever put on it
  unpushed, \* roots not yet entered
  scans     \* history variable: how often each object was scanned; 2 is twice or more

vars == <<heap, color, grey, seen, unpushed, scans>>

Colors == {"White", "Grey", "Black", "Absent"}

TypeOK ==
  /\ heap \in Heap
  /\ color \in [Objects -> Colors]
  /\ grey \in SUBSET Objects
  /\ seen \in SUBSET Objects
  /\ unpushed \in SUBSET Roots
  /\ scans \in [Objects -> 0..2]

Init ==
  /\ heap \in Heap
  /\ color = [id \in Objects |-> IF id \in Listed THEN "White" ELSE "Absent"]
  /\ grey = {} /\ seen = {}
  /\ unpushed = Roots
  /\ scans = [id \in Objects |-> 0]

(* if seen.insert(id) { color.insert(id, Grey); grey.push_back(id) } *)
Shade(ids, coloring) ==
  /\ color' = [id \in Objects |-> IF id \in ids \ seen THEN "Grey" ELSE coloring[id]]
  /\ seen' = seen \union ids

EnterRoot(r) ==
  /\ r \in unpushed
  /\ unpushed' = unpushed \ {r}
  /\ Shade({r}, color)
  /\ grey' = grey \union ({r} \ seen)
  /\ UNCHANGED <<heap, scans>>

(* Faulty: an object is painted black before its references are followed   *)
(* and they are not put on the work list.                                  *)
ScanGrey_Shallow(id) ==
  /\ unpushed = {}
  /\ id \in grey
  /\ Shade(RefsOf(heap, id), [color EXCEPT ![id] = "Black"])
  /\ grey' = grey \ {id}
  /\ scans' = [scans EXCEPT ![id] = IF @ = 0 THEN 1 ELSE 2]
  /\ UNCHANGED <<heap, unpushed>>

(* Faulty: a child is put on the work list whether it was seen or not. *)
ScanGrey_Again(id) ==
  /\ unpushed = {}
  /\ id \in grey
  /\ Shade(RefsOf(heap, id), [color EXCEPT ![id] = "Black"])
  /\ grey' = (grey \ {id}) \union RefsOf(heap, id)
  /\ scans' = [scans EXCEPT ![id] = IF @ = 0 THEN 1 ELSE 2]
  /\ UNCHANGED <<heap, unpushed>>

(* One round of the loop: the children not seen before turn grey, then the *)
(* object turns black.                                                     *)
ScanGrey(id) ==
  /\ unpushed = {}
  /\ id \in grey
  /\ Shade(RefsOf(heap, id), [color EXCEPT ![id] = "Black"])
  /\ grey' = (grey \ {id}) \union (RefsOf(heap, id) \ seen)
  /\ scans' = [scans EXCEPT ![id] = IF @ = 0 THEN 1 ELSE 2]
  /\ UNCHANGED <<heap, unpushed>>

Next ==
  \/ \E r \in Roots : EnterRoot(r)
  \/ \E id \in Objects : ScanGrey(id)

Spec     == Init /\ [][Next]_vars
FairSpec == Spec /\ WF_vars(Next)

Done == unpushed = {} /\ grey = {}

-----------------------------------------------------------------------------
(* Properties. *)

Colored(c) == {id \in Objects : color[id] = c}

(* The tri-color invariant (src/src/marker.rs:9-11): no black object holds *)
(* a reference to a white one, and the grey objects are the work list.     *)
TriColor ==
  /\ \A id \in Colored("Black") : RefsOf(heap, id) \subseteq Colored("Black") \union Colored("Grey")
  /\ Colored("Grey") = grey

(* What mark returns (src/src/marker.rs:40-41): exactly the reachable      *)
(* objects are black, and the others of all_ids are white.                 *)
MarkCorrect ==
  Done => /\ Colored("Black") = Reachable(heap, Roots)
          /\ Colored("White") = Listed \ Reachable(heap, Roots)

(* No object is scanned twice, so that there are at most |V| rounds        *)
(* (src/src/marker.rs:43-46).                                              *)
ScannedOnce == \A id \in Objects : scans[id] <= 1

(* mark returns (src/src/marker.rs:43-46), on cyclic graphs too. *)
MarkTerminates == <>Done

(* Why MarkCorrect holds: what was seen is reachable, the seen objects are *)
(* the grey and the black ones, and the others keep their first color.     *)
MarkInv ==
  /\ TriColor
  /\ seen = Colored("Black") \union grey
  /\ \A id \in Objects \ seen : color[id] = IF id \in Listed THEN "White" ELSE "Absent"
  /\ seen \subseteq Reachable(heap, Roots)
  /\ Roots \subseteq seen \union unpushed
  /\ \A id \in Objects : scans[id] = IF color[id] = "Black" THEN 1 ELSE 0

=============================================================================
