-------------------------- MODULE SnapshotMarking --------------------------
(***************************************************************************)
(* What snapshot-at-the-beginning marking promises its users and asks of   *)
(* them (src/src/barrier.rs:9-23), with no word on barriers, threads or    *)
(* queues.  A cycle starts from a set of roots.  An object is grey when the*)
(* marker has yet to scan it and black when it has; the program may        *)
(* overwrite a reference of the graph as it was at the start only once the *)
(* marker knows the object it leads to.  In return, when no grey object is *)
(* left, the black objects include everything that was reachable at the    *)
(* start, and nothing that was garbage then.                               *)
(***************************************************************************)
EXTENDS Reachability

VARIABLES
  heap,      \* the object graph
  running,   \* a marking cycle is on
  snapshot,  \* the graph when the cycle started,
  snapRoots, \* the roots then,
  snapAlloc, \* and the objects allocated then
  grey,      \* found and not scanned
  black      \* scanned

snapVars == <<snapshot, snapRoots, snapAlloc>>
vars == <<heap, running, snapVars, grey, black>>

EmptyHeap == [id \in Objects |-> [f \in Fields |-> Null]]

Must == Reachable(snapshot, snapRoots)
Dead == snapAlloc \ Must

TypeOK ==
  /\ heap \in Heap
  /\ running \in BOOLEAN
  /\ snapshot \in Heap
  /\ snapRoots \in SUBSET Objects
  /\ snapAlloc \in SUBSET Objects
  /\ grey \in SUBSET Objects
  /\ black \in SUBSET Objects

Init ==
  /\ heap \in Heap
  /\ running = FALSE
  /\ snapshot = EmptyHeap
  /\ snapRoots = {} /\ snapAlloc = {}
  /\ grey = {} /\ black = {}

(* Between cycles the program changes the graph as it likes. *)
Change ==
  /\ ~running
  /\ heap' \in Heap
  /\ UNCHANGED <<running, snapVars, grey, black>>

(* A cycle starts.  What is reachable is allocated, and nothing refers to  *)
(* garbage but garbage.                                                    *)
Start ==
  /\ ~running
  /\ running' = TRUE
  /\ snapshot' = heap
  /\ snapRoots' \in SUBSET Objects
  /\ snapAlloc' \in SUBSET Objects
  /\ Closed(heap, Objects \ Dead')
  /\ grey' = snapRoots'
  /\ black' = {}
  /\ UNCHANGED heap

(* An object is scanned: what it refers to now is known from here on. *)
Scan(id) ==
  /\ running
  /\ id \in grey
  /\ black' = black \union {id}
  /\ grey' = (grey \union RefsOf(heap, id)) \ black'
  /\ UNCHANGED <<heap, running, snapVars>>

(* The program tells the marker of an object. *)
Capture(id) ==
  /\ running
  /\ id \in Objects
  /\ id \notin grey \union black
  /\ id \notin Dead
  /\ grey' = grey \union {id}
  /\ UNCHANGED <<heap, running, snapVars, black>>

Known(ref) == ref \in grey \union black \union {Null}

(* A reference is overwritten.  If it is one of the snapshot, the object   *)
(* it leads to is known; and nothing brings garbage back.                  *)
Overwrite(id, f, target) ==
  /\ running
  /\ heap' = [heap EXCEPT ![id][f] = target]
  /\ heap[id][f] = snapshot[id][f] => Known(snapshot[id][f])
  /\ target \notin Dead
  /\ UNCHANGED <<running, snapVars, grey, black>>

(* Nothing is left to scan and the cycle is over. *)
Finish ==
  /\ running
  /\ grey = {}
  /\ running' = FALSE
  /\ snapshot' = EmptyHeap
  /\ snapRoots' = {} /\ snapAlloc' = {}
  /\ black' = {}
  /\ UNCHANGED <<heap, grey>>

Next ==
  \/ Change
  \/ Start
  \/ \E id \in grey : Scan(id)
  \/ \E id \in grey' : Capture(id)
  \/ heap' # heap /\ \E id \in Objects, f \in Fields, target \in Ref : Overwrite(id, f, target)
  \/ Finish

Spec == Init /\ [][Next]_vars

(* The promise. *)
Promise == running /\ grey = {} => Must \subseteq black /\ black \intersect Dead = {}

=============================================================================
