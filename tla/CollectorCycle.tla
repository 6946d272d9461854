--------------------------- MODULE CollectorCycle ---------------------------
(***************************************************************************)
(* The collection cycle as a whole: a program whose objects live in a      *)
(* RegionHeap, the write barrier of v0.2 (WriteBarrier and MarkStack of    *)
(* src/src/barrier.rs), the phase with its compare-and-swap transitions    *)
(* (AtomicPhase of src/src/atomic.rs), and collectors that mark and then   *)
(* drive pre_mark / mark_live / sweep (src/src/region.rs:11-19).           *)
(*                                                                         *)
(* The program and the collectors interleave; a reference write of the     *)
(* program, pre_write and store, is one step, as in the single-threaded    *)
(* barrier.  Several collectors try to start a cycle; the compare-and-swap *)
(* decides.  The mark stack is a set: the marker drops an id it pops twice,*)
(* and the order of scanning is irrelevant to the properties.              *)
(*                                                                         *)
(* What the crate leaves to the program, and this program does: it pushes  *)
(* an object it allocates while marking runs (src/src/barrier.rs:222-226), *)
(* it does not allocate while the phase is Sweeping, and it writes no      *)
(* reference while the marker drains what is left after marking.           *)
(***************************************************************************)
EXTENDS Reachability, RegionHeap

CONSTANTS
  Collectors,
  NoHandle    \* an object that is not allocated

ASSUME NoHandleAssumption == NoHandle \notin Handle

VARIABLES
  (* the program *)
  graph,   \* the references of its objects
  at,      \* where each object lives
  roots,   \* what roots() returns
  (* the collector *)
  phase,   \* the byte of AtomicPhase
  stack,   \* MarkStack
  black,   \* what the marker has scanned
  counted, \* the black objects reported with mark_live
  cpc,     \* what each collector is doing
  garbage  \* history variable: what was unreachable when the cycle began

programVars == <<graph, at, roots>>
markVars    == <<stack, black, counted>>
vars == <<programVars, phase, markVars, cpc, garbage, heapVars>>

(* Phase and its byte. *)
Encode == [Idle |-> 0, Marking |-> 1, Sweeping |-> 2]
Decode(byte) == CHOOSE p \in DOMAIN Encode : Encode[p] = byte

TypeOK ==
  /\ HeapTypeOK
  /\ graph \in Heap
  /\ at \in [Objects -> Handle \union {NoHandle}]
  /\ roots \in SUBSET Objects
  /\ phase \in {Encode[p] : p \in DOMAIN Encode}
  /\ stack \in SUBSET Objects
  /\ black \in SUBSET Objects
  /\ counted \in SUBSET black
  /\ cpc \in [Collectors -> {"idle", "rooting", "marking", "draining", "counting",
                             "swept", "refused"}]
  /\ garbage \in SUBSET Objects

Init ==
  /\ HeapInit
  /\ graph = [x \in Objects |-> [f \in Fields |-> Null]]
  /\ at = [x \in Objects |-> NoHandle]
  /\ roots = {}
  /\ phase = Encode["Idle"]
  /\ stack = {} /\ black = {} /\ counted = {}
  /\ cpc = [c \in Collectors |-> "idle"]
  /\ garbage = {}

Allocated == {x \in Objects : at[x] # NoHandle}
Live == Reachable(graph, roots)
Draining == \E c \in Collectors : cpc[c] = "draining"

-----------------------------------------------------------------------------
(* The program. *)

(* Faulty: an object allocated while marking runs is left white. *)
Allocate_White(x, r, size) ==
  /\ x \notin Allocated
  /\ Decode(phase) # "Sweeping"
  /\ HeapAlloc(r, size)
  /\ at' = [at EXCEPT ![x] = HandleAt(r, size)]
  /\ roots' = roots \union {x}
  /\ UNCHANGED <<graph, phase, markVars, cpc, garbage>>

(* A fresh object x, held by a root; greyed while marking runs. *)
Allocate(x, r, size) ==
  /\ x \notin Allocated
  /\ Decode(phase) # "Sweeping"
  /\ HeapAlloc(r, size)
  /\ at' = [at EXCEPT ![x] = HandleAt(r, size)]
  /\ roots' = roots \union {x}
  /\ stack' = IF Decode(phase) = "Marking" THEN stack \union {x} ELSE stack
  /\ UNCHANGED <<graph, phase, black, counted, cpc, garbage>>

AllocateFails(size) ==
  /\ Decode(phase) # "Sweeping"
  /\ HeapRefuse(size)
  /\ UNCHANGED <<programVars, phase, markVars, cpc, garbage>>

(* A root comes and goes without a barrier. *)
AddRoot(x) ==
  /\ x \in Live \ roots
  /\ roots' = roots \union {x}
  /\ UNCHANGED <<graph, at, phase, markVars, cpc, garbage, heapVars>>

DropRoot(x) ==
  /\ x \in roots
  /\ roots' = roots \ {x}
  /\ UNCHANGED <<graph, at, phase, markVars, cpc, garbage, heapVars>>

(* WriteBarrier::pre_write, for a field that is not empty. *)
PreWrite(overwritten) ==
  stack' = IF Decode(phase) = "Marking" THEN stack \union ({overwritten} \ {Null}) ELSE stack

(* replace_edge, and add_edge for a field that is empty. *)
ReplaceEdge(x, f, target) == graph' = [graph EXCEPT ![x][f] = target]

(* The program overwrites a reference: pre_write, then replace_edge. *)
Overwrite(x, f, target) ==
  /\ x \in Live /\ target \in Live \union {Null}
  /\ target # graph[x][f]
  /\ ~Draining
  /\ PreWrite(graph[x][f])
  /\ ReplaceEdge(x, f, target)
  /\ UNCHANGED <<at, roots, phase, black, counted, cpc, garbage, heapVars>>

-----------------------------------------------------------------------------
(* The collectors. *)

(* Faulty: transition loads, compares and stores without the compare. *)
Transition_Stores(c, from, to, next, otherwise) ==
  /\ phase' = Encode[to]
  /\ cpc' = [cpc EXCEPT ![c] = next]

(* AtomicPhase::transition, and where c goes on if it succeeds or is refused. *)
Transition(c, from, to, next, otherwise) ==
  IF phase = Encode[from]
  THEN phase' = Encode[to] /\ cpc' = [cpc EXCEPT ![c] = next]
  ELSE UNCHANGED phase /\ cpc' = [cpc EXCEPT ![c] = otherwise]

Begin(c) ==
  /\ cpc[c] = "idle"
  /\ Transition(c, "Idle", "Marking", "rooting", "idle")
  /\ garbage' = IF cpc' # cpc THEN Allocated \ Live ELSE garbage
  /\ UNCHANGED <<programVars, markVars, heapVars>>

(* for r in roots() { stack.push(r) } *)
PushRoots(c) ==
  /\ cpc[c] = "rooting"
  /\ stack' = stack \union roots
  /\ cpc' = [cpc EXCEPT ![c] = "marking"]
  /\ UNCHANGED <<programVars, phase, black, counted, garbage, heapVars>>

(* One round of the marking loop. *)
Mark(c, x) ==
  /\ cpc[c] \in {"marking", "draining"}
  /\ x \in stack
  /\ black' = black \union {x}
  /\ stack' = (stack \ {x}) \union (IF x \in black THEN {} ELSE RefsOf(graph, x) \ black')
  /\ UNCHANGED <<programVars, phase, counted, cpc, garbage, heapVars>>

(* The collector ends the marking phase, and marks what the stack still holds. *)
EndMarking(c) ==
  /\ cpc[c] = "marking"
  /\ Transition(c, "Marking", "Sweeping", "draining", "refused")
  /\ UNCHANGED <<programVars, markVars, garbage, heapVars>>

PreMark(c) ==
  /\ cpc[c] = "draining"
  /\ stack = {}
  /\ HeapPreMark
  /\ cpc' = [cpc EXCEPT ![c] = "counting"]
  /\ UNCHANGED <<programVars, phase, markVars, garbage>>

MarkLive(c, x) ==
  /\ cpc[c] = "counting"
  /\ x \in black \ counted
  /\ HeapMarkLive(at[x])
  /\ counted' = counted \union {x}
  /\ UNCHANGED <<programVars, phase, stack, black, cpc, garbage>>

(* sweep(); the program forgets the objects that were not marked. *)
Sweep(c) ==
  /\ cpc[c] = "counting"
  /\ counted = black
  /\ HeapSweep
  /\ at' = [x \in Objects |-> IF x \in black THEN at[x] ELSE NoHandle]
  /\ graph' = [x \in Objects |-> IF x \in black THEN graph[x] ELSE [f \in Fields |-> Null]]
  /\ black' = {} /\ counted' = {}
  /\ garbage' = {}
  /\ cpc' = [cpc EXCEPT ![c] = "swept"]
  /\ UNCHANGED <<roots, phase, stack>>

(* Faulty: the last transition expects the phase of the marking. *)
End_FromMarking(c) ==
  /\ cpc[c] = "swept"
  /\ Transition(c, "Marking", "Idle", "idle", "refused")
  /\ UNCHANGED <<programVars, markVars, garbage, heapVars>>

End(c) ==
  /\ cpc[c] = "swept"
  /\ Transition(c, "Sweeping", "Idle", "idle", "refused")
  /\ UNCHANGED <<programVars, markVars, garbage, heapVars>>

-----------------------------------------------------------------------------
Program ==
  \/ \E x \in Objects, r \in Regions, size \in Sizes : Allocate(x, r, size)
  \/ \E size \in Sizes : AllocateFails(size)
  \/ \E x \in Objects : AddRoot(x) \/ DropRoot(x)
  \/ \E x \in Objects, f \in Fields, target \in Ref : Overwrite(x, f, target)

(* What a collector does in a cycle it has begun. *)
Work(c) ==
  \/ PushRoots(c) \/ EndMarking(c) \/ PreMark(c) \/ Sweep(c) \/ End(c)
  \/ \E x \in Objects : Mark(c, x) \/ MarkLive(c, x)

Next == Program \/ \E c \in Collectors : Begin(c) \/ Work(c)

Spec == Init /\ [][Next]_vars

(* A collector that has begun a cycle keeps being scheduled, and ends the  *)
(* marking phase at some point, however much there is to mark.             *)
FairSpec ==
  Spec /\ \A c \in Collectors : WF_vars(Work(c)) /\ WF_vars(EndMarking(c))

-----------------------------------------------------------------------------
(* Properties. *)

(* The heap keeps every object the program can reach: its region has not   *)
(* been given back and no other such object shares its bytes, over any     *)
(* number of cycles, with objects allocated, moved and dropped while they  *)
(* run.                                                                    *)
LiveIntact ==
  \A x \in Live :
    /\ at[x] # NoHandle
    /\ Valid(at[x])
    /\ \A y \in Live \ {x} :
         at[x].region = at[y].region => Extent(at[x]) \intersect Extent(at[y]) = {}

(* One collector at a time runs a cycle, the phase says how far it is, and *)
(* none of its transitions is refused (src/src/atomic.rs:41-44), however   *)
(* many try to begin one.                                                  *)
OneCollector ==
  /\ \A c \in Collectors : cpc[c] # "refused"
  /\ \A c, d \in Collectors : cpc[c] # "idle" /\ cpc[d] # "idle" => c = d
  /\ \A c \in Collectors :
       cpc[c] # "idle" =>
         Decode(phase) = IF cpc[c] \in {"rooting", "marking"} THEN "Marking" ELSE "Sweeping"

(* A cycle reclaims what was garbage when it began: the only regions that  *)
(* sweep leaves in place hold an object that was not                       *)
(* (src/src/region.rs:21-23).                                              *)
GarbageReclaimed ==
  [][\A c \in Collectors : Sweep(c) =>
       \A r \in Regions : state'[r] = "Free"
         \/ \E x \in Allocated \ garbage : at[x].region = r]_vars

(* Every cycle comes to its end, and the phase is Idle again. *)
CycleEnds == (Decode(phase) = "Marking") ~> (Decode(phase) = "Idle")

=============================================================================
