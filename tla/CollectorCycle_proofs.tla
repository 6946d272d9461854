----------------------- MODULE CollectorCycle_proofs -----------------------
(***************************************************************************)
(* The collection cycle is safe for any number of objects, fields, regions *)
(* and collectors: what the program can reach keeps its bytes.             *)
(***************************************************************************)
EXTENDS CollectorCycle, TLAPS

(* The collectors agree with the phase, and when none is at work the phase *)
(* is Idle.                                                                *)
PhaseInv ==
  /\ OneCollector
  /\ (\A c \in Collectors : cpc[c] = "idle") => phase = Encode["Idle"]

(* Objects that are not allocated are empty, and nothing refers to them.   *)
AllocInv ==
  /\ roots \union stack \union black \subseteq Allocated
  /\ \A x \in Objects \ Allocated, f \in Fields : graph[x][f] = Null
  /\ Closed(graph, Allocated)

(* What the marker that has scanned b and holds s on its stack will come   *)
(* to in the graph g: everything its stack leads to without passing through*)
(* an object it has scanned.                                               *)
Unscanned(g, b) == [x \in Objects |-> IF x \in b THEN [f \in Fields |-> Null] ELSE g[x]]
Found(g, b, s)  == b \union Reachable(Unscanned(g, b), s)

(* The roots r and the scanned objects refer to nothing else.              *)
Tracks(g, r, b, s) ==
  r \subseteq Found(g, b, s) /\ \A x \in b : RefsOf(g, x) \subseteq Found(g, b, s)

(* What the cycle has in hand at each of its stages. *)
MarkingInv ==
  \A c \in Collectors :
    /\ cpc[c] \in {"marking", "draining", "counting"} => Tracks(graph, roots, black, stack)
    /\ cpc[c] \in {"rooting", "swept"} => black = {}
    /\ cpc[c] \in {"counting", "swept"} => stack = {}
    /\ cpc[c] = "counting" => \A x \in counted : liveCount[at[x].region] > 0
    /\ cpc[c] # "counting" /\ cpc[c] # "idle" => counted = {}

(* Between cycles the marker has nothing in hand. *)
IdleInv == (\A c \in Collectors : cpc[c] = "idle") => black = {} /\ stack = {}

(* Allocated objects have their bytes to themselves. *)
BytesInv ==
  /\ \A x \in Allocated : Valid(at[x])
  /\ \A x, y \in Allocated : x # y /\ at[x].region = at[y].region =>
       Extent(at[x]) \intersect Extent(at[y]) = {}

CycleInv == AllocInv /\ MarkingInv /\ IdleInv /\ BytesInv

-----------------------------------------------------------------------------
(* The heap.  What its operations do to types and handles is proved with   *)
(* RegionClient, and carried over by an instance of a client that holds no *)
(* handle: the operations below change the heap in the same way.           *)
Client == INSTANCE RegionClient_proofs
            WITH gc <- "mutate", live <- {}, toMark <- {}, marked <- {},
                 StopTheWorld <- TRUE, MaxLive <- 0

(* The assumptions of the instance. *)
LEMMA ClientAssumption ==
  /\ NRegions \in Nat
  /\ Align \in Nat \ {0}
  /\ RegionSize \in Nat /\ RegionSize % Align = 0
  /\ Sizes \subseteq Nat
  /\ TRUE \in BOOLEAN
  /\ 0 \in Nat
BY SizeAssumption

(* Both talk of the same regions and handles. *)
LEMMA SameHeap ==
  /\ Client!Regions = Regions /\ Client!Handle = Handle /\ Client!NoRegion = NoRegion
  /\ (Client!HeapTypeOK <=> HeapTypeOK) /\ (Client!HeapTypeOK' <=> HeapTypeOK')
  /\ \A r, size : Client!HandleAt(r, size) = HandleAt(r, size)
  /\ \A h : Client!Extent(h) = Extent(h)
  /\ \A h : (Client!Valid(h) <=> Valid(h)) /\ (Client!Valid(h)' <=> Valid(h)')
BY DEF Client!Regions, Regions, Client!Handle, Handle, Client!NoRegion, NoRegion,
       Client!HeapTypeOK, HeapTypeOK, Client!States, States, Client!HandleAt, HandleAt,
       Client!Aligned, Aligned, Client!Extent, Extent, Client!Valid, Valid

(* Both do the same to them. *)
LEMMA SameOperations ==
  /\ Client!HeapInit <=> HeapInit
  /\ \A r, size : Client!HeapAlloc(r, size) <=> HeapAlloc(r, size)
  /\ \A size : Client!HeapRefuse(size) <=> HeapRefuse(size)
  /\ \A h : Client!HeapMarkLive(h) <=> HeapMarkLive(h)
  /\ (Client!HeapPreMark <=> HeapPreMark) /\ (Client!HeapSweep <=> HeapSweep)
<1> USE DEF Client!Regions, Regions, Client!NoRegion, NoRegion
<1> USE DEF Client!Aligned, Aligned, Client!Fits, Fits, Client!InCurrent, InCurrent,
            Client!FreeFit, FreeFit, Client!Refused, Refused
<1>1. Client!HeapInit <=> HeapInit
  BY DEF Client!HeapInit, HeapInit
<1>2. \A r, size : Client!HeapAlloc(r, size) <=> HeapAlloc(r, size)
  BY DEF Client!HeapAlloc, HeapAlloc, Client!InFirstFree, InFirstFree
<1>3. \A size : Client!HeapRefuse(size) <=> HeapRefuse(size)
  BY DEF Client!HeapRefuse, HeapRefuse
<1>4. \A h : Client!HeapMarkLive(h) <=> HeapMarkLive(h)
  BY DEF Client!HeapMarkLive, HeapMarkLive
<1>5. (Client!HeapPreMark <=> HeapPreMark) /\ (Client!HeapSweep <=> HeapSweep)
  BY DEF Client!HeapPreMark, HeapPreMark, Client!HeapSweep, HeapSweep,
         Client!HeapReset, HeapReset, Client!Dead, Dead
<1> QED BY <1>1, <1>2, <1>3, <1>4, <1>5

(* The heap begins with its types, and every operation keeps them. *)
LEMMA HeapTypeInit == HeapInit => HeapTypeOK
BY Client!HeapTypeInit, ClientAssumption, SameHeap, SameOperations

(* An allocation keeps the types and yields a handle. *)
LEMMA HeapTypeAlloc ==
  ASSUME HeapTypeOK, NEW r \in Regions, NEW size \in Sizes, HeapAlloc(r, size)
  PROVE  HeapTypeOK' /\ HandleAt(r, size) \in Handle
BY Client!HeapTypeAlloc, ClientAssumption, SameHeap, SameOperations

(* So does a refused request. *)
LEMMA HeapTypeRefuse ==
  ASSUME HeapTypeOK, NEW size, HeapRefuse(size) PROVE HeapTypeOK'
BY Client!HeapTypeRefuse, ClientAssumption, SameHeap, SameOperations

(* So does counting an object. *)
LEMMA HeapTypeMark ==
  ASSUME HeapTypeOK, NEW h, HeapMarkLive(h) PROVE HeapTypeOK'
BY Client!HeapTypeMark, ClientAssumption, SameHeap, SameOperations

(* So do the two ends of a cycle. *)
LEMMA HeapTypeCycle ==
  ASSUME HeapTypeOK, HeapPreMark \/ HeapSweep PROVE HeapTypeOK'
BY Client!HeapTypeCycle, ClientAssumption, SameHeap, SameOperations

(* The new handle lies beyond everything its region has handed out. *)
LEMMA AllocExtends ==
  ASSUME HeapTypeOK, NEW r \in Regions, NEW size \in Sizes, HeapAlloc(r, size),
         NEW new, new = HandleAt(r, size)
  PROVE  /\ Valid(new)'
         /\ \A h \in Handle : Valid(h) =>
              Valid(h)' /\ (h.region = r => Extent(h) \intersect Extent(new) = {})
BY Client!AllocExtends, ClientAssumption, SameHeap, SameOperations

(* A refused request invalidates no handle. *)
LEMMA RefuseKeeps ==
  ASSUME NEW size, HeapRefuse(size), NEW h \in Handle, Valid(h) PROVE Valid(h)'
BY Client!RefuseKeeps, ClientAssumption, SameHeap, SameOperations

(* sweep invalidates no handle into a region with a marked object. *)
LEMMA SweepKeeps ==
  ASSUME HeapTypeOK, HeapSweep, NEW h \in Handle, Valid(h), liveCount[h.region] > 0
  PROVE  Valid(h)'
BY Client!SweepKeeps, ClientAssumption, SameHeap, SameOperations

(* A marked object counts in its region, and nowhere does a count fall. *)
LEMMA MarkCounts ==
  ASSUME HeapTypeOK, NEW h \in Handle, HeapMarkLive(h)
  PROVE  /\ liveCount'[h.region] > 0
         /\ \A r \in Regions : liveCount[r] > 0 => liveCount'[r] > 0
BY Client!MarkCounts, ClientAssumption, SameHeap, SameOperations

-----------------------------------------------------------------------------
(* encode and decode are inverse to each other. *)
LEMMA Decoded ==
  /\ Decode(Encode["Idle"]) = "Idle"
  /\ Decode(Encode["Marking"]) = "Marking"
  /\ Decode(Encode["Sweeping"]) = "Sweeping"
  /\ Encode["Idle"] # Encode["Marking"] /\ Encode["Idle"] # Encode["Sweeping"]
  /\ Encode["Marking"] # Encode["Sweeping"]
  /\ \A p \in {"Idle", "Marking", "Sweeping"} : Encode[p] \in {Encode[q] : q \in DOMAIN Encode}
  /\ \A b \in {Encode[q] : q \in DOMAIN Encode} : b = Encode[Decode(b)]
<1>1. DOMAIN Encode = {"Idle", "Marking", "Sweeping"}
  BY DEF Encode
<1>2. Encode["Idle"] = 0 /\ Encode["Marking"] = 1 /\ Encode["Sweeping"] = 2
  BY DEF Encode
<1>3. \A p \in DOMAIN Encode : Decode(Encode[p]) = p
  <2> SUFFICES ASSUME NEW p \in DOMAIN Encode PROVE Decode(Encode[p]) = p
    OBVIOUS
  <2>1. \A q \in DOMAIN Encode : Encode[q] = Encode[p] => q = p
    BY <1>1, <1>2
  <2> QED BY <2>1 DEF Decode
<1> QED BY <1>1, <1>2, <1>3

(* Steps of the program leave phase and collectors alone. *)
LEMMA ProgramLeaves == ASSUME Program PROVE UNCHANGED <<phase, cpc, garbage, counted, black>>
BY DEF Program, Allocate, AllocateFails, AddRoot, DropRoot, Overwrite, markVars

(* Every variable keeps its type. *)
THEOREM TypeCorrect == Spec => []TypeOK
<1>1. Init => TypeOK
  BY HeapTypeInit, Decoded DEF Init, TypeOK, Heap, Ref
<1>2. TypeOK /\ [Next]_vars => TypeOK'
  <2> SUFFICES ASSUME TypeOK, [Next]_vars PROVE TypeOK'
    OBVIOUS
  <2> USE DEF TypeOK, programVars, markVars
  <2>1. ASSUME NEW x \in Objects, NEW r \in Regions, NEW size \in Sizes, Allocate(x, r, size)
        PROVE  TypeOK'
    <3>1. HeapTypeOK' /\ HandleAt(r, size) \in Handle
      BY <2>1, HeapTypeAlloc DEF Allocate
    <3> QED BY <2>1, <3>1 DEF Allocate
  <2>2. ASSUME NEW size \in Sizes, AllocateFails(size) PROVE TypeOK'
    BY <2>2, HeapTypeRefuse DEF AllocateFails
  <2>h. ASSUME UNCHANGED heapVars PROVE HeapTypeOK'
    BY <2>h DEF HeapTypeOK, heapVars
  <2>3. ASSUME NEW x \in Objects, AddRoot(x) \/ DropRoot(x) PROVE TypeOK'
    BY <2>3, <2>h DEF AddRoot, DropRoot
  <2>4. ASSUME NEW x \in Objects, NEW f \in Fields, NEW target \in Ref, Overwrite(x, f, target)
        PROVE  TypeOK'
    <3>1. graph' \in Heap
      BY <2>4 DEF Overwrite, ReplaceEdge, Heap
    <3>2. graph[x][f] \in Ref
      BY DEF Heap
    <3>3. stack' \in SUBSET Objects
      BY <2>4, <3>2 DEF Overwrite, PreWrite, Ref
    <3> QED BY <2>4, <2>h, <3>1, <3>3 DEF Overwrite
  <2>5. ASSUME NEW c \in Collectors, Begin(c) \/ EndMarking(c) \/ End(c) PROVE TypeOK'
    BY <2>5, <2>h, Decoded
       DEF Begin, EndMarking, End, Transition, Allocated, Live, Reachable
  <2>6. ASSUME NEW c \in Collectors, PushRoots(c) PROVE TypeOK'
    BY <2>6, <2>h DEF PushRoots
  <2>7. ASSUME NEW c \in Collectors, NEW x \in Objects, Mark(c, x) PROVE TypeOK'
    BY <2>7, <2>h DEF Mark, RefsOf, Heap, Ref
  <2>8. ASSUME NEW c \in Collectors, PreMark(c) PROVE TypeOK'
    BY <2>8, HeapTypeCycle DEF PreMark
  <2>9. ASSUME NEW c \in Collectors, NEW x \in Objects, MarkLive(c, x) PROVE TypeOK'
    BY <2>9, HeapTypeMark DEF MarkLive
  <2>10. ASSUME NEW c \in Collectors, Sweep(c) PROVE TypeOK'
    <3>1. HeapTypeOK'
      BY <2>10, HeapTypeCycle DEF Sweep
    <3>2. graph' \in Heap
      BY <2>10 DEF Sweep, Heap, Ref
    <3> QED BY <2>10, <3>1, <3>2 DEF Sweep
  <2>11. CASE UNCHANGED vars
    BY <2>11, <2>h DEF vars
  <2> QED
    BY <2>1, <2>2, <2>3, <2>4, <2>5, <2>6, <2>7, <2>8, <2>9, <2>10, <2>11
       DEF Next, Program, Work
<1> QED BY <1>1, <1>2, PTL DEF Spec

-----------------------------------------------------------------------------
(* The phase and the collectors. *)

(* A step of a collector keeps phase and collectors in agreement. *)
LEMMA PhaseCollector ==
  ASSUME TypeOK, PhaseInv, NEW c \in Collectors, Begin(c) \/ Work(c)
  PROVE  PhaseInv'
<1> USE Decoded DEF PhaseInv, OneCollector, TypeOK
<1>1. CASE Begin(c)
  <2>1. CASE phase = Encode["Idle"]
    <3>1. \A d \in Collectors : cpc[d] = "idle"
      BY <2>1
    <3>2. phase' = Encode["Marking"] /\ cpc' = [cpc EXCEPT ![c] = "rooting"]
      BY <1>1, <2>1 DEF Begin, Transition
    <3> QED BY <3>1, <3>2
  <2>2. CASE phase # Encode["Idle"]
    <3>1. phase' = phase /\ cpc' = cpc
      BY <1>1, <2>2 DEF Begin, Transition
    <3> QED BY <3>1
  <2> QED BY <2>1, <2>2
<1>2. CASE EndMarking(c)
  <2>1. phase = Encode["Marking"]
    <3>1. Decode(phase) = "Marking"
      BY <1>2 DEF EndMarking
    <3>2. phase = Encode[Decode(phase)]
      OBVIOUS
    <3> QED BY <3>1, <3>2
  <2>2. phase' = Encode["Sweeping"] /\ cpc' = [cpc EXCEPT ![c] = "draining"]
    BY <1>2, <2>1 DEF EndMarking, Transition
  <2>3. \A d \in Collectors \ {c} : cpc[d] = "idle"
    BY <1>2 DEF EndMarking
  <2> QED BY <2>2, <2>3
<1>3. CASE End(c)
  <2>1. phase = Encode["Sweeping"]
    <3>1. Decode(phase) = "Sweeping"
      BY <1>3 DEF End
    <3>2. phase = Encode[Decode(phase)]
      OBVIOUS
    <3> QED BY <3>1, <3>2
  <2>2. phase' = Encode["Idle"] /\ cpc' = [cpc EXCEPT ![c] = "idle"]
    BY <1>3, <2>1 DEF End, Transition
  <2>3. \A d \in Collectors \ {c} : cpc[d] = "idle"
    BY <1>3 DEF End
  <2> QED BY <2>2, <2>3
<1>4. CASE PushRoots(c)
  BY <1>4 DEF PushRoots
<1>5. ASSUME NEW x \in Objects, Mark(c, x) \/ MarkLive(c, x) PROVE PhaseInv'
  BY <1>5 DEF Mark, MarkLive
<1>6. CASE PreMark(c)
  BY <1>6 DEF PreMark
<1>7. CASE Sweep(c)
  BY <1>7 DEF Sweep
<1> QED BY <1>1, <1>2, <1>3, <1>4, <1>5, <1>6, <1>7 DEF Work

(* One collector is at work at a time and the phase says how far it is;   *)
(* the phase is Idle when none is (src/src/atomic.rs:41-54).              *)
THEOREM PhaseInvariant == Spec => []PhaseInv
<1>1. Init => PhaseInv
  BY DEF Init, PhaseInv, OneCollector
<1>2. TypeOK /\ PhaseInv /\ [Next]_vars => PhaseInv'
  <2> SUFFICES ASSUME TypeOK, PhaseInv, [Next]_vars PROVE PhaseInv'
    OBVIOUS
  <2>1. CASE Program
    BY <2>1, ProgramLeaves DEF PhaseInv, OneCollector
  <2>2. ASSUME NEW c \in Collectors, Begin(c) \/ Work(c) PROVE PhaseInv'
    BY <2>2, PhaseCollector
  <2>3. CASE UNCHANGED vars
    BY <2>3 DEF vars, PhaseInv, OneCollector
  <2> QED BY <2>1, <2>2, <2>3 DEF Next
<1> QED BY <1>1, <1>2, TypeCorrect, PTL DEF Spec

(* However many collectors race to begin a cycle, one of them runs it and  *)
(* the phase follows it (src/src/atomic.rs:41-54).                         *)
THEOREM OneCollectorTheorem == Spec => []OneCollector
<1>1. PhaseInv => OneCollector
  BY DEF PhaseInv
<1> QED BY <1>1, PhaseInvariant, PTL

-----------------------------------------------------------------------------
(* What the marker finds. *)

(* What is found lies in every set that holds the scanned and the stacked *)
(* objects and that no unscanned object of it leads out of.               *)
LEMMA FoundLeast ==
  ASSUME NEW g \in Heap, NEW b \in SUBSET Objects, NEW s \in SUBSET Objects,
         NEW S \in SUBSET Objects, b \union s \subseteq S,
         \A x \in S \ b : RefsOf(g, x) \subseteq S
  PROVE  Found(g, b, s) \subseteq S
<1>1. Closed(Unscanned(g, b), S)
  <2> SUFFICES ASSUME NEW x \in S PROVE RefsOf(Unscanned(g, b), x) \subseteq S
    BY DEF Closed
  <2>1. CASE x \in b
    BY <2>1 DEF RefsOf, Unscanned
  <2>2. CASE x \notin b
    <3>1. RefsOf(Unscanned(g, b), x) = RefsOf(g, x)
      BY <2>2 DEF RefsOf, Unscanned
    <3> QED BY <2>2, <3>1
  <2> QED BY <2>1, <2>2
<1>2. Reachable(Unscanned(g, b), s) \subseteq S
  BY <1>1 DEF Reachable
<1> QED BY <1>2 DEF Found

(* What a reachable object refers to is reachable. *)
LEMMA ReachableClosed ==
  ASSUME NEW h \in Heap, NEW r PROVE Closed(h, Reachable(h, r))
BY DEF Closed, Reachable, Heap, Ref, RefsOf

(* What is found holds the scanned and the stacked objects, and no        *)
(* unscanned object of it leads out of it.                                *)
LEMMA FoundClosed ==
  ASSUME NEW g \in Heap, NEW b \in SUBSET Objects, NEW s \in SUBSET Objects
  PROVE  /\ b \union s \subseteq Found(g, b, s)
         /\ Found(g, b, s) \subseteq Objects
         /\ \A x \in Found(g, b, s) \ b : RefsOf(g, x) \subseteq Found(g, b, s)
<1>1. Unscanned(g, b) \in Heap
  BY DEF Unscanned, Heap, Ref
<1>2. /\ s \subseteq Reachable(Unscanned(g, b), s)
      /\ Reachable(Unscanned(g, b), s) \subseteq Objects
  BY DEF Reachable
<1>3. Closed(Unscanned(g, b), Reachable(Unscanned(g, b), s))
  BY <1>1, ReachableClosed
<1>4. ASSUME NEW x \in Found(g, b, s) \ b PROVE RefsOf(g, x) \subseteq Found(g, b, s)
  <2>1. x \in Reachable(Unscanned(g, b), s) /\ x \in Objects
    BY <1>2 DEF Found
  <2>2. RefsOf(Unscanned(g, b), x) = RefsOf(g, x)
    BY <2>1 DEF RefsOf, Unscanned
  <2> QED BY <1>3, <2>1, <2>2 DEF Closed, Found
<1> QED BY <1>2, <1>4 DEF Found

(* With an empty stack there is nothing ahead. *)
LEMMA FoundAll ==
  ASSUME NEW g \in Heap, NEW b \in SUBSET Objects, NEW r,
         Tracks(g, r, b, {})
  PROVE  Found(g, b, {}) = b /\ r \subseteq b /\ Closed(g, b)
<1>1. Found(g, b, {}) = b
  <2>1. Found(g, b, {}) \subseteq b
    <3>1. {} \in SUBSET Objects /\ b \union {} \subseteq b /\ b \ b = {}
      OBVIOUS
    <3> QED BY <3>1, FoundLeast
  <2> QED BY <2>1 DEF Found
<1> QED BY <1>1 DEF Tracks, Closed

(* The marker comes to every object that the roots lead to. *)
LEMMA FoundLive ==
  ASSUME NEW g \in Heap, NEW b \in SUBSET Objects, NEW s \in SUBSET Objects, NEW r,
         Tracks(g, r, b, s)
  PROVE  Reachable(g, r) \subseteq Found(g, b, s)
<1>1. Closed(g, Found(g, b, s))
  BY FoundClosed DEF Closed, Tracks
<1> QED BY <1>1, FoundClosed DEF Tracks, Reachable

(* Roots may be taken from what is found or pushed. *)
LEMMA TracksPush ==
  ASSUME NEW g \in Heap, NEW b \in SUBSET Objects, NEW s \in SUBSET Objects, NEW r,
         Tracks(g, r, b, s),
         NEW t \in SUBSET Objects, s \subseteq t, NEW q, q \subseteq Found(g, b, s) \union t
  PROVE  Tracks(g, q, b, t)
<1>1. Found(g, b, s) \subseteq Found(g, b, t)
  BY FoundClosed, FoundLeast
<1>2. t \subseteq Found(g, b, t)
  BY FoundClosed
<1> QED BY <1>1, <1>2 DEF Tracks

(* A reference may be overwritten with what is found if the old one is     *)
(* pushed, or was one of a scanned object.                                 *)
LEMMA TracksOverwrite ==
  ASSUME NEW g \in Heap, NEW b \in SUBSET Objects, NEW s \in SUBSET Objects, NEW r,
         Tracks(g, r, b, s),
         NEW x \in Objects, NEW f \in Fields, NEW new \in Found(g, b, s) \union {Null},
         NEW t \in SUBSET Objects, s \subseteq t,
         x \in b \/ g[x][f] \in t \union {Null},
         NEW h \in Heap, h = [g EXCEPT ![x][f] = new]
  PROVE  Tracks(h, r, b, t)
<1>1. \A y \in Objects : RefsOf(h, y) \subseteq RefsOf(g, y) \union ({new} \ {Null})
  BY DEF RefsOf, Heap
<1>2. \A y \in Objects : RefsOf(g, y) \subseteq RefsOf(h, y) \union (IF y = x THEN {g[x][f]} \ {Null} ELSE {})
  BY DEF RefsOf, Heap
<1>3. Found(g, b, s) \subseteq Found(h, b, t)
  <2>1. ASSUME NEW y \in Found(h, b, t) \ b PROVE RefsOf(g, y) \subseteq Found(h, b, t)
    <3>1. RefsOf(h, y) \subseteq Found(h, b, t) /\ y \in Objects /\ t \subseteq Found(h, b, t)
      BY FoundClosed
    <3> QED BY <1>2, <3>1
  <2>2. b \union s \subseteq Found(h, b, t) /\ Found(h, b, t) \in SUBSET Objects
    BY FoundClosed
  <2>3. PICK S \in SUBSET Objects : S = Found(h, b, t)
    BY <2>2
  <2>4. \A y \in S \ b : RefsOf(g, y) \subseteq S
    BY <2>1, <2>3
  <2>5. b \union s \subseteq S
    BY <2>2, <2>3
  <2>6. Found(g, b, s) \subseteq S
    BY <2>4, <2>5, FoundLeast
  <2> QED BY <2>3, <2>6
<1>4. ASSUME NEW y \in b PROVE RefsOf(h, y) \subseteq Found(h, b, t)
  <2>1. RefsOf(g, y) \subseteq Found(g, b, s)
    BY DEF Tracks
  <2> QED BY <1>1, <1>3, <2>1
<1> QED BY <1>3, <1>4 DEF Tracks

(* Scanning an object moves it and what it refers to. *)
LEMMA TracksScan ==
  ASSUME NEW g \in Heap, NEW b \in SUBSET Objects, NEW s \in SUBSET Objects, NEW r,
         Tracks(g, r, b, s), NEW x \in s,
         NEW c \in SUBSET Objects, c = b \union {x},
         NEW t \in SUBSET Objects, s \ {x} \subseteq t,
         x \notin b => RefsOf(g, x) \subseteq c \union t
  PROVE  Tracks(g, r, c, t)
<1>1. c \union t \subseteq Found(g, c, t) /\ Found(g, c, t) \subseteq Objects
  BY FoundClosed
<1>2. x \notin b => RefsOf(g, x) \subseteq Found(g, c, t)
  BY <1>1
<1>3. \A y \in Found(g, c, t) \ b : RefsOf(g, y) \subseteq Found(g, c, t)
  BY <1>2, FoundClosed
<1>4. Found(g, b, s) \subseteq Found(g, c, t)
  <2>1. PICK S \in SUBSET Objects : S = Found(g, c, t)
    BY <1>1
  <2>2. b \union s \subseteq S
    BY <1>1, <2>1
  <2>3. \A y \in S \ b : RefsOf(g, y) \subseteq S
    BY <1>3, <2>1
  <2>4. Found(g, b, s) \subseteq S
    BY <2>2, <2>3, FoundLeast
  <2> QED BY <2>1, <2>4
<1> QED BY <1>2, <1>4 DEF Tracks

-----------------------------------------------------------------------------
(* What is allocated. *)

(* What the program can reach is allocated. *)
LEMMA LiveAllocated ==
  ASSUME TypeOK, AllocInv PROVE Live \subseteq Allocated
<1>1. Allocated \in SUBSET Objects
  BY DEF Allocated
<1> QED BY <1>1 DEF AllocInv, Live, Reachable

(* The program refers to allocated objects only. *)
LEMMA AllocProgram ==
  ASSUME TypeOK, AllocInv, Program PROVE AllocInv'
<1> USE DEF AllocInv, TypeOK
<1>1. ASSUME NEW x \in Objects, NEW r \in Regions, NEW size \in Sizes, Allocate(x, r, size)
      PROVE  AllocInv'
  <2>1. Allocated' = Allocated \union {x} /\ x \notin Allocated
    <3>1. HandleAt(r, size) \in Handle /\ at' = [at EXCEPT ![x] = HandleAt(r, size)]
      BY <1>1, HeapTypeAlloc DEF Allocate
    <3>2. HandleAt(r, size) # NoHandle
      BY <3>1, NoHandleAssumption
    <3>3. x \notin Allocated
      BY <1>1 DEF Allocate
    <3>4. at'[x] # NoHandle /\ \A y \in Objects : y # x => at'[y] = at[y]
      BY <3>1, <3>2
    <3> QED BY <3>3, <3>4 DEF Allocated
  <2>2. /\ roots' = roots \union {x} /\ stack' \subseteq stack \union {x}
        /\ UNCHANGED <<graph, black>>
    BY <1>1 DEF Allocate
  <2>3. RefsOf(graph, x) = {}
    BY <2>1 DEF RefsOf
  <2>4. Closed(graph, Allocated \union {x})
    BY <2>3 DEF Closed
  <2> QED BY <2>1, <2>2, <2>4
<1>2. ASSUME NEW size \in Sizes, AllocateFails(size) PROVE AllocInv'
  BY <1>2 DEF AllocateFails, programVars, markVars, Allocated
<1>3. ASSUME NEW x \in Objects, AddRoot(x) \/ DropRoot(x) PROVE AllocInv'
  <2>1. roots' \subseteq Allocated /\ UNCHANGED <<graph, at, stack, black>>
    BY <1>3, LiveAllocated DEF AddRoot, DropRoot, markVars
  <2> QED BY <2>1 DEF Allocated
<1>4. ASSUME NEW x \in Objects, NEW f \in Fields, NEW target \in Ref, Overwrite(x, f, target)
      PROVE  AllocInv'
  <2>1. x \in Allocated /\ target \in Allocated \union {Null}
    BY <1>4, LiveAllocated DEF Overwrite
  <2>2. /\ graph' = [graph EXCEPT ![x][f] = target] /\ stack' \subseteq stack \union ({graph[x][f]} \ {Null})
        /\ UNCHANGED <<at, roots, black>>
    BY <1>4 DEF Overwrite, PreWrite, ReplaceEdge
  <2>3. {graph[x][f]} \ {Null} \subseteq RefsOf(graph, x)
    BY DEF RefsOf
  <2>4. stack' \subseteq Allocated
    BY <2>1, <2>2, <2>3 DEF Closed
  <2>5. Closed(graph', Allocated)
    <3>1. \A y \in Objects : RefsOf(graph', y) \subseteq RefsOf(graph, y) \union ({target} \ {Null})
      BY <2>2 DEF RefsOf, Heap
    <3> QED BY <3>1, <2>1 DEF Closed, Allocated
  <2>6. \A y \in Objects \ Allocated, g \in Fields : graph'[y][g] = Null
    BY <2>1, <2>2 DEF Heap
  <2> QED BY <2>2, <2>4, <2>5, <2>6 DEF Allocated
<1> QED BY <1>1, <1>2, <1>3, <1>4 DEF Program

(* When the marker has come to the end of its stack, what it has scanned   *)
(* is all that the program can reach.                                      *)
LEMMA ScannedAll ==
  ASSUME TypeOK, MarkingInv, NEW c \in Collectors, cpc[c] = "counting"
  PROVE  stack = {} /\ roots \subseteq black /\ Closed(graph, black) /\ Live \subseteq black
<1>1. stack = {} /\ Tracks(graph, roots, black, stack) /\ graph \in Heap /\ black \in SUBSET Objects
  BY DEF MarkingInv, TypeOK
<1>2. roots \subseteq black /\ Closed(graph, black)
  BY <1>1, FoundAll
<1> QED BY <1>1, <1>2 DEF Live, Reachable

(* Sweep leaves the scanned objects where they are. *)
LEMMA SweepAllocated ==
  ASSUME AllocInv, NEW c, Sweep(c)
  PROVE  Allocated' = black /\ \A x \in black : at'[x] = at[x]
<1>1. black \subseteq Allocated /\ Allocated \subseteq Objects
  BY DEF AllocInv, Allocated
<1> QED BY <1>1 DEF Sweep, Allocated

(* So does the marker, and sweep frees nothing that is referred to. *)
LEMMA AllocCollector ==
  ASSUME TypeOK, AllocInv, MarkingInv, NEW c \in Collectors, Begin(c) \/ Work(c)
  PROVE  AllocInv'
<1> USE DEF AllocInv, TypeOK
<1>1. CASE Begin(c) \/ EndMarking(c) \/ End(c)
  BY <1>1 DEF Begin, EndMarking, End, programVars, markVars, Allocated
<1>2. CASE PushRoots(c)
  BY <1>2 DEF PushRoots, programVars, Allocated
<1>3. ASSUME NEW x \in Objects, Mark(c, x) PROVE AllocInv'
  <2>1. x \in Allocated /\ RefsOf(graph, x) \subseteq Allocated
    BY <1>3 DEF Mark, Closed
  <2>2. /\ black' \subseteq black \union {x} /\ stack' \subseteq stack \union RefsOf(graph, x)
        /\ UNCHANGED <<graph, at, roots>>
    BY <1>3 DEF Mark, programVars
  <2> QED BY <2>1, <2>2 DEF Allocated
<1>4. CASE PreMark(c)
  BY <1>4 DEF PreMark, programVars, markVars, Allocated
<1>5. ASSUME NEW x \in Objects, MarkLive(c, x) PROVE AllocInv'
  BY <1>5 DEF MarkLive, programVars, Allocated
<1>6. CASE Sweep(c)
  <2>1. stack = {} /\ roots \subseteq black /\ Closed(graph, black)
    BY <1>6, ScannedAll DEF Sweep
  <2>2. Allocated' = black
    BY <1>6, SweepAllocated
  <2>3. /\ roots' = roots /\ stack' = stack /\ black' = {}
        /\ graph' = [x \in Objects |-> IF x \in black THEN graph[x] ELSE [f \in Fields |-> Null]]
    BY <1>6 DEF Sweep
  <2>4. Closed(graph', black)
    <3>1. \A x \in black : RefsOf(graph', x) = RefsOf(graph, x)
      BY <2>3 DEF RefsOf
    <3> QED BY <2>1, <3>1 DEF Closed
  <2>5. \A x \in Objects \ black, f \in Fields : graph'[x][f] = Null
    BY <2>3
  <2> QED BY <2>1, <2>2, <2>3, <2>4, <2>5
<1> QED BY <1>1, <1>2, <1>3, <1>4, <1>5, <1>6 DEF Work

-----------------------------------------------------------------------------
(* What the cycle has in hand. *)

(* A step of the program pushes only while the phase is Marking, and what  *)
(* is then a root has been found or pushed.                                *)
LEMMA ProgramPushes ==
  ASSUME TypeOK, Program
  PROVE  /\ stack \subseteq stack'
         /\ Decode(phase) # "Marking" => stack' = stack
         /\ Decode(phase) = "Sweeping" => UNCHANGED <<at, liveCount>>
BY DEF Program, Allocate, AllocateFails, AddRoot, DropRoot, Overwrite, PreWrite, programVars,
       markVars, heapVars

(* Whatever the program does, the marker still comes to all it can reach.  *)
LEMMA TracksProgram ==
  ASSUME TypeOK, TypeOK', PhaseInv, MarkingInv, Program,
         NEW c \in Collectors, cpc[c] \in {"marking", "draining", "counting"}
  PROVE  Tracks(graph, roots, black, stack)'
<1>1. /\ Tracks(graph, roots, black, stack) /\ graph \in Heap /\ black \in SUBSET Objects
      /\ stack \in SUBSET Objects /\ stack' \in SUBSET Objects /\ graph' \in Heap
  BY DEF MarkingInv, TypeOK
<1>2. /\ cpc[c] = "marking" => Decode(phase) = "Marking"
      /\ cpc[c] # "marking" => Decode(phase) = "Sweeping"
  BY DEF PhaseInv, OneCollector
<1>3. black' = black /\ stack \subseteq stack'
  BY ProgramLeaves, ProgramPushes
<1>4. Live \subseteq Found(graph, black, stack)
  BY <1>1, FoundLive DEF Live
<1>5. ASSUME graph' = graph, roots' \subseteq Found(graph, black, stack) \union stack'
      PROVE  Tracks(graph, roots, black, stack)'
  <2>1. Tracks(graph, roots', black, stack')
    BY <1>1, <1>3, <1>5, TracksPush
  <2> QED BY <2>1, <1>3, <1>5
<1>6. roots \subseteq Found(graph, black, stack)
  BY <1>1 DEF Tracks
<1>7. ASSUME NEW x \in Objects, NEW r \in Regions, NEW size \in Sizes, Allocate(x, r, size)
      PROVE  Tracks(graph, roots, black, stack)'
  <2>1. Decode(phase) = "Marking"
    BY <1>2, <1>7 DEF Allocate
  <2>2. graph' = graph /\ roots' = roots \union {x} /\ x \in stack'
    BY <1>7, <2>1 DEF Allocate
  <2> QED BY <1>5, <1>6, <2>2
<1>8. ASSUME NEW size \in Sizes, AllocateFails(size) PROVE Tracks(graph, roots, black, stack)'
  BY <1>5, <1>6, <1>8 DEF AllocateFails, programVars
<1>9. ASSUME NEW x \in Objects, AddRoot(x) \/ DropRoot(x)
      PROVE  Tracks(graph, roots, black, stack)'
  BY <1>4, <1>5, <1>6, <1>9 DEF AddRoot, DropRoot
<1>10. ASSUME NEW x \in Objects, NEW f \in Fields, NEW target \in Ref, Overwrite(x, f, target)
       PROVE  Tracks(graph, roots, black, stack)'
  <2>1. /\ graph' = [graph EXCEPT ![x][f] = target] /\ roots' = roots /\ x \in Live
        /\ target \in Found(graph, black, stack) \union {Null} /\ ~Draining
    BY <1>4, <1>10 DEF Overwrite, ReplaceEdge
  <2>2. x \in black \/ graph[x][f] \in stack' \union {Null}
    <3>1. CASE cpc[c] = "marking"
      BY <1>2, <1>10, <3>1 DEF Overwrite, PreWrite
    <3>2. CASE cpc[c] = "counting"
      BY <2>1, <3>2, ScannedAll
    <3>3. cpc[c] # "draining"
      BY <2>1 DEF Draining
    <3> QED BY <3>1, <3>2, <3>3
  <2>3. Tracks(graph', roots, black, stack')
    BY <1>1, <1>3, <2>1, <2>2, TracksOverwrite
  <2> QED BY <1>3, <2>1, <2>3
<1> QED BY <1>7, <1>8, <1>9, <1>10 DEF Program

(* No step of the program disturbs what the cycle has in hand. *)
LEMMA MarkingProgram ==
  ASSUME TypeOK, TypeOK', PhaseInv, MarkingInv, IdleInv, Program
  PROVE  MarkingInv' /\ IdleInv'
<1>1. UNCHANGED <<phase, cpc, counted, black>>
  BY ProgramLeaves
<1>2. /\ Decode(phase) # "Marking" => stack' = stack
      /\ Decode(phase) = "Sweeping" => UNCHANGED <<at, liveCount>>
  BY ProgramPushes
<1>3. ASSUME NEW c \in Collectors, cpc[c] \in {"counting", "swept"}
      PROVE  Decode(phase) = "Sweeping"
  BY <1>3 DEF PhaseInv, OneCollector
<1>4. ASSUME \A c \in Collectors : cpc[c] = "idle" PROVE Decode(phase) = "Idle"
  BY <1>4, Decoded DEF PhaseInv
<1>5. IdleInv'
  <2> SUFFICES ASSUME \A c \in Collectors : cpc[c] = "idle" PROVE black' = {} /\ stack' = {}
    BY <1>1 DEF IdleInv
  <2>1. stack' = stack
    BY <1>2, <1>4
  <2> QED BY <1>1, <2>1 DEF IdleInv
<1>6. ASSUME NEW c \in Collectors
      PROVE  /\ cpc'[c] \in {"marking", "draining", "counting"} => Tracks(graph, roots, black, stack)'
             /\ cpc'[c] \in {"rooting", "swept"} => black' = {}
             /\ cpc'[c] \in {"counting", "swept"} => stack' = {}
             /\ cpc'[c] = "counting" => \A x \in counted' : liveCount'[at'[x].region] > 0
             /\ cpc'[c] # "counting" /\ cpc'[c] # "idle" => counted' = {}
  <2>1. cpc'[c] \in {"marking", "draining", "counting"} => Tracks(graph, roots, black, stack)'
    BY <1>1, TracksProgram
  <2>2. cpc'[c] \in {"counting", "swept"} => stack' = stack
    BY <1>1, <1>2, <1>3
  <2>3. cpc'[c] = "counting" => UNCHANGED <<at, liveCount>>
    BY <1>1, <1>2, <1>3
  <2> QED BY <1>1, <2>1, <2>2, <2>3 DEF MarkingInv
<1> QED BY <1>5, <1>6 DEF MarkingInv

(* It is enough to look at the collector at work: the others are idle.     *)
LEMMA MarkingCollector ==
  ASSUME TypeOK, TypeOK', PhaseInv, AllocInv, MarkingInv, IdleInv,
         NEW c \in Collectors, Begin(c) \/ Work(c)
  PROVE  MarkingInv' /\ IdleInv'
<1> USE DEF TypeOK
<1>1. CASE Begin(c) /\ phase # Encode["Idle"]
  BY <1>1 DEF Begin, Transition, MarkingInv, IdleInv, programVars, markVars, heapVars
<1>2. CASE Begin(c) /\ phase = Encode["Idle"]
  <2>1. \A d \in Collectors : cpc[d] = "idle"
    BY <1>2, Decoded DEF PhaseInv, OneCollector
  <2>2. black = {} /\ stack = {} /\ counted = {}
    BY <2>1 DEF IdleInv
  <2>3. cpc' = [cpc EXCEPT ![c] = "rooting"] /\ UNCHANGED markVars
    BY <1>2 DEF Begin, Transition
  <2>4. \A d \in Collectors : cpc'[d] = IF d = c THEN "rooting" ELSE "idle"
    BY <2>1, <2>3
  <2> QED BY <2>2, <2>3, <2>4 DEF MarkingInv, IdleInv, markVars
<1>3. CASE Work(c)
  <2>1. cpc[c] # "idle"
    BY <1>3 DEF Work, PushRoots, EndMarking, PreMark, Sweep, End, Mark, MarkLive
  <2>2. \A d \in Collectors \ {c} : cpc[d] = "idle"
    BY <2>1 DEF PhaseInv, OneCollector
  <2>3. \A d \in Collectors \ {c} : cpc'[d] = "idle"
    BY <1>3, <2>2 DEF Work, PushRoots, EndMarking, PreMark, Sweep, End, Mark, MarkLive, Transition
  <2> DEFINE Stage ==
        /\ cpc[c] \in {"marking", "draining", "counting"} => Tracks(graph, roots, black, stack)
        /\ cpc[c] \in {"rooting", "swept"} => black = {}
        /\ cpc[c] \in {"counting", "swept"} => stack = {}
        /\ cpc[c] = "counting" => \A x \in counted : liveCount[at[x].region] > 0
        /\ cpc[c] # "counting" /\ cpc[c] # "idle" => counted = {}
  <2>4. Stage
    BY DEF MarkingInv
  <2>5. SUFFICES Stage' /\ (cpc'[c] = "idle" => black' = {} /\ stack' = {})
    BY <2>3 DEF MarkingInv, IdleInv
  <2>6. CASE PushRoots(c)
    <3>1. /\ cpc[c] = "rooting" /\ cpc'[c] = "marking" /\ stack' = stack \union roots
          /\ UNCHANGED <<graph, roots, black, counted>>
      BY <2>6 DEF PushRoots, programVars
    <3>2. black = {} /\ counted = {} /\ graph \in Heap /\ stack' \in SUBSET Objects
      BY <2>4, <3>1
    <3>3. roots \subseteq Found(graph, {}, stack')
      BY <3>1, <3>2, FoundClosed
    <3> QED BY <3>1, <3>2, <3>3 DEF Tracks
  <2>7. ASSUME NEW x \in Objects, Mark(c, x)
        PROVE  Stage' /\ (cpc'[c] = "idle" => black' = {} /\ stack' = {})
    <3>1. /\ cpc[c] \in {"marking", "draining"} /\ x \in stack /\ black' = black \union {x}
          /\ stack' = (stack \ {x}) \union (IF x \in black THEN {} ELSE RefsOf(graph, x) \ black')
          /\ UNCHANGED <<graph, roots, counted, cpc>>
      BY <2>7 DEF Mark, programVars
    <3>2. /\ Tracks(graph, roots, black, stack) /\ graph \in Heap /\ black \in SUBSET Objects
          /\ stack \in SUBSET Objects /\ black' \in SUBSET Objects /\ stack' \in SUBSET Objects
      BY <2>4, <3>1
    <3>3. stack \ {x} \subseteq stack' /\ (x \notin black => RefsOf(graph, x) \subseteq black' \union stack')
      BY <3>1
    <3>4. Tracks(graph, roots, black', stack')
      BY <3>1, <3>2, <3>3, TracksScan
    <3> QED BY <2>4, <3>1, <3>4
  <2>8. CASE EndMarking(c)
    <3>1. UNCHANGED <<programVars, markVars>> /\ cpc[c] = "marking" /\ cpc'[c] \in {"draining", "refused"}
      BY <2>8 DEF EndMarking, Transition
    <3> QED BY <2>4, <3>1 DEF programVars, markVars
  <2>9. CASE PreMark(c)
    <3>1. /\ cpc[c] = "draining" /\ cpc'[c] = "counting" /\ stack = {}
          /\ UNCHANGED <<graph, roots, stack, black, counted>>
      BY <2>9 DEF PreMark, programVars, markVars
    <3> QED BY <2>4, <3>1
  <2>10. ASSUME NEW x \in Objects, MarkLive(c, x)
         PROVE  Stage' /\ (cpc'[c] = "idle" => black' = {} /\ stack' = {})
    <3>1. /\ cpc[c] = "counting" /\ x \in black /\ counted' = counted \union {x} /\ HeapMarkLive(at[x])
          /\ UNCHANGED <<graph, at, roots, stack, black, cpc>>
      BY <2>10 DEF MarkLive, programVars
    <3>2. \A y \in black : at[y] \in Handle /\ at[y].region \in Regions
      BY DEF AllocInv, Allocated, Handle
    <3>3. PICK h \in Handle : h = at[x]
      BY <3>1, <3>2
    <3>4. /\ liveCount'[h.region] > 0
          /\ \A r \in Regions : liveCount[r] > 0 => liveCount'[r] > 0
      BY <3>1, <3>3, MarkCounts
    <3> QED BY <2>4, <3>1, <3>2, <3>3, <3>4
  <2>11. CASE Sweep(c)
    <3>1. /\ cpc[c] = "counting" /\ cpc'[c] = "swept" /\ black' = {} /\ counted' = {}
          /\ stack' = stack
      BY <2>11 DEF Sweep
    <3> QED BY <2>4, <3>1
  <2>12. CASE End(c)
    <3>1. /\ cpc[c] = "swept" /\ cpc'[c] \in {"idle", "refused"}
          /\ UNCHANGED markVars
      BY <2>12 DEF End, Transition
    <3> QED BY <2>4, <3>1 DEF markVars
  <2> QED BY <1>3, <2>6, <2>7, <2>8, <2>9, <2>10, <2>11, <2>12 DEF Work
<1> QED BY <1>1, <1>2, <1>3

-----------------------------------------------------------------------------
(* The bytes of the objects. *)

(* An allocation takes bytes that no allocated object has. *)
LEMMA BytesAllocate ==
  ASSUME TypeOK, BytesInv, NEW x \in Objects, NEW r \in Regions, NEW size \in Sizes,
         Allocate(x, r, size)
  PROVE  BytesInv'
<1>1. PICK new \in Handle : new = HandleAt(r, size)
  BY HeapTypeAlloc DEF Allocate, TypeOK
<1>2. /\ Valid(new)'
      /\ \A h \in Handle : Valid(h) =>
           Valid(h)' /\ (h.region = r => Extent(h) \intersect Extent(new) = {})
  BY <1>1, AllocExtends DEF Allocate, TypeOK
<1>3. at' = [at EXCEPT ![x] = new] /\ at \in [Objects -> Handle \union {NoHandle}]
  BY <1>1 DEF Allocate, TypeOK
<1>4. new.region = r
  BY <1>1 DEF HandleAt
<1>5. Allocated' = Allocated \union {x} /\ x \notin Allocated
  <2>1. new # NoHandle
    BY NoHandleAssumption
  <2> QED BY <1>3, <2>1 DEF Allocate, Allocated
<1>6. \A y \in Allocated : at'[y] = at[y] /\ at[y] \in Handle /\ Valid(at[y])
  BY <1>3, <1>5 DEF Allocated, BytesInv
<1>7. at'[x] = new
  BY <1>3
<1>8. \A y \in Allocated' : Valid(at[y])'
  <2> SUFFICES ASSUME NEW y \in Allocated' PROVE Valid(at[y])'
    OBVIOUS
  <2>1. PICK h \in Handle : h = at'[y]
    BY <1>5, <1>6, <1>7
  <2>2. Valid(h)'
    BY <1>2, <1>5, <1>6, <1>7, <2>1
  <2> QED BY <2>1, <2>2 DEF Valid
<1>9. \A y \in Allocated : at[y].region = r => Extent(at[y]) \intersect Extent(new) = {}
  BY <1>2, <1>6
<1>10. ASSUME NEW y \in Allocated', NEW z \in Allocated', y # z, at'[y].region = at'[z].region
       PROVE  Extent(at'[y]) \intersect Extent(at'[z]) = {}
  <2>1. CASE y = x
    BY <1>4, <1>5, <1>6, <1>7, <1>9, <1>10, <2>1
  <2>2. CASE z = x
    BY <1>4, <1>5, <1>6, <1>7, <1>9, <1>10, <2>2
  <2>3. CASE y # x /\ z # x
    BY <1>5, <1>6, <1>10, <2>3 DEF BytesInv
  <2> QED BY <2>1, <2>2, <2>3
<1> QED BY <1>8, <1>10 DEF BytesInv, Extent

(* A step that moves no object keeps the invariant if it keeps the handles *)
(* of those it leaves allocated.                                           *)
LEMMA BytesKept ==
  ASSUME TypeOK, BytesInv, Allocated' \subseteq Allocated, \A x \in Allocated' : at'[x] = at[x],
         \A x \in Allocated', h \in Handle : h = at[x] /\ Valid(h) => Valid(h)'
  PROVE  BytesInv'
<1>1. \A x \in Allocated : at[x] \in Handle
  BY DEF TypeOK, Allocated
<1>2. ASSUME NEW x \in Allocated' PROVE Valid(at[x])'
  <2>1. PICK h \in Handle : h = at[x] /\ Valid(h)
    BY <1>1 DEF BytesInv
  <2>2. Valid(h)' /\ h = at'[x]
    BY <2>1
  <2> QED BY <2>2 DEF Valid
<1> QED BY <1>2 DEF BytesInv, Extent

(* No step gives an object bytes of another or takes its bytes away. *)
LEMMA BytesStep ==
  ASSUME TypeOK, PhaseInv, AllocInv, MarkingInv, BytesInv, [Next]_vars
  PROVE  BytesInv'
<1>1. ASSUME UNCHANGED <<at, offset, state>> PROVE BytesInv'
  BY <1>1 DEF BytesInv, Allocated, Valid, Extent
<1>2. CASE Program
  <2>1. ASSUME NEW size \in Sizes, AllocateFails(size) PROVE BytesInv'
    <3>1. UNCHANGED at /\ HeapRefuse(size)
      BY <2>1 DEF AllocateFails, programVars
    <3>2. \A h \in Handle : Valid(h) => Valid(h)'
      BY <3>1, RefuseKeeps
    <3> QED BY <3>1, <3>2, BytesKept DEF Allocated
  <2> QED BY <1>1, <1>2, <2>1, BytesAllocate DEF Program, AddRoot, DropRoot, Overwrite, heapVars
<1>3. ASSUME NEW c \in Collectors, Sweep(c) PROVE BytesInv'
  <2>1. Allocated' = black /\ (\A x \in black : at'[x] = at[x]) /\ black \subseteq Allocated
    BY <1>3, SweepAllocated DEF AllocInv
  <2>2. counted = black /\ cpc[c] = "counting" /\ HeapSweep
    BY <1>3 DEF Sweep
  <2>3. \A x \in black : liveCount[at[x].region] > 0
    BY <2>2 DEF MarkingInv
  <2>4. \A x \in black, h \in Handle : h = at[x] /\ Valid(h) => Valid(h)'
    BY <2>2, <2>3, SweepKeeps DEF TypeOK
  <2> QED BY <2>1, <2>4, BytesKept
<1>4. ASSUME NEW c \in Collectors, Begin(c) \/ (Work(c) /\ ~Sweep(c)) PROVE BytesInv'
  <2>1. UNCHANGED <<at, offset, state>>
    BY <1>4 DEF Work, Begin, PushRoots, EndMarking, PreMark, End, Mark, MarkLive, programVars,
                heapVars, HeapPreMark, HeapMarkLive
  <2> QED BY <1>1, <2>1
<1>5. CASE UNCHANGED vars
  BY <1>1, <1>5 DEF vars, programVars, heapVars
<1> QED BY <1>2, <1>3, <1>4, <1>5 DEF Next

-----------------------------------------------------------------------------
(* The invariant of the cycle: references lead to allocated objects, the  *)
(* marker comes to all that the program can reach, counted objects keep   *)
(* their regions, and objects have their bytes to themselves.             *)
THEOREM CycleInvariant == Spec => []CycleInv
<1>1. Init => CycleInv
  <2> SUFFICES ASSUME Init PROVE CycleInv
    OBVIOUS
  <2>1. Allocated = {} /\ roots = {} /\ stack = {} /\ black = {} /\ counted = {}
    BY DEF Init, Allocated
  <2>2. \A c \in Collectors : cpc[c] = "idle"
    BY DEF Init
  <2>3. \A x \in Objects, f \in Fields : graph[x][f] = Null
    BY DEF Init
  <2> QED BY <2>1, <2>2, <2>3 DEF CycleInv, AllocInv, MarkingInv, IdleInv, BytesInv, Closed
<1>2. TypeOK /\ TypeOK' /\ PhaseInv /\ CycleInv /\ [Next]_vars => CycleInv'
  <2> SUFFICES ASSUME TypeOK, TypeOK', PhaseInv, CycleInv, [Next]_vars PROVE CycleInv'
    OBVIOUS
  <2> USE DEF CycleInv
  <2>1. BytesInv'
    BY BytesStep
  <2>2. CASE Program
    BY <2>1, <2>2, AllocProgram, MarkingProgram
  <2>3. ASSUME NEW c \in Collectors, Begin(c) \/ Work(c) PROVE CycleInv'
    BY <2>1, <2>3, AllocCollector, MarkingCollector
  <2>4. CASE UNCHANGED vars
    <3>1. AllocInv' /\ MarkingInv' /\ IdleInv'
      BY <2>4 DEF vars, programVars, markVars, heapVars, AllocInv, MarkingInv, IdleInv, Allocated
    <3> QED BY <2>1, <3>1
  <2> QED BY <2>2, <2>3, <2>4 DEF Next
<1> QED BY <1>1, <1>2, TypeCorrect, PhaseInvariant, PTL DEF Spec

(* Whatever the program and the collectors do, over any number of cycles,  *)
(* an object the program can reach keeps its bytes to itself: mutation     *)
(* during marking (src/src/barrier.rs:9-13), allocation during marking     *)
(* (src/src/barrier.rs:222-226) and the reuse of regions                   *)
(* (src/src/region.rs:11-19) taken together.                               *)
THEOREM LiveIntactTheorem == Spec => []LiveIntact
<1>1. TypeOK /\ CycleInv => LiveIntact
  <2> SUFFICES ASSUME TypeOK, CycleInv PROVE LiveIntact
    OBVIOUS
  <2>1. Live \subseteq Allocated
    BY LiveAllocated DEF CycleInv
  <2> QED BY <2>1 DEF CycleInv, BytesInv, LiveIntact, Allocated
<1> QED BY <1>1, TypeCorrect, CycleInvariant, PTL

-----------------------------------------------------------------------------
(* What a cycle reclaims. *)

(* What was garbage when the cycle began is out of reach of the program    *)
(* and of the marker: nothing else refers to it.                           *)
GarbageInv ==
  /\ garbage \subseteq Allocated
  /\ garbage \intersect (roots \union stack \union black) = {}
  /\ Closed(graph, Objects \ garbage)

(* A region with a live count holds an object that has been counted. *)
CountedInv ==
  \A c \in Collectors : cpc[c] = "counting" =>
    \A r \in Regions : liveCount[r] > 0 => \E x \in counted : at[x].region = r

(* What the program can reach is not garbage. *)
LEMMA LiveNotGarbage ==
  ASSUME TypeOK, GarbageInv PROVE Live \intersect garbage = {}
<1>1. PICK S \in SUBSET Objects : S = Objects \ garbage
  OBVIOUS
<1>2. roots \subseteq S /\ Closed(graph, S)
  BY <1>1 DEF GarbageInv, TypeOK
<1>3. Live \subseteq S
  BY <1>2 DEF Live, Reachable
<1> QED BY <1>1, <1>3

(* The program cannot get at it again. *)
LEMMA GarbageProgram ==
  ASSUME TypeOK, GarbageInv, Program PROVE GarbageInv'
<1> USE DEF GarbageInv, TypeOK
<1>1. UNCHANGED <<garbage, black>>
  BY ProgramLeaves
<1>2. ASSUME NEW x \in Objects, NEW r \in Regions, NEW size \in Sizes, Allocate(x, r, size)
      PROVE  GarbageInv'
  <2>1. /\ x \notin Allocated /\ at' = [at EXCEPT ![x] = HandleAt(r, size)] /\ graph' = graph
        /\ roots' = roots \union {x} /\ stack' \subseteq stack \union {x}
    BY <1>2 DEF Allocate
  <2>2. x \notin garbage
    BY <2>1
  <2>3. \A y \in garbage : y \in Objects /\ at'[y] = at[y] /\ at[y] # NoHandle
    BY <2>1, <2>2 DEF Allocated
  <2>4. garbage \subseteq Allocated'
    BY <2>3 DEF Allocated
  <2> QED BY <1>1, <2>1, <2>2, <2>4
<1>3. ASSUME NEW size \in Sizes, AllocateFails(size) PROVE GarbageInv'
  BY <1>3 DEF AllocateFails, programVars, markVars, Allocated
<1>4. ASSUME NEW x \in Objects, AddRoot(x) \/ DropRoot(x) PROVE GarbageInv'
  <2>1. roots' \intersect garbage = {} /\ UNCHANGED <<graph, at, stack, black>>
    BY <1>4, LiveNotGarbage DEF AddRoot, DropRoot, markVars
  <2> QED BY <1>1, <2>1 DEF Allocated
<1>5. ASSUME NEW x \in Objects, NEW f \in Fields, NEW target \in Ref, Overwrite(x, f, target)
      PROVE  GarbageInv'
  <2>1. /\ x \notin garbage /\ target \notin garbage /\ UNCHANGED <<at, roots>>
        /\ graph' = [graph EXCEPT ![x][f] = target]
        /\ stack' \subseteq stack \union ({graph[x][f]} \ {Null})
    BY <1>5, LiveNotGarbage, NullAssumption DEF Overwrite, PreWrite, ReplaceEdge
  <2>2. {graph[x][f]} \ {Null} \subseteq Objects \ garbage
    BY <2>1 DEF Closed, RefsOf
  <2>3. \A y \in Objects : RefsOf(graph', y) \subseteq RefsOf(graph, y) \union ({target} \ {Null})
    BY <2>1 DEF RefsOf, Heap
  <2>4. {target} \ {Null} \subseteq Objects \ garbage
    BY <2>1 DEF Ref
  <2>5. Closed(graph', Objects \ garbage)
    BY <2>3, <2>4 DEF Closed
  <2> QED BY <1>1, <2>1, <2>2, <2>5 DEF Allocated
<1> QED BY <1>2, <1>3, <1>4, <1>5 DEF Program

(* Nor does the marker, and a new cycle begins with what is garbage then. *)
LEMMA GarbageCollector ==
  ASSUME TypeOK, TypeOK', PhaseInv, AllocInv, IdleInv, GarbageInv,
         NEW c \in Collectors, Begin(c) \/ Work(c)
  PROVE  GarbageInv'
<1> USE DEF GarbageInv, TypeOK
<1>1. CASE Begin(c)
  <2>1. UNCHANGED <<graph, at, roots, stack, black>>
    BY <1>1 DEF Begin, programVars, markVars
  <2>2. CASE cpc' = cpc
    BY <1>1, <2>1, <2>2 DEF Begin, Allocated
  <2>3. CASE cpc' # cpc
    <3>1. phase = Encode["Idle"]
      BY <1>1, <2>3 DEF Begin, Transition
    <3>2. \A d \in Collectors : cpc[d] = "idle"
      BY <3>1, Decoded DEF PhaseInv, OneCollector
    <3>3. black = {} /\ stack = {} /\ garbage' = Allocated \ Live
      BY <1>1, <2>3, <3>2 DEF IdleInv, Begin
    <3>4. roots \subseteq Live
      BY DEF Live, Reachable
    <3>5. ASSUME NEW x \in Objects \ garbage' PROVE RefsOf(graph, x) \subseteq Objects \ garbage'
      <4>1. CASE x \in Live
        BY <3>3, <4>1, ReachableClosed DEF Closed, Live, Reachable
      <4>2. CASE x \notin Allocated
        BY <4>2 DEF AllocInv, RefsOf
      <4> QED BY <3>3, <3>5, <4>1, <4>2
    <3>6. Closed(graph, Objects \ garbage')
      BY <3>5 DEF Closed
    <3> QED BY <2>1, <3>3, <3>4, <3>6 DEF Allocated
  <2> QED BY <2>2, <2>3
<1>2. CASE PushRoots(c)
  BY <1>2 DEF PushRoots, programVars, Allocated
<1>3. ASSUME NEW x \in Objects, Mark(c, x) PROVE GarbageInv'
  <2>1. /\ x \in stack /\ black' = black \union {x} /\ stack' \subseteq stack \union RefsOf(graph, x)
        /\ UNCHANGED <<graph, at, roots, garbage>>
    BY <1>3 DEF Mark, programVars
  <2>2. RefsOf(graph, x) \subseteq Objects \ garbage
    BY <2>1 DEF Closed
  <2> QED BY <2>1, <2>2 DEF Allocated
<1>4. CASE Sweep(c)
  <2>1. garbage' = {} /\ graph' \in Heap
    BY <1>4 DEF Sweep
  <2>2. Closed(graph', Objects)
    BY <2>1 DEF Closed, Heap, Ref, RefsOf
  <2>3. Objects \ {} = Objects
    OBVIOUS
  <2> QED BY <2>1, <2>2, <2>3
<1>5. CASE EndMarking(c) \/ PreMark(c) \/ End(c) \/ \E x \in Objects : MarkLive(c, x)
  <2>1. UNCHANGED <<graph, at, roots, stack, black, garbage>>
    BY <1>5 DEF EndMarking, PreMark, End, MarkLive, programVars, markVars
  <2> QED BY <2>1 DEF Allocated
<1> QED BY <1>1, <1>2, <1>3, <1>4, <1>5 DEF Work

(* Every step keeps that counts are those of counted objects. *)
LEMMA CountedStep ==
  ASSUME TypeOK, TypeOK', PhaseInv, AllocInv, MarkingInv, CountedInv, [Next]_vars
  PROVE  CountedInv'
<1> SUFFICES ASSUME NEW c \in Collectors, cpc'[c] = "counting",
                    NEW r \in Regions, liveCount'[r] > 0
             PROVE  \E x \in counted' : at'[x].region = r
  BY DEF CountedInv
<1>1. ASSUME cpc[c] = "counting", UNCHANGED <<liveCount, counted, at>>
      PROVE  \E x \in counted' : at'[x].region = r
  BY <1>1 DEF CountedInv
<1>2. CASE Program
  <2>1. UNCHANGED <<cpc, counted>>
    BY <1>2, ProgramLeaves
  <2>2. Decode(phase) = "Sweeping"
    BY <2>1 DEF PhaseInv, OneCollector
  <2>3. UNCHANGED <<at, liveCount>>
    BY <1>2, <2>2, ProgramPushes
  <2> QED BY <1>1, <2>1, <2>3
<1>3. ASSUME NEW d \in Collectors, Begin(d)
      PROVE  \E x \in counted' : at'[x].region = r
  <2>1. cpc[c] = "counting" /\ UNCHANGED <<liveCount, counted, at>>
    BY <1>3 DEF Begin, Transition, programVars, markVars, heapVars, TypeOK
  <2> QED BY <1>1, <2>1
<1>4. ASSUME NEW d \in Collectors, PushRoots(d) \/ EndMarking(d) \/ End(d) \/ \E x \in Objects : Mark(d, x)
      PROVE  \E x \in counted' : at'[x].region = r
  <2>1. cpc[c] = "counting" /\ UNCHANGED <<liveCount, counted, at>>
    BY <1>4 DEF PushRoots, EndMarking, End, Mark, Transition, programVars, markVars, heapVars, TypeOK
  <2> QED BY <1>1, <2>1
<1>5. ASSUME NEW d \in Collectors, PreMark(d) PROVE FALSE
  BY <1>5 DEF PreMark, HeapPreMark
<1>6. ASSUME NEW d \in Collectors, NEW x \in Objects, MarkLive(d, x)
      PROVE  \E y \in counted' : at'[y].region = r
  <2>1. /\ cpc[c] = "counting" /\ UNCHANGED at /\ counted' = counted \union {x}
        /\ liveCount' = [liveCount EXCEPT ![at[x].region] = @ + 1]
    BY <1>6 DEF MarkLive, HeapMarkLive, programVars
  <2>2. CASE at[x].region = r
    BY <2>1, <2>2
  <2>3. CASE at[x].region # r
    <3>1. liveCount'[r] = liveCount[r]
      BY <2>1, <2>3 DEF TypeOK, HeapTypeOK
    <3> QED BY <2>1, <3>1 DEF CountedInv
  <2> QED BY <2>2, <2>3
<1>7. ASSUME NEW d \in Collectors, Sweep(d) PROVE FALSE
  <2>1. c # d => cpc[c] = "counting"
    BY <1>7 DEF Sweep, TypeOK
  <2>2. c = d
    BY <1>7, <2>1 DEF PhaseInv, OneCollector, Sweep
  <2> QED BY <1>7, <2>2 DEF Sweep, TypeOK
<1>8. CASE UNCHANGED vars
  BY <1>1, <1>8 DEF vars, programVars, markVars, heapVars
<1> QED BY <1>2, <1>3, <1>4, <1>5, <1>6, <1>7, <1>8 DEF Next, Work

(* A region that a sweep leaves in place holds an object that was counted, *)
(* and no counted object was garbage when the cycle began.                 *)
LEMMA SweepReclaims ==
  ASSUME TypeOK, AllocInv, GarbageInv, CountedInv, NEW c \in Collectors, Sweep(c), NEW r \in Regions
  PROVE  state'[r] = "Free" \/ \E x \in Allocated \ garbage : at[x].region = r
<1>1. /\ cpc[c] = "counting" /\ counted = black
      /\ state' = [q \in Regions |-> IF q \in {p \in Regions : Dead(p)} THEN "Free" ELSE state[q]]
  BY DEF Sweep, HeapSweep, HeapReset
<1>2. CASE state'[r] # "Free"
  <2>1. ~Dead(r) /\ state[r] # "Free"
    BY <1>1, <1>2
  <2>2. liveCount[r] > 0
    BY <2>1 DEF Dead, TypeOK, HeapTypeOK
  <2>3. PICK x \in counted : at[x].region = r
    BY <1>1, <2>2 DEF CountedInv
  <2>4. x \in Allocated \ garbage
    BY <1>1, <2>3 DEF AllocInv, GarbageInv
  <2> QED BY <2>3, <2>4
<1> QED BY <1>2

(* Garbage is known for what it is, and the counts are those of the marks. *)
THEOREM GarbageInvariant == Spec => [](GarbageInv /\ CountedInv)
<1>1. Init => GarbageInv /\ CountedInv
  <2> SUFFICES ASSUME Init PROVE GarbageInv /\ CountedInv
    OBVIOUS
  <2>1. garbage = {} /\ \A x \in Objects : RefsOf(graph, x) = {}
    BY DEF Init, RefsOf
  <2>2. \A c \in Collectors : cpc[c] = "idle"
    BY DEF Init
  <2> QED BY <2>1, <2>2 DEF GarbageInv, CountedInv, Closed
<1>2. TypeOK /\ TypeOK' /\ PhaseInv /\ CycleInv /\ GarbageInv /\ CountedInv /\ [Next]_vars
      => GarbageInv' /\ CountedInv'
  <2> SUFFICES ASSUME TypeOK, TypeOK', PhaseInv, CycleInv, GarbageInv, CountedInv, [Next]_vars
               PROVE  GarbageInv' /\ CountedInv'
    OBVIOUS
  <2> USE DEF CycleInv
  <2>1. CountedInv'
    BY CountedStep
  <2>2. CASE Program
    BY <2>1, <2>2, GarbageProgram
  <2>3. ASSUME NEW c \in Collectors, Begin(c) \/ Work(c) PROVE GarbageInv'
    BY <2>3, GarbageCollector
  <2>4. CASE UNCHANGED vars
    <3>1. GarbageInv'
      BY <2>4 DEF vars, programVars, markVars, GarbageInv, Allocated
    <3> QED BY <2>1, <3>1
  <2> QED BY <2>1, <2>2, <2>3, <2>4 DEF Next
<1> QED BY <1>1, <1>2, TypeCorrect, PhaseInvariant, CycleInvariant, PTL DEF Spec

(* A cycle reclaims what was garbage when it began: the only regions that  *)
(* sweep leaves in place hold an object that was not                       *)
(* (src/src/region.rs:21-23).                                              *)
THEOREM GarbageTheorem == Spec => GarbageReclaimed
<1>1. TypeOK /\ CycleInv /\ GarbageInv /\ CountedInv /\ [Next]_vars =>
        [\A c \in Collectors : Sweep(c) =>
           \A r \in Regions : state'[r] = "Free"
             \/ \E x \in Allocated \ garbage : at[x].region = r]_vars
  BY SweepReclaims DEF CycleInv
<1> QED BY <1>1, TypeCorrect, CycleInvariant, GarbageInvariant, PTL DEF Spec, GarbageReclaimed

=============================================================================
