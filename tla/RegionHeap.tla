----------------------------- MODULE RegionHeap -----------------------------
(***************************************************************************)
(* The mark-region heap: RegionHeap and Region of src/src/region.rs.       *)
(* RegionHeap is single-threaded (&mut self): an operation is one step.    *)
(* The actions below change the heap only; RegionClient and CollectorCycle *)
(* compose them with what the embedding program does around them.  read and*)
(* write copy the bytes from h.offset on; they are represented by the      *)
(* extent of a handle.                                                     *)
(***************************************************************************)
EXTENDS Naturals, FiniteSets

CONSTANTS
  NRegions,   \* with_regions(n)
  RegionSize, \* REGION_SIZE
  Align,      \* ALIGN
  Sizes       \* the sizes the program asks for

ASSUME SizeAssumption ==
  /\ NRegions \in Nat
  /\ Align \in Nat \ {0}
  /\ RegionSize \in Nat /\ RegionSize % Align = 0
  /\ Sizes \subseteq Nat

Regions  == 1..NRegions
NoRegion == 0   \* current: None
States   == {"Free", "Allocating", "Full"}
Handle   == [region : Regions, offset : 0..RegionSize, size : Sizes]

VARIABLES
  offset,     \* bump pointer of each region
  state,      \* RegionState of each region
  liveCount,  \* live_count of each region
  current     \* the region allocated into

heapVars == <<offset, state, liveCount, current>>

HeapTypeOK ==
  /\ offset \in [Regions -> 0..RegionSize]
  /\ state \in [Regions -> States]
  /\ liveCount \in [Regions -> Nat]
  /\ current \in Regions \union {NoRegion}

HeapInit ==
  /\ offset = [r \in Regions |-> 0]
  /\ state = [r \in Regions |-> "Free"]
  /\ liveCount = [r \in Regions |-> 0]
  /\ current = NoRegion

-----------------------------------------------------------------------------
(* alloc *)

(* Faulty: the bump pointer is rounded down. *)
Aligned_Down(r) == (offset[r] \div Align) * Align

(* try_alloc: the next aligned offset, and whether size bytes fit there. *)
Aligned(r) == ((offset[r] + (Align - 1)) \div Align) * Align

(* Faulty: the bump pointer is not rounded up before the test. *)
Fits_Unaligned(r, size) == offset[r] + size <= RegionSize

Fits(r, size) == Aligned(r) + size <= RegionSize

(* The regions alloc turns to: the current one, then the free ones in order. *)
FreeFit(r, size) == state[r] = "Free" /\ Fits(r, size)

InCurrent(r, size) == r = current /\ Fits(r, size)

InFirstFree(r, size) ==
  /\ ~ \E q \in Regions : InCurrent(q, size)
  /\ FreeFit(r, size)
  /\ \A q \in Regions : q < r => ~FreeFit(q, size)

(* A region where try_alloc failed becomes Full; those tried before r. *)
Refused(q, r, size) ==
  /\ size <= RegionSize
  /\ ~Fits(q, size)
  /\ q = current \/ (state[q] = "Free" /\ q < r)

(* The handle that alloc returns when it allocates in r. *)
HandleAt(r, size) == [region |-> r, offset |-> Aligned(r), size |-> size]

(* Faulty: a fresh region is filled but does not become the current one. *)
HeapAlloc_KeepsCurrent(r, size) ==
  /\ InCurrent(r, size) \/ InFirstFree(r, size)
  /\ offset' = [offset EXCEPT ![r] = Aligned(r) + size]
  /\ state' = [q \in Regions |->
                 IF q = r THEN "Allocating" ELSE IF Refused(q, r, size) THEN "Full" ELSE state[q]]
  /\ UNCHANGED <<current, liveCount>>

(* alloc(size) returns a handle into region r. *)
HeapAlloc(r, size) ==
  /\ InCurrent(r, size) \/ InFirstFree(r, size)
  /\ offset' = [offset EXCEPT ![r] = Aligned(r) + size]
  /\ state' = [q \in Regions |->
                 IF q = r THEN "Allocating" ELSE IF Refused(q, r, size) THEN "Full" ELSE state[q]]
  /\ current' = r
  /\ UNCHANGED liveCount

(* alloc(size) returns None. *)
HeapRefuse(size) ==
  /\ \A r \in Regions : ~InCurrent(r, size) /\ ~FreeFit(r, size)
  /\ state' = [q \in Regions |-> IF Refused(q, NRegions + 1, size) THEN "Full" ELSE state[q]]
  /\ UNCHANGED <<offset, liveCount, current>>

-----------------------------------------------------------------------------
(* pre_mark, mark_live, sweep *)

(* Faulty: the counts of the last cycle are kept. *)
HeapPreMark_KeepsCounts == UNCHANGED heapVars

HeapPreMark ==
  /\ liveCount' = [r \in Regions |-> 0]
  /\ UNCHANGED <<offset, state, current>>

HeapMarkLive(h) ==
  /\ liveCount' = [liveCount EXCEPT ![h.region] = @ + 1]
  /\ UNCHANGED <<offset, state, current>>

(* Faulty: only full regions are swept. *)
Dead_FullOnly(r) == state[r] = "Full" /\ liveCount[r] = 0

(* Faulty: a region with a single live object counts as dead. *)
Dead_OffByOne(r) == state[r] # "Free" /\ liveCount[r] <= 1

(* The regions that sweep resets. *)
Dead(r) == state[r] # "Free" /\ liveCount[r] = 0

(* Faulty: reset leaves the bump pointer where it was. *)
HeapReset_KeepsOffset(S) ==
  /\ state' = [r \in Regions |-> IF r \in S THEN "Free" ELSE state[r]]
  /\ liveCount' = [r \in Regions |-> IF r \in S THEN 0 ELSE liveCount[r]]
  /\ UNCHANGED offset

(* reset, of every region of S. *)
HeapReset(S) ==
  /\ offset' = [r \in Regions |-> IF r \in S THEN 0 ELSE offset[r]]
  /\ state' = [r \in Regions |-> IF r \in S THEN "Free" ELSE state[r]]
  /\ liveCount' = [r \in Regions |-> IF r \in S THEN 0 ELSE liveCount[r]]

(* sweep: every region without a marked object is reset. *)
HeapSweep ==
  /\ HeapReset({r \in Regions : Dead(r)})
  /\ current' = IF current # NoRegion /\ Dead(current) THEN NoRegion ELSE current

-----------------------------------------------------------------------------
(* The bytes that read and write reach through a handle. *)
Extent(h) == h.offset..(h.offset + h.size - 1)

(* A handle into a region in use, within what the region has handed out. *)
Valid(h) == state[h.region] # "Free" /\ h.offset + h.size <= offset[h.region]

(* At most one region is being allocated into, and current names it        *)
(* (src/src/region.rs:39-40); current never names a free region.           *)
CurrentIsAllocating ==
  /\ \A r \in Regions : state[r] = "Allocating" => current = r
  /\ current # NoRegion => state[current] # "Free"

=============================================================================
