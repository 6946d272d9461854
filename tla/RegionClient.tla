---------------------------- MODULE RegionClient ----------------------------
(***************************************************************************)
(* RegionHeap with a program that allocates, drops handles, and drives the *)
(* cycle pre_mark / mark_live / sweep over the handles it still uses, in   *)
(* any order the types of src/src/region.rs allow.                         *)
(***************************************************************************)
EXTENDS RegionHeap

CONSTANTS
  StopTheWorld, \* the program does not allocate between pre_mark and sweep
  (* Bound of the model: handles in use at once. *)
  MaxLive

ASSUME StopTheWorldAssumption == StopTheWorld \in BOOLEAN
ASSUME MaxLiveAssumption == MaxLive \in Nat

VARIABLES
  gc,         \* "mutate", or "mark" between pre_mark and sweep
  live,       \* handles in use
  toMark,     \* handles the mark phase found and has not reported yet
  marked      \* handles reported with mark_live in this cycle

vars == <<heapVars, gc, live, toMark, marked>>

TypeOK ==
  /\ HeapTypeOK
  /\ gc \in {"mutate", "mark"}
  /\ live \in SUBSET Handle
  /\ toMark \in SUBSET Handle
  /\ marked \in SUBSET Handle

Init ==
  /\ HeapInit
  /\ gc = "mutate"
  /\ live = {} /\ toMark = {} /\ marked = {}

(* alloc(size) returns a handle into region r. *)
AllocOk(r, size) ==
  /\ StopTheWorld => gc = "mutate"
  /\ Cardinality(live) < MaxLive
  /\ HeapAlloc(r, size)
  /\ live' = live \union {HandleAt(r, size)}
  /\ UNCHANGED <<gc, toMark, marked>>

(* alloc(size) returns None. *)
AllocNone(size) ==
  /\ StopTheWorld => gc = "mutate"
  /\ HeapRefuse(size)
  /\ UNCHANGED <<gc, live, toMark, marked>>

(* The program loses its last reference to h. *)
Drop(h) ==
  /\ h \in live
  /\ live' = live \ {h}
  /\ UNCHANGED <<heapVars, gc, toMark, marked>>

(* pre_mark(); the mark phase then finds what is in use now. *)
PreMark ==
  /\ gc = "mutate"
  /\ HeapPreMark
  /\ gc' = "mark"
  /\ toMark' = live
  /\ marked' = {}
  /\ UNCHANGED live

(* mark_live(h), once for every object found, as mark returns each id once. *)
MarkLive(h) ==
  /\ gc = "mark"
  /\ h \in toMark
  /\ HeapMarkLive(h)
  /\ toMark' = toMark \ {h}
  /\ marked' = marked \union {h}
  /\ UNCHANGED <<gc, live>>

Sweep ==
  /\ gc = "mark"
  /\ toMark = {}
  /\ HeapSweep
  /\ gc' = "mutate"
  /\ marked' = {}
  /\ UNCHANGED <<live, toMark>>

Next ==
  \/ \E r \in Regions, size \in Sizes : AllocOk(r, size)
  \/ \E size \in Sizes : AllocNone(size)
  \/ \E h \in Handle : Drop(h) \/ MarkLive(h)
  \/ PreMark
  \/ Sweep

Spec == Init /\ [][Next]_vars

-----------------------------------------------------------------------------
(* Properties. *)

(* Two objects in use never share a byte, over any number of allocations   *)
(* and sweeps: what is written through a handle is what it reads back      *)
(* (test write_then_read_round_trips of src/src/region.rs).                *)
LiveDisjoint ==
  \A g, h \in live : g.region = h.region /\ g # h => Extent(g) \intersect Extent(h) = {}

(* No handle in use points into a region that was given back to the pool,  *)
(* or past what the region has handed out.                                 *)
LiveInRegion == \A h \in live : Valid(h)

(* The live count of a region is the number of its objects the mark phase  *)
(* reported, so that sweep decides on this cycle's marks alone.            *)
CountExact ==
  gc = "mark" => \A r \in Regions : liveCount[r] = Cardinality({h \in marked : h.region = r})

(* sweep gives back exactly the regions without a marked object, emptied:  *)
(* a region with one keeps its state and all it has handed out             *)
(* (src/src/region.rs:186-187, tests                                       *)
(* sweep_frees_regions_with_no_live_objects and                            *)
(* partially_live_region_is_not_compacted).                                *)
SweepReclaims ==
  [][gc = "mark" /\ gc' = "mutate" =>
       \A r \in Regions :
         IF \E h \in marked : h.region = r
         THEN state'[r] = state[r] /\ offset'[r] = offset[r]
         ELSE state'[r] = "Free" /\ offset'[r] = 0]_vars

(* alloc never refuses a size that fits a region while a region is free. *)
NoneOnlyWithoutFree ==
  [][\A size \in Sizes : AllocNone(size) =>
       size > RegionSize \/ \A r \in Regions : state[r] # "Free"]_vars

=============================================================================
