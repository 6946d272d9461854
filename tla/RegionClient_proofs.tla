------------------------ MODULE RegionClient_proofs ------------------------
(***************************************************************************)
(* The region heap is sound for any number of regions, any region size and *)
(* alignment, any sizes and any number of handles, if the program does not *)
(* allocate between pre_mark and sweep.                                    *)
(***************************************************************************)
EXTENDS RegionClient, FiniteSetTheorems, TLAPS

-----------------------------------------------------------------------------
(* What the operations of the region heap do to the handles in use. *)

(* Rounding up to the alignment yields a natural number not below the      *)
(* bump pointer, and keeps zero.                                           *)
LEMMA AlignedUp ==
  ASSUME NEW r \in Regions, offset[r] \in Nat
  PROVE  Aligned(r) \in Nat /\ Aligned(r) >= offset[r] /\ (offset[r] = 0 => Aligned(r) = 0)
<1>1. Align \in Nat /\ Align > 0
  BY SizeAssumption
<1>2. PICK n \in Nat : n = offset[r] + (Align - 1)
  BY <1>1
<1>3. PICK q \in Nat : q = n \div Align
  BY <1>1
<1>4. n = Align * q + (n % Align) /\ n % Align \in 0..Align - 1
  BY <1>1, <1>3
<1>5. PICK p \in Nat : p = q * Align
  BY <1>1
<1>6. n = p + (n % Align)
  BY <1>1, <1>4, <1>5
<1>7. p >= offset[r]
  BY <1>1, <1>2, <1>4, <1>6
<1>8. offset[r] = 0 => p = 0
  <2> SUFFICES ASSUME offset[r] = 0 PROVE p = 0
    OBVIOUS
  <2>1. n < Align
    BY <1>1, <1>2
  <2>2. q = 0
    BY <1>1, <1>3, <2>1
  <2> QED BY <1>1, <1>5, <2>2
<1> QED
  BY <1>2, <1>3, <1>5, <1>7, <1>8 DEF Aligned

(* A request that fits region r leaves its bump pointer inside the region. *)
LEMMA AlignedFits ==
  ASSUME HeapTypeOK, NEW r \in Regions, NEW size \in Sizes, Fits(r, size)
  PROVE  /\ Aligned(r) \in 0..RegionSize
         /\ Aligned(r) + size \in 0..RegionSize
         /\ size \in Nat /\ size <= RegionSize
         /\ HandleAt(r, size) \in Handle
<1>1. offset[r] \in Nat /\ size \in Nat /\ RegionSize \in Nat
  BY SizeAssumption DEF HeapTypeOK
<1>2. Aligned(r) \in Nat
  BY <1>1, AlignedUp
<1>3. Aligned(r) + size <= RegionSize
  BY DEF Fits
<1>4. Aligned(r) \in 0..RegionSize /\ Aligned(r) + size \in 0..RegionSize /\ size <= RegionSize
  BY <1>1, <1>2, <1>3
<1> QED BY <1>1, <1>4 DEF HandleAt, Handle

(* An allocation happens in a region where the request fits. *)
LEMMA AllocFits ==
  ASSUME NEW r \in Regions, NEW size, HeapAlloc(r, size) PROVE Fits(r, size)
BY DEF HeapAlloc, InCurrent, InFirstFree, FreeFit

-----------------------------------------------------------------------------
(* Every operation keeps the types. *)
LEMMA HeapTypeInit == HeapInit => HeapTypeOK
BY SizeAssumption DEF HeapInit, HeapTypeOK, States

(* An allocation keeps the types and yields a handle. *)
LEMMA HeapTypeAlloc ==
  ASSUME HeapTypeOK, NEW r \in Regions, NEW size \in Sizes, HeapAlloc(r, size)
  PROVE  HeapTypeOK' /\ HandleAt(r, size) \in Handle
<1>1. Aligned(r) + size \in 0..RegionSize /\ HandleAt(r, size) \in Handle
  BY AllocFits, AlignedFits
<1> QED BY <1>1 DEF HeapTypeOK, HeapAlloc, States

(* So does a refused request. *)
LEMMA HeapTypeRefuse ==
  ASSUME HeapTypeOK, NEW size, HeapRefuse(size) PROVE HeapTypeOK'
BY DEF HeapTypeOK, HeapRefuse, States

(* So does counting an object. *)
LEMMA HeapTypeMark ==
  ASSUME HeapTypeOK, NEW h, HeapMarkLive(h) PROVE HeapTypeOK'
<1>1. liveCount \in [Regions -> Nat] /\ liveCount' = [liveCount EXCEPT ![h.region] = @ + 1]
  BY DEF HeapTypeOK, HeapMarkLive
<1>2. CASE h.region \in Regions
  BY <1>1, <1>2 DEF HeapTypeOK, HeapMarkLive
<1>3. CASE h.region \notin Regions
  <2>1. liveCount' = liveCount
    BY <1>1, <1>3
  <2> QED BY <2>1 DEF HeapTypeOK, HeapMarkLive
<1> QED BY <1>2, <1>3

(* So do the two ends of a cycle. *)
LEMMA HeapTypeCycle ==
  ASSUME HeapTypeOK, HeapPreMark \/ HeapSweep PROVE HeapTypeOK'
<1>1. CASE HeapPreMark
  BY <1>1 DEF HeapTypeOK, HeapPreMark
<1>2. CASE HeapSweep
  BY <1>2, SizeAssumption DEF HeapTypeOK, HeapSweep, HeapReset, States
<1> QED BY <1>1, <1>2

-----------------------------------------------------------------------------
(* The new handle lies beyond everything its region has handed out. *)
LEMMA AllocExtends ==
  ASSUME HeapTypeOK, NEW r \in Regions, NEW size \in Sizes, HeapAlloc(r, size),
         NEW new, new = HandleAt(r, size)
  PROVE  /\ Valid(new)'
         /\ \A h \in Handle : Valid(h) =>
              Valid(h)' /\ (h.region = r => Extent(h) \intersect Extent(new) = {})
<1>1. /\ Aligned(r) \in Nat /\ Aligned(r) >= offset[r] /\ size \in Nat
      /\ offset \in [Regions -> 0..RegionSize] /\ RegionSize \in Nat
  BY AllocFits, AlignedUp, AlignedFits, SizeAssumption DEF HeapTypeOK
<1>2. new.region = r /\ new.offset = Aligned(r) /\ new.size = size
  BY DEF HandleAt
<1>3. /\ offset'[r] = Aligned(r) + size
      /\ \A q \in Regions : q # r => offset'[q] = offset[q]
  BY <1>1 DEF HeapAlloc
<1>4. /\ state'[r] = "Allocating"
      /\ \A q \in Regions : state[q] # "Free" => state'[q] # "Free"
  BY DEF HeapAlloc
<1>5. Valid(new)'
  BY <1>1, <1>2, <1>3, <1>4 DEF Valid
<1>6. ASSUME NEW h \in Handle, Valid(h)
      PROVE  Valid(h)' /\ (h.region = r => Extent(h) \intersect Extent(new) = {})
  <2>1. h.region \in Regions /\ h.offset \in Nat /\ h.size \in Nat
    <3>1. h.offset \in 0..RegionSize /\ h.size \in Sizes /\ h.region \in Regions
      BY DEF Handle
    <3>2. h.offset \in Nat
      BY <3>1, <1>1
    <3>3. h.size \in Nat
      BY <3>1, SizeAssumption
    <3> QED BY <3>1, <3>2, <3>3
  <2>2. state[h.region] # "Free" /\ h.offset + h.size <= offset[h.region]
    BY <1>6 DEF Valid
  <2>3. state'[h.region] # "Free"
    BY <2>1, <2>2, <1>4
  <2>4. CASE h.region = r
    <3>1. h.offset + h.size <= offset[r] /\ offset[r] \in Nat
      BY <2>2, <2>4, <1>1
    <3>2. h.offset + h.size <= Aligned(r) /\ h.offset + h.size <= offset'[r]
      BY <3>1, <2>1, <1>1, <1>3
    <3>3. Extent(h) \intersect Extent(new) = {}
      BY <3>2, <2>1, <1>1, <1>2 DEF Extent
    <3> QED BY <2>3, <2>4, <3>2, <3>3 DEF Valid
  <2>5. CASE h.region # r
    <3>1. offset'[h.region] = offset[h.region]
      BY <2>1, <2>5, <1>1, <1>3
    <3> QED BY <2>2, <2>3, <2>5, <3>1 DEF Valid
  <2> QED BY <2>4, <2>5
<1> QED BY <1>5, <1>6

(* A refused request invalidates no handle. *)
LEMMA RefuseKeeps ==
  ASSUME NEW size, HeapRefuse(size), NEW h \in Handle, Valid(h) PROVE Valid(h)'
BY DEF HeapRefuse, Valid, Handle

(* sweep invalidates no handle into a region with a marked object. *)
LEMMA SweepKeeps ==
  ASSUME HeapTypeOK, HeapSweep, NEW h \in Handle, Valid(h), liveCount[h.region] > 0
  PROVE  Valid(h)'
<1>1. h.region \in Regions /\ ~Dead(h.region)
  BY DEF Dead, Handle, HeapTypeOK
<1> QED BY <1>1 DEF HeapSweep, HeapReset, Valid

(* A marked object counts in its region, and nowhere does a count fall. *)
LEMMA MarkCounts ==
  ASSUME HeapTypeOK, NEW h \in Handle, HeapMarkLive(h)
  PROVE  /\ liveCount'[h.region] > 0
         /\ \A r \in Regions : liveCount[r] > 0 => liveCount'[r] > 0
<1>1. h.region \in Regions /\ liveCount \in [Regions -> Nat]
  BY DEF HeapTypeOK, Handle
<1> QED BY <1>1 DEF HeapMarkLive

-----------------------------------------------------------------------------
(* Every variable keeps its type, whatever the order of the operations. *)
THEOREM TypeCorrect == Spec => []TypeOK
<1>1. Init => TypeOK
  BY HeapTypeInit DEF Init, TypeOK
<1>2. TypeOK /\ [Next]_vars => TypeOK'
  <2> SUFFICES ASSUME TypeOK, [Next]_vars PROVE TypeOK'
    OBVIOUS
  <2> USE DEF TypeOK
  <2>1. ASSUME NEW r \in Regions, NEW size \in Sizes, AllocOk(r, size) PROVE TypeOK'
    BY <2>1, HeapTypeAlloc DEF AllocOk
  <2>2. ASSUME NEW size \in Sizes, AllocNone(size) PROVE TypeOK'
    BY <2>2, HeapTypeRefuse DEF AllocNone
  <2>3. ASSUME NEW h \in Handle, Drop(h) PROVE TypeOK'
    BY <2>3 DEF Drop, heapVars, HeapTypeOK
  <2>4. ASSUME NEW h \in Handle, MarkLive(h) PROVE TypeOK'
    BY <2>4, HeapTypeMark DEF MarkLive
  <2>5. CASE PreMark
    BY <2>5, HeapTypeCycle DEF PreMark
  <2>6. CASE Sweep
    BY <2>6, HeapTypeCycle DEF Sweep
  <2>7. CASE UNCHANGED vars
    BY <2>7 DEF vars, heapVars, HeapTypeOK
  <2> QED BY <2>1, <2>2, <2>3, <2>4, <2>5, <2>6, <2>7 DEF Next
<1> QED BY <1>1, <1>2, PTL DEF Spec

-----------------------------------------------------------------------------
(* A region in the pool is empty. *)
FreeIsEmpty == \A r \in Regions : state[r] = "Free" => offset[r] = 0

(* At most one region is allocated into, and current names it, in any      *)
(* order of the operations (src/src/region.rs:39-40).                      *)
THEOREM CurrentTheorem == Spec => []CurrentIsAllocating
<1>1. Init => CurrentIsAllocating
  BY DEF Init, HeapInit, CurrentIsAllocating
<1>2. TypeOK /\ CurrentIsAllocating /\ [Next]_vars => CurrentIsAllocating'
  <2> SUFFICES ASSUME TypeOK, CurrentIsAllocating, [Next]_vars PROVE CurrentIsAllocating'
    OBVIOUS
  <2> USE DEF TypeOK, HeapTypeOK, CurrentIsAllocating
  <2>1. ASSUME NEW r \in Regions, NEW size \in Sizes, AllocOk(r, size)
        PROVE  CurrentIsAllocating'
    <3>1. HeapAlloc(r, size)
      BY <2>1 DEF AllocOk
    <3>2. size <= RegionSize
      BY <3>1, AllocFits, AlignedFits
    <3>3. current' = r /\ state'[r] = "Allocating"
      BY <3>1 DEF HeapAlloc
    <3>4. ASSUME NEW q \in Regions, state'[q] = "Allocating", q # r PROVE FALSE
      <4>1. state[q] = "Allocating" /\ ~Refused(q, r, size)
        BY <3>1, <3>4 DEF HeapAlloc
      <4>2. q = current /\ InFirstFree(r, size)
        BY <3>1, <3>4, <4>1 DEF HeapAlloc, InCurrent
      <4>3. ~Fits(q, size)
        BY <4>2 DEF InFirstFree, InCurrent
      <4> QED BY <3>2, <4>1, <4>2, <4>3 DEF Refused
    <3> QED BY <3>3, <3>4
  <2>2. ASSUME NEW size \in Sizes, AllocNone(size) PROVE CurrentIsAllocating'
    BY <2>2 DEF AllocNone, HeapRefuse
  <2>3. ASSUME NEW h \in Handle, Drop(h) PROVE CurrentIsAllocating'
    BY <2>3 DEF Drop, heapVars
  <2>4. ASSUME NEW h \in Handle, MarkLive(h) PROVE CurrentIsAllocating'
    BY <2>4 DEF MarkLive, HeapMarkLive
  <2>5. CASE PreMark
    BY <2>5 DEF PreMark, HeapPreMark
  <2>6. CASE Sweep
    BY <2>6 DEF Sweep, HeapSweep, HeapReset, Dead
  <2>7. CASE UNCHANGED vars
    BY <2>7 DEF vars, heapVars
  <2> QED BY <2>1, <2>2, <2>3, <2>4, <2>5, <2>6, <2>7 DEF Next
<1> QED BY <1>1, <1>2, TypeCorrect, PTL DEF Spec

(* Regions come back to the pool only through reset. *)
THEOREM FreeIsEmptyTheorem == Spec => []FreeIsEmpty
<1>1. Init => FreeIsEmpty
  BY DEF Init, HeapInit, FreeIsEmpty
<1>2. TypeOK /\ FreeIsEmpty /\ [Next]_vars => FreeIsEmpty'
  <2> SUFFICES ASSUME TypeOK, FreeIsEmpty, [Next]_vars PROVE FreeIsEmpty'
    OBVIOUS
  <2> USE DEF TypeOK, HeapTypeOK, FreeIsEmpty
  <2>1. ASSUME NEW r \in Regions, NEW size \in Sizes, AllocOk(r, size) PROVE FreeIsEmpty'
    BY <2>1 DEF AllocOk, HeapAlloc
  <2>2. ASSUME NEW size \in Sizes, AllocNone(size) PROVE FreeIsEmpty'
    BY <2>2 DEF AllocNone, HeapRefuse
  <2>3. ASSUME NEW h \in Handle, Drop(h) PROVE FreeIsEmpty'
    BY <2>3 DEF Drop, heapVars
  <2>4. ASSUME NEW h \in Handle, MarkLive(h) PROVE FreeIsEmpty'
    BY <2>4 DEF MarkLive, HeapMarkLive
  <2>5. CASE PreMark
    BY <2>5 DEF PreMark, HeapPreMark
  <2>6. CASE Sweep
    BY <2>6 DEF Sweep, HeapSweep, HeapReset
  <2>7. CASE UNCHANGED vars
    BY <2>7 DEF vars, heapVars
  <2> QED BY <2>1, <2>2, <2>3, <2>4, <2>5, <2>6, <2>7 DEF Next
<1> QED BY <1>1, <1>2, TypeCorrect, PTL DEF Spec

(* alloc refuses a size that fits a region only when no region is free,    *)
(* whatever the alignment (src/src/region.rs:132-134).                     *)
THEOREM NoneOnlyWithoutFreeTheorem == Spec => NoneOnlyWithoutFree
<1>1. TypeOK /\ FreeIsEmpty =>
        \A size \in Sizes : AllocNone(size) =>
          size > RegionSize \/ \A r \in Regions : state[r] # "Free"
  <2> SUFFICES ASSUME TypeOK, FreeIsEmpty, NEW size \in Sizes, AllocNone(size),
                      NEW r \in Regions, state[r] = "Free"
               PROVE  size > RegionSize
    OBVIOUS
  <2>1. offset[r] = 0 /\ Aligned(r) = 0
    BY AlignedUp DEF FreeIsEmpty
  <2>2. ~Fits(r, size)
    BY DEF AllocNone, HeapRefuse, FreeFit
  <2> QED BY <2>1, <2>2, SizeAssumption DEF Fits
<1> QED BY <1>1, TypeCorrect, FreeIsEmptyTheorem, PTL DEF NoneOnlyWithoutFree, Spec

-----------------------------------------------------------------------------
(* What keeps the handles in use valid.  Between pre_mark and sweep each of*)
(* them is still to be reported, or reported and counted in its region, so *)
(* that sweep leaves the region in place.                                  *)
MarkedCounted ==
  gc = "mark" =>
    /\ live \subseteq toMark \union marked
    /\ \A h \in marked : liveCount[h.region] > 0

HeapInv == FreeIsEmpty /\ LiveInRegion /\ LiveDisjoint /\ MarkedCounted

(* A new object lies beyond everything its region has handed out. *)
LEMMA AllocKeeps ==
  ASSUME StopTheWorld, TypeOK, HeapInv,
         NEW r \in Regions, NEW size \in Sizes, AllocOk(r, size)
  PROVE  LiveInRegion' /\ LiveDisjoint' /\ MarkedCounted'
<1> USE DEF HeapInv
<1>1. /\ HeapAlloc(r, size) /\ live' = live \union {HandleAt(r, size)}
      /\ gc' = gc /\ gc = "mutate"
  BY DEF AllocOk, TypeOK
<1>2. PICK new : new = HandleAt(r, size)
  OBVIOUS
<1>3. /\ Valid(new)' /\ new.region = r
      /\ \A h \in live : Valid(h)' /\ (h.region = r => Extent(h) \intersect Extent(new) = {})
  BY <1>1, <1>2, AllocExtends DEF LiveInRegion, TypeOK, HandleAt
<1>4. LiveInRegion'
  BY <1>1, <1>2, <1>3 DEF LiveInRegion
<1>5. LiveDisjoint'
  BY <1>1, <1>2, <1>3 DEF LiveDisjoint, Extent
<1> QED BY <1>1, <1>4, <1>5 DEF MarkedCounted

(* Every other step keeps the bytes of the handles still in use: sweep only*)
(* resets regions without a counted handle.                                *)
LEMMA HeapInvKept ==
  ASSUME StopTheWorld, TypeOK, HeapInv, [Next]_vars
  PROVE  LiveInRegion' /\ LiveDisjoint' /\ MarkedCounted'
<1> USE DEF HeapInv
<1>1. ASSUME NEW r \in Regions, NEW size \in Sizes, AllocOk(r, size)
      PROVE  LiveInRegion' /\ LiveDisjoint' /\ MarkedCounted'
  BY <1>1, AllocKeeps
<1>2. ASSUME NEW size \in Sizes, AllocNone(size)
      PROVE  LiveInRegion' /\ LiveDisjoint' /\ MarkedCounted'
  <2>1. LiveInRegion'
    BY <1>2, RefuseKeeps DEF AllocNone, LiveInRegion, TypeOK
  <2> QED BY <1>2, <2>1 DEF AllocNone, HeapRefuse, LiveDisjoint, Extent, MarkedCounted
<1>3. ASSUME NEW h \in Handle, Drop(h)
      PROVE  LiveInRegion' /\ LiveDisjoint' /\ MarkedCounted'
  BY <1>3 DEF Drop, heapVars, LiveInRegion, Valid, LiveDisjoint, Extent, MarkedCounted
<1>4. ASSUME NEW h \in Handle, MarkLive(h)
      PROVE  LiveInRegion' /\ LiveDisjoint' /\ MarkedCounted'
  <2> USE <1>4 DEF MarkLive
  <2>1. LiveInRegion' /\ LiveDisjoint'
    BY DEF HeapMarkLive, LiveInRegion, Valid, LiveDisjoint, Extent
  <2>2. \A g \in marked' : liveCount'[g.region] > 0
    BY MarkCounts DEF MarkedCounted, TypeOK, Handle
  <2> QED BY <2>1, <2>2 DEF MarkedCounted
<1>5. CASE PreMark
  BY <1>5 DEF PreMark, HeapPreMark, LiveInRegion, Valid, LiveDisjoint, Extent, MarkedCounted
<1>6. CASE Sweep
  <2> USE <1>6 DEF Sweep
  <2>1. LiveInRegion'
    BY SweepKeeps DEF LiveInRegion, MarkedCounted, TypeOK
  <2> QED BY <2>1 DEF LiveDisjoint, Extent, MarkedCounted
<1>7. CASE UNCHANGED vars
  BY <1>7 DEF vars, heapVars, LiveInRegion, Valid, LiveDisjoint, Extent, MarkedCounted
<1> QED BY <1>1, <1>2, <1>3, <1>4, <1>5, <1>6, <1>7 DEF Next

(* The invariant holds if the program does not allocate between pre_mark   *)
(* and sweep.                                                              *)
THEOREM HeapInvariant == ASSUME StopTheWorld PROVE Spec => []HeapInv
<1>1. Init => HeapInv
  BY DEF Init, HeapInit, HeapInv, FreeIsEmpty, LiveInRegion, LiveDisjoint, MarkedCounted
<1>2. TypeOK /\ TypeOK' /\ HeapInv /\ FreeIsEmpty' /\ [Next]_vars => HeapInv'
  BY HeapInvKept DEF HeapInv
<1> QED BY <1>1, <1>2, TypeCorrect, FreeIsEmptyTheorem, PTL DEF Spec

(* No handle in use points into a region that was given back.              *)
THEOREM LiveInRegionTheorem == ASSUME StopTheWorld PROVE Spec => []LiveInRegion
<1>1. HeapInv => LiveInRegion
  BY DEF HeapInv
<1> QED BY <1>1, HeapInvariant, PTL

(* Two objects in use never share a byte (test                             *)
(* write_then_read_round_trips of src/src/region.rs).                      *)
THEOREM LiveDisjointTheorem == ASSUME StopTheWorld PROVE Spec => []LiveDisjoint
<1>1. HeapInv => LiveDisjoint
  BY DEF HeapInv
<1> QED BY <1>1, HeapInvariant, PTL

-----------------------------------------------------------------------------
(* The marked objects of a region. *)
MarkedIn(r) == {h \in marked : h.region = r}

(* The mark phase reports an object once, so that a live count grows with  *)
(* the objects it counts.                                                  *)
CountInv ==
  gc = "mark" => toMark \intersect marked = {} /\ IsFiniteSet(marked) /\ CountExact

(* Live counts are the numbers of marked objects, also when the program    *)
(* allocates and drops objects meanwhile.                                  *)
THEOREM CountInvariant == Spec => []CountInv
<1>1. Init => CountInv
  BY DEF Init, CountInv
<1>2. TypeOK /\ CountInv /\ [Next]_vars => CountInv'
  <2> SUFFICES ASSUME TypeOK, CountInv, [Next]_vars, gc' = "mark"
               PROVE  toMark' \intersect marked' = {} /\ IsFiniteSet(marked') /\ CountExact'
    BY DEF CountInv
  <2>1. ASSUME UNCHANGED <<gc, liveCount, toMark, marked>>
        PROVE  toMark' \intersect marked' = {} /\ IsFiniteSet(marked') /\ CountExact'
    BY <2>1 DEF CountInv, CountExact
  <2>2. CASE PreMark
    <3>1. marked' = {} /\ \A r \in Regions : liveCount'[r] = 0
      BY <2>2 DEF PreMark, HeapPreMark
    <3>2. \A r \in Regions : {h \in marked' : h.region = r} = {}
      BY <3>1
    <3> QED BY <3>1, <3>2, FS_EmptySet DEF CountExact
  <2>3. ASSUME NEW h \in Handle, MarkLive(h)
        PROVE  toMark' \intersect marked' = {} /\ IsFiniteSet(marked') /\ CountExact'
    <3>1. /\ toMark \intersect marked = {} /\ IsFiniteSet(marked) /\ CountExact
          /\ gc = "mark" /\ h \in toMark /\ h \notin marked
          /\ toMark' = toMark \ {h} /\ marked' = marked \union {h}
      BY <2>3 DEF MarkLive, CountInv
    <3>2. IsFiniteSet(marked')
      BY <3>1, FS_AddElement
    <3>3. ASSUME NEW r \in Regions
          PROVE  liveCount'[r] = Cardinality({g \in marked' : g.region = r})
      <4>1. liveCount[r] = Cardinality(MarkedIn(r)) /\ liveCount \in [Regions -> Nat]
        BY <3>1 DEF CountExact, MarkedIn, TypeOK, HeapTypeOK
      <4>2. IsFiniteSet(MarkedIn(r))
        BY <3>1, FS_Subset DEF MarkedIn
      <4>3. CASE h.region = r
        <5>1. {g \in marked' : g.region = r} = MarkedIn(r) \union {h} /\ h \notin MarkedIn(r)
          BY <3>1, <4>3 DEF MarkedIn
        <5>2. Cardinality(MarkedIn(r) \union {h}) = Cardinality(MarkedIn(r)) + 1
          BY <4>2, <5>1, FS_AddElement
        <5>3. liveCount'[r] = liveCount[r] + 1
          BY <2>3, <4>1, <4>3 DEF MarkLive, HeapMarkLive
        <5> QED BY <4>1, <5>1, <5>2, <5>3
      <4>4. CASE h.region # r
        <5>1. {g \in marked' : g.region = r} = MarkedIn(r)
          BY <3>1, <4>4 DEF MarkedIn
        <5>2. liveCount'[r] = liveCount[r]
          BY <2>3, <4>1, <4>4 DEF MarkLive, HeapMarkLive
        <5> QED BY <4>1, <5>1, <5>2
      <4> QED BY <4>3, <4>4
    <3> QED BY <3>1, <3>2, <3>3 DEF CountExact
  <2>4. ASSUME NEW r \in Regions, NEW size \in Sizes, AllocOk(r, size)
        PROVE  UNCHANGED <<gc, liveCount, toMark, marked>>
    BY <2>4 DEF AllocOk, HeapAlloc
  <2>5. ASSUME NEW size \in Sizes, AllocNone(size)
        PROVE  UNCHANGED <<gc, liveCount, toMark, marked>>
    BY <2>5 DEF AllocNone, HeapRefuse
  <2>6. ASSUME NEW h \in Handle, Drop(h) PROVE UNCHANGED <<gc, liveCount, toMark, marked>>
    BY <2>6 DEF Drop, heapVars
  <2>7. ~Sweep
    BY DEF Sweep
  <2>8. CASE UNCHANGED vars
    BY <2>1, <2>8 DEF vars, heapVars
  <2> QED BY <2>1, <2>2, <2>3, <2>4, <2>5, <2>6, <2>7, <2>8 DEF Next
<1> QED BY <1>1, <1>2, TypeCorrect, PTL DEF Spec

(* sweep decides on the marks of this cycle alone.                         *)
THEOREM CountTheorem == Spec => []CountExact
<1>1. CountInv => CountExact
  BY DEF CountInv, CountExact
<1> QED BY <1>1, CountInvariant, PTL

(* sweep gives back exactly the regions without a marked object, and       *)
(* leaves the others as they are, for any history of the heap              *)
(* (src/src/region.rs:186-187).                                            *)
THEOREM SweepReclaimsTheorem == Spec => SweepReclaims
<1> DEFINE Exact(r) == IF \E h \in marked : h.region = r
                       THEN state'[r] = state[r] /\ offset'[r] = offset[r]
                       ELSE state'[r] = "Free" /\ offset'[r] = 0
<1>1. TypeOK /\ CountInv /\ FreeIsEmpty /\ [Next]_vars =>
        (gc = "mark" /\ gc' = "mutate" => \A r \in Regions : Exact(r))
  <2> SUFFICES ASSUME TypeOK, CountInv, FreeIsEmpty, Next, gc = "mark", gc' = "mutate",
                      NEW r \in Regions
               PROVE  Exact(r)
    BY DEF vars
  <2>1. /\ state'[r] = IF Dead(r) THEN "Free" ELSE state[r]
        /\ offset'[r] = IF Dead(r) THEN 0 ELSE offset[r]
    BY DEF Next, AllocOk, AllocNone, Drop, MarkLive, PreMark, Sweep, HeapSweep, HeapReset
  <2>2. liveCount[r] = Cardinality(MarkedIn(r)) /\ IsFiniteSet(MarkedIn(r))
    BY FS_Subset DEF CountInv, CountExact, MarkedIn
  <2>3. CASE \E h \in marked : h.region = r
    <3>1. liveCount[r] # 0
      BY <2>2, <2>3, FS_EmptySet DEF MarkedIn
    <3> QED BY <2>1, <2>3, <3>1 DEF Dead
  <2>4. CASE ~ \E h \in marked : h.region = r
    <3>1. liveCount[r] = 0
      BY <2>2, <2>4, FS_EmptySet DEF MarkedIn
    <3> QED BY <2>1, <2>4, <3>1 DEF Dead, FreeIsEmpty
  <2> QED BY <2>3, <2>4
<1> QED BY <1>1, TypeCorrect, CountInvariant, FreeIsEmptyTheorem, PTL DEF SweepReclaims, Spec

=============================================================================
