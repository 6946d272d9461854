------------------------------- MODULE Arena -------------------------------
(***************************************************************************)
(* The bump arena of src/src/arena.rs: alloc rounds the bump pointer up,   *)
(* refuses what does not fit, and returns the offset as a 32-bit handle;   *)
(* reset starts over and invalidates every handle.                         *)
(***************************************************************************)
EXTENDS Naturals

CONSTANTS
  Capacity,     \* with_capacity(cap), a usize
  Align,        \* ALIGN
  Sizes,        \* the sizes asked for
  HandleValues  \* number of values of a handle: 2^32 for the u32 of the code

ASSUME ArenaAssumption ==
  /\ Capacity \in Nat
  /\ Align \in Nat \ {0}
  /\ HandleValues \in Nat \ {0}
  /\ Sizes \subseteq Nat

VARIABLES
  offset, \* the bump pointer
  objects \* history variable: handle and size of what was handed out since reset

vars == <<offset, objects>>

TypeOK ==
  /\ offset \in 0..Capacity
  /\ objects \subseteq [handle : 0..HandleValues - 1, size : Sizes]

Init == offset = 0 /\ objects = {}

Aligned == ((offset + (Align - 1)) \div Align) * Align

(* Faulty: the size is compared before the rounding. *)
Fits_Unaligned(size) == offset + size <= Capacity

Fits(size) == Aligned + size <= Capacity

(* Faulty: the bump pointer moves by the size alone. *)
Alloc_BumpsBySize(size) ==
  /\ Fits(size)
  /\ offset' = offset + size
  /\ objects' = objects \union {[handle |-> Aligned % HandleValues, size |-> size]}

(* Handle(aligned as u32): the cast keeps the low bits. *)
Alloc(size) ==
  /\ Fits(size)
  /\ offset' = Aligned + size
  /\ objects' = objects \union {[handle |-> Aligned % HandleValues, size |-> size]}

(* Out of memory: None, and nothing changes. *)
AllocNone(size) == ~Fits(size) /\ UNCHANGED vars

Reset == offset' = 0 /\ objects' = {}

Next == (\E size \in Sizes : Alloc(size) \/ AllocNone(size)) \/ Reset

Spec == Init /\ [][Next]_vars

-----------------------------------------------------------------------------
(* Properties. *)

(* The bytes that read and write reach through a handle. *)
Extent(o) == o.handle..(o.handle + o.size - 1)

(* Objects handed out since the last reset share no byte, and lie inside   *)
(* what has been handed out (src/src/arena.rs:36-45).                      *)
ObjectsDisjoint ==
  /\ \A o, p \in objects : o # p => Extent(o) \intersect Extent(p) = {}
  /\ \A o \in objects : o.handle + o.size <= offset

=============================================================================
