--------------------------- MODULE Arena_proofs ---------------------------
(***************************************************************************)
(* The bump arena, for any capacity, alignment, sizes and width of a       *)
(* handle.                                                                 *)
(***************************************************************************)
EXTENDS Arena, TLAPS

(* Rounding up yields a natural number not below the bump pointer. *)
LEMMA AlignedUp ==
  ASSUME offset \in Nat
  PROVE  Aligned \in Nat /\ Aligned >= offset
<1>1. Align \in Nat /\ Align > 0
  BY ArenaAssumption
<1>2. PICK n \in Nat : n = offset + (Align - 1)
  BY <1>1
<1>3. PICK q \in Nat : q = n \div Align
  BY <1>1
<1>4. n = Align * q + (n % Align) /\ n % Align \in 0..Align - 1
  BY <1>1, <1>3
<1>5. PICK p \in Nat : p = q * Align
  BY <1>1
<1>6. n = p + (n % Align)
  BY <1>1, <1>4, <1>5
<1>7. p >= offset
  BY <1>1, <1>2, <1>4, <1>6
<1> QED BY <1>2, <1>3, <1>5, <1>7 DEF Aligned

(* A handle is the aligned offset, except where the cast wraps.  While the *)
(* capacity fits the width of a handle, that is an empty object at the     *)
(* very end.                                                               *)
LEMMA HandleIsOffset ==
  ASSUME TypeOK, NEW size \in Sizes, Fits(size)
  PROVE  /\ Aligned \in Nat /\ Aligned >= offset /\ size \in Nat
         /\ Aligned + size \in 0..Capacity
         /\ Aligned % HandleValues \in 0..HandleValues - 1
         /\ Capacity <= HandleValues =>
              \/ Aligned % HandleValues = Aligned
              \/ Aligned % HandleValues = 0 /\ size = 0
<1>1. /\ Capacity \in Nat /\ HandleValues \in Nat \ {0} /\ size \in Nat /\ offset \in Nat
  BY ArenaAssumption DEF TypeOK
<1>2. Aligned \in Nat /\ Aligned >= offset
  BY <1>1, AlignedUp
<1>3. PICK a \in Nat : a = Aligned
  BY <1>2
<1>4. a + size <= Capacity
  BY <1>3 DEF Fits
<1>5. a % HandleValues \in 0..HandleValues - 1
  BY <1>1, <1>3
<1>6. ASSUME Capacity <= HandleValues
      PROVE  a % HandleValues = a \/ (a % HandleValues = 0 /\ size = 0)
  <2>1. CASE a < HandleValues
    BY <1>1, <1>3, <2>1
  <2>2. CASE a = HandleValues
    BY <1>1, <1>3, <1>4, <1>6, <2>2
  <2> QED BY <1>1, <1>3, <1>4, <1>6, <2>1, <2>2
<1> QED BY <1>1, <1>2, <1>3, <1>4, <1>5, <1>6

(* The bump pointer stays inside the buffer, and handles have their width. *)
THEOREM TypeCorrect == Spec => []TypeOK
<1>1. Init => TypeOK
  BY ArenaAssumption DEF Init, TypeOK
<1>2. TypeOK /\ [Next]_vars => TypeOK'
  <2> SUFFICES ASSUME TypeOK, [Next]_vars PROVE TypeOK'
    OBVIOUS
  <2>1. ASSUME NEW size \in Sizes, Alloc(size) PROVE TypeOK'
    <3>1. /\ Fits(size) /\ offset' = Aligned + size
          /\ objects' = objects \union {[handle |-> Aligned % HandleValues, size |-> size]}
      BY <2>1 DEF Alloc
    <3>2. Aligned + size \in 0..Capacity /\ Aligned % HandleValues \in 0..HandleValues - 1
      BY <3>1, HandleIsOffset
    <3> QED BY <3>1, <3>2 DEF TypeOK
  <2>2. ASSUME NEW size \in Sizes, AllocNone(size) PROVE TypeOK'
    BY <2>2 DEF AllocNone, vars, TypeOK
  <2>3. CASE Reset
    BY <2>3, ArenaAssumption DEF Reset, TypeOK
  <2>4. CASE UNCHANGED vars
    BY <2>4 DEF vars, TypeOK
  <2> QED BY <2>1, <2>2, <2>3, <2>4 DEF Next
<1> QED BY <1>1, <1>2, PTL DEF Spec

(* An allocation hands out bytes that nothing handed out before has.       *)
LEMMA AllocDisjoint ==
  ASSUME Capacity <= HandleValues, TypeOK, ObjectsDisjoint, NEW size \in Sizes, Alloc(size)
  PROVE  ObjectsDisjoint'
<1>1. PICK new : new = [handle |-> Aligned % HandleValues, size |-> size]
  OBVIOUS
<1>2. /\ Fits(size) /\ offset' = Aligned + size /\ objects' = objects \union {new}
      /\ new.handle = Aligned % HandleValues /\ new.size = size
  BY <1>1 DEF Alloc
<1>3. /\ Aligned \in Nat /\ Aligned >= offset /\ size \in Nat /\ offset \in Nat
      /\ new.handle = Aligned \/ (new.handle = 0 /\ size = 0)
  BY <1>2, HandleIsOffset, ArenaAssumption DEF TypeOK
<1>4. \A o \in objects : o.handle \in Nat /\ o.size \in Nat /\ o.handle + o.size <= offset
  <2> SUFFICES ASSUME NEW o \in objects
               PROVE  o.handle \in Nat /\ o.size \in Nat /\ o.handle + o.size <= offset
    OBVIOUS
  <2>1. o.handle \in 0..HandleValues - 1 /\ o.size \in Sizes
    BY DEF TypeOK
  <2>2. o.handle \in Nat
    BY <2>1, ArenaAssumption
  <2>3. o.size \in Nat
    BY <2>1, ArenaAssumption
  <2> QED BY <2>2, <2>3 DEF ObjectsDisjoint
<1>5. \A o \in objects' : o.handle + o.size <= offset'
  BY <1>2, <1>3, <1>4
<1>6. \A o \in objects : Extent(o) \intersect Extent(new) = {}
  <2> SUFFICES ASSUME NEW o \in objects, NEW b \in Extent(o), b \in Extent(new) PROVE FALSE
    OBVIOUS
  <2>1. b \in Nat /\ b >= o.handle /\ b <= o.handle + o.size - 1 /\ b < offset
    BY <1>3, <1>4 DEF Extent
  <2>2. b >= new.handle /\ b <= new.handle + size - 1
    BY <1>2 DEF Extent
  <2> QED BY <1>3, <2>1, <2>2
<1>7. \A o, p \in objects' : o # p => Extent(o) \intersect Extent(p) = {}
  BY <1>2, <1>6 DEF ObjectsDisjoint
<1> QED BY <1>5, <1>7 DEF ObjectsDisjoint, Extent

(* Objects handed out since the last reset share no byte                   *)
(* (src/src/arena.rs:36-45), in a buffer that a handle can address.        *)
THEOREM DisjointTheorem == ASSUME Capacity <= HandleValues PROVE Spec => []ObjectsDisjoint
<1>1. Init => ObjectsDisjoint
  BY DEF Init, ObjectsDisjoint
<1>2. TypeOK /\ ObjectsDisjoint /\ [Next]_vars => ObjectsDisjoint'
  <2> SUFFICES ASSUME TypeOK, ObjectsDisjoint, [Next]_vars PROVE ObjectsDisjoint'
    OBVIOUS
  <2>1. ASSUME NEW size \in Sizes, Alloc(size) PROVE ObjectsDisjoint'
    BY <2>1, AllocDisjoint
  <2>2. CASE UNCHANGED vars
    BY <2>2 DEF vars, ObjectsDisjoint
  <2>3. CASE Reset
    BY <2>3 DEF Reset, ObjectsDisjoint
  <2> QED BY <2>1, <2>2, <2>3 DEF Next, AllocNone
<1> QED BY <1>1, <1>2, TypeCorrect, PTL DEF Spec

=============================================================================
