------------------------ MODULE TriColorMark_proofs ------------------------
(***************************************************************************)
(* Proofs about TriColorMark, for every graph, finite or not.              *)
(***************************************************************************)
EXTENDS TriColorMark, TLAPS

(* Every variable keeps its type. *)
THEOREM TypeCorrect == Spec => []TypeOK
<1>1. Init => TypeOK
  BY MarkAssumption DEF Init, TypeOK, Colors
<1>2. TypeOK /\ [Next]_vars => TypeOK'
  <2> SUFFICES ASSUME TypeOK, [Next]_vars PROVE TypeOK'
    OBVIOUS
  <2> USE DEF TypeOK, Colors
  <2>1. ASSUME NEW r \in Roots, EnterRoot(r) PROVE TypeOK'
    BY <2>1, MarkAssumption DEF EnterRoot, Shade
  <2>2. ASSUME NEW id \in Objects, ScanGrey(id) PROVE TypeOK'
    <3>1. RefsOf(heap, id) \subseteq Objects
      BY MarkAssumption DEF RefsOf, Heap, Ref
    <3>2. color' \in [Objects -> Colors] /\ seen' \in SUBSET Objects
      BY <2>2, <3>1 DEF ScanGrey, Shade
    <3>3. scans' \in [Objects -> 0..2]
      BY <2>2 DEF ScanGrey
    <3> QED BY <2>2, <3>1, <3>2, <3>3 DEF ScanGrey
  <2>3. CASE UNCHANGED vars
    BY <2>3 DEF vars
  <2> QED BY <2>1, <2>2, <2>3 DEF Next
<1> QED BY <1>1, <1>2, PTL DEF Spec

-----------------------------------------------------------------------------
(* Nothing is seen, grey or black before the first root is entered. *)
LEMMA MarkInvInit == Init => MarkInv
<1> SUFFICES ASSUME Init PROVE MarkInv
  OBVIOUS
<1>1. Colored("Black") = {} /\ Colored("Grey") = {}
  BY DEF Init, Colored
<1> QED BY <1>1 DEF Init, MarkInv, TriColor, Colored

(* Entering a root that was not seen shades it grey; one that was seen     *)
(* changes nothing.                                                        *)
LEMMA EnterRootKeeps ==
  ASSUME TypeOK, MarkInv, NEW r \in Roots, EnterRoot(r)
  PROVE  MarkInv'
<1> USE DEF MarkInv, TriColor, TypeOK, EnterRoot, Shade, Colored
<1>1. r \in Objects /\ r \in Reachable(heap, Roots)
  BY MarkAssumption DEF Reachable
<1>2. r \notin seen => color[r] # "Black" /\ color[r] # "Grey"
  BY <1>1
<1>3. Colored("Black")' = Colored("Black") /\ Colored("Grey")' = Colored("Grey") \union ({r} \ seen)
  BY <1>1, <1>2
<1>4. TriColor'
  BY <1>3
<1>5. (seen = Colored("Black") \union grey)'
  BY <1>3
<1>6. (seen \subseteq Reachable(heap, Roots))' /\ (Roots \subseteq seen \union unpushed)'
  BY <1>1
<1>7. (\A id \in Objects \ seen : color[id] = IF id \in Listed THEN "White" ELSE "Absent")'
  OBVIOUS
<1>8. (\A id \in Objects : scans[id] = IF color[id] = "Black" THEN 1 ELSE 0)'
  BY <1>2
<1> QED BY <1>4, <1>5, <1>6, <1>7, <1>8

(* Scanning a grey object turns it black, once all it refers to is grey or *)
(* black, and reaches only what is reachable.                              *)
LEMMA ScanGreyKeeps ==
  ASSUME TypeOK, MarkInv, NEW id \in Objects, ScanGrey(id)
  PROVE  MarkInv'
<1> USE DEF MarkInv, TriColor, TypeOK, ScanGrey, Shade, Colored
<1> DEFINE new == RefsOf(heap, id) \ seen
<1>1. RefsOf(heap, id) \subseteq Objects
  BY MarkAssumption DEF RefsOf, Heap, Ref
<1>2. color[id] = "Grey" /\ id \in seen
  OBVIOUS
<1>3. \A x \in Objects : color'[x] = IF x \in new THEN "Grey"
                                     ELSE IF x = id THEN "Black" ELSE color[x]
  OBVIOUS
<1>4. Colored("Black")' = Colored("Black") \union {id}
  BY <1>2, <1>3
<1>5. Colored("Grey")' = (Colored("Grey") \ {id}) \union new
  BY <1>1, <1>2, <1>3
<1>6. RefsOf(heap, id) \subseteq seen'
  OBVIOUS
<1>7. (seen = Colored("Black") \union grey)'
  BY <1>2, <1>4
<1>8. TriColor'
  BY <1>4, <1>5, <1>6, <1>7
<1>9. (seen \subseteq Reachable(heap, Roots))' /\ (Roots \subseteq seen \union unpushed)'
  <2>1. RefsOf(heap, id) \subseteq Reachable(heap, Roots)
    BY <1>1, <1>2 DEF Reachable, Closed
  <2> QED BY <2>1
<1>10. (\A x \in Objects \ seen : color[x] = IF x \in Listed THEN "White" ELSE "Absent")'
  BY <1>2, <1>3
<1>11. (\A x \in Objects : scans[x] = IF color[x] = "Black" THEN 1 ELSE 0)'
  BY <1>2, <1>3
<1> QED BY <1>7, <1>8, <1>9, <1>10, <1>11

(* The inductive invariant of the marking loop. *)
THEOREM MarkInvariant == Spec => []MarkInv
<1>1. TypeOK /\ MarkInv /\ [Next]_vars => MarkInv'
  <2> SUFFICES ASSUME TypeOK, MarkInv, [Next]_vars PROVE MarkInv'
    OBVIOUS
  <2>1. ASSUME NEW r \in Roots, EnterRoot(r) PROVE MarkInv'
    BY <2>1, EnterRootKeeps
  <2>2. ASSUME NEW id \in Objects, ScanGrey(id) PROVE MarkInv'
    BY <2>2, ScanGreyKeeps
  <2>3. CASE UNCHANGED vars
    BY <2>3 DEF vars, MarkInv, TriColor, Colored
  <2> QED BY <2>1, <2>2, <2>3 DEF Next
<1> QED BY <1>1, MarkInvInit, TypeCorrect, PTL DEF Spec

(* The tri-color invariant of src/src/marker.rs:9-11. *)
THEOREM TriColorTheorem == Spec => []TriColor
<1>1. MarkInv => TriColor
  BY DEF MarkInv
<1> QED BY <1>1, MarkInvariant, PTL

(* When the loop ends, exactly the reachable objects are black and the     *)
(* others that all_ids lists are white (src/src/marker.rs:40-41).          *)
THEOREM MarkTheorem == Spec => []MarkCorrect
<1>1. TypeOK /\ MarkInv => MarkCorrect
  <2> SUFFICES ASSUME TypeOK, MarkInv, Done
               PROVE  /\ Colored("Black") = Reachable(heap, Roots)
                      /\ Colored("White") = Listed \ Reachable(heap, Roots)
    BY DEF MarkCorrect
  <2> USE DEF MarkInv, TriColor, Done, TypeOK
  <2>1. Colored("Grey") = {} /\ seen = Colored("Black")
    OBVIOUS
  <2>2. Closed(heap, Colored("Black"))
    BY <2>1 DEF Closed
  <2>3. Colored("Black") = Reachable(heap, Roots)
    BY <2>1, <2>2 DEF Reachable
  <2>4. Colored("White") = Listed \ seen
    BY <2>1, MarkAssumption DEF Colored
  <2> QED BY <2>1, <2>3, <2>4
<1> QED BY <1>1, TypeCorrect, MarkInvariant, PTL

(* No object is scanned twice (src/src/marker.rs:43-46). *)
THEOREM ScannedOnceTheorem == Spec => []ScannedOnce
<1>1. MarkInv => ScannedOnce
  <2> SUFFICES ASSUME MarkInv, NEW id \in Objects PROVE scans[id] <= 1
    BY DEF ScannedOnce
  <2>1. scans[id] = 0 \/ scans[id] = 1
    BY DEF MarkInv
  <2> QED BY <2>1
<1> QED BY <1>1, MarkInvariant, PTL

=============================================================================
