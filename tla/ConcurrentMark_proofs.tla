----------------------- MODULE ConcurrentMark_proofs -----------------------
(***************************************************************************)
(* Proofs about ConcurrentMark, for every number of objects, fields,       *)
(* mutators and writes.                                                    *)
(***************************************************************************)
EXTENDS ConcurrentMark, TLAPS

(* Every variable keeps its type; in particular the reference a mutator    *)
(* captures and the ones it stores are references.                         *)
THEOREM TypeCorrect == Spec => []TypeOK
<1>1. Init => TypeOK
  BY RootsAssumption, MaxWritesAssumption, NullAssumption
     DEF Init, TypeOK, Heap, Ref, EmptyHeap, Phases
<1>2. TypeOK /\ [Next]_vars => TypeOK'
  <2> SUFFICES ASSUME TypeOK, [Next]_vars PROVE TypeOK'
    OBVIOUS
  <2> USE DEF TypeOK
  <2>1. CASE StartMarking
    BY <2>1, QuietAssumption DEF StartMarking, Phases, markerVars, mutVars
  <2>2. ASSUME NEW r \in Roots, PushRoot(r) PROVE TypeOK'
    BY <2>2, RootsAssumption DEF PushRoot, markerVars, mutVars, snapVars
  <2>3. CASE Spawn
    BY <2>3 DEF Spawn, mutVars, snapVars
  <2>4. CASE StopMarking
    BY <2>4 DEF StopMarking, Phases, markerVars, mutVars, snapVars
  <2>5. CASE Join
    BY <2>5 DEF Join, Phases, mutVars, Heap, Ref, EmptyHeap
  <2>6. CASE Drain
    BY <2>6 DEF Drain, orchVars, mutVars, snapVars
  <2>7. CASE Refill
    BY <2>7 DEF Refill, orchVars, mutVars, snapVars
  <2>8. CASE PopNone
    BY <2>8 DEF PopNone, orchVars, mutVars, snapVars
  <2>9. CASE Scan
    <3>1. current \in Objects
      BY <2>9 DEF Scan
    <3>2. RefsOf(heap, current) \subseteq Objects
      BY <3>1 DEF RefsOf, Heap, Ref
    <3> QED
      BY <2>9, <3>2 DEF Scan, Ref, orchVars, mutVars, snapVars
  <2>10. CASE ScanDone
    BY <2>10 DEF ScanDone, orchVars, mutVars, snapVars
  <2>11. CASE CheckPhase
    BY <2>11 DEF CheckPhase, orchVars, mutVars, snapVars
  <2>12. CASE FinalDrain
    BY <2>12 DEF FinalDrain, orchVars, mutVars, snapVars
  <2>13. CASE Decide
    BY <2>13 DEF Decide, orchVars, mutVars, snapVars
  <2>14. ASSUME NEW id \in Objects, Pop(id) PROVE TypeOK'
    BY <2>14 DEF Pop, Ref, orchVars, mutVars, snapVars
  <2>15. ASSUME NEW c \in Objects, PushChild(c) PROVE TypeOK'
    BY <2>15 DEF PushChild, orchVars, mutVars, snapVars
  <2>16. ASSUME NEW m \in Mutators, BeginWrite(m) PROVE TypeOK'
    <3>1. PICK o \in Live, f \in Fields, x \in Live \union (Objects \ allocated) \union {Null} :
            /\ allocated' = allocated \union ({x} \ {Null})
            /\ op' = [op EXCEPT ![m] = [src |-> o, field |-> f,
                                        overwritten |-> heap[o][f], target |-> x]]
            /\ wpc' = [wpc EXCEPT ![m] = IF heap[o][f] = Null THEN "write" ELSE "barrier"]
      BY <2>16 DEF BeginWrite
    <3>2. o \in Objects /\ x \in Ref
      BY DEF Live, Reachable, Ref
    <3>3. heap[o][f] \in Ref
      BY <3>2 DEF Heap
    <3> DEFINE w == [src |-> o, field |-> f, overwritten |-> heap[o][f], target |-> x]
    <3>4. w \in WriteOp /\ (heap[o][f] # Null => w.overwritten \in Objects)
      BY <3>2, <3>3 DEF WriteOp, Ref
    <3> HIDE DEF w
    <3>5. allocated' \in SUBSET Objects
      BY <3>1, <3>2 DEF Ref
    <3>6. op' = [op EXCEPT ![m] = w]
      BY <3>1 DEF w
    <3>7. /\ op' \in [Mutators -> WriteOp \union {NoWrite}]
          /\ wpc' \in [Mutators -> {"idle", "barrier", "record", "write"}]
          /\ writes' \in 0..MaxWrites
      BY <2>16, <3>1, <3>4, <3>6, MaxWritesAssumption DEF BeginWrite
    <3>8. ASSUME NEW n \in Mutators
          PROVE  /\ wpc'[n] # "idle" => op'[n] \in WriteOp
                 /\ wpc'[n] \in {"barrier", "record"} => op'[n].overwritten \in Objects
      <4>1. CASE n = m
        BY <4>1, <3>1, <3>4, <3>6
      <4>2. CASE n # m
        BY <4>2, <3>1, <3>6
      <4> QED BY <4>1, <4>2
    <3> QED
      BY <2>16, <3>5, <3>7, <3>8 DEF BeginWrite, orchVars, markerVars, snapVars
  <2>17. ASSUME NEW m \in Mutators, LoadPhase(m) PROVE TypeOK'
    BY <2>17 DEF LoadPhase, orchVars, markerVars, snapVars
  <2>18. ASSUME NEW m \in Mutators, Record(m) PROVE TypeOK'
    BY <2>18 DEF Record, orchVars, markerVars, snapVars
  <2>19. ASSUME NEW m \in Mutators, Write(m) PROVE TypeOK'
    <3>1. op[m] \in WriteOp
      BY <2>19 DEF Write
    <3>2. heap' \in Heap
      BY <2>19, <3>1 DEF Write, WriteOp, Heap
    <3> QED
      BY <2>19, <3>2 DEF Write, orchVars, markerVars, snapVars
  <2>20. CASE UNCHANGED vars
    BY <2>20 DEF vars, orchVars, markerVars, mutVars, snapVars
  <2> QED
    BY <2>1, <2>2, <2>3, <2>4, <2>5, <2>6, <2>7, <2>8, <2>9, <2>10, <2>11, <2>12,
       <2>13, <2>14, <2>15, <2>16, <2>17, <2>18, <2>19, <2>20
       DEF Next, Orchestrator, Marker, Mutator
<1> QED
  BY <1>1, <1>2, PTL DEF Spec

-----------------------------------------------------------------------------
(* The three disciplines of the barrier's users, all kept. *)
Disciplined == QuietStart /\ QuietStop /\ QuietDrain

(* A step that only moves ids between the places of Found, or adds some,   *)
(* and changes neither graph, scans nothing and moves no mutator, keeps    *)
(* what is said about coverage.                                            *)
LEMMA CoverageKept ==
  ASSUME RootsFound, ScannedCovered, HeapCovered, WritesCovered,
         Found \subseteq Found', Scanned' \subseteq Scanned, Scanning' => Scanning,
         opc' # "idle" => opc # "idle",
         UNCHANGED <<heap, snapHeap, wpc, op>>
  PROVE  (RootsFound /\ ScannedCovered /\ HeapCovered /\ WritesCovered)'
<1> USE DEF Covered
<1>1. \A o, f : Covered(o, f) => Covered(o, f)'
  OBVIOUS
<1>2. RootsFound'
  BY DEF RootsFound
<1>3. ScannedCovered'
  BY <1>1 DEF ScannedCovered
<1>4. HeapCovered'
  BY <1>1 DEF HeapCovered
<1>5. WritesCovered'
  BY <1>1 DEF WritesCovered
<1> QED BY <1>2, <1>3, <1>4, <1>5

(* Nothing is marking at the start. *)
LEMMA SnapshotInvInit == Init => SnapshotInv
BY DEF Init, SnapshotInv, ControlInv, QuietInv, RootsFound, ScannedCovered, HeapCovered,
       WritesCovered, Scanned, Scanning, Marking, AllIdle

(* The orchestrator takes the snapshot when every mutator is idle, so that *)
(* nothing is to be covered yet, and ends the marking the same way.        *)
LEMMA OrchestratorKeeps ==
  ASSUME Disciplined, TypeOK, SnapshotInv, Orchestrator
  PROVE  SnapshotInv'
<1> USE DEF SnapshotInv, ControlInv, QuietInv, Disciplined
<1>1. CASE StartMarking
  <2> USE <1>1 DEF StartMarking, markerVars, mutVars, AllIdle, Scanning, Marking
  <2>1. (ControlInv /\ QuietInv)'
    OBVIOUS
  <2>2. RootsFound'
    BY DEF RootsFound, Found
  <2>3. Scanned' = {}
    BY DEF Scanned
  <2>4. ScannedCovered' /\ HeapCovered' /\ WritesCovered'
    BY <2>3 DEF ScannedCovered, HeapCovered, WritesCovered
  <2> QED BY <2>1, <2>2, <2>4
<1>2. ASSUME NEW r \in Roots, PushRoot(r) PROVE SnapshotInv'
  <2> USE <1>2 DEF PushRoot, markerVars, mutVars, snapVars, AllIdle, Scanning, Marking
  <2>1. (ControlInv /\ QuietInv)'
    OBVIOUS
  <2>2. Found \subseteq Found' /\ Scanned' = Scanned
    BY DEF Found, Scanned
  <2> QED BY <2>1, <2>2, CoverageKept
<1>3. CASE Spawn
  <2> USE <1>3 DEF Spawn, mutVars, snapVars, AllIdle, Scanning, Marking
  <2>1. (ControlInv /\ QuietInv)'
    OBVIOUS
  <2>2. Found \subseteq Found' /\ Scanned' = Scanned
    BY DEF Found, Scanned
  <2> QED BY <2>1, <2>2, CoverageKept
<1>4. CASE StopMarking
  <2> USE <1>4 DEF StopMarking, markerVars, mutVars, snapVars, AllIdle, Scanning, Marking
  <2>1. (ControlInv /\ QuietInv)'
    OBVIOUS
  <2>2. Found \subseteq Found' /\ Scanned' = Scanned
    BY DEF Found, Scanned
  <2> QED BY <2>1, <2>2, CoverageKept
<1>5. CASE Join
  <2> USE <1>5 DEF Join, mutVars, AllIdle, Scanning, Marking
  <2>1. (ControlInv /\ QuietInv)'
    OBVIOUS
  <2>2. Scanned' = {}
    BY DEF Scanned
  <2>3. RootsFound' /\ ScannedCovered' /\ HeapCovered' /\ WritesCovered'
    BY <2>2 DEF RootsFound, ScannedCovered, HeapCovered, WritesCovered
  <2> QED BY <2>1, <2>3
<1> QED BY <1>1, <1>2, <1>3, <1>4, <1>5 DEF Orchestrator

(* The marker only moves what it found towards black, and scanning adds    *)
(* what the object refers to; the snapshot's references it no longer sees  *)
(* were captured (HeapCovered).                                            *)
LEMMA MarkerKeeps ==
  ASSUME Disciplined, TypeOK, SnapshotInv, Marker
  PROVE  SnapshotInv'
<1> USE DEF SnapshotInv, ControlInv, QuietInv, Disciplined,
            orchVars, mutVars, snapVars, AllIdle, Scanning, Marking
<1>1. CASE Drain
  <2> USE <1>1 DEF Drain
  <2>1. (ControlInv /\ QuietInv)'
    OBVIOUS
  <2>2. Found \subseteq Found' /\ Scanned' = Scanned
    BY DEF Found, Scanned
  <2> QED BY <2>1, <2>2, CoverageKept
<1>2. CASE Refill
  <2> USE <1>2 DEF Refill
  <2>1. (ControlInv /\ QuietInv)'
    OBVIOUS
  <2>2. Found \subseteq Found' /\ Scanned' = Scanned
    BY DEF Found, Scanned
  <2> QED BY <2>1, <2>2, CoverageKept
<1>3. CASE PopNone
  <2> USE <1>3 DEF PopNone
  <2>1. (ControlInv /\ QuietInv)'
    OBVIOUS
  <2>2. Found \subseteq Found' /\ Scanned' = Scanned
    BY DEF Found, Scanned
  <2> QED BY <2>1, <2>2, CoverageKept
<1>4. CASE Scan
  <2> USE <1>4 DEF Scan
  <2>1. (ControlInv /\ QuietInv)'
    OBVIOUS
  <2>2. Found \subseteq Found' /\ Scanned' = Scanned \union {current}
    <3>1. children = {}
      OBVIOUS
    <3>2. current \in black /\ current # Null
      BY NullAssumption DEF TypeOK
    <3>3. Null \notin black
      BY NullAssumption DEF TypeOK
    <3> QED BY <3>1, <3>2, <3>3 DEF Found, Scanned
  <2>3. \A o, f : Covered(o, f) => Covered(o, f)'
    BY <2>2 DEF Covered
  <2>4. PICK id \in Objects : id = current
    BY DEF TypeOK
  <2>5. ASSUME NEW f \in Fields PROVE Covered(id, f)'
    <3>1. heap[id][f] = snapHeap[id][f] \/ Covered(id, f)
      BY DEF HeapCovered, TypeOK
    <3>2. heap[id][f] \in children' \union {Null}
      BY <2>4 DEF RefsOf
    <3> QED BY <2>3, <3>1, <3>2 DEF Covered, Found
  <2>6. ScannedCovered'
    BY <2>2, <2>3, <2>4, <2>5 DEF ScannedCovered
  <2>7. RootsFound' /\ HeapCovered' /\ WritesCovered'
    BY <2>2, <2>3 DEF RootsFound, HeapCovered, WritesCovered
  <2> QED BY <2>1, <2>6, <2>7
<1>5. CASE ScanDone
  <2> USE <1>5 DEF ScanDone
  <2>1. (ControlInv /\ QuietInv)'
    OBVIOUS
  <2>2. Found \subseteq Found' /\ Scanned' = Scanned
    BY DEF Found, Scanned
  <2> QED BY <2>1, <2>2, CoverageKept
<1>6. CASE CheckPhase
  <2> USE <1>6 DEF CheckPhase
  <2>1. (ControlInv /\ QuietInv)'
    BY DEF TypeOK
  <2>2. Found \subseteq Found' /\ Scanned' = Scanned
    BY DEF Found, Scanned
  <2> QED BY <2>1, <2>2, CoverageKept
<1>7. CASE FinalDrain
  <2> USE <1>7 DEF FinalDrain
  <2>1. (ControlInv /\ QuietInv)'
    OBVIOUS
  <2>2. Found \subseteq Found' /\ Scanned' = Scanned
    BY DEF Found, Scanned
  <2> QED BY <2>1, <2>2, CoverageKept
<1>8. CASE Decide
  <2> USE <1>8 DEF Decide
  <2>1. (ControlInv /\ QuietInv)'
    OBVIOUS
  <2>2. Found \subseteq Found' /\ Scanned' = Scanned
    BY DEF Found, Scanned
  <2> QED BY <2>1, <2>2, CoverageKept
<1>9. ASSUME NEW id \in Objects, Pop(id) PROVE SnapshotInv'
  <2> USE <1>9 DEF Pop
  <2>1. (ControlInv /\ QuietInv)'
    OBVIOUS
  <2>2. Found \subseteq Found' /\ Scanned' = Scanned
    <3>1. id # Null /\ Null \notin black /\ current = Null
      BY NullAssumption DEF TypeOK
    <3>2. CASE id \in black
      BY <3>2 DEF Found, Scanned
    <3>3. CASE id \notin black
      BY <3>1, <3>3 DEF Found, Scanned
    <3> QED BY <3>2, <3>3
  <2> QED BY <2>1, <2>2, CoverageKept
<1>10. ASSUME NEW c \in Objects, PushChild(c) PROVE SnapshotInv'
  <2> USE <1>10 DEF PushChild
  <2>1. (ControlInv /\ QuietInv)'
    OBVIOUS
  <2>2. Found \subseteq Found' /\ Scanned' = Scanned
    BY DEF Found, Scanned
  <2> QED BY <2>1, <2>2, CoverageKept
<1> QED
  BY <1>1, <1>2, <1>3, <1>4, <1>5, <1>6, <1>7, <1>8, <1>9, <1>10 DEF Marker

(* A mutator stores over a reference only once it is covered: it read the  *)
(* one it overwrites, and recorded it while marking.                       *)
LEMMA MutatorKeeps ==
  ASSUME Disciplined, TypeOK, SnapshotInv, NEW m \in Mutators, Mutator(m)
  PROVE  SnapshotInv'
<1> USE DEF SnapshotInv, ControlInv, QuietInv, Disciplined,
            orchVars, markerVars, snapVars, AllIdle, Scanning, Marking
<1>t. wpc \in [Mutators -> {"idle", "barrier", "record", "write"}] /\ DOMAIN op = Mutators
  BY DEF TypeOK
<1>1. CASE BeginWrite(m)
  <2> USE <1>1
  <2>1. PICK o \in Live, f \in Fields, x \in Live \union (Objects \ allocated) \union {Null} :
          /\ op' = [op EXCEPT ![m] = [src |-> o, field |-> f,
                                      overwritten |-> heap[o][f], target |-> x]]
          /\ wpc' = [wpc EXCEPT ![m] = IF heap[o][f] = Null THEN "write" ELSE "barrier"]
    BY DEF BeginWrite
  <2>2. o \in Objects
    BY DEF Live, Reachable
  <2> USE DEF BeginWrite
  <2>3. (ControlInv /\ QuietInv)'
    BY <1>t, <2>1
  <2>4. Found' = Found /\ Scanned' = Scanned /\ Scanning' = Scanning
    BY DEF Found, Scanned
  <2>5. \A p, g : Covered(p, g)' = Covered(p, g)
    BY <2>4 DEF Covered
  <2>6. RootsFound' /\ ScannedCovered' /\ HeapCovered'
    BY <2>4, <2>5 DEF RootsFound, ScannedCovered, HeapCovered
  <2>7. WritesCovered'
    <3> SUFFICES ASSUME Scanning, NEW n \in Mutators
                 PROVE  LET p == op'[n].src
                            g == op'[n].field
                        IN  /\ wpc'[n] \in {"barrier", "record"} =>
                                 op'[n].overwritten = snapHeap[p][g] \/ Covered(p, g)
                            /\ wpc'[n] = "write" => Covered(p, g)
      BY <2>4, <2>5 DEF WritesCovered
    <3>1. CASE n = m
      <4>1. heap[o][f] = snapHeap[o][f] \/ Covered(o, f)
        BY <2>2 DEF HeapCovered
      <4>2. /\ op'[n].src = o /\ op'[n].field = f /\ op'[n].overwritten = heap[o][f]
            /\ wpc'[n] = IF heap[o][f] = Null THEN "write" ELSE "barrier"
        BY <3>1, <2>1, <1>t
      <4> QED BY <4>1, <4>2 DEF Covered
    <3>2. CASE n # m
      BY <3>2, <2>1, <1>t DEF WritesCovered
    <3> QED BY <3>1, <3>2
  <2> QED BY <2>3, <2>6, <2>7
<1>2. CASE LoadPhase(m)
  <2> USE <1>2 DEF LoadPhase
  <2>1. (ControlInv /\ QuietInv)'
    BY <1>t
  <2>2. Found' = Found /\ Scanned' = Scanned /\ Scanning' = Scanning
    BY DEF Found, Scanned
  <2>3. \A p, g : Covered(p, g)' = Covered(p, g)
    BY <2>2 DEF Covered
  <2>4. RootsFound' /\ ScannedCovered' /\ HeapCovered'
    BY <2>2, <2>3 DEF RootsFound, ScannedCovered, HeapCovered
  <2>5. Scanning => phase = "Marking"
    OBVIOUS
  <2>6. WritesCovered'
    BY <1>t, <2>2, <2>3, <2>5 DEF WritesCovered
  <2> QED BY <2>1, <2>4, <2>6
<1>3. CASE Record(m)
  <2> USE <1>3 DEF Record
  <2>1. (ControlInv /\ QuietInv)'
    BY <1>t
  <2>2. /\ Found' = Found \union {op[m].overwritten}
        /\ Scanned' = Scanned /\ Scanning' = Scanning
    BY DEF Found, Scanned
  <2>3. \A p, g : Covered(p, g) => Covered(p, g)'
    BY <2>2 DEF Covered
  <2>4. RootsFound' /\ ScannedCovered' /\ HeapCovered'
    BY <2>2, <2>3 DEF RootsFound, ScannedCovered, HeapCovered
  <2>5. WritesCovered'
    <3> SUFFICES ASSUME Scanning, NEW n \in Mutators
                 PROVE  LET p == op[n].src
                            g == op[n].field
                        IN  /\ wpc'[n] \in {"barrier", "record"} =>
                                 op[n].overwritten = snapHeap[p][g] \/ Covered(p, g)'
                            /\ wpc'[n] = "write" => Covered(p, g)'
      BY <2>2 DEF WritesCovered
    <3>1. CASE n = m
      BY <3>1, <1>t, <2>2, <2>3 DEF WritesCovered, Covered
    <3>2. CASE n # m
      BY <3>2, <1>t, <2>3 DEF WritesCovered
    <3> QED BY <3>1, <3>2
  <2> QED BY <2>1, <2>4, <2>5
<1>4. CASE Write(m)
  <2> USE <1>4 DEF Write
  <2>1. (ControlInv /\ QuietInv)'
    BY <1>t
  <2>2. Found' = Found /\ Scanned' = Scanned /\ Scanning' = Scanning
    BY DEF Found, Scanned
  <2>3. \A p, g : Covered(p, g)' = Covered(p, g)
    BY <2>2 DEF Covered
  <2>4. RootsFound' /\ ScannedCovered'
    BY <2>2, <2>3 DEF RootsFound, ScannedCovered
  <2>5. HeapCovered'
    <3> SUFFICES ASSUME Scanning, NEW o \in Objects, NEW f \in Fields
                 PROVE  heap'[o][f] = snapHeap[o][f] \/ Covered(o, f)
      BY <2>2, <2>3 DEF HeapCovered
    <3>1. op[m].src \in Objects /\ op[m].field \in Fields
      BY DEF TypeOK, WriteOp
    <3>2. CASE o = op[m].src /\ f = op[m].field
      BY <3>2 DEF WritesCovered
    <3>3. CASE ~(o = op[m].src /\ f = op[m].field)
      <4>1. heap'[o][f] = heap[o][f]
        BY <3>1, <3>3 DEF TypeOK, Heap
      <4> QED BY <4>1 DEF HeapCovered
    <3> QED BY <3>2, <3>3
  <2>6. WritesCovered'
    BY <1>t, <2>2, <2>3 DEF WritesCovered
  <2> QED BY <2>1, <2>4, <2>5, <2>6
<1> QED BY <1>1, <1>2, <1>3, <1>4 DEF Mutator

(* SnapshotInv is an invariant of every disciplined execution. *)
THEOREM SnapshotInvariant == ASSUME Disciplined PROVE Spec => []SnapshotInv
<1>1. TypeOK /\ SnapshotInv /\ [Next]_vars => SnapshotInv'
  <2> SUFFICES ASSUME TypeOK, SnapshotInv, [Next]_vars PROVE SnapshotInv'
    OBVIOUS
  <2>1. CASE Orchestrator
    BY <2>1, OrchestratorKeeps
  <2>2. CASE Marker
    BY <2>2, MarkerKeeps
  <2>3. ASSUME NEW m \in Mutators, Mutator(m) PROVE SnapshotInv'
    BY <2>3, MutatorKeeps
  <2>4. CASE UNCHANGED vars
    BY <2>4 DEF vars, orchVars, markerVars, mutVars, snapVars, SnapshotInv, ControlInv,
                QuietInv, RootsFound, ScannedCovered, HeapCovered, WritesCovered, Covered,
                Found, Scanned, Scanning, Marking, AllIdle
  <2> QED BY <2>1, <2>2, <2>3, <2>4 DEF Next
<1> QED
  BY <1>1, SnapshotInvInit, TypeCorrect, PTL DEF Spec

(* The promise of the snapshot-at-the-beginning barrier                    *)
(* (src/src/barrier.rs:19-21): every object reachable when marking started *)
(* is in the set the marker returns.                                       *)
THEOREM SnapshotTheorem == ASSUME Disciplined PROVE Spec => []SnapshotPreserved
<1>1. TypeOK /\ SnapshotInv => SnapshotPreserved
  <2> SUFFICES ASSUME TypeOK, SnapshotInv, mpc = "done"
               PROVE  Reachable(snapHeap, Roots) \subseteq black
    BY DEF SnapshotPreserved
  <2> USE DEF SnapshotInv, ControlInv, QuietInv
  <2>1. Found = black
    BY DEF Found
  <2>2. Scanned = black
    BY NullAssumption DEF Scanned, TypeOK
  <2>3. Roots \subseteq black
    BY <2>1 DEF RootsFound
  <2>4. Closed(snapHeap, black)
    BY <2>1, <2>2 DEF Closed, RefsOf, ScannedCovered, Covered
  <2> QED BY <2>3, <2>4 DEF Reachable, TypeOK
<1> QED BY <1>1, TypeCorrect, SnapshotInvariant, PTL

(* No capture is left behind by a marker that has returned                 *)
(* (src/src/concurrent.rs:31-33).                                          *)
THEOREM NoCaptureLostTheorem == ASSUME Disciplined PROVE Spec => []NoCaptureLost
<1>1. SnapshotInv => NoCaptureLost
  BY DEF SnapshotInv, QuietInv, NoCaptureLost
<1> QED BY <1>1, SnapshotInvariant, PTL

-----------------------------------------------------------------------------
(* Why GarbageStaysWhite holds: while a cycle runs, what is allocated and  *)
(* was not garbage when the cycle started refers to nothing else, and      *)
(* everything on its way to the marker or about to be stored is part of it.*)
Good == allocated \ (snapAlloc \ Reachable(snapHeap, Roots))

GarbageInv ==
  /\ Initial \subseteq allocated
  /\ snapAlloc \subseteq allocated
  /\ opc = "idle" => snapAlloc = {} /\ stack = {} /\ remembered = {}
  /\ \A id \in Objects \ allocated, f \in Fields : heap[id][f] = Null
  /\ Closed(heap, allocated)
  /\ Closed(heap, Good)
  /\ Found \subseteq Good
  /\ \A m \in Mutators : wpc[m] # "idle" =>
       /\ op[m].src \in allocated
       /\ op[m].target \in Good \union {Null}
       /\ op[m].overwritten \in Good \union {Null}

(* What a reachable object refers to is reachable. *)
LEMMA ReachableClosed ==
  ASSUME NEW h \in Heap, NEW r PROVE Closed(h, Reachable(h, r))
BY DEF Closed, Reachable, Heap, Ref, RefsOf

(* What the program can reach is good. *)
LEMMA LiveGood ==
  ASSUME TypeOK, GarbageInv PROVE Roots \subseteq Good /\ Live \subseteq Good
<1>1. Roots \subseteq Reachable(snapHeap, Roots) /\ Roots \subseteq allocated
  BY RootsAssumption DEF Reachable, GarbageInv
<1>2. Roots \subseteq Good /\ Good \in SUBSET Objects
  BY <1>1 DEF Good, TypeOK
<1> QED BY <1>2 DEF Reachable, GarbageInv, Live

(* A step of the marker other than reading the fields of an object moves   *)
(* ids between the places where it keeps them, and loses none.             *)
LEMMA MarkerMoves ==
  ASSUME TypeOK, ControlInv, Marker, ~Scan
  PROVE  /\ Found' = Found /\ Scanned' = Scanned
         /\ current' # Null => current' \in Found'
         /\ UNCHANGED <<heap, allocated, opc, wpc, op, snapVars>>
<1> USE NullAssumption DEF TypeOK, ControlInv, Found, Scanned, Marking,
                           orchVars, mutVars, snapVars
<1>1. CASE Drain
  BY <1>1 DEF Drain
<1>2. CASE Refill
  BY <1>2 DEF Refill
<1>3. CASE PopNone
  BY <1>3 DEF PopNone
<1>4. CASE ScanDone
  BY <1>4 DEF ScanDone
<1>5. CASE CheckPhase
  BY <1>5 DEF CheckPhase
<1>6. CASE FinalDrain
  BY <1>6 DEF FinalDrain
<1>7. CASE Decide
  BY <1>7 DEF Decide
<1>8. ASSUME NEW id \in Objects, Pop(id)
      PROVE  /\ Found' = Found /\ Scanned' = Scanned
             /\ current' # Null => current' \in Found'
             /\ UNCHANGED <<heap, allocated, opc, wpc, op, snapVars>>
  <2>1. id # Null /\ Null \notin black /\ current = Null
    BY <1>8 DEF Pop
  <2>2. CASE id \in black
    BY <1>8, <2>1, <2>2 DEF Pop
  <2>3. CASE id \notin black
    BY <1>8, <2>1, <2>3 DEF Pop
  <2> QED BY <2>2, <2>3
<1>9. ASSUME NEW c \in Objects, PushChild(c)
      PROVE  /\ Found' = Found /\ Scanned' = Scanned
             /\ current' # Null => current' \in Found'
             /\ UNCHANGED <<heap, allocated, opc, wpc, op, snapVars>>
  BY <1>9 DEF PushChild
<1> QED
  BY <1>1, <1>2, <1>3, <1>4, <1>5, <1>6, <1>7, <1>8, <1>9 DEF Marker

(* Nothing is garbage to the collector before the first cycle. *)
LEMMA GarbageInvInit == Init => GarbageInv
<1> SUFFICES ASSUME Init PROVE GarbageInv
  OBVIOUS
<1>1. heap \in Heap /\ Good = Initial /\ Found = {}
  BY DEF Init, Good, Found
<1>2. \A id \in Objects \ Initial, f \in Fields : heap[id][f] = Null
  BY DEF Init, EmptyHeap
<1>3. Closed(heap, Initial)
  BY DEF Init, Closed
<1> QED BY <1>1, <1>2, <1>3 DEF Init, GarbageInv

(* The orchestrator brings no garbage into a cycle. *)
LEMMA GarbageOrchestrator ==
  ASSUME Disciplined, TypeOK, SnapshotInv, GarbageInv, Orchestrator
  PROVE  GarbageInv'
<1> USE DEF SnapshotInv, ControlInv, QuietInv, Disciplined, GarbageInv, Marking, AllIdle
<1>1. CASE StartMarking
  <2> USE <1>1 DEF StartMarking, markerVars, mutVars
  <2>1. Good = allocated
    BY DEF Good
  <2>2. Live \subseteq allocated
    BY <2>1, LiveGood
  <2>3. Good' = Live
    BY <2>2 DEF Good, Live
  <2>4. Closed(heap, Live)
    BY ReachableClosed DEF Live, TypeOK
  <2>5. Roots \subseteq Live
    BY RootsAssumption DEF Reachable, Live
  <2>6. Found' \subseteq Good'
    BY <2>3, <2>5 DEF Found
  <2> QED BY <2>3, <2>4, <2>6 DEF Closed, RefsOf
<1>2. ASSUME NEW r \in Roots, PushRoot(r) PROVE GarbageInv'
  <2> USE <1>2 DEF PushRoot, markerVars, mutVars, snapVars
  <2>1. Good' = Good /\ Found' = Found
    BY DEF Good, Found
  <2> QED BY <2>1 DEF Closed, RefsOf
<1>3. CASE Spawn
  <2> USE <1>3 DEF Spawn, mutVars, snapVars
  <2>1. Good' = Good /\ Found' = Found
    BY DEF Good, Found
  <2> QED BY <2>1 DEF Closed, RefsOf
<1>4. CASE StopMarking
  <2> USE <1>4 DEF StopMarking, markerVars, mutVars, snapVars
  <2>1. Good' = Good /\ Found' = Found
    BY DEF Good, Found
  <2> QED BY <2>1 DEF Closed, RefsOf
<1>5. CASE Join
  <2> USE <1>5 DEF Join, mutVars
  <2>1. Good' = allocated /\ Found' = {} /\ stack' = {} /\ remembered' = {}
    BY DEF Good, Found
  <2> QED BY <2>1 DEF Closed, RefsOf
<1> QED BY <1>1, <1>2, <1>3, <1>4, <1>5 DEF Orchestrator

(* The marker comes to live objects only. *)
LEMMA GarbageMarker ==
  ASSUME TypeOK, SnapshotInv, GarbageInv, Marker
  PROVE  GarbageInv'
<1> USE DEF GarbageInv
<1>0. ControlInv
  BY DEF SnapshotInv
<1>1. CASE ~Scan
  <2>1. /\ Found' = Found
        /\ UNCHANGED <<heap, allocated, opc, wpc, op, snapVars>>
    BY <1>0, <1>1, MarkerMoves
  <2>2. Good' = Good
    BY <2>1 DEF Good, snapVars
  <2>3. opc # "idle"
    BY <1>0 DEF ControlInv, Marker, Drain, Refill, PopNone, Scan, ScanDone, CheckPhase,
                FinalDrain, Decide, Pop, PushChild
  <2> QED BY <2>1, <2>2, <2>3 DEF Closed, RefsOf, snapVars
<1>2. CASE Scan
  <2> USE <1>2 DEF Scan, orchVars, mutVars, snapVars
  <2>1. current \in black /\ opc # "idle"
    BY <1>0 DEF ControlInv
  <2>2. Good' = Good
    BY DEF Good
  <2>3. RefsOf(heap, current) \subseteq Good
    BY <2>1 DEF Found, Closed
  <2>4. Found' \subseteq Good'
    BY <2>2, <2>3 DEF Found
  <2> QED BY <2>1, <2>2, <2>4 DEF Closed, RefsOf
<1> QED BY <1>1, <1>2

(* Mutators record and write live objects only. *)
LEMMA GarbageMutator ==
  ASSUME Disciplined, TypeOK, SnapshotInv, GarbageInv, NEW m \in Mutators, Mutator(m)
  PROVE  GarbageInv'
<1> USE DEF GarbageInv, orchVars, markerVars, snapVars
<1>t. wpc \in [Mutators -> {"idle", "barrier", "record", "write"}] /\ DOMAIN op = Mutators
  BY DEF TypeOK
<1>1. CASE BeginWrite(m)
  <2> USE <1>1
  <2>1. PICK o \in Live, f \in Fields, x \in Live \union (Objects \ allocated) \union {Null} :
          /\ allocated' = allocated \union ({x} \ {Null})
          /\ op' = [op EXCEPT ![m] = [src |-> o, field |-> f,
                                      overwritten |-> heap[o][f], target |-> x]]
          /\ wpc' = [wpc EXCEPT ![m] = IF heap[o][f] = Null THEN "write" ELSE "barrier"]
    BY DEF BeginWrite
  <2>u. UNCHANGED <<heap, phase, stack, remembered, orchVars, markerVars, snapVars>>
    BY DEF BeginWrite
  <2>2. o \in Good /\ Good \subseteq allocated
    BY LiveGood DEF Good
  <2>3. Good' = Good \union ({x} \ {Null}) /\ allocated \subseteq allocated'
    <3>1. x \in Live => x \in Good
      BY LiveGood
    <3>2. x \in Objects \ allocated => x \notin snapAlloc
      OBVIOUS
    <3> QED BY <2>1, <2>u, <3>1, <3>2 DEF Good
  <2>4. x \in Good \/ x = Null \/ \A g \in Fields : heap[x][g] = Null
    BY LiveGood
  <2>5. Closed(heap, Good)' /\ Closed(heap, allocated)'
    BY <2>1, <2>u, <2>2, <2>3, <2>4 DEF Closed, RefsOf
  <2>6. heap[o][f] \in Good \union {Null}
    BY <2>2 DEF Closed, RefsOf
  <2>7. ASSUME NEW n \in Mutators, wpc'[n] # "idle"
        PROVE  /\ op'[n].src \in allocated'
               /\ op'[n].target \in Good' \union {Null}
               /\ op'[n].overwritten \in Good' \union {Null}
    <3>1. CASE n = m
      <4>1. op'[n].src = o /\ op'[n].target = x /\ op'[n].overwritten = heap[o][f]
        BY <3>1, <2>1, <1>t
      <4> QED BY <4>1, <2>1, <2>2, <2>3, <2>6
    <3>2. CASE n # m
      <4>1. op'[n] = op[n] /\ wpc[n] # "idle"
        BY <3>2, <2>1, <2>7, <1>t
      <4> QED BY <4>1, <2>3
    <3> QED BY <3>1, <3>2
  <2>8. Found' = Found
    BY <2>u DEF Found
  <2>9. /\ Initial \subseteq allocated' /\ snapAlloc' \subseteq allocated'
        /\ \A id \in Objects \ allocated', g \in Fields : heap'[id][g] = Null
        /\ Found' \subseteq Good'
        /\ opc' = "idle" => snapAlloc' = {} /\ stack' = {} /\ remembered' = {}
    BY <2>u, <2>3, <2>8
  <2> QED BY <2>5, <2>7, <2>9
<1>2. CASE LoadPhase(m)
  <2> USE <1>2 DEF LoadPhase
  <2>1. Good' = Good /\ Found' = Found
    BY DEF Good, Found
  <2> QED BY <1>t, <2>1 DEF Closed, RefsOf
<1>3. CASE Record(m)
  <2> USE <1>3 DEF Record
  <2>1. Good' = Good /\ Found' = Found \union {op[m].overwritten}
    BY DEF Good, Found
  <2>2. op[m].overwritten \in Objects
    BY DEF TypeOK
  <2>3. Found' \subseteq Good'
    BY <2>1, <2>2, NullAssumption
  <2>4. opc # "idle"
    BY DEF SnapshotInv, QuietInv, Marking
  <2> QED BY <1>t, <2>1, <2>3, <2>4 DEF Closed, RefsOf
<1>4. CASE Write(m)
  <2> USE <1>4 DEF Write
  <2>1. Good' = Good /\ Found' = Found /\ Good \subseteq allocated
    BY DEF Good, Found
  <2>2. op[m].src \in Objects /\ op[m].field \in Fields /\ op[m].src \in allocated
    BY DEF TypeOK, WriteOp
  <2>3. \A id \in Objects, g \in Fields :
          heap'[id][g] = IF id = op[m].src /\ g = op[m].field THEN op[m].target ELSE heap[id][g]
    BY <2>2 DEF TypeOK, Heap
  <2>4. op[m].target \in Good \union {Null}
    OBVIOUS
  <2>5. Closed(heap', Good) /\ Closed(heap', allocated)
    <3>1. allocated \subseteq Objects
      BY DEF TypeOK
    <3> QED BY <2>1, <2>3, <2>4, <3>1 DEF Closed, RefsOf
  <2>6. \A id \in Objects \ allocated, g \in Fields : heap'[id][g] = Null
    BY <2>2, <2>3
  <2> QED BY <1>t, <2>1, <2>5, <2>6 DEF Closed, RefsOf
<1> QED BY <1>1, <1>2, <1>3, <1>4 DEF Mutator

(* GarbageInv is an invariant of every disciplined execution. *)
THEOREM GarbageInvariant == ASSUME Disciplined PROVE Spec => []GarbageInv
<1>1. TypeOK /\ SnapshotInv /\ GarbageInv /\ [Next]_vars => GarbageInv'
  <2> SUFFICES ASSUME TypeOK, SnapshotInv, GarbageInv, [Next]_vars PROVE GarbageInv'
    OBVIOUS
  <2>1. CASE Orchestrator
    BY <2>1, GarbageOrchestrator
  <2>2. CASE Marker
    BY <2>2, GarbageMarker
  <2>3. ASSUME NEW m \in Mutators, Mutator(m) PROVE GarbageInv'
    BY <2>3, GarbageMutator
  <2>4. CASE UNCHANGED vars
    BY <2>4 DEF vars, orchVars, markerVars, mutVars, snapVars, GarbageInv, Good, Found,
                Closed, RefsOf
  <2> QED BY <2>1, <2>2, <2>3, <2>4 DEF Next
<1> QED BY <1>1, GarbageInvInit, TypeCorrect, SnapshotInvariant, PTL DEF Spec

(* Marking retains no garbage (the asserts of src/src/concurrent.rs:163-165*)
(* with mutators running, any heap and any number of cycles).              *)
THEOREM GarbageTheorem == ASSUME Disciplined PROVE Spec => []GarbageStaysWhite
<1>1. GarbageInv => GarbageStaysWhite
  BY DEF GarbageInv, GarbageStaysWhite, Good, Found
<1> QED BY <1>1, GarbageInvariant, PTL

-----------------------------------------------------------------------------
(* The refinement of SnapshotMarking.  An object the marker is scanning is *)
(* black already, so the grey objects are those found and not scanned.     *)
Grey == Found \ Scanned

(* What the detailed marker has in hand is grey in the abstract one. *)
LEMMA GreyFound ==
  ASSUME ControlInv, ControlInv'
  PROVE  /\ (Found \union ({current} \ {Null})) \ Scanned = Grey
         /\ ((Found \union ({current} \ {Null})) \ Scanned)' = Grey'
<1>1. current # Null => current \in Found
  BY DEF ControlInv, Found
<1>2. current' # Null => current' \in Found'
  BY DEF ControlInv, Found
<1> QED BY <1>1, <1>2 DEF Grey

(* A step that changes nothing that SnapshotMarking can see. *)
LEMMA Stutters ==
  ASSUME ControlInv, ControlInv', Found' = Found, Scanned' = Scanned,
         UNCHANGED <<heap, snapVars>>, opc' = "idle" <=> opc = "idle"
  PROVE  UNCHANGED Abstract!vars
<1>1. Grey' = Grey
  BY DEF Grey
<1>2. ((Found \union ({current} \ {Null})) \ Scanned)'
        = (Found \union ({current} \ {Null})) \ Scanned
  BY <1>1, GreyFound
<1>3. (IF opc = "idle" THEN {} ELSE Roots)' = IF opc = "idle" THEN {} ELSE Roots
  OBVIOUS
<1> QED BY <1>2, <1>3 DEF Abstract!vars, Abstract!snapVars, snapVars

(* A step of the orchestrator is an abstract step or none. *)
LEMMA RefinesOrchestrator ==
  ASSUME Disciplined, TypeOK, SnapshotInv, SnapshotInv', GarbageInv, GarbageInv', Orchestrator
  PROVE  Abstract!Next \/ UNCHANGED Abstract!vars
<1> USE DEF SnapshotInv
<1>1. CASE StartMarking
  <2> USE <1>1 DEF StartMarking, markerVars, mutVars, ControlInv
  <2>1. /\ Found' = Roots /\ Scanned' = {} /\ Scanned = {} /\ Grey' = Roots
        /\ (Found \union ({current} \ {Null}))' \ Scanned' = Roots
    BY DEF Found, Scanned, GarbageInv, Grey
  <2>2. Closed(heap, Objects \ (snapAlloc' \ Reachable(heap, Roots)))
    <3> SUFFICES ASSUME NEW id \in Objects, id \notin snapAlloc' \ Reachable(heap, Roots),
                        NEW f \in Fields, heap[id][f] # Null
                 PROVE  heap[id][f] \in Objects \ (snapAlloc' \ Reachable(heap, Roots))
      BY DEF Closed, RefsOf
    <3>1. id \in allocated
      BY DEF GarbageInv
    <3>2. id \in Good'
      BY <3>1 DEF Good
    <3>3. heap[id][f] \in Good'
      BY <3>2 DEF GarbageInv, Closed, RefsOf
    <3> QED BY <3>3 DEF Good, TypeOK, Heap, Ref
  <2>3. (IF opc = "idle" THEN {} ELSE Roots)' = Roots
    OBVIOUS
  <2>4. Abstract!Dead' = snapAlloc' \ Reachable(heap, Roots)
    BY <2>3 DEF Abstract!Dead, Abstract!Must, Abstract!Reachable, Abstract!Closed,
                Abstract!RefsOf, Reachable, Closed, RefsOf
  <2>5. Abstract!Closed(heap, Objects \ Abstract!Dead')
    BY <2>2, <2>4 DEF Abstract!Closed, Abstract!RefsOf, Closed, RefsOf
  <2>6. Roots \in SUBSET Objects /\ snapAlloc' \in SUBSET Objects
    BY RootsAssumption DEF TypeOK
  <2>7. Abstract!Start
    BY <2>1, <2>3, <2>5, <2>6 DEF Abstract!Start
  <2> QED BY <2>7 DEF Abstract!Next
<1>2. ASSUME NEW r \in Roots, PushRoot(r) PROVE UNCHANGED Abstract!vars
  <2> USE <1>2 DEF PushRoot, markerVars, mutVars, snapVars
  <2>1. Found' = Found /\ Scanned' = Scanned
    BY DEF Found, Scanned
  <2> QED BY <2>1, Stutters
<1>3. CASE Spawn
  <2> USE <1>3 DEF Spawn, mutVars, snapVars
  <2>1. Found' = Found /\ Scanned' = Scanned
    BY DEF Found, Scanned, ControlInv
  <2> QED BY <2>1, Stutters
<1>4. CASE StopMarking
  <2> USE <1>4 DEF StopMarking, markerVars, mutVars, snapVars
  <2>1. Found' = Found /\ Scanned' = Scanned
    BY DEF Found, Scanned
  <2> QED BY <2>1, Stutters
<1>5. CASE Join
  <2> USE <1>5 DEF Join, mutVars
  <2>1. /\ Found = black /\ current = Null /\ Found' = {} /\ current' = Null
        /\ Scanned = black /\ Scanned' = {}
    BY NullAssumption DEF Found, Scanned, ControlInv, QuietInv, TypeOK
  <2>2. Abstract!Finish
    BY <2>1 DEF Abstract!Finish, Abstract!EmptyHeap, EmptyHeap
  <2> QED BY <2>2 DEF Abstract!Next
<1> QED BY <1>1, <1>2, <1>3, <1>4, <1>5 DEF Orchestrator

(* Reading the fields of an object is the scan; the rest of the marker     *)
(* changes nothing visible.                                                *)
LEMMA RefinesMarker ==
  ASSUME TypeOK, SnapshotInv, SnapshotInv', Marker
  PROVE  Abstract!Next \/ UNCHANGED Abstract!vars
<1> USE DEF SnapshotInv
<1>1. CASE ~Scan
  BY <1>1, MarkerMoves, Stutters
<1>2. CASE Scan
  <2> USE <1>2 DEF Scan, orchVars, mutVars, snapVars
  <2>1. current \in Objects /\ current \in black /\ children = {} /\ opc # "idle"
    BY DEF TypeOK, ControlInv
  <2>2. Null \notin black /\ current # Null /\ current' = Null
    BY <2>1, NullAssumption DEF TypeOK
  <2>3. /\ Scanned = black \ {current} /\ Scanned' = black
        /\ Found' = Found \union RefsOf(heap, current)
    BY <2>1, <2>2 DEF Scanned, Found
  <2>4. current \in Found
    BY <2>1 DEF Found
  <2> DEFINE grey == (Found \union ({current} \ {Null})) \ Scanned
  <2>5. grey = Found \ Scanned /\ grey' = Found' \ Scanned'
    BY <2>2, <2>4
  <2>6. /\ current \in grey /\ Scanned' = Scanned \union {current}
        /\ grey' = (grey \union RefsOf(heap, current)) \ Scanned'
    BY <2>1, <2>3, <2>4, <2>5
  <2>7. Abstract!Scan(current)
    BY <2>1, <2>6 DEF Abstract!Scan, Abstract!RefsOf, Abstract!snapVars, RefsOf
  <2> QED BY <2>6, <2>7 DEF Abstract!Next
<1> QED BY <1>1, <1>2

(* A record is a capture, unless the object is known already; a write is   *)
(* an overwrite of a reference that is no longer needed.                   *)
LEMMA RefinesMutator ==
  ASSUME TypeOK, TypeOK', SnapshotInv, SnapshotInv', GarbageInv,
         NEW m \in Mutators, Mutator(m)
  PROVE  Abstract!Next \/ UNCHANGED Abstract!vars
<1> USE DEF SnapshotInv, orchVars, markerVars, snapVars
<1>1. CASE BeginWrite(m)
  <2>1. Found' = Found /\ Scanned' = Scanned /\ UNCHANGED <<heap, snapVars, opc>>
    BY <1>1 DEF BeginWrite, Found, Scanned
  <2> QED BY <2>1, Stutters
<1>2. CASE LoadPhase(m)
  <2>1. Found' = Found /\ Scanned' = Scanned /\ UNCHANGED <<heap, snapVars, opc>>
    BY <1>2 DEF LoadPhase, Found, Scanned
  <2> QED BY <2>1, Stutters
<1>3. CASE Record(m)
  <2> USE <1>3 DEF Record
  <2>1. PICK id \in Objects : id = op[m].overwritten
    BY DEF TypeOK
  <2>2. /\ Found' = Found \union {id} /\ Scanned' = Scanned
        /\ UNCHANGED <<heap, snapVars, opc, current>> /\ opc # "idle"
    BY <2>1 DEF Found, Scanned, QuietInv, Marking
  <2>3. CASE id \in Found
    <3>1. Found' = Found
      BY <2>2, <2>3
    <3> QED BY <2>2, <3>1, Stutters
  <2>4. CASE id \notin Found
    <3> DEFINE grey == (Found \union ({current} \ {Null})) \ Scanned
    <3>1. grey = Found \ Scanned /\ grey' = Found' \ Scanned'
      BY GreyFound DEF Grey
    <3>2. id \notin Scanned
      BY <2>4 DEF Scanned, Found
    <3>3. id \notin grey /\ grey' = grey \union {id}
      BY <2>2, <2>4, <3>1, <3>2
    <3>4. id \notin snapAlloc \ Reachable(snapHeap, Roots)
      BY <2>1, NullAssumption DEF GarbageInv, Good
    <3>5. Abstract!Capture(id)
      BY <2>2, <3>2, <3>3, <3>4
         DEF Abstract!Capture, Abstract!Dead, Abstract!Must, Abstract!Reachable,
             Abstract!Closed, Abstract!RefsOf, Reachable, Closed, RefsOf, Abstract!snapVars
    <3> QED BY <3>3, <3>5 DEF Abstract!Next
  <2> QED BY <2>3, <2>4
<1>4. CASE Write(m)
  <2> USE <1>4 DEF Write
  <2>1. Found' = Found /\ Scanned' = Scanned /\ UNCHANGED <<snapVars, opc, current>>
    BY DEF Found, Scanned
  <2>2. CASE opc = "idle"
    <3>1. Abstract!Change
      BY <2>1, <2>2 DEF Abstract!Change, Abstract!snapVars, Abstract!Heap, Abstract!Ref,
                        TypeOK, Heap, Ref
    <3> QED BY <3>1 DEF Abstract!Next
  <2>3. CASE heap' = heap
    BY <2>1, <2>3, Stutters
  <2>4. CASE opc # "idle" /\ heap' # heap
    <3>1. op[m].src \in Objects /\ op[m].field \in Fields /\ op[m].target \in Ref
      BY DEF TypeOK, WriteOp
    <3>2. snapHeap[op[m].src][op[m].field] \in Found \union {Null}
      <4>1. Scanning
        BY <2>4 DEF Scanning, Marking, QuietInv, AllIdle, TypeOK
      <4> QED BY <4>1 DEF WritesCovered, Covered
    <3>3. op[m].target \notin snapAlloc \ Reachable(snapHeap, Roots)
      BY NullAssumption DEF GarbageInv, Good, TypeOK
    <3>4. Abstract!Overwrite(op[m].src, op[m].field, op[m].target)
      BY <2>1, <2>4, <3>2, <3>3
         DEF Abstract!Overwrite, Abstract!Known, Abstract!Dead, Abstract!Must,
             Abstract!Reachable, Abstract!Closed, Abstract!RefsOf, Reachable, Closed, RefsOf,
             Abstract!snapVars
    <3> QED BY <2>4, <3>1, <3>4 DEF Abstract!Next, Abstract!Ref, Ref
  <2> QED BY <2>2, <2>3, <2>4
<1> QED BY <1>1, <1>2, <1>3, <1>4 DEF Mutator

(* Marker, queues, barrier and phase implement SnapshotMarking, for any    *)
(* heap, any number of mutators, writes and cycles.                        *)
THEOREM Refinement == ASSUME Disciplined PROVE Spec => ImplementsSnapshotMarking
<1>1. Init => Abstract!Init
  BY DEF Init, Abstract!Init, Found, Scanned, Abstract!EmptyHeap, EmptyHeap, Abstract!Heap,
         Abstract!Ref, Heap, Ref
<1>2. TypeOK /\ TypeOK' /\ SnapshotInv /\ SnapshotInv' /\ GarbageInv /\ GarbageInv'
        /\ [Next]_vars => [Abstract!Next]_(Abstract!vars)
  <2> SUFFICES ASSUME TypeOK, TypeOK', SnapshotInv, SnapshotInv', GarbageInv, GarbageInv',
                      [Next]_vars
               PROVE  Abstract!Next \/ UNCHANGED Abstract!vars
    OBVIOUS
  <2>1. CASE Orchestrator
    BY <2>1, RefinesOrchestrator
  <2>2. CASE Marker
    BY <2>2, RefinesMarker
  <2>3. ASSUME NEW m \in Mutators, Mutator(m)
        PROVE  Abstract!Next \/ UNCHANGED Abstract!vars
    BY <2>3, RefinesMutator
  <2>4. CASE UNCHANGED vars
    <3>1. Found' = Found /\ Scanned' = Scanned /\ UNCHANGED <<heap, snapVars, opc>>
      BY <2>4 DEF vars, orchVars, markerVars, snapVars, Found, Scanned
    <3> QED BY <3>1, Stutters DEF SnapshotInv
  <2> QED BY <2>1, <2>2, <2>3, <2>4 DEF Next
<1> QED
  BY <1>1, <1>2, TypeCorrect, SnapshotInvariant, GarbageInvariant, PTL
     DEF Spec, ImplementsSnapshotMarking, Abstract!Spec

-----------------------------------------------------------------------------
(* SnapshotMarking keeps its promise.  Nothing below uses what the marker  *)
(* does: it is about every behaviour that SnapshotMarking allows, and, with*)
(* the refinement, about the marker.  What SnapshotMarking calls running,  *)
(* snapRoots and grey:                                                     *)
Running    == opc # "idle"
StartRoots == IF opc = "idle" THEN {} ELSE Roots
Pending    == (Found \union ({current} \ {Null})) \ Scanned

USE DEF Running, StartRoots, Pending

(* While a cycle runs the marker knows the roots, what black objects       *)
(* referred to in the snapshot, and what has been overwritten; and it knows*)
(* no garbage, which nothing alive leads to.                               *)
MarkingInv ==
  Running =>
    /\ StartRoots \subseteq Pending \union Scanned
    /\ \A id \in Scanned, f \in Fields : Abstract!Known(snapHeap[id][f])
    /\ \A id \in Objects, f \in Fields :
         heap[id][f] = snapHeap[id][f] \/ Abstract!Known(snapHeap[id][f])
    /\ (Pending \union Scanned) \intersect Abstract!Dead = {}
    /\ Abstract!Closed(heap, Objects \ Abstract!Dead)

(* Every variable of SnapshotMarking keeps its type. *)
THEOREM PromiseTypes == Abstract!Spec => []Abstract!TypeOK
<1>1. Abstract!Init => Abstract!TypeOK
  <2> SUFFICES ASSUME Abstract!Init PROVE Abstract!TypeOK
    OBVIOUS
  <2>1. heap \in Abstract!Heap /\ Running \in BOOLEAN /\ Abstract!EmptyHeap \in Abstract!Heap
    BY DEF Abstract!Init, Abstract!EmptyHeap, Abstract!Heap, Abstract!Ref
  <2> QED BY <2>1 DEF Abstract!Init, Abstract!TypeOK
<1>2. Abstract!TypeOK /\ [Abstract!Next]_(Abstract!vars) => Abstract!TypeOK'
  <2> SUFFICES ASSUME Abstract!TypeOK, [Abstract!Next]_(Abstract!vars) PROVE Abstract!TypeOK'
    OBVIOUS
  <2> USE DEF Abstract!TypeOK, Abstract!snapVars
  <2>1. CASE Abstract!Change
    BY <2>1 DEF Abstract!Change
  <2>2. CASE Abstract!Start
    BY <2>2 DEF Abstract!Start
  <2>3. ASSUME NEW id \in Pending, Abstract!Scan(id) PROVE Abstract!TypeOK'
    BY <2>3 DEF Abstract!Scan, Abstract!RefsOf, Abstract!Heap, Abstract!Ref
  <2>4. ASSUME NEW id \in Pending', Abstract!Capture(id) PROVE Abstract!TypeOK'
    BY <2>4 DEF Abstract!Capture
  <2>5. ASSUME NEW id \in Objects, NEW f \in Fields, NEW target \in Abstract!Ref,
               Abstract!Overwrite(id, f, target)
        PROVE  Abstract!TypeOK'
    BY <2>5 DEF Abstract!Overwrite, Abstract!Heap
  <2>6. CASE Abstract!Finish
    BY <2>6 DEF Abstract!Finish, Abstract!EmptyHeap, Abstract!Heap, Abstract!Ref
  <2>7. CASE UNCHANGED Abstract!vars
    BY <2>7 DEF Abstract!vars
  <2> QED BY <2>1, <2>2, <2>3, <2>4, <2>5, <2>6, <2>7 DEF Abstract!Next
<1> QED BY <1>1, <1>2, PTL DEF Abstract!Spec

(* A reference of the snapshot is overwritten only once the object it leads*)
(* to is known, and what is known stays known until the cycle is over.     *)
THEOREM MarkingInvariant == Abstract!Spec => []MarkingInv
<1>1. Abstract!Init => MarkingInv
  BY DEF Abstract!Init, MarkingInv
<1>2. Abstract!TypeOK /\ MarkingInv /\ [Abstract!Next]_(Abstract!vars) => MarkingInv'
  <2> SUFFICES ASSUME Abstract!TypeOK, MarkingInv, [Abstract!Next]_(Abstract!vars), Running'
               PROVE  MarkingInv'
    BY DEF MarkingInv
  <2>1. CASE Abstract!Change
    BY <2>1 DEF Abstract!Change
  <2>2. CASE Abstract!Start
    <3> USE <2>2 DEF Abstract!Start
    <3>1. StartRoots' \intersect Abstract!Dead' = {}
      BY DEF Abstract!Dead, Abstract!Must, Abstract!Reachable
    <3> QED BY <3>1 DEF MarkingInv
  <2>3. ASSUME NEW id \in Pending, Abstract!Scan(id) PROVE MarkingInv'
    <3> USE <2>3 DEF Abstract!Scan, Abstract!snapVars
    <3>1. id \in Objects /\ Abstract!Dead' = Abstract!Dead
      BY DEF Abstract!TypeOK, Abstract!Dead, Abstract!Must
    <3>2. /\ Scanned' = Scanned \union {id}
          /\ Pending' \union Scanned' = Pending \union Scanned \union Abstract!RefsOf(heap, id)
      OBVIOUS
    <3>3. \A ref : Abstract!Known(ref) => Abstract!Known(ref)'
      BY <3>2 DEF Abstract!Known
    <3>4. \A f \in Fields : Abstract!Known(heap[id][f])'
      BY <3>2 DEF Abstract!Known, Abstract!RefsOf
    <3>5. \A f \in Fields : Abstract!Known(snapHeap[id][f])'
      BY <3>1, <3>3, <3>4 DEF MarkingInv
    <3>6. Abstract!RefsOf(heap, id) \intersect Abstract!Dead = {}
      BY <3>1 DEF MarkingInv, Abstract!Closed
    <3> QED BY <3>1, <3>2, <3>3, <3>5, <3>6 DEF MarkingInv
  <2>4. ASSUME NEW id \in Pending', Abstract!Capture(id) PROVE MarkingInv'
    <3> USE <2>4 DEF Abstract!Capture, Abstract!snapVars
    <3>1. Abstract!Dead' = Abstract!Dead
      BY DEF Abstract!Dead, Abstract!Must
    <3>2. \A ref : Abstract!Known(ref) => Abstract!Known(ref)'
      BY DEF Abstract!Known
    <3> QED BY <3>1, <3>2 DEF MarkingInv
  <2>5. ASSUME NEW id \in Objects, NEW f \in Fields, NEW target \in Abstract!Ref,
               Abstract!Overwrite(id, f, target)
        PROVE  MarkingInv'
    <3> USE <2>5 DEF Abstract!Overwrite, Abstract!snapVars
    <3>1. Abstract!Dead' = Abstract!Dead /\ \A ref : Abstract!Known(ref)' = Abstract!Known(ref)
      BY DEF Abstract!Dead, Abstract!Must, Abstract!Known
    <3>2. \A o \in Objects, g \in Fields :
            heap'[o][g] = IF o = id /\ g = f THEN target ELSE heap[o][g]
      BY DEF Abstract!TypeOK, Abstract!Heap
    <3>3. \A o \in Objects, g \in Fields :
            heap'[o][g] = snapHeap[o][g] \/ Abstract!Known(snapHeap[o][g])
      BY <3>2 DEF MarkingInv
    <3>4. Abstract!Closed(heap', Objects \ Abstract!Dead)
      BY <3>2 DEF MarkingInv, Abstract!Closed, Abstract!RefsOf, Abstract!Ref
    <3> QED BY <3>1, <3>3, <3>4 DEF MarkingInv
  <2>6. CASE Abstract!Finish
    BY <2>6 DEF Abstract!Finish
  <2>7. CASE UNCHANGED Abstract!vars
    BY <2>7 DEF Abstract!vars, Abstract!snapVars, MarkingInv, Abstract!Known, Abstract!Dead,
                Abstract!Must, Abstract!Closed, Abstract!RefsOf
  <2> QED BY <2>1, <2>2, <2>3, <2>4, <2>5, <2>6, <2>7 DEF Abstract!Next
<1> QED BY <1>1, <1>2, PromiseTypes, PTL DEF Abstract!Spec

(* When nothing is left to scan, what was reachable at the start is black  *)
(* and what was garbage is not (src/src/barrier.rs:19-21).                 *)
THEOREM PromiseTheorem == Abstract!Spec => []Abstract!Promise
<1>1. Abstract!TypeOK /\ MarkingInv => Abstract!Promise
  <2> SUFFICES ASSUME Abstract!TypeOK, MarkingInv, Running, Pending = {}
               PROVE  Abstract!Must \subseteq Scanned /\ Scanned \intersect Abstract!Dead = {}
    BY DEF Abstract!Promise
  <2>1. StartRoots \subseteq Scanned
    BY DEF MarkingInv
  <2>2. Abstract!Closed(snapHeap, Scanned)
    BY DEF MarkingInv, Abstract!Known, Abstract!Closed, Abstract!RefsOf
  <2>3. Abstract!Must \subseteq Scanned
    BY <2>1, <2>2 DEF Abstract!Must, Abstract!Reachable, Abstract!TypeOK
  <2> QED BY <2>3 DEF MarkingInv
<1> QED BY <1>1, PromiseTypes, MarkingInvariant, PTL

(* So the marker keeps it too, captures, races and all.                    *)
THEOREM PromiseKept == ASSUME Disciplined PROVE Spec => []Abstract!Promise
BY Refinement, PromiseTheorem, PTL DEF ImplementsSnapshotMarking

=============================================================================
