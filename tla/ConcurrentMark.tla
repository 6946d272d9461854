--------------------------- MODULE ConcurrentMark ---------------------------
(***************************************************************************)
(* Concurrent marking with a snapshot-at-the-beginning write barrier:      *)
(* concurrent_mark (src/src/concurrent.rs), AtomicPhase and                *)
(* AtomicWriteBarrier (src/src/atomic.rs), RememberedSet                   *)
(* (src/src/remembered_set.rs) and MarkStack (src/src/barrier.rs).         *)
(*                                                                         *)
(* Three kinds of threads run:                                             *)
(*   - an orchestrator, which starts a cycle, spawns the marker, flips the *)
(*     phase and joins (the sequence every test of concurrent.rs follows); *)
(*   - the marker, one step per access to shared state;                    *)
(*   - the mutators, each overwriting one reference at a time: read the    *)
(*     old target, pre_write(old) (phase load, then record), write.        *)
(*                                                                         *)
(* MarkStack and RememberedSet are Vec<u32> under a Mutex; they are sets   *)
(* here because the marker treats a second occurrence of an id as a no-op  *)
(* and the order in which ids are scanned is irrelevant to the properties. *)
(***************************************************************************)
EXTENDS Reachability, Naturals

CONSTANTS
  Roots,      \* graph.roots()
  Initial,    \* objects allocated before the first cycle
  Mutators,   \* mutator threads
  (* What the users of the barrier do.  The code enforces none of the      *)
  (* three; each is a discipline of its callers.                           *)
  QuietStart, \* no mutator is inside a reference write when marking starts
  QuietStop,  \* no mutator is inside a reference write when the phase flips
  QuietDrain, \* no mutator starts a write between the flip and the join
  (* Bound of the model: reference writes in a behaviour. *)
  MaxWrites

ASSUME RootsAssumption == Roots \subseteq Initial /\ Initial \subseteq Objects
ASSUME QuietAssumption == {QuietStart, QuietStop, QuietDrain} \subseteq BOOLEAN
ASSUME MaxWritesAssumption == MaxWrites \in Nat

VARIABLES
  \* shared state
  heap,       \* the object graph
  allocated,  \* objects allocated so far
  phase,      \* AtomicPhase
  stack,      \* MarkStack
  remembered, \* RememberedSet
  \* the orchestrator
  opc,        \* its program counter
  unpushed,   \* roots not yet pushed in this cycle
  \* the marker thread
  mpc,        \* its program counter
  black,      \* the set it returns
  drained,    \* what it last took out of the remembered set
  current,    \* the object being scanned
  children,   \* references of current not yet looked at
  \* the mutators
  wpc,        \* program counter of each mutator
  op,         \* the reference write each mutator is performing
  writes,     \* writes begun so far, for the bound
  \* history variables, read by the properties only
  snapHeap,   \* the graph when marking started
  snapAlloc   \* the objects allocated when marking started

orchVars   == <<opc, unpushed>>
markerVars == <<mpc, black, drained, current, children>>
mutVars    == <<wpc, op, writes>>
snapVars   == <<snapHeap, snapAlloc>>
vars == <<heap, allocated, phase, stack, remembered,
          orchVars, markerVars, mutVars, snapVars>>

Phases  == {"Idle", "Marking", "Sweeping"}
WriteOp == [src : Objects, field : Fields, overwritten : Ref, target : Ref]
NoWrite == [src |-> Null, field |-> Null, overwritten |-> Null, target |-> Null]

TypeOK ==
  /\ heap \in Heap
  /\ allocated \in SUBSET Objects
  /\ phase \in Phases
  /\ stack \in SUBSET Objects
  /\ remembered \in SUBSET Objects
  /\ opc \in {"idle", "rooting", "marking", "stopping"}
  /\ unpushed \in SUBSET Roots
  /\ mpc \in {"absent", "drain", "refill", "pop", "scan", "push",
              "check", "final", "decide", "done"}
  /\ black \in SUBSET Objects
  /\ drained \in SUBSET Objects
  /\ current \in Ref
  /\ children \in SUBSET Objects
  /\ wpc \in [Mutators -> {"idle", "barrier", "record", "write"}]
  /\ op \in [Mutators -> WriteOp \union {NoWrite}]
  /\ writes \in 0..MaxWrites
  /\ \A m \in Mutators : wpc[m] # "idle" => op[m] \in WriteOp
  /\ \A m \in Mutators : wpc[m] \in {"barrier", "record"} => op[m].overwritten \in Objects
  /\ mpc = "scan" => current \in Objects
  /\ snapHeap \in Heap
  /\ snapAlloc \in SUBSET Objects

EmptyHeap == [id \in Objects |-> [f \in Fields |-> Null]]

AllIdle == \A m \in Mutators : wpc[m] = "idle"

Live == Reachable(heap, Roots)

Init ==
  /\ heap \in {h \in Heap :
       /\ \A id \in Objects \ Initial : h[id] = EmptyHeap[id]
       /\ \A id \in Initial : RefsOf(h, id) \subseteq Initial}
  /\ allocated = Initial
  /\ phase = "Idle"
  /\ stack = {} /\ remembered = {}
  /\ opc = "idle" /\ unpushed = {}
  /\ mpc = "absent"
  /\ black = {} /\ drained = {} /\ children = {} /\ current = Null
  /\ wpc = [m \in Mutators |-> "idle"]
  /\ op = [m \in Mutators |-> NoWrite]
  /\ writes = 0
  /\ snapHeap = EmptyHeap
  /\ snapAlloc = {}

-----------------------------------------------------------------------------
(* The orchestrator. *)

(* phase: Idle -> Marking; from here on the barrier captures. *)
StartMarking ==
  /\ opc = "idle"
  /\ phase = "Idle"
  /\ QuietStart => AllIdle
  /\ phase' = "Marking"
  /\ opc' = "rooting"
  /\ unpushed' = Roots
  /\ snapHeap' = heap
  /\ snapAlloc' = allocated
  /\ UNCHANGED <<heap, allocated, stack, remembered, markerVars, mutVars>>

(* for r in graph.roots() { stack.lock().push(r) } *)
PushRoot(r) ==
  /\ opc = "rooting"
  /\ r \in unpushed
  /\ stack' = stack \union {r}
  /\ unpushed' = unpushed \ {r}
  /\ UNCHANGED <<heap, allocated, phase, remembered, opc, markerVars, mutVars, snapVars>>

(* concurrent_mark(...): the marker starts with an empty black set. *)
Spawn ==
  /\ opc = "rooting"
  /\ unpushed = {}
  /\ opc' = "marking"
  /\ mpc' = "drain"
  /\ black' = {}
  /\ UNCHANGED <<heap, allocated, phase, stack, remembered, unpushed,
                 drained, current, children, mutVars, snapVars>>

(* The phase leaves Marking, for Idle or for Sweeping. *)
StopMarking ==
  /\ opc = "marking"
  /\ QuietStop => AllIdle
  /\ phase' \in {"Idle", "Sweeping"}
  /\ opc' = "stopping"
  /\ UNCHANGED <<heap, allocated, stack, remembered, unpushed, markerVars, mutVars, snapVars>>

(* handle.join(); the cycle is over. *)
Join ==
  /\ opc = "stopping"
  /\ mpc = "done"
  /\ phase' = "Idle"
  /\ opc' = "idle"
  /\ mpc' = "absent"
  /\ black' = {}
  /\ snapHeap' = EmptyHeap
  /\ snapAlloc' = {}
  /\ UNCHANGED <<heap, allocated, stack, remembered, unpushed,
                 drained, current, children, mutVars>>

-----------------------------------------------------------------------------
(* The marker thread. *)

(* Faulty: the marker returns without the final drain. *)
CheckPhase_NoFinalDrain ==
  /\ mpc = "check"
  /\ mpc' = IF phase = "Marking" THEN "drain" ELSE "done"
  /\ UNCHANGED <<heap, allocated, phase, stack, remembered, orchVars,
                 black, drained, current, children, mutVars, snapVars>>

(* let drained = remembered.drain() at the top of the loop. *)
Drain ==
  /\ mpc = "drain"
  /\ drained' = remembered
  /\ remembered' = {}
  /\ mpc' = IF remembered = {} THEN "pop" ELSE "refill"
  /\ UNCHANGED <<heap, allocated, phase, stack, orchVars,
                 black, current, children, mutVars, snapVars>>

(* The drained ids go onto the mark stack, under its lock. *)
Refill ==
  /\ mpc = "refill"
  /\ stack' = stack \union drained
  /\ drained' = {}
  /\ mpc' = "pop"
  /\ UNCHANGED <<heap, allocated, phase, remembered, orchVars,
                 black, current, children, mutVars, snapVars>>

(* stack.lock().pop() returned an id: black.insert decides whether to scan. *)
Pop(id) ==
  /\ mpc = "pop"
  /\ id \in stack
  /\ stack' = stack \ {id}
  /\ IF id \in black
     THEN mpc' = "drain" /\ UNCHANGED <<black, current>>
     ELSE mpc' = "scan" /\ black' = black \union {id} /\ current' = id
  /\ UNCHANGED <<heap, allocated, phase, remembered, orchVars,
                 drained, children, mutVars, snapVars>>

(* It returned None. *)
PopNone ==
  /\ mpc = "pop"
  /\ stack = {}
  /\ mpc' = "check"
  /\ UNCHANGED <<heap, allocated, phase, stack, remembered, orchVars,
                 black, drained, current, children, mutVars, snapVars>>

(* graph.refs_of(id): one read of the object's fields. *)
Scan ==
  /\ mpc = "scan"
  /\ children' = RefsOf(heap, current)
  /\ current' = Null
  /\ mpc' = "push"
  /\ UNCHANGED <<heap, allocated, phase, stack, remembered, orchVars,
                 black, drained, mutVars, snapVars>>

(* One child of the scanned object: pushed, under the lock, unless black. *)
PushChild(c) ==
  /\ mpc = "push"
  /\ c \in children
  /\ children' = children \ {c}
  /\ stack' = IF c \in black THEN stack ELSE stack \union {c}
  /\ UNCHANGED <<heap, allocated, phase, remembered, orchVars,
                 mpc, black, drained, current, mutVars, snapVars>>

ScanDone ==
  /\ mpc = "push"
  /\ children = {}
  /\ mpc' = "drain"
  /\ UNCHANGED <<heap, allocated, phase, stack, remembered, orchVars,
                 black, drained, current, children, mutVars, snapVars>>

(* Faulty: the marker ends in Idle only, and an orchestrator that goes on  *)
(* to Sweeping waits for it.                                               *)
CheckPhase_UntilIdle ==
  /\ mpc = "check"
  /\ mpc' = IF phase # "Idle" THEN "drain" ELSE "final"
  /\ UNCHANGED <<heap, allocated, phase, stack, remembered, orchVars,
                 black, drained, current, children, mutVars, snapVars>>

(* Nothing left to scan: phase.load() decides between sleeping and ending. *)
CheckPhase ==
  /\ mpc = "check"
  /\ mpc' = IF phase = "Marking" THEN "drain" ELSE "final"
  /\ UNCHANGED <<heap, allocated, phase, stack, remembered, orchVars,
                 black, drained, current, children, mutVars, snapVars>>

(* let final_drain = remembered.drain(). *)
FinalDrain ==
  /\ mpc = "final"
  /\ drained' = remembered
  /\ remembered' = {}
  /\ mpc' = "decide"
  /\ UNCHANGED <<heap, allocated, phase, stack, orchVars,
                 black, current, children, mutVars, snapVars>>

(* Faulty: what the final drain brought is not pushed. *)
Decide_Forgets ==
  /\ mpc = "decide"
  /\ mpc' = IF drained = {} /\ stack = {} THEN "done" ELSE "drain"
  /\ drained' = {}
  /\ UNCHANGED <<heap, allocated, phase, stack, remembered, orchVars,
                 black, current, children, mutVars, snapVars>>

(* Return black if nothing came and the stack is empty, else go round again. *)
Decide ==
  /\ mpc = "decide"
  /\ mpc' = IF drained = {} /\ stack = {} THEN "done" ELSE "drain"
  /\ stack' = stack \union drained
  /\ drained' = {}
  /\ UNCHANGED <<heap, allocated, phase, remembered, orchVars,
                 black, current, children, mutVars, snapVars>>

-----------------------------------------------------------------------------
(* The mutators. *)

(* Faulty: pre_write is called for an empty field too. *)
BeginWrite_NullBarrier(m) ==
  /\ wpc[m] = "idle"
  /\ QuietDrain => opc # "stopping"
  /\ writes < MaxWrites
  /\ \E o \in Live, f \in Fields :
       /\ op' = [op EXCEPT ![m] = [src |-> o, field |-> f,
                                   overwritten |-> heap[o][f], target |-> Null]]
       /\ wpc' = [wpc EXCEPT ![m] = "barrier"]
  /\ writes' = writes + 1
  /\ UNCHANGED <<heap, allocated, phase, stack, remembered, orchVars, markerVars, snapVars>>

(* Faulty: the barrier records whatever the phase is. *)
LoadPhase_Always(m) ==
  /\ wpc[m] = "barrier"
  /\ wpc' = [wpc EXCEPT ![m] = "record"]
  /\ UNCHANGED <<heap, allocated, phase, stack, remembered,
                 orchVars, markerVars, op, writes, snapVars>>

(* Faulty: an insertion barrier, which records the new target. *)
Record_NewTarget(m) ==
  /\ wpc[m] = "record"
  /\ remembered' = remembered \union ({op[m].target} \ {Null})
  /\ wpc' = [wpc EXCEPT ![m] = "write"]
  /\ UNCHANGED <<heap, allocated, phase, stack, orchVars, markerVars, op, writes, snapVars>>

(* A mutator picks a reference it can reach and what to store there: a     *)
(* reachable object, a freshly allocated one, or nothing.  It reads the    *)
(* target it is about to lose; an empty field has none and needs no        *)
(* pre_write.                                                              *)
BeginWrite(m) ==
  /\ wpc[m] = "idle"
  /\ QuietDrain => opc # "stopping"
  /\ writes < MaxWrites
  /\ \E o \in Live, f \in Fields, x \in Live \union (Objects \ allocated) \union {Null} :
       /\ allocated' = allocated \union ({x} \ {Null})
       /\ op' = [op EXCEPT ![m] = [src |-> o, field |-> f,
                                   overwritten |-> heap[o][f], target |-> x]]
       /\ wpc' = [wpc EXCEPT ![m] = IF heap[o][f] = Null THEN "write" ELSE "barrier"]
  /\ writes' = writes + 1
  /\ UNCHANGED <<heap, phase, stack, remembered, orchVars, markerVars, snapVars>>

(* pre_write: self.phase.load() == Phase::Marking ... *)
LoadPhase(m) ==
  /\ wpc[m] = "barrier"
  /\ wpc' = [wpc EXCEPT ![m] = IF phase = "Marking" THEN "record" ELSE "write"]
  /\ UNCHANGED <<heap, allocated, phase, stack, remembered,
                 orchVars, markerVars, op, writes, snapVars>>

(* ... then self.set.record(overwritten). *)
Record(m) ==
  /\ wpc[m] = "record"
  /\ remembered' = remembered \union {op[m].overwritten}
  /\ wpc' = [wpc EXCEPT ![m] = "write"]
  /\ UNCHANGED <<heap, allocated, phase, stack, orchVars, markerVars, op, writes, snapVars>>

(* The reference itself is overwritten. *)
Write(m) ==
  /\ wpc[m] = "write"
  /\ heap' = [heap EXCEPT ![op[m].src][op[m].field] = op[m].target]
  /\ wpc' = [wpc EXCEPT ![m] = "idle"]
  /\ op' = [op EXCEPT ![m] = NoWrite]
  /\ UNCHANGED <<writes, allocated, phase, stack, remembered, orchVars, markerVars, snapVars>>

-----------------------------------------------------------------------------
Orchestrator == StartMarking \/ (\E r \in Roots : PushRoot(r)) \/ Spawn \/ StopMarking \/ Join

Marker ==
  \/ Drain \/ Refill \/ PopNone \/ Scan \/ ScanDone
  \/ CheckPhase \/ FinalDrain \/ Decide
  \/ \E id \in Objects : Pop(id) \/ PushChild(id)

Mutator(m) == BeginWrite(m) \/ LoadPhase(m) \/ Record(m) \/ Write(m)

Next == Orchestrator \/ Marker \/ \E m \in Mutators : Mutator(m)

Spec == Init /\ [][Next]_vars

(* The marker thread keeps being scheduled; nothing is assumed of the others. *)
FairSpec == Spec /\ WF_vars(Marker)

-----------------------------------------------------------------------------
(* Properties. *)

(* The promise of the barrier (src/src/barrier.rs:19-21): when the marker  *)
(* returns, every object that was reachable when marking started is in the *)
(* black set, whatever the mutators overwrote meanwhile.                   *)
SnapshotPreserved == mpc = "done" => Reachable(snapHeap, Roots) \subseteq black

(* No recorded id is missed (src/src/concurrent.rs:31-33): nothing is left *)
(* in the remembered set of a marker that has returned.                    *)
NoCaptureLost == mpc = "done" => remembered = {}

(* Marking retains no garbage: what was unreachable when the cycle started *)
(* stays white, over any number of cycles (the `!black.contains` asserts   *)
(* of src/src/concurrent.rs:163-165, with mutators running).               *)
GarbageStaysWhite ==
  mpc = "done" => black \subseteq Reachable(snapHeap, Roots) \union (allocated \ snapAlloc)

(* The marker returns once the phase has left Marking, in a heap with a    *)
(* bound on its objects, whatever the mutators are doing then (the         *)
(* termination protocol, src/src/concurrent.rs:19-22).                     *)
MarkerTerminates == (opc = "stopping") ~> (mpc = "done")

-----------------------------------------------------------------------------
(* Why SnapshotPreserved holds.  While a cycle runs, an object found is    *)
(* never lost, and every reference of the snapshot is either still in the  *)
(* heap or leads to an object already found; a mutator about to write has  *)
(* recorded the reference it removes.                                      *)
Marking  == opc \in {"rooting", "marking"}
Scanning == Marking \/ (opc = "stopping" /\ mpc # "done")

(* Where an object the marker knows of can be; what it has scanned. *)
Found   == black \union stack \union remembered \union drained \union children \union unpushed
Scanned == black \ {current}

Covered(o, f) == snapHeap[o][f] \in Found \union {Null}

(* How the program counters of the three kinds of threads fit together. *)
ControlInv ==
  /\ phase = "Marking" <=> Marking
  /\ opc \in {"idle", "rooting"} <=> mpc = "absent"
  /\ opc # "rooting" => unpushed = {}
  /\ mpc = "absent" => black = {}
  /\ mpc \notin {"refill", "decide"} => drained = {}
  /\ mpc # "push" => children = {}
  /\ mpc # "scan" => current = Null
  /\ mpc = "scan" => current \in black
  /\ mpc \in {"final", "decide", "done"} => opc = "stopping"
  /\ mpc = "done" => stack = {}

(* What the three disciplines give. *)
QuietInv ==
  /\ opc = "stopping" => AllIdle
  /\ ~Marking => \A m \in Mutators : wpc[m] # "record"
  /\ mpc \in {"decide", "done"} => remembered = {}

RootsFound == opc # "idle" => Roots \subseteq Found

ScannedCovered == \A o \in Scanned, f \in Fields : Covered(o, f)

HeapCovered ==
  Scanning => \A o \in Objects, f \in Fields : heap[o][f] = snapHeap[o][f] \/ Covered(o, f)

WritesCovered ==
  Scanning => \A m \in Mutators :
    LET o == op[m].src
        f == op[m].field
    IN  /\ wpc[m] \in {"barrier", "record"} =>
             op[m].overwritten = snapHeap[o][f] \/ Covered(o, f)
        /\ wpc[m] = "write" => Covered(o, f)

SnapshotInv ==
  /\ ControlInv /\ QuietInv
  /\ RootsFound /\ ScannedCovered /\ HeapCovered /\ WritesCovered

-----------------------------------------------------------------------------
(* The marker, its queues, the barrier and the phase implement what        *)
(* SnapshotMarking promises (src/src/concurrent.rs:24-33): wherever an id  *)
(* is on its way to the marker it counts as grey, and an object turns black*)
(* when its fields are read.  No mutator step may remove a reference of    *)
(* the snapshot before the object it leads to is on that way.              *)
Abstract == INSTANCE SnapshotMarking WITH
  running   <- opc # "idle",
  snapshot  <- snapHeap,
  snapRoots <- IF opc = "idle" THEN {} ELSE Roots,
  grey      <- (Found \union ({current} \ {Null})) \ Scanned,
  black     <- Scanned

ImplementsSnapshotMarking == Abstract!Spec

=============================================================================
