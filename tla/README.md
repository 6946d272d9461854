# A TLA+ model of samsara

samsara is a research garbage collector in Rust, built in layers: a bump arena
and a stop-the-world tri-color marker (v0.0), a mark-region heap (v0.1), a
snapshot-at-the-beginning (SATB) write barrier (v0.2), its atomic form with a
shared remembered set (v0.3), a concurrent marker thread (v0.4), a Treiber
stack (v0.5), a hazard pointer registry (v0.6) and a hazard-protected stack
(v0.7).  This directory holds TLA+ modules for all of these layers, TLC
configurations that check them on small instances, and proofs that TLAPS checks
for every instance.

Run a check with `tlc -config MCx.cfg MCx` and a proof with `tlapm X_proofs.tla`.

## 1. The system

The crate has no runtime of its own: an embedding program owns the objects,
implements `ObjectGraph` (roots, outgoing references, all ids), calls the
barrier before it overwrites a reference, and drives the collection cycle.

| component | state | operations | who calls it |
|-----------|-------|------------|--------------|
| marker (`src/src/marker.rs`) | coloring, grey queue, seen set (locals) | `mark` | the program, world stopped |
| arena (`arena.rs`) | buffer, bump pointer | `alloc`, `read`, `write`, `reset` | the program, one thread |
| region heap (`region.rs`) | per region: bump pointer, state, live count; current region | `alloc`, `read`, `write`, `pre_mark`, `mark_live`, `sweep` | the program, one thread |
| barrier (`barrier.rs` v0.2, `atomic.rs` v0.3) | phase; mark stack | `pre_write`, `push`, `pop`; phase `load`/`store`/`transition` | mutators; whoever runs a cycle |
| remembered set (`remembered_set.rs`) | a queue of ids under a mutex | `record`, `drain` | mutators; the marker |
| concurrent marker (`concurrent.rs`) | its black set; shares stack, set and phase | one thread per cycle | spawned and joined by the orchestrator |
| hazard registry (`hazard.rs`) | 64 slots: `in_use`, `ptr` | `acquire`, `protect`, `clear`, drop, `snapshot`, `is_hazarded` | any thread, which may hold any number of slots; the safe stack, one slot per `pop` |
| safe stack (`safe_treiber.rs`) | `head`, nodes, retired list under a mutex | `push`, `pop`, `force_reclaim`, drop | any thread |
| Treiber stack (`treiber.rs`) | `head`, nodes | `push`, `pop`, drop | any thread |

Interactions: mutators and the marker meet in the phase (an atomic byte), the
remembered set and the mark stack (mutexes) and the object graph itself, which
the marker reads while mutators write it.  The orchestrator flips the phase and
joins the marker.  The safe stack uses the registry for every `pop` and scans it
for every reclamation.  The stacks are meant to replace the mutex of the
remembered set; no code does so yet.  The region heap and the marker meet in
the program: it marks, passes what was marked to `mark_live`, and sweeps; the
phase lets one collector at a time do so.

What is hard, and hardly reached by a test (`hazards` in `PROJECT.json` gives
each one with its line):

- *concurrent marking*: a mutator acts on a phase it loaded earlier; a reference
  moves from where the marker will look to where it has looked; a capture comes
  between two drains, or after the last one; the marker must still return;
- *the cycle*: the program allocates, moves and drops objects at every stage of
  it, and several collectors try to begin one;
- *regions*: a region is reset and filled again while counts, bump pointer and
  `current` of its earlier life are still around; a request that just does not
  fit; sizes at the alignment and region boundaries;
- *the registry*: slots change hands while a loop that is not atomic reads them,
  and Release stores arrive late;
- *the stacks*: a node is popped, freed and allocated again between two steps of
  another thread.

The properties that make each component correct are in section 3.

## 2. The modules

| module | models | composed of |
|--------|--------|-------------|
| `Reachability` | object graphs; reachability as the least closed set | |
| `TriColorMark` | `mark` | extends `Reachability` |
| `SnapshotMarking` | abstract specification: what snapshot marking promises and asks for | extends `Reachability` |
| `ConcurrentMark` | `concurrent_mark`, `AtomicPhase`, `AtomicWriteBarrier`, `RememberedSet`, `MarkStack`, mutators, orchestrator | extends `Reachability`; implements `SnapshotMarking` |
| `RegionHeap` | the operations of `RegionHeap` and `Region`, as action formulas | |
| `RegionClient` | the heap with a program that calls it in any legal order | extends `RegionHeap` |
| `CollectorCycle` | a program, the v0.2 `WriteBarrier`, `AtomicPhase::transition`, racing collectors, and the heap they sweep | extends `Reachability`, `RegionHeap` |
| `Arena` | `Arena` | |
| `HazardRegistry` | `HazardRegistry`, `HazardSlot` | |
| `AtomicStack` | abstract specification: what a stack promises | |
| `SafeTreiberStack` | `SafeTreiberStack` | instantiates `HazardRegistry`; implements `AtomicStack` |
| `TreiberStack` | `TreiberStack` | implements `AtomicStack` |
| `X_proofs` | theorems about `X`, one for each module of a component and for `RegionClient` and `CollectorCycle` | extends `X` |
| `MCX` | instance of `X` for TLC | extends `X` |

**ConcurrentMark.**  An action is one access to shared state: taking the
remembered set (`Drain`), pushing what was drained (`Refill`), popping
(`Pop`, `PopNone`), reading the fields of an object (`Scan`), pushing one child
(`PushChild`), loading the phase (`CheckPhase`), the final drain and the
decision after it (`FinalDrain`, `Decide`).  A mutator reads the reference it is
about to lose (`BeginWrite`), loads the phase (`LoadPhase`), records (`Record`)
and writes (`Write`); it can store any object it can reach, a fresh one or
nothing.  The orchestrator is the sequence every test of `concurrent.rs`
follows: store `Marking`, push the roots, spawn, leave `Marking`, join; cycles
follow one another.  Mark stack and remembered set are sets: the marker treats a
second occurrence of an id as a no-op and the order of scanning is irrelevant to
the properties.  A mutator overwrites references it can reach only: the test
`concurrent.rs:168-196`, which records an id that no reference leads to, is outside
the model.  `Sleep` and lock poisoning are left out (the marker and the
barrier do not panic while they hold a lock).  `snapHeap` and `snapAlloc` are
history variables: graph and allocation when marking started.

**SnapshotMarking.**  The contract of `barrier.rs:9-23` with no word on barriers,
threads or queues: grey and black objects, and a program that may overwrite a
reference of the snapshot only once the marker knows its target.  `ConcurrentMark`
implements it: an object is black there from the moment its fields are read, and
grey while it waits in the stack, the remembered set, a drained batch or the scan
of another object.

Three constants say what the *callers* do; the code enforces none of them:
`QuietStart` (no mutator is between its phase load and its write when marking
starts), `QuietStop` (nor when the phase flips; the termination protocol of
`concurrent.rs:19-22` asks for it) and `QuietDrain` (no mutator writes
references between the flip and the join).

**TriColorMark.**  `EnterRoot` and `ScanGrey` are the bodies of the two loops of
`mark`.  The graph is any function of objects and fields; `all_ids` may list any
set of objects.

**RegionHeap, RegionClient.**  `HeapAlloc` and `HeapRefuse` are the two outcomes of
`alloc`, the attempts that failed before it (which turn regions `Full`) included;
`HeapPreMark`, `HeapMarkLive`, `HeapSweep` are the cycle.  The program of
`RegionClient` drops handles at any time and reports to `mark_live` what it held
at `pre_mark`.  `StopTheWorld` says that it does not allocate between `pre_mark`
and `sweep`; the code does not enforce it, and with FALSE `LiveInRegion` fails.

**CollectorCycle.**  Objects of a graph live at handles of the heap.  `Overwrite` is
`pre_write` followed by the store, one step as in the single-threaded barrier;
`Mark` is one round of the marking loop.  A collector begins with the
compare-and-swap `Idle` to `Marking`, pushes the roots, marks, moves the phase to
`Sweeping`, drains what the stack still holds, counts and sweeps, and moves the
phase back; program and collectors interleave at every step.  The program follows
the discipline the crate leaves to it: it pushes an object it allocates while
marking runs (as `barrier.rs:222-226` does), does not allocate while the phase is
`Sweeping`, and writes no reference while the stack is drained.  `garbage` is a
history variable: what was unreachable when the cycle began.

**HazardRegistry.**  One action per atomic access.  A *user* of the registry is one
`HazardSlot`, from the `acquire` that asks for it to its drop, or one scan;
`ThreadOf` says in which thread each user is.  A thread is any number of users: it
may hold several slots, ask for one more, protect and clear through each, and scan
while it holds them, as the tests `slots_exhausted_returns_none` and
`snapshot_returns_published_pointers` do.  It makes one call at a time and is done
with the result before the next (`Alone`).  `ThreadOf` is fixed: a guard stays in
the thread that acquired it (`hazard.rs:113` calls it per-thread).

The stores are `Ordering::Release`, which x86 may delay in a FIFO store buffer;
`pending` is that buffer and `Flush` makes the oldest store visible.  A
compare-and-swap and a mutex operation wait until the thread has no delayed store
(`Drained`), and a thread's loads find its own delayed stores first (`Loads`).
Each user has a buffer of its own, so the stores of two slots of one thread may
become visible in either order; x86 keeps them in order, and the model allows more
than the machine does.  `BufferSize = 0` makes stores visible at once.  `snapshot`
and `is_hazarded` are the same loop over the slots; `asked` is the pointer that
`is_hazarded` looks for, at which it returns early (`AskPtr`).

**SafeTreiberStack.**  One action per access to shared memory, the registry's
actions being those of `HazardRegistry`.  Nodes are addresses; `Box::new` may
return an address that has just been freed.  `chain` is a history variable, the
nodes that successful compare-and-swaps have linked.  The registry is the stack's
own and a `pop` gives its slot up before it retires, so a thread is one user of it.
A verification *overtakes* its protection (`Overtakes`) when it succeeds while the
store of `protect` is still delayed; `InOrder` says of an execution that none does.
The code does not ensure it (a SeqCst fence would): see the findings.  The constant
`PromptProtect`, which only configurations set, makes the load wait, so that TLC
explores only executions that are in order.

**TreiberStack.**  As above without the registry; a read of freed memory returns
any pointer.  `Reuse = FALSE` is the no-ABA assumption of `treiber.rs:18-28`.

**Arena.**  `alloc` with its rounding and its cast to a handle of `HandleValues`
values (2^32 in the code).

## 3. What the runs check

Bounds are chosen so that every action fires and the hazards can occur.

| run | bounds | properties |
|-----|--------|------------|
| `mark_safety` | 4 objects (1 fresh) with 1 field, every initial graph, 2 mutators, 2 writes, any number of cycles; all three disciplines | `SnapshotPreserved`: what was reachable when marking started is black when the marker returns. `NoCaptureLost`: no recorded id stays in the set. `GarbageStaysWhite`: what was unreachable stays white. `ImplementsSnapshotMarking`: every step is one of the abstract specification. |
| `mark_liveness` | 3 objects, 2 mutators, 2 writes, no discipline | `MarkerTerminates`: after the flip the marker returns. |
| `mark_no_start_handshake` | 3 objects, `QuietStart = FALSE` | finding: `SnapshotPreserved` fails |
| `tricolor` | every graph of 3 objects with 2 fields, 2 roots, one object missing from `all_ids` | `TriColor`, `MarkCorrect` (exactly the reachable objects are black), `ScannedOnce`, `MarkTerminates` |
| `region_safety` | 2 regions of 4 bytes, alignment 2, sizes 0, 1, 3, 4 and 5, at most 3 handles in use | `LiveDisjoint`, `LiveInRegion`, `CurrentIsAllocating`, `CountExact`, `SweepReclaims` (`sweep` gives back exactly the regions without a marked object, emptied, and leaves the others as they are), `NoneOnlyWithoutFree` |
| `collector_cycle` | 2 objects with 1 field, 2 regions of 4 bytes, sizes 1 and 3, 2 collectors | `LiveIntact`: the program's objects keep their bytes. `OneCollector`: one collector runs a cycle and no transition of its own is refused. `GarbageReclaimed`: what was garbage when a cycle began does not keep a region. `CycleEnds`. |
| `hazard_registry` | 4 users, 3 of them in one thread, 2 slots, 2 pointers, store buffers of 2 (1.6 million states) | `SlotExclusive`, `ProtectionKept`, `SnapshotComplete`, `AnswerComplete` (the same for `is_hazarded`), `ExhaustedByGuards`: `acquire` fails only if as many other guards as there are slots had one |
| `safe_stack_safety` | 3 threads, 2 slots, 2 addresses, 3 pushes, threshold 2, store buffers of 1, `PromptProtect = TRUE` | `NoUseAfterFree`, `ListIntact`, `EveryNodeOwned`, `ImplementsAtomicStack` |
| `safe_stack_delayed_protect` | 2 threads, 2 addresses, `PromptProtect = FALSE` | finding: `NoUseAfterFree` fails |
| `stack_no_reuse` | 2 threads, 3 addresses, no reuse | `EveryNodeOwned`, `ImplementsAtomicStack`, `OpsComplete`: an operation that keeps being scheduled returns |
| `stack_reads_freed` | the same | finding: `NoUseAfterFree` fails |
| `arena_safety` | 18 bytes, alignment 4, sizes below, at and above it | `ObjectsDisjoint` |

Every passing run checks `TypeOK` too, but for `mark_liveness`, whose module
`mark_safety` covers.

Why these bounds are enough.  *Marking*: a lost object needs a chain of two
references, one write that moves the second behind the marker and one that
removes it; four objects and two writes give this with a fresh object to spare,
and cycles repeat because the state returns to idle.  *Regions*: two regions are
enough for spill-over, a `Full` region that is not current, and a sweep of one
but not the other; four bytes with alignment two put sizes below, at and over
each boundary.  *Cycle*: two objects are a live one and the garbage that shares
its region or has one of its own, and a reference between them; their names
return after a sweep, so cycles go on for ever.  Two collectors race for each
transition.  *Registry*: three guards of one thread exhaust two slots without a
rival, as 65 exhaust 64 in `slots_exhausted_returns_none`; the other thread competes
with them, and lets a slot change hands during a scan.  *Stacks*: ABA takes two pops
and a push between two steps of a third operation, on two addresses.  Threshold 2
lets retired nodes wait for the next scan, and a pop that finds one below it skips
it.

`SYMMETRY` is used for threads, mutators, pointers and addresses, and for the users
of one thread, which no definition distinguishes, in runs that check no liveness.  The refinements there
are safety properties, and their mappings name no thread or address.  Deadlock is
checked everywhere except in `tricolor`, where marking ends.

**Fairness.**  `mark_liveness` assumes weak fairness of the marker's steps taken
together: the marker is an operating system thread that is never blocked for
good, since the locks it takes are held for one push or pop.  Nothing is assumed
of mutators or the orchestrator.  The claim is for a bounded heap: a program that
allocates for ever in front of the marker can keep it busy.  `tricolor` assumes that
`mark`, a sequential function, keeps running.  `collector_cycle` assumes that a collector which has begun a
cycle keeps being scheduled, and that it decides at some point to end the marking
phase, which is a decision of its caller.  `stack_no_reuse` assumes that a thread
inside `push` or `pop` keeps being scheduled; it says nothing of the others or of
new operations.  With two threads and a bounded number of pushes a retry loop has
a bounded number of interferences to lose to.

**Mutants.**  Definitions whose comment starts with *Faulty* are variants with
a plausible bug (a dropped guard, an off-by-one, a missing reset); `PROJECT.json`
pairs each property of a passing run with one that violates it.

## 4. What is proved

Each theorem is for every value of the constants under the assumptions its module
names and those its statement adds.  Every safety property that a passing run
checks is a theorem.  Where a statement adds a hypothesis, TLC finds violations
without it, as the last column says; `ExhaustedTheorem` and what follows from it
add that the users are finitely many, as only finite sets can be counted.

| hypothesis | theorems | without it |
|------------|----------|------------|
| `Disciplined` | `ConcurrentMark_proofs`, but for types | `mark_no_start_handshake`; section 5 |
| `StopTheWorld` | `LiveInRegion`, `LiveDisjoint` of `RegionClient_proofs` | section 5 |
| `InOrder`, of the execution | safety and refinement of `SafeTreiberStack_proofs` | `safe_stack_delayed_protect` |
| `Reuse = FALSE` | `TreiberStack_proofs` | `Reuse = TRUE` in `MCTreiberStack_noreuse.cfg`: a stale pointer is installed |
| `Capacity <= HandleValues` | `DisjointTheorem` of `Arena_proofs` | section 5 |

`InOrder` is no repair of the code: the theorems speak of `pop` as it is, with the
orderings it uses, and of every execution of it in which no verification happens
to overtake its protection.  They say that the overtaking of finding 2 of section 5
is all that can go wrong.  `StoresAtOnce` proves that where stores are performed at
once (`BufferSize = 0`) no execution overtakes, and so
`SafeWhereStoresAreAtOnce` has the same conclusions with no hypothesis on the
execution; `LoadWaits` proves that a load that waits, which is what the missing
fence would give, is enough on any memory.  `Reuse = FALSE` is the assumption that
`treiber.rs:18-28` states for its users.

*How the modules share lemmas.*  `ConcurrentMark_proofs` instantiates what it
proves of `SnapshotMarking`; `CollectorCycle_proofs` takes the lemmas about the
heap from an instance of `RegionClient_proofs`, in which the client's own
variables are constants; `SafeTreiberStack_proofs` takes the registry's theorems
from an instance of `HazardRegistry_proofs` and the facts about lists from one of
`TreiberStack_proofs`.  The modules say the same thing under two names there, and
a lemma (`SameHeap`, `SameRegistry`) says that they do.

**ConcurrentMark.**  `TypeCorrect` holds whatever the callers do.  The others need
`Disciplined`, the conjunction of the three disciplines.

*Nothing is lost* (`SnapshotTheorem`, `NoCaptureLostTheorem`).
`SnapshotPreserved` says nothing before the marker is done, so it is not
inductive.  `SnapshotInv` adds what holds on the way: every reference of the
snapshot is either still in the heap or its target is in one of the places where
the marker keeps ids (`HeapCovered`); every reference of a scanned object leads to
such a place (`ScannedCovered`); a mutator that is about to write has covered the
reference it removes, and one that is about to record it knows its target
(`WritesCovered`).  `ControlInv` and `QuietInv` say how the program counters fit
together.  A marker step moves ids between places and loses none (lemma
`CoverageKept`), `Scan` turns heap coverage of an object into coverage of its
references, and `Write` removes a reference that `WritesCovered` has covered.
When the marker is done only `black` is left of the places, so it contains the
roots and is closed in the snapshot's graph; `ReachableLeast` concludes.

*Garbage stays white* (`GarbageTheorem`).  The good objects are those that are not
garbage of the snapshot.  `GarbageInv` says that the heap is closed on them and
that every id on its way to the marker, and every target a mutator holds, is one
of them; what a mutator can reach, and what is allocated later, is good.

*Refinement* (`Refinement`, `ImplementsSnapshotMarking`).  Under the two
invariants every step of the marker and the mutators is a step of
`SnapshotMarking` or a stutter.  `SnapshotMarking` keeps its promise
(`PromiseTheorem`), and so does the marker (`PromiseKept`): the guarantee a second
time, by way of the abstract specification.

**TriColorMark.**  For any graph, roots and `all_ids`: `TypeCorrect`,
`MarkInvariant` (`MarkInv`: what was seen is reachable, the seen objects are the
grey and the black ones, an object is scanned when it turns black), and from it
`MarkTheorem` (`MarkCorrect`), `TriColorTheorem` and `ScannedOnceTheorem`.

**RegionHeap, RegionClient.**  The first lemmas say what each operation of the heap
does to types and to valid handles, for any program; the most used is that `alloc`
extends a region past every valid handle.  From them follow, for any program,
`TypeCorrect`, `CurrentTheorem`,
`NoneOnlyWithoutFreeTheorem`, `CountTheorem` (the count is the cardinality of a
set that grows by one handle at a time) and from it `SweepReclaimsTheorem`, in both
directions: a region with a marked object is left alone, any other is free and
empty afterwards, one that was free before included (`FreeIsEmpty`); and for
one that stops the world `HeapInvariant`, from which come `LiveInRegionTheorem` and
`LiveDisjointTheorem`.  `HeapInv` adds to the properties that a free region is
empty, and that between `pre_mark` and `sweep` a handle in use has yet to be
reported, or was and its region has a count above zero.

**CollectorCycle.**  `OneCollectorTheorem` follows from `PhaseInv`, which adds that
the phase is `Idle` when no collector is at work.  `LiveIntactTheorem` rests on
`CycleInv`.  Its heart is what the marker will find, `Found`: the black objects
and what the stack leads to without passing through a black one.  `MarkingInv`
says that roots and black objects refer to nothing else, from the push of the
roots to the sweep (`Tracks`).  A write keeps it since `pre_write` pushes the
target that is lost, an allocation since the fresh object is pushed; scanning
leaves `Found` as it is, and with an empty stack it is `black`, which is what
`sweep` keeps.  `AllocInv` says that nothing leads out of the allocated objects,
`BytesInv` that these have their bytes to themselves.

`GarbageTheorem` (`GarbageReclaimed`) is the other half: a collector that kept
everything would satisfy `LiveIntact`.  `GarbageInv` says that what was garbage
when the cycle began is referred to by no root, no stack, no black object and
nothing outside itself; the program cannot get it back, since what it stores it
can reach.  `CountedInv` says that a region with a count above zero holds an object
that was counted, and only black ones are.  So a region in use of which all objects
were garbage has count zero when it is swept.

**HazardRegistry.**  `SlotTheorem`, `ProtectionTheorem`, `SnapshotTheorem` and
`AnswerTheorem`, for store buffers of any size.  A slot is owed by the user that
has it, and after a drop by that user still, until the store that gives it up
is visible (`Owed`).  `BufferInv` says that delayed stores go to the owed slot and
that the one that gives it up is the last, `OwnerInv` that an owed slot is in use
and owed once, `ProtectInv` that a protection is in its slot or the last store on
its way there, and `LoopInv` that a scan has found every stable protection in the
slots behind it; what a scan loads of the slots of its own thread may come from
their buffers, where `ProtectInv` has it (`StableLoads`).

`ExhaustedTheorem` (`ExhaustedByGuards`): `acquire` fails only if at least as many
other guards as there are slots had one while it looked, of whatever thread.  The obvious count, one rival
for each slot the loop went past, is wrong: a user may be met at one slot, free
it and be met again at a later one.  But then it has looked for a slot itself
since, and it went past every earlier slot because somebody owed that one; these
are rivals too.  `Race` makes this an induction on the slots: of those a looking
user has met, at least `probe - 1` have begun to look later than it or owe a slot
behind its loop (`Crowd`), and a user among them that takes the slot `i` has its
own crowd of `i` to add.  The history this needs (`met`, `later`) is existentially
quantified in `RaceInv`, so the model carries no variable for it.
`NeverExhausted`: with a slot for every user that there can be at once no `acquire`
fails, which is how `MAX_HAZARDS` has to be chosen (`hazard.rs:28-30`); in the
stack, where a thread is one user, `NeverPanics` counts threads.

**SafeTreiberStack.**  `RegistryUsed` is the bridge: a behaviour of the stack is a
behaviour of the registry, so the registry's theorems hold of the stack
(`ScanTheorem`, part of `TypeCorrect`, and `NeverPanics`: with a slot for every
thread no pop panics).  `SafeInvariant` has four parts.  `OwnInv`: an allocated
node is on the stack, in the retired list or with one thread, and with one of these
only.  `LinkInv`: memory spells the stack out, and what a compare-and-swap is about
to link is still what its node says.  `LockInv`: who scans holds the mutex.
`GuardInv` is about hazards: a node whose protection is verified is allocated, is
not the node of a push, and *each scan now running either began after the
protection was visible, or does not have the node in the list it scans*.  By
`ScanTheorem` a scan of the first kind has seen the protection; one of the second
kind has nothing to free.  A verified node is not freed, so it cannot come back as the node
of another push, its `next` does not change, and a compare-and-swap that finds it
at the head finds the stack as it was read: no ABA.  `NoUseAfterFreeTheorem`,
`ListTheorem` and `OwnedTheorem` follow.

`Refinement` (`ImplementsAtomicStack`): the successful compare-and-swap of a push
or a pop is the abstract operation, every other step a stutter.  `ValueInvariant`
(different nodes hold different values, so the abstract set of offered values
loses exactly one) holds in every execution.

**TreiberStack.**  The same without hazards, in `StackInvariant`: `FreeInv` says
that the node a pop looks at may have been freed but then is not back, so that the
compare-and-swap of what was read from it fails; `LinkInv` leaves out nodes that
are freed, of which anything may have been read.  Even `TypeCorrect` needs
`Reuse = FALSE`: with reuse, what was read from freed memory can become `head`, and
a pop returns what no push has written.

Facts about lists would call for induction on their length.  They are stated
without it: `Linked` says of each index what memory has there, and the nodes of a
list are the *least* set that contains its head and is closed under `next`
(`LinkedReached`), which is how `Drop`, which frees what it reaches, is proved to
free all (`DropFrees`).

**Arena.**  `TypeCorrect`: the bump pointer stays inside the buffer, for any
alignment and sizes.  `DisjointTheorem`: no two objects share a byte in an arena
its handles can address, the largest such one included, in which only an empty
object at the very end gets a handle that wraps around.

Only model-checked is what the prover cannot reach: liveness, that is
`MarkerTerminates`, `MarkTerminates`, `OpsComplete` and `CycleEnds`.

## 5. Disagreements between code and comments

Shown by a run:

1. *No handshake at the start of marking* (`atomic.rs:95`).  A mutator that
   loaded `Idle` may overwrite a reference after marking has started.
2. *Store of `protect` delayed* (`safe_treiber.rs:86-91`, `hazard.rs:126`).
   Release followed by an Acquire load of another location is not ordered; the
   verification can succeed before the hazard is visible.
3. *Read of freed memory* (`treiber.rs:93`), which the no-ABA assumption does not
   exclude.

Seen by changing a constant of a configuration:

- `QuietDrain = FALSE` in `MCConcurrentMark_safety.cfg`: the barrier is off from
  the flip on, but the marker still scans what its last drains bring, so a write
  before the join can hide an object and `SnapshotPreserved` fails.
  `barrier.rs:65-67` says that a barrier that is off while sweeping misses nothing,
  and `concurrent.rs:19-22` asks only that no new captures be produced.
- `QuietStop = FALSE` there: a mutator that loaded `Marking` may record and write
  after the final drain, and `SnapshotPreserved` fails, which is why
  `concurrent.rs:19-22` asks for the wait.
- `Reuse = TRUE` in `MCTreiberStack_noreuse.cfg`: ABA, which `treiber.rs:18-28`
  acknowledges; `TypeOK` and `EveryNodeOwned` fail.
- `HandleValues = 8` in `MCArena.cfg`: an arena larger than its handles can
  address (4 GiB) hands out overlapping objects (`arena.rs:44`).
- `StopTheWorld = FALSE` in `MCRegionClient.cfg`: an object allocated between
  `pre_mark` and `sweep` loses its region.

Part of the model and stated here only: `alloc` never returns to a region that
is neither current nor free, so it can return `None` although a region has room
(`region.rs:132-133`); a `Full` region that is still current is reopened by a
smaller request (`region.rs:42-43`); SATB lets a black object reference a fresh
white one (`README.md:35` reads as if it did not).

## 6. What is not modelled

The contents of objects (an object is the extent of its handle); lengths,
counters and statistics that only read (`n_free`, `used`, `len`, the number that
`sweep` returns); poisoned locks; `lib.rs`, which re-exports.  Weak memory is
modelled where it changes the outcome, in the registry and the safe stack; the
phase and the sets of the concurrent marker are read and written under
acquire/release pairs or locks, and a late store of the phase is a late action of
the orchestrator.

A mark stack that keeps duplicates: an id drained twice costs the marker a round,
which matters only to how long it takes.  Liveness of the safe stack is not
checked: the state graph of the safety run is too large for it, and on a smaller
one the retry loops are those of `TreiberStack`, where `OpsComplete` is checked.

## 7. What is left

Done, in this order: concurrent marking with its proof; stacks, registry, heap and
marker; the abstract `SnapshotMarking` and its refinement; the collection cycle
over regions with racing collectors; liveness of the cycle and of the stack
operations; proofs of the garbage, region, cycle and registry properties; proofs of
the two stacks, of their refinements of `AtomicStack`, of `ExhaustedByGuards`, of
`GarbageReclaimed` and of the arena; threads that hold any number of slots; the safe
stack's theorems for all executions that are in order.  Next:

1. Safety facts that the liveness runs rest on and that can be proved: when the
   marker cannot take a step there is nothing left for it to do; the stack and the
   set of a marker that nobody records to shrink at every round.
2. A weaker hypothesis for the safe stack: a verification that overtakes its
   protection does harm only if a scan begins before the store is visible.
3. A store buffer for each thread in place of one for each user of the registry,
   and guards that move to another thread.
4. A mark stack that keeps duplicates, and lock-freedom of the safe stack.
