--------------------------- MODULE HazardRegistry ---------------------------
(***************************************************************************)
(* The hazard pointer registry of src/src/hazard.rs: a fixed array of      *)
(* slots that are acquired, published in, cleared and released, and that   *)
(* reclaimers scan.  One action per atomic access to a slot.               *)
(*                                                                         *)
(* A user of the registry is one HazardSlot, from the acquire that asks    *)
(* for it to its drop, or one scan.  A thread is any number of users: it   *)
(* may hold several slots, acquire one more and scan while it does.  It    *)
(* makes one call at a time, and is done with a result before the next.    *)
(*                                                                         *)
(* protect, clear and drop write with Ordering::Release.  Such a store may *)
(* wait in a store buffer and become visible later (x86-TSO).  A           *)
(* compare-and-swap and a mutex operation first empty the buffer of the    *)
(* thread, and the thread's own loads find what waits there.  Each user    *)
(* has a FIFO buffer of its own, so the stores of two slots of one thread  *)
(* may become visible in either order, which x86-TSO does not let them.    *)
(* BufferSize = 0 makes every store visible at once.                       *)
(***************************************************************************)
EXTENDS Naturals, Sequences, FiniteSets

CONSTANTS
  Users,
  ThreadOf,   \* the thread of each user
  NSlots,     \* MAX_HAZARDS
  Pointers,   \* what can be protected
  Null,       \* the null pointer
  BufferSize  \* capacity of the store buffer of a user

ASSUME HazardAssumption ==
  /\ NSlots \in Nat \ {0}
  /\ Null \notin Pointers
  /\ BufferSize \in Nat

Slots  == 1..NSlots
NoSlot == 0

VARIABLES
  inUse,      \* Slot::in_use
  ptr,        \* Slot::ptr
  pending,    \* stores of each user that are not visible yet
  hpc,        \* what each user is doing with the registry
  slot,       \* the HazardSlot it owns
  probe,      \* the slot its loop has come to, in acquire or in a scan
  asked,      \* the pointer it asks is_hazarded about; Null when it takes a snapshot
  seen,       \* what its scan has found
  \* history variables, read by the properties only
  published,  \* the pointer each user has protected and not cleared yet
  stable,     \* users with a protection that a scan must find, unchanged since it began
  rivals      \* users that have had a slot since an acquire began

registryVars == <<inUse, ptr, pending, hpc, slot, probe, asked, seen, published, stable, rivals>>

Stores == ({"ptr"} \X Slots \X (Pointers \union {Null})) \union ({"in_use"} \X Slots \X {FALSE})

TypeOK ==
  /\ inUse \in [Slots -> BOOLEAN]
  /\ ptr \in [Slots -> Pointers \union {Null}]
  /\ pending \in [Users -> Seq(Stores)]
  /\ hpc \in [Users -> {"none", "acquire", "failed", "held", "dropping",
                        "scan", "scanptr", "scanned"}]
  /\ slot \in [Users -> Slots \union {NoSlot}]
  /\ probe \in [Users -> 1..NSlots + 1]
  /\ \A t \in Users : hpc[t] \in {"acquire", "scan", "scanptr"} => probe[t] \in Slots
  /\ asked \in [Users -> Pointers \union {Null}]
  /\ seen \in [Users -> SUBSET Pointers]
  /\ published \in [Users -> Pointers \union {Null}]
  /\ stable \in [Users -> SUBSET Users]
  /\ rivals \in [Users -> SUBSET Users]

Init ==
  /\ inUse = [i \in Slots |-> FALSE]
  /\ ptr = [i \in Slots |-> Null]
  /\ pending = [t \in Users |-> <<>>]
  /\ hpc = [t \in Users |-> "none"]
  /\ slot = [t \in Users |-> NoSlot]
  /\ probe = [t \in Users |-> 1]
  /\ asked = [t \in Users |-> Null]
  /\ seen = [t \in Users |-> {}]
  /\ published = [t \in Users |-> Null]
  /\ stable = [t \in Users |-> {}]
  /\ rivals = [t \in Users |-> {}]

-----------------------------------------------------------------------------
(* Threads. *)

Together(t, u) == ThreadOf[t] = ThreadOf[u]

(* The thread of t is in no other call, nor busy with what one returned. *)
Alone(t) == \A u \in Users \ {t} : Together(t, u) => hpc[u] \in {"none", "held"}

(* No store of the thread of t is delayed. *)
Drained(t) == \A u \in Users : Together(t, u) => pending[u] = <<>>

-----------------------------------------------------------------------------
(* Stores with Ordering::Release, and loads. *)

Performed(cells, name, store) ==
  IF store[1] = name THEN [cells EXCEPT ![store[2]] = store[3]] ELSE cells

Store(t, store) ==
  IF BufferSize > 0
  THEN /\ Len(pending[t]) < BufferSize
       /\ pending' = [pending EXCEPT ![t] = Append(@, store)]
       /\ UNCHANGED <<inUse, ptr>>
  ELSE /\ ptr' = Performed(ptr, "ptr", store)
       /\ inUse' = Performed(inUse, "in_use", store)
       /\ UNCHANGED pending

(* The oldest store of t becomes visible. *)
Flush(t) ==
  /\ pending[t] # <<>>
  /\ ptr' = Performed(ptr, "ptr", Head(pending[t]))
  /\ inUse' = Performed(inUse, "in_use", Head(pending[t]))
  /\ pending' = [pending EXCEPT ![t] = Tail(@)]
  /\ UNCHANGED <<hpc, slot, probe, asked, seen, published, stable, rivals>>

(* The last delayed store of u to a cell, if there is one. *)
LastTo(u, name, i) ==
  LET to == {k \in DOMAIN pending[u] : pending[u][k][1] = name /\ pending[u][k][2] = i}
  IN  {pending[u][k][3] : k \in {k \in to : \A j \in to : j <= k}}

(* What t may load from a cell: a delayed store of its thread comes first. *)
Loads(t, cells, name, i) ==
  LET own == UNION {LastTo(u, name, i) : u \in {u \in Users : Together(t, u)}}
  IN  IF own = {} THEN {cells[i]} ELSE own

LoadsInUse(t) == Loads(t, inUse, "in_use", probe[t])
LoadsPtr(t)   == Loads(t, ptr, "ptr", probe[t])

(* What t protects changes. *)
Publish(t, p) ==
  /\ published' = [published EXCEPT ![t] = p]
  /\ stable' = [s \in Users |-> stable[s] \ {t}]

-----------------------------------------------------------------------------
(* acquire: a compare-and-swap of each slot's in_use in turn. *)

(* u has a slot, or the store that gives one up is still delayed. *)
Occupies(u) == slot[u] # NoSlot \/ pending[u] # <<>>

(* The first compare-and-swap empties the store buffer. *)
BeginAcquire(t) ==
  /\ hpc[t] = "none" /\ Alone(t) /\ Drained(t)
  /\ hpc' = [hpc EXCEPT ![t] = "acquire"]
  /\ probe' = [probe EXCEPT ![t] = 1]
  /\ rivals' = [rivals EXCEPT ![t] = {u \in Users \ {t} : Occupies(u)}]
  /\ UNCHANGED <<inUse, ptr, pending, slot, asked, seen, published, stable>>

(* The compare-and-swap of the slot under the loop succeeds. *)
TakeSlot(t) ==
  /\ inUse' = [inUse EXCEPT ![probe[t]] = TRUE]
  /\ slot' = [slot EXCEPT ![t] = probe[t]]
  /\ hpc' = [hpc EXCEPT ![t] = "held"]
  /\ rivals' = [u \in Users |-> IF u = t THEN {}
                                ELSE IF hpc[u] = "acquire" THEN rivals[u] \union {t}
                                ELSE rivals[u]]
  /\ UNCHANGED probe

(* Faulty: in_use is loaded, tested and stored in separate steps. *)
TryAcquire_Unchecked(t) ==
  /\ hpc[t] = "acquire" /\ Drained(t)
  /\ TakeSlot(t)
  /\ UNCHANGED <<ptr, pending, asked, seen, published, stable>>

(* Faulty: the loop ends one slot early. *)
TryAcquire_SkipsLast(t) ==
  /\ hpc[t] = "acquire" /\ Drained(t)
  /\ IF inUse[probe[t]]
     THEN /\ hpc' = [hpc EXCEPT ![t] = IF probe[t] + 1 >= NSlots THEN "failed" ELSE @]
          /\ probe' = [probe EXCEPT ![t] = @ + 1]
          /\ UNCHANGED <<inUse, slot, rivals>>
     ELSE TakeSlot(t)
  /\ UNCHANGED <<ptr, pending, asked, seen, published, stable>>

TryAcquire(t) ==
  /\ hpc[t] = "acquire" /\ Drained(t)
  /\ IF inUse[probe[t]]
     THEN /\ hpc' = [hpc EXCEPT ![t] = IF probe[t] = NSlots THEN "failed" ELSE @]
          /\ probe' = [probe EXCEPT ![t] = @ + 1]
          /\ UNCHANGED <<inUse, slot, rivals>>
     ELSE TakeSlot(t)
  /\ UNCHANGED <<ptr, pending, asked, seen, published, stable>>

(* acquire returned None and its caller goes on without a slot. *)
GiveUp(t) ==
  /\ hpc[t] = "failed"
  /\ hpc' = [hpc EXCEPT ![t] = "none"]
  /\ rivals' = [rivals EXCEPT ![t] = {}]
  /\ UNCHANGED <<inUse, ptr, pending, slot, probe, asked, seen, published, stable>>

-----------------------------------------------------------------------------
(* The operations of a HazardSlot. *)

Protect(t, p) ==
  /\ hpc[t] = "held" /\ Alone(t)
  /\ Store(t, <<"ptr", slot[t], p>>)
  /\ Publish(t, p)
  /\ UNCHANGED <<hpc, slot, probe, asked, seen, rivals>>

Clear(t) ==
  /\ hpc[t] = "held" /\ Alone(t)
  /\ Store(t, <<"ptr", slot[t], Null>>)
  /\ Publish(t, Null)
  /\ UNCHANGED <<hpc, slot, probe, asked, seen, rivals>>

(* Faulty: drop gives the slot up before it clears it. *)
DropStores_Swapped(i) == <<<<"in_use", i, FALSE>>, <<"ptr", i, Null>>>>

(* drop: clear, then in_use = false. *)
DropStores(i) == <<<<"ptr", i, Null>>, <<"in_use", i, FALSE>>>>

DropClear(t) ==
  /\ hpc[t] = "held" /\ Alone(t)
  /\ Store(t, DropStores(slot[t])[1])
  /\ Publish(t, Null)
  /\ hpc' = [hpc EXCEPT ![t] = "dropping"]
  /\ UNCHANGED <<slot, probe, asked, seen, rivals>>

DropRelease(t) ==
  /\ hpc[t] = "dropping"
  /\ Store(t, DropStores(slot[t])[2])
  /\ hpc' = [hpc EXCEPT ![t] = "none"]
  /\ slot' = [slot EXCEPT ![t] = NoSlot]
  /\ UNCHANGED <<probe, asked, seen, published, stable, rivals>>

-----------------------------------------------------------------------------
(* snapshot and is_hazarded: a loop with two loads per slot. *)

(* t begins to read the slots, for a snapshot or to ask about p.  It has to *)
(* find the protections that are visible, and those of its own thread.      *)
BeginLoop(t, p) ==
  /\ hpc[t] = "none" /\ Alone(t)
  /\ hpc' = [hpc EXCEPT ![t] = "scan"]
  /\ probe' = [probe EXCEPT ![t] = 1]
  /\ asked' = [asked EXCEPT ![t] = p]
  /\ seen' = [seen EXCEPT ![t] = {}]
  /\ stable' = [stable EXCEPT ![t] =
       {u \in Users : published[u] # Null /\ (pending[u] = <<>> \/ Together(t, u))}]
  /\ UNCHANGED <<inUse, ptr, pending, slot, published, rivals>>

BeginScan(t)   == BeginLoop(t, Null)
BeginAsk(t, p) == BeginLoop(t, p)

(* Faulty: the loop goes on after the last slot. *)
NextSlot_PastEnd(t) == IF probe[t] > NSlots THEN "scanned" ELSE "scan"

(* Faulty: the last slot is not looked at. *)
NextSlot_OffByOne(t) == IF probe[t] + 1 >= NSlots THEN "scanned" ELSE "scan"

(* Where the loop of t goes after slot probe[t]. *)
NextSlot(t) == IF probe[t] = NSlots THEN "scanned" ELSE "scan"

ScanInUse(t) ==
  /\ hpc[t] = "scan"
  /\ \E used \in LoadsInUse(t) :
       IF used
       THEN hpc' = [hpc EXCEPT ![t] = "scanptr"] /\ UNCHANGED probe
       ELSE hpc' = [hpc EXCEPT ![t] = NextSlot(t)] /\ probe' = [probe EXCEPT ![t] = @ + 1]
  /\ UNCHANGED <<inUse, ptr, pending, slot, asked, seen, published, stable, rivals>>

(* snapshot collects every pointer that is not null. *)
ScanPtr(t) ==
  /\ hpc[t] = "scanptr" /\ asked[t] = Null
  /\ \E p \in LoadsPtr(t) : seen' = [seen EXCEPT ![t] = @ \union ({p} \ {Null})]
  /\ hpc' = [hpc EXCEPT ![t] = NextSlot(t)]
  /\ probe' = [probe EXCEPT ![t] = @ + 1]
  /\ UNCHANGED <<inUse, ptr, pending, slot, asked, published, stable, rivals>>

(* Faulty: the answer is no as soon as a slot in use protects something else. *)
AskPtr_GivesUp(t) ==
  /\ hpc[t] = "scanptr" /\ asked[t] # Null
  /\ \E p \in LoadsPtr(t) : seen' = [seen EXCEPT ![t] = {p} \intersect {asked[t]}]
  /\ hpc' = [hpc EXCEPT ![t] = "scanned"]
  /\ probe' = [probe EXCEPT ![t] = @ + 1]
  /\ UNCHANGED <<inUse, ptr, pending, slot, asked, published, stable, rivals>>

(* is_hazarded returns true at the first slot that holds the pointer. *)
AskPtr(t) ==
  /\ hpc[t] = "scanptr" /\ asked[t] # Null
  /\ \E p \in LoadsPtr(t) :
       /\ seen' = [seen EXCEPT ![t] = {p} \intersect {asked[t]}]
       /\ hpc' = [hpc EXCEPT ![t] = IF p = asked[t] THEN "scanned" ELSE NextSlot(t)]
  /\ probe' = [probe EXCEPT ![t] = @ + 1]
  /\ UNCHANGED <<inUse, ptr, pending, slot, asked, published, stable, rivals>>

(* The caller is done with the result. *)
EndScan(t) ==
  /\ hpc[t] = "scanned"
  /\ hpc' = [hpc EXCEPT ![t] = "none"]
  /\ asked' = [asked EXCEPT ![t] = Null]
  /\ seen' = [seen EXCEPT ![t] = {}]
  /\ stable' = [stable EXCEPT ![t] = {}]
  /\ UNCHANGED <<inUse, ptr, pending, slot, probe, published, rivals>>

-----------------------------------------------------------------------------
Step(t) ==
  \/ BeginAcquire(t) \/ TryAcquire(t) \/ GiveUp(t)
  \/ \E p \in Pointers : Protect(t, p)
  \/ Clear(t) \/ DropClear(t) \/ DropRelease(t)
  \/ BeginScan(t) \/ (\E p \in Pointers : BeginAsk(t, p))
  \/ ScanInUse(t) \/ ScanPtr(t) \/ AskPtr(t) \/ EndScan(t)
  \/ Flush(t)

Next == \E t \in Users : Step(t)

Spec == Init /\ [][Next]_registryVars

-----------------------------------------------------------------------------
(* Properties. *)

(* A slot has one owner at a time, and an owned slot is in use (test       *)
(* many_threads_protect_distinct_slots of src/src/hazard.rs).              *)
SlotExclusive ==
  \A t \in Users : slot[t] # NoSlot =>
    /\ inUse[slot[t]]
    /\ \A u \in Users \ {t} : slot[u] # slot[t]

(* What a guard has protected is what its slot will hold, with no store of *)
(* another guard on its way to that slot, until the guard itself clears    *)
(* it: the drop of an earlier owner cannot wipe it                         *)
(* (src/src/hazard.rs:141-145).                                            *)
StoresTo(t, i) == {k \in DOMAIN pending[t] : pending[t][k][1] = "ptr" /\ pending[t][k][2] = i}

ProtectionKept ==
  \A t \in Users : published[t] # Null =>
    LET mine == StoresTo(t, slot[t])
    IN  /\ mine = {} => ptr[slot[t]] = published[t]
        /\ \A k \in mine : (\A j \in mine : j <= k) => pending[t][k][3] = published[t]
        /\ \A u \in Users \ {t} : StoresTo(u, slot[t]) = {}

(* A reclaimer that takes a snapshot sees every pointer whose protection   *)
(* was visible before its loop began, or made by its own thread, and still *)
(* stands (src/src/hazard.rs:93-94, 120-122), although the loop is not     *)
(* atomic and slots change hands behind and in front of it.                *)
SnapshotComplete ==
  \A s \in Users : hpc[s] = "scanned" /\ asked[s] = Null =>
    \A u \in stable[s] : published[u] \in seen[s]

(* is_hazarded answers true for such a pointer, wherever among the slots   *)
(* it is (src/src/hazard.rs:81-82).                                        *)
AnswerComplete ==
  \A s \in Users : hpc[s] = "scanned" /\ asked[s] # Null =>
    ((\E u \in stable[s] : published[u] = asked[s]) => seen[s] = {asked[s]})

(* acquire fails only if at least as many other guards as there are slots  *)
(* had one while it looked (src/src/hazard.rs:63-64), guards of its own    *)
(* thread or of others (test slots_exhausted_returns_none), in whatever    *)
(* order slots are taken and released around its loop.  A guard that its   *)
(* own thread dropped before is not one of them.                           *)
ExhaustedByGuards ==
  \A t \in Users : hpc[t] = "failed" => Cardinality(rivals[t]) >= NSlots

=============================================================================
