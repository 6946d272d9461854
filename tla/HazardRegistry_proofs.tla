----------------------- MODULE HazardRegistry_proofs -----------------------
(***************************************************************************)
(* The hazard pointer registry, for any number of users, in any number of  *)
(* threads, of slots and of pointers, and store buffers of any size.       *)
(***************************************************************************)
EXTENDS HazardRegistry, FiniteSetTheorems, TLAPS

(* The slot that t has taken and that is not visibly free again: its own,  *)
(* or the one its last delayed store gives up.                             *)
Owed(t) == IF slot[t] # NoSlot THEN slot[t]
           ELSE IF pending[t] # <<>> THEN pending[t][Len(pending[t])][2] ELSE NoSlot

(* The delayed stores of t go to the slot it owes; what gives the slot up  *)
(* is the last of them.                                                    *)
Holding(t) == hpc[t] \in {"held", "dropping"}

Buffer(t) ==
  /\ Len(pending[t]) <= BufferSize
  /\ Holding(t) <=> slot[t] # NoSlot
  /\ \A k \in 1..Len(pending[t]) :
       /\ pending[t][k][2] = Owed(t)
       /\ pending[t][k][1] = "in_use" <=> (slot[t] = NoSlot /\ k = Len(pending[t]))

BufferInv == \A t \in Users : Buffer(t)

(* A slot that is owed is in use, and owed by one user. *)
OwnerInv ==
  /\ \A t \in Users : Owed(t) # NoSlot => inUse[Owed(t)]
  /\ \A t, u \in Users : Owed(t) # NoSlot /\ Owed(t) = Owed(u) => t = u

(* A step of t that takes no slot: what t owes it goes on owing, or gives  *)
(* visibly up.                                                             *)
Owes(t) ==
  /\ \A u \in Users \ {t} : Owed(u)' = Owed(u)
  /\ \/ Owed(t)' = Owed(t) /\ inUse' = inUse
     \/ Owed(t)' = NoSlot /\ \A i \in Slots : inUse'[i] => inUse[i] /\ i # Owed(t)

(* A protection is in its slot, or the last store on its way there. *)
ProtectInv ==
  \A t \in Users : published[t] # Null =>
    /\ hpc[t] = "held"
    /\ pending[t] = <<>> => ptr[slot[t]] = published[t]
    /\ pending[t] # <<>> => pending[t][Len(pending[t])] = <<"ptr", slot[t], published[t]>>

-----------------------------------------------------------------------------
(* Stores. *)

(* A store writes a pointer, or gives a slot up. *)
LEMMA StoreKinds ==
  ASSUME NEW st \in Stores
  PROVE  /\ st[2] \in Slots
         /\ \/ st[1] = "ptr" /\ st[3] \in Pointers \union {Null}
            \/ st[1] = "in_use" /\ st[3] = FALSE
BY DEF Stores

(* A store that is performed keeps the types of the slots. *)
LEMMA PerformedTypes ==
  ASSUME TypeOK, NEW st \in Stores
  PROVE  /\ Performed(ptr, "ptr", st) \in [Slots -> Pointers \union {Null}]
         /\ Performed(inUse, "in_use", st) \in [Slots -> BOOLEAN]
<1>1. CASE st[1] = "ptr" /\ st[3] \in Pointers \union {Null}
  BY <1>1, StoreKinds DEF TypeOK, Performed
<1>2. CASE st[1] = "in_use" /\ st[3] = FALSE
  BY <1>2, StoreKinds DEF TypeOK, Performed
<1> QED BY <1>1, <1>2, StoreKinds

(* A store, delayed or not, keeps the types. *)
LEMMA StoreTypes ==
  ASSUME TypeOK, NEW t \in Users, NEW st \in Stores, Store(t, st)
  PROVE  /\ ptr' \in [Slots -> Pointers \union {Null}]
         /\ inUse' \in [Slots -> BOOLEAN]
         /\ pending' \in [Users -> Seq(Stores)]
<1>1. CASE BufferSize > 0
  <2>1. pending' = [pending EXCEPT ![t] = Append(@, st)] /\ UNCHANGED <<inUse, ptr>>
    BY <1>1 DEF Store
  <2>2. Append(pending[t], st) \in Seq(Stores)
    BY DEF TypeOK
  <2> QED BY <2>1, <2>2 DEF TypeOK
<1>2. CASE ~(BufferSize > 0)
  BY <1>2, PerformedTypes DEF Store, TypeOK
<1> QED BY <1>1, <1>2

(* Protect, Clear and the first store of drop publish a pointer or none,   *)
(* and go on to hold or to drop the slot.                                  *)
Publishes(t, p, to) ==
  /\ hpc[t] = "held"
  /\ Store(t, <<"ptr", slot[t], p>>)
  /\ Publish(t, p)
  /\ hpc' = [hpc EXCEPT ![t] = to]
  /\ UNCHANGED <<slot, probe, asked, seen, rivals>>

(* The three operations that write a pointer are such steps. *)
LEMMA Publishing ==
  ASSUME TypeOK, NEW t \in Users,
         (\E p \in Pointers : Protect(t, p)) \/ Clear(t) \/ DropClear(t)
  PROVE  \E p \in Pointers \union {Null}, to \in {"held", "dropping"} :
           Publishes(t, p, to) /\ (p # Null => to = "held")
<1>1. ASSUME NEW p \in Pointers \union {Null}, Protect(t, p) PROVE Publishes(t, p, "held")
  BY <1>1 DEF Protect, Publishes, TypeOK
<1>2. CASE Clear(t)
  <2>1. Publishes(t, Null, "held")
    BY <1>2 DEF Clear, Publishes, TypeOK
  <2> QED BY <2>1
<1>3. CASE DropClear(t)
  <2>1. DropStores(slot[t])[1] = <<"ptr", slot[t], Null>>
    BY DEF DropStores
  <2>2. Publishes(t, Null, "dropping")
    BY <1>3, <2>1 DEF DropClear, Publishes
  <2> QED BY <2>2
<1> QED BY <1>1, <1>2, <1>3

(* The second store of drop gives the slot up. *)
LEMMA Releasing ==
  ASSUME NEW t \in Users, DropRelease(t)
  PROVE  Store(t, <<"in_use", slot[t], FALSE>>)
<1>1. DropStores(slot[t])[2] = <<"in_use", slot[t], FALSE>>
  BY DEF DropStores
<1> QED BY <1>1 DEF DropRelease

-----------------------------------------------------------------------------
(* Loads. *)

(* What is found in the buffer of u is one of its stores to the cell. *)
LEMMA LastIsStore ==
  ASSUME NEW u \in Users, NEW name, NEW i, NEW v \in LastTo(u, name, i)
  PROVE  \E k \in DOMAIN pending[u] :
           pending[u][k][1] = name /\ pending[u][k][2] = i /\ pending[u][k][3] = v
BY DEF LastTo

(* A load returns what is in the cell, or a store of the thread to it. *)
LEMMA LoadsFrom ==
  ASSUME NEW t \in Users, NEW cells, NEW name, NEW i, NEW v \in Loads(t, cells, name, i)
  PROVE  \/ \E u \in Users : Together(t, u) /\ v \in LastTo(u, name, i)
         \/ v = cells[i] /\ \A u \in Users : Together(t, u) => LastTo(u, name, i) = {}
BY DEF Loads

(* A load of a pointer returns a pointer or none. *)
LEMMA LoadTypes ==
  ASSUME TypeOK, NEW t \in Users, probe[t] \in Slots, NEW v \in LoadsPtr(t)
  PROVE  v \in Pointers \union {Null}
<1>1. CASE v = ptr[probe[t]]
  BY <1>1 DEF TypeOK
<1>2. ASSUME NEW u \in Users, v \in LastTo(u, "ptr", probe[t]) PROVE v \in Pointers \union {Null}
  <2>1. PICK k \in DOMAIN pending[u] : pending[u][k][1] = "ptr" /\ pending[u][k][3] = v
    BY <1>2, LastIsStore
  <2>2. pending[u][k] \in Stores
    BY <2>1 DEF TypeOK
  <2> QED BY <2>1, <2>2, StoreKinds
<1> QED BY <1>1, <1>2, LoadsFrom DEF LoadsPtr

(* A compare-and-swap finds no store of its user delayed. *)
LEMMA DrainedSelf ==
  ASSUME NEW t \in Users, Drained(t) PROVE pending[t] = <<>>
BY DEF Drained, Together

-----------------------------------------------------------------------------
(* Only users are recorded as rivals. *)
LEMMA RivalsType ==
  ASSUME rivals \in [Users -> SUBSET Users], NEW t \in Users, TakeSlot(t)
  PROVE  rivals' \in [Users -> SUBSET Users]
BY DEF TakeSlot

(* Every variable keeps its type.  A user that holds a slot is needed      *)
(* for it: a store goes to that slot.                                      *)

Holds == \A t \in Users : hpc[t] \in {"held", "dropping"} => slot[t] # NoSlot

(* Every step keeps the types. *)
LEMMA TypeStep ==
  ASSUME TypeOK, Holds, [Next]_registryVars PROVE TypeOK' /\ Holds'
<1> USE DEF TypeOK
<1>0. NSlots \in Nat \ {0} /\ Slots = 1..NSlots /\ NoSlot \notin Slots
  BY HazardAssumption DEF Slots, NoSlot
<1>1. ASSUME NEW t \in Users, BeginAcquire(t) \/ GiveUp(t) PROVE TypeOK' /\ Holds'
  <2>1. CASE BeginAcquire(t)
    BY <1>0, <2>1 DEF BeginAcquire, Holds
  <2>2. CASE GiveUp(t)
    BY <2>2 DEF GiveUp, Holds
  <2> QED BY <1>1, <2>1, <2>2
<1>2. ASSUME NEW t \in Users, TryAcquire(t) PROVE TypeOK' /\ Holds'
  <2>1. probe[t] \in Slots /\ hpc[t] = "acquire"
    BY <1>2 DEF TryAcquire
  <2>2. CASE inUse[probe[t]]
    <3>1. /\ hpc' = [hpc EXCEPT ![t] = IF probe[t] = NSlots THEN "failed" ELSE @]
          /\ probe' = [probe EXCEPT ![t] = @ + 1]
          /\ UNCHANGED <<inUse, slot, rivals, ptr, pending, asked, seen, published, stable>>
      BY <1>2, <2>2 DEF TryAcquire
    <3>2. probe[t] + 1 \in 1..NSlots + 1 /\ (probe[t] # NSlots => probe[t] + 1 \in Slots)
      BY <1>0, <2>1
    <3> QED BY <2>1, <3>1, <3>2 DEF Holds
  <2>3. CASE ~inUse[probe[t]]
    <3>1. /\ inUse' = [inUse EXCEPT ![probe[t]] = TRUE]
          /\ slot' = [slot EXCEPT ![t] = probe[t]]
          /\ hpc' = [hpc EXCEPT ![t] = "held"]
          /\ UNCHANGED <<probe, ptr, pending, asked, seen, published, stable>>
      BY <1>2, <2>3 DEF TryAcquire, TakeSlot
    <3>2. rivals' \in [Users -> SUBSET Users]
      BY <1>2, <2>3, RivalsType DEF TryAcquire
    <3>3. TypeOK'
      BY <2>1, <3>1, <3>2
    <3>4. Holds'
      BY <1>0, <2>1, <3>1 DEF Holds
    <3> QED BY <3>3, <3>4
  <2> QED BY <2>2, <2>3
<1>3. ASSUME NEW t \in Users, NEW p \in Pointers \union {Null}, NEW to \in {"held", "dropping"},
             Publishes(t, p, to)
      PROVE  TypeOK' /\ Holds'
  <2>1. slot[t] \in Slots
    BY <1>3 DEF Publishes, Holds
  <2>2. <<"ptr", slot[t], p>> \in Stores
    BY <2>1 DEF Stores
  <2>3. /\ ptr' \in [Slots -> Pointers \union {Null}] /\ inUse' \in [Slots -> BOOLEAN]
        /\ pending' \in [Users -> Seq(Stores)]
    BY <1>3, <2>2, StoreTypes DEF Publishes
  <2> QED BY <1>3, <2>3 DEF Publishes, Publish, Holds
<1>4. ASSUME NEW t \in Users, DropRelease(t) PROVE TypeOK' /\ Holds'
  <2>1. slot[t] \in Slots
    BY <1>4 DEF DropRelease, Holds
  <2>2. <<"in_use", slot[t], FALSE>> \in Stores
    BY <2>1 DEF Stores
  <2>3. /\ ptr' \in [Slots -> Pointers \union {Null}] /\ inUse' \in [Slots -> BOOLEAN]
        /\ pending' \in [Users -> Seq(Stores)]
    BY <1>4, <2>2, Releasing, StoreTypes
  <2> QED BY <1>4, <2>3 DEF DropRelease, Holds
<1>5. ASSUME NEW t \in Users, NEW p \in Pointers \union {Null}, BeginLoop(t, p)
      PROVE  TypeOK' /\ Holds'
  BY <1>0, <1>5 DEF BeginLoop, Holds
<1>6. ASSUME NEW t \in Users, ScanInUse(t) \/ ScanPtr(t) \/ AskPtr(t) PROVE TypeOK' /\ Holds'
  <2>1. probe[t] \in Slots /\ hpc[t] \in {"scan", "scanptr"}
    BY <1>6 DEF ScanInUse, ScanPtr, AskPtr
  <2>2. probe[t] + 1 \in 1..NSlots + 1 /\ (probe[t] # NSlots => probe[t] + 1 \in Slots)
    BY <1>0, <2>1
  <2>3. NextSlot(t) \in {"scan", "scanned"} /\ (NextSlot(t) = "scan" => probe[t] # NSlots)
    BY DEF NextSlot
  <2>4. CASE ScanInUse(t)
    <3>1. PICK used \in LoadsInUse(t) :
            IF used
            THEN hpc' = [hpc EXCEPT ![t] = "scanptr"] /\ UNCHANGED probe
            ELSE hpc' = [hpc EXCEPT ![t] = NextSlot(t)] /\ probe' = [probe EXCEPT ![t] = @ + 1]
      BY <2>4 DEF ScanInUse
    <3>2. UNCHANGED <<inUse, ptr, pending, slot, asked, seen, published, stable, rivals>>
      BY <2>4 DEF ScanInUse
    <3>3. CASE used
      BY <2>1, <3>1, <3>2, <3>3 DEF Holds
    <3>4. CASE ~used
      <4>1. hpc' = [hpc EXCEPT ![t] = NextSlot(t)] /\ probe' = [probe EXCEPT ![t] = @ + 1]
        BY <3>1, <3>4
      <4>2. TypeOK'
        BY <2>1, <2>2, <2>3, <3>2, <4>1
      <4>3. Holds'
        BY <2>1, <2>3, <3>2, <4>1 DEF Holds
      <4> QED BY <4>2, <4>3
    <3> QED BY <3>3, <3>4
  <2>5. CASE ScanPtr(t)
    <3>1. PICK v \in LoadsPtr(t) : seen' = [seen EXCEPT ![t] = @ \union ({v} \ {Null})]
      BY <2>5 DEF ScanPtr
    <3>2. v \in Pointers \union {Null}
      BY <2>1, LoadTypes
    <3>3. seen' \in [Users -> SUBSET Pointers]
      BY <3>1, <3>2
    <3> QED BY <2>1, <2>2, <2>3, <2>5, <3>3 DEF ScanPtr, Holds
  <2>6. CASE AskPtr(t)
    <3>1. PICK v \in LoadsPtr(t) :
            /\ seen' = [seen EXCEPT ![t] = {v} \intersect {asked[t]}]
            /\ hpc' = [hpc EXCEPT ![t] = IF v = asked[t] THEN "scanned" ELSE NextSlot(t)]
      BY <2>6 DEF AskPtr
    <3>2. {v} \intersect {asked[t]} \in SUBSET Pointers
      BY <2>1, <2>6 DEF AskPtr
    <3> QED BY <2>1, <2>2, <2>3, <2>6, <3>1, <3>2 DEF AskPtr, Holds
  <2> QED BY <1>6, <2>4, <2>5, <2>6
<1>7. ASSUME NEW t \in Users, EndScan(t) PROVE TypeOK' /\ Holds'
  BY <1>7 DEF EndScan, Holds
<1>8. ASSUME NEW t \in Users, Flush(t) PROVE TypeOK' /\ Holds'
  <2>1. Head(pending[t]) \in Stores /\ Tail(pending[t]) \in Seq(Stores)
    BY <1>8 DEF Flush
  <2>2. ptr' \in [Slots -> Pointers \union {Null}] /\ inUse' \in [Slots -> BOOLEAN]
    BY <1>8, <2>1, PerformedTypes DEF Flush
  <2> QED BY <1>8, <2>1, <2>2 DEF Flush, Holds
<1>9. CASE UNCHANGED registryVars
  BY <1>9 DEF registryVars, Holds
<1> QED
  BY <1>1, <1>2, <1>3, <1>4, <1>5, <1>6, <1>7, <1>8, <1>9, Publishing
     DEF Next, Step, BeginScan, BeginAsk

(* Every variable keeps its type, whatever the users do and however       *)
(* late their stores arrive.                                              *)
THEOREM TypeCorrect == Spec => []TypeOK
<1>1. Init => TypeOK /\ Holds
  BY HazardAssumption DEF Init, TypeOK, Holds, Slots, NoSlot
<1>2. TypeOK /\ Holds /\ [Next]_registryVars => TypeOK' /\ Holds'
  BY TypeStep
<1> QED BY <1>1, <1>2, PTL DEF Spec

-----------------------------------------------------------------------------
(* Slots and who owes them. *)

(* A user owes a slot or none, and its delayed stores go to slots. *)
LEMMA OwedType ==
  ASSUME TypeOK, NEW t \in Users
  PROVE  /\ Owed(t) \in Slots \union {NoSlot}
         /\ \A k \in 1..Len(pending[t]) : pending[t][k] \in Stores /\ pending[t][k][2] \in Slots
<1>1. \A k \in 1..Len(pending[t]) : pending[t][k] \in Stores
  BY DEF TypeOK
<1>2. \A k \in 1..Len(pending[t]) : pending[t][k][2] \in Slots
  BY <1>1, StoreKinds
<1>3. pending[t] # <<>> => Len(pending[t]) \in 1..Len(pending[t])
  BY DEF TypeOK
<1> QED BY <1>1, <1>2, <1>3 DEF Owed, TypeOK

(* A user whose slot and stores a step does not touch. *)
LEMMA Untouched ==
  ASSUME NEW u \in Users, Buffer(u), slot'[u] = slot[u], pending'[u] = pending[u],
         Holding(u)' <=> Holding(u)
  PROVE  Owed(u)' = Owed(u) /\ Buffer(u)'
BY DEF Owed, Buffer, Holding

(* What a store does: it is delayed, or performed at once. *)
LEMMA StoreEffect ==
  ASSUME TypeOK, NEW t \in Users, Len(pending[t]) <= BufferSize, NEW st \in Stores, Store(t, st)
  PROVE  /\ \A u \in Users \ {t} : pending'[u] = pending[u]
         /\ Len(pending'[t]) <= BufferSize
         /\ \/ /\ UNCHANGED <<ptr, inUse>>
               /\ Len(pending'[t]) = Len(pending[t]) + 1
               /\ pending'[t][Len(pending[t]) + 1] = st
               /\ \A k \in 1..Len(pending[t]) : pending'[t][k] = pending[t][k]
            \/ /\ pending[t] = <<>> /\ pending' = pending
               /\ ptr' = Performed(ptr, "ptr", st) /\ inUse' = Performed(inUse, "in_use", st)
<1>1. BufferSize \in Nat /\ pending[t] \in Seq(Stores) /\ Len(pending[t]) \in Nat
  BY HazardAssumption DEF TypeOK
<1>2. CASE BufferSize > 0
  <2>1. /\ Len(pending[t]) < BufferSize /\ UNCHANGED <<ptr, inUse>>
        /\ pending' = [pending EXCEPT ![t] = Append(@, st)]
    BY <1>2 DEF Store
  <2>2. pending'[t] = Append(pending[t], st) /\ \A u \in Users \ {t} : pending'[u] = pending[u]
    BY <2>1 DEF TypeOK
  <2>3. /\ Len(pending'[t]) = Len(pending[t]) + 1
        /\ pending'[t][Len(pending[t]) + 1] = st
        /\ \A k \in 1..Len(pending[t]) : pending'[t][k] = pending[t][k]
    BY <1>1, <2>2
  <2> QED BY <1>1, <2>1, <2>2, <2>3
<1>3. CASE ~(BufferSize > 0)
  <2>1. Len(pending[t]) = 0
    BY <1>1, <1>3
  <2>2. pending[t] = <<>>
    BY <1>1, <2>1
  <2> QED BY <1>3, <2>2 DEF Store
<1> QED BY <1>2, <1>3

(* What becomes visible: the oldest store. *)
LEMMA FlushEffect ==
  ASSUME TypeOK, NEW t \in Users, Flush(t)
  PROVE  /\ \A u \in Users \ {t} : pending'[u] = pending[u]
         /\ Len(pending[t]) \in Nat \ {0} /\ Len(pending'[t]) = Len(pending[t]) - 1
         /\ \A k \in 1..Len(pending'[t]) : pending'[t][k] = pending[t][k + 1]
         /\ pending[t][1] \in Stores
         /\ ptr' = Performed(ptr, "ptr", pending[t][1])
         /\ inUse' = Performed(inUse, "in_use", pending[t][1])
<1>1. /\ pending[t] # <<>> /\ pending' = [pending EXCEPT ![t] = Tail(@)]
      /\ ptr' = Performed(ptr, "ptr", Head(pending[t]))
      /\ inUse' = Performed(inUse, "in_use", Head(pending[t]))
  BY DEF Flush
<1>2. pending[t] \in Seq(Stores) /\ pending'[t] = Tail(pending[t])
      /\ \A u \in Users \ {t} : pending'[u] = pending[u]
  BY <1>1 DEF TypeOK
<1>3. /\ Len(pending[t]) \in Nat \ {0} /\ Len(pending'[t]) = Len(pending[t]) - 1
      /\ \A k \in 1..Len(pending'[t]) : pending'[t][k] = pending[t][k + 1]
      /\ pending[t][1] \in Stores /\ Head(pending[t]) = pending[t][1]
  <2>1. PICK q \in Seq(Stores) : q = pending[t]
    BY <1>2
  <2>2. q # <<>> /\ pending'[t] = Tail(q)
    BY <1>1, <1>2, <2>1
  <2>3. Len(q) \in Nat \ {0} /\ q[1] \in Stores
    BY <2>2
  <2>4. Head(q) = q[1]
    BY <2>2
  <2>5. Len(Tail(q)) = Len(q) - 1 /\ \A k \in 1..Len(q) - 1 : Tail(q)[k] = q[k + 1]
    BY <2>2, <2>3
  <2> QED BY <2>1, <2>2, <2>3, <2>4, <2>5
<1> QED BY <1>1, <1>2, <1>3

(* The number before one that is not the first. *)
LEMMA Predecessor == \A n \in Nat \ {0} : n # 1 => n - 1 \in 1..(n - 1) /\ (n - 1) + 1 = n
OBVIOUS

(* One lemma for each way in which slots and stores change. *)

(* Taking a slot that is not in use. *)
LEMMA OwnerTake ==
  ASSUME TypeOK, BufferInv, OwnerInv, NEW t \in Users, pending[t] = <<>>, hpc[t] = "acquire",
         ~inUse[probe[t]], TakeSlot(t), UNCHANGED pending
  PROVE  BufferInv' /\ OwnerInv'
<1>1. /\ probe[t] \in Slots /\ slot'[t] = probe[t] /\ hpc'[t] = "held"
      /\ \A u \in Users \ {t} : slot'[u] = slot[u] /\ hpc'[u] = hpc[u]
      /\ inUse' = [inUse EXCEPT ![probe[t]] = TRUE]
  BY DEF TakeSlot, TypeOK
<1>2. probe[t] # NoSlot
  BY <1>1, HazardAssumption DEF Slots, NoSlot
<1>3. \A u \in Users \ {t} : Owed(u)' = Owed(u) /\ Buffer(u)'
  BY <1>1, Untouched DEF BufferInv, Holding
<1>4. Owed(t)' = probe[t]
  BY <1>1, <1>2 DEF Owed
<1>5. Buffer(t)'
  <2>1. Len(pending'[t]) = 0 /\ 0 <= BufferSize
    BY HazardAssumption
  <2> QED BY <1>1, <1>2, <2>1 DEF Buffer, Holding
<1>6. \A u \in Users \ {t} : Owed(u) # probe[t]
  BY <1>2 DEF OwnerInv
<1>7. OwnerInv'
  <2>1. ASSUME NEW u \in Users, Owed(u)' # NoSlot PROVE inUse'[Owed(u)']
    <3>1. CASE u = t
      BY <1>1, <1>4, <3>1 DEF TypeOK
    <3>2. CASE u # t
      <4>1. Owed(u)' = Owed(u) /\ Owed(u) \in Slots /\ inUse[Owed(u)]
        BY <1>3, <2>1, <3>2, OwedType DEF OwnerInv
      <4>2. inUse'[Owed(u)]
        BY <1>1, <4>1 DEF TypeOK
      <4> QED BY <4>1, <4>2
    <3> QED BY <3>1, <3>2
  <2>2. \A u, v \in Users : Owed(u)' # NoSlot /\ Owed(u)' = Owed(v)' => u = v
    BY <1>3, <1>4, <1>6 DEF OwnerInv
  <2> QED BY <2>1, <2>2 DEF OwnerInv
<1> QED BY <1>3, <1>5, <1>7 DEF BufferInv

(* Writing a pointer to the slot held. *)
LEMMA OwnerPublish ==
  ASSUME TypeOK, BufferInv, OwnerInv, NEW t \in Users, NEW p \in Pointers \union {Null},
         NEW to \in {"held", "dropping"}, Publishes(t, p, to)
  PROVE  BufferInv' /\ OwnerInv' /\ Owes(t)
<1>1. /\ slot' = slot /\ slot[t] # NoSlot /\ Holding(t) /\ hpc'[t] \in {"held", "dropping"}
      /\ \A u \in Users \ {t} : hpc'[u] = hpc[u]
  BY DEF Publishes, TypeOK, BufferInv, Buffer, Holding
<1>2. PICK st \in Stores : st = <<"ptr", slot[t], p>> /\ Store(t, st)
  BY <1>1 DEF Publishes, Stores, TypeOK
<1>3. st[1] = "ptr" /\ st[2] = slot[t]
  BY <1>2
<1>4. /\ \A u \in Users \ {t} : pending'[u] = pending[u]
      /\ Len(pending'[t]) <= BufferSize
      /\ \/ /\ UNCHANGED <<ptr, inUse>>
            /\ Len(pending'[t]) = Len(pending[t]) + 1
            /\ pending'[t][Len(pending[t]) + 1] = st
            /\ \A k \in 1..Len(pending[t]) : pending'[t][k] = pending[t][k]
         \/ /\ pending[t] = <<>> /\ pending' = pending
            /\ ptr' = Performed(ptr, "ptr", st) /\ inUse' = Performed(inUse, "in_use", st)
  BY <1>2, StoreEffect DEF BufferInv, Buffer
<1>5. inUse' = inUse
  BY <1>3, <1>4 DEF Performed
<1>6. \A u \in Users \ {t} : Owed(u)' = Owed(u) /\ Buffer(u)'
  BY <1>1, <1>4, Untouched DEF BufferInv, Holding
<1>7. Owed(t)' = slot[t] /\ Owed(t) = slot[t]
  BY <1>1 DEF Owed
<1>8. Buffer(t)'
  <2>1. Len(pending[t]) \in Nat
    BY DEF TypeOK
  <2>2. \A k \in 1..Len(pending[t]) : pending[t][k][2] = slot[t] /\ pending[t][k][1] # "in_use"
    BY <1>1, <1>7 DEF BufferInv, Buffer
  <2>3. \A k \in 1..Len(pending'[t]) : pending'[t][k][2] = slot[t] /\ pending'[t][k][1] # "in_use"
    <3>1. CASE pending' = pending
      BY <2>2, <3>1
    <3>2. CASE Len(pending'[t]) = Len(pending[t]) + 1
      <4> SUFFICES ASSUME NEW k \in 1..Len(pending'[t])
                   PROVE  pending'[t][k][2] = slot[t] /\ pending'[t][k][1] # "in_use"
        OBVIOUS
      <4>1. k \in 1..Len(pending[t]) \/ k = Len(pending[t]) + 1
        BY <2>1, <3>2
      <4> QED BY <1>3, <1>4, <2>1, <2>2, <3>2, <4>1
    <3> QED BY <1>4, <3>1, <3>2
  <2> QED BY <1>1, <1>4, <1>7, <2>3 DEF Buffer, Holding
<1> QED BY <1>5, <1>6, <1>7, <1>8 DEF BufferInv, OwnerInv, Owes

(* Giving the slot up, at once or later. *)
LEMMA OwnerRelease ==
  ASSUME TypeOK, BufferInv, OwnerInv, NEW t \in Users, DropRelease(t)
  PROVE  /\ BufferInv' /\ OwnerInv' /\ Owes(t)
         /\ UNCHANGED ptr /\ \A u \in Users \ {t} : pending'[u] = pending[u]
<1>1. /\ slot[t] \in Slots /\ slot[t] # NoSlot /\ slot'[t] = NoSlot /\ hpc'[t] = "none"
      /\ \A u \in Users \ {t} : slot'[u] = slot[u] /\ hpc'[u] = hpc[u]
  BY DEF DropRelease, TypeOK, BufferInv, Buffer, Holding
<1>2. PICK st \in Stores : st = <<"in_use", slot[t], FALSE>> /\ Store(t, st)
  BY <1>1, Releasing DEF Stores
<1>3. st[1] = "in_use" /\ st[2] = slot[t] /\ st[3] = FALSE
  BY <1>2
<1>4. /\ \A u \in Users \ {t} : pending'[u] = pending[u]
      /\ Len(pending'[t]) <= BufferSize
      /\ \/ /\ UNCHANGED <<ptr, inUse>>
            /\ Len(pending'[t]) = Len(pending[t]) + 1
            /\ pending'[t][Len(pending[t]) + 1] = st
            /\ \A k \in 1..Len(pending[t]) : pending'[t][k] = pending[t][k]
         \/ /\ pending[t] = <<>> /\ pending' = pending
            /\ ptr' = Performed(ptr, "ptr", st) /\ inUse' = Performed(inUse, "in_use", st)
  BY <1>2, StoreEffect DEF BufferInv, Buffer
<1>5. ptr' = ptr
  BY <1>3, <1>4 DEF Performed
<1>6. \A u \in Users \ {t} : Owed(u)' = Owed(u) /\ Buffer(u)'
  BY <1>1, <1>4, Untouched DEF BufferInv, Holding
<1>7. Owed(t) = slot[t] /\ \A u \in Users \ {t} : Owed(u) # slot[t]
  BY <1>1 DEF Owed, OwnerInv
<1>8. Len(pending[t]) \in Nat /\ Len(<<>>) = 0
  BY DEF TypeOK
<1>9. CASE Len(pending'[t]) = Len(pending[t]) + 1 /\ inUse' = inUse /\ pending'[t][Len(pending[t]) + 1] = st
           /\ \A k \in 1..Len(pending[t]) : pending'[t][k] = pending[t][k]
  <2>1. pending'[t] # <<>>
    BY <1>8, <1>9
  <2>2. Owed(t)' = slot[t]
    BY <1>1, <1>3, <1>9, <2>1 DEF Owed
  <2>3. \A k \in 1..Len(pending[t]) : pending[t][k][2] = slot[t] /\ pending[t][k][1] # "in_use"
    BY <1>1, <1>7 DEF BufferInv, Buffer
  <2>4. ASSUME NEW k \in 1..Len(pending'[t])
        PROVE  pending'[t][k][2] = slot[t] /\ (pending'[t][k][1] = "in_use" <=> k = Len(pending'[t]))
    <3>1. k \in 1..Len(pending[t]) \/ k = Len(pending[t]) + 1
      BY <1>8, <1>9
    <3> QED BY <1>3, <1>8, <1>9, <2>3, <3>1
  <2>5. Buffer(t)'
    BY <1>1, <1>4, <2>2, <2>4 DEF Buffer, Holding
  <2> QED BY <1>4, <1>5, <1>6, <1>7, <1>9, <2>2, <2>5 DEF BufferInv, OwnerInv, Owes
<1>10. CASE pending[t] = <<>> /\ pending' = pending /\ inUse' = Performed(inUse, "in_use", st)
  <2>1. Owed(t)' = NoSlot
    BY <1>1, <1>10 DEF Owed
  <2>2. Buffer(t)'
    BY <1>1, <1>4, <1>8, <1>10 DEF Buffer, Holding
  <2>3. inUse' = [inUse EXCEPT ![slot[t]] = FALSE]
    BY <1>3, <1>10 DEF Performed
  <2>4. ASSUME NEW u \in Users, Owed(u)' # NoSlot PROVE inUse'[Owed(u)']
    <3>1. Owed(u)' = Owed(u) /\ Owed(u) \in Slots /\ inUse[Owed(u)] /\ Owed(u) # slot[t]
      BY <1>6, <1>7, <2>1, <2>4, OwedType DEF OwnerInv
    <3>2. inUse'[Owed(u)]
      BY <2>3, <3>1 DEF TypeOK
    <3> QED BY <3>1, <3>2
  <2>5. \A u, v \in Users : Owed(u)' # NoSlot /\ Owed(u)' = Owed(v)' => u = v
    BY <1>6, <2>1 DEF OwnerInv
  <2>6. Owes(t)
    BY <1>1, <1>6, <1>7, <2>1, <2>3 DEF Owes, TypeOK
  <2> QED BY <1>4, <1>5, <1>6, <2>2, <2>4, <2>5, <2>6 DEF BufferInv, OwnerInv
<1> QED BY <1>4, <1>9, <1>10

(* A delayed store becomes visible; it touches the slot owed. *)
LEMMA OwnerFlush ==
  ASSUME TypeOK, BufferInv, OwnerInv, NEW t \in Users, Flush(t)
  PROVE  /\ BufferInv' /\ OwnerInv' /\ Owes(t)
         /\ Owed(t) \in Slots /\ \A i \in Slots : i # Owed(t) => ptr'[i] = ptr[i]
<1>1. /\ \A u \in Users \ {t} : pending'[u] = pending[u]
      /\ Len(pending[t]) \in Nat \ {0} /\ Len(pending'[t]) = Len(pending[t]) - 1
      /\ \A k \in 1..Len(pending'[t]) : pending'[t][k] = pending[t][k + 1]
      /\ pending[t][1] \in Stores
      /\ ptr' = Performed(ptr, "ptr", pending[t][1])
      /\ inUse' = Performed(inUse, "in_use", pending[t][1])
  BY FlushEffect
<1>2. UNCHANGED <<hpc, slot>>
  BY DEF Flush
<1>3. \A u \in Users \ {t} : Owed(u)' = Owed(u) /\ Buffer(u)'
  BY <1>1, <1>2, Untouched DEF BufferInv, Holding
<1>4. 1 \in 1..Len(pending[t]) /\ pending[t] # <<>>
  BY <1>1
<1>5. /\ pending[t][1][2] = Owed(t) /\ Owed(t) \in Slots
      /\ pending[t][1][1] = "in_use" <=> (slot[t] = NoSlot /\ Len(pending[t]) = 1)
  BY <1>4, OwedType DEF BufferInv, Buffer
<1>6. \A i \in Slots : i # Owed(t) => ptr'[i] = ptr[i] /\ inUse'[i] = inUse[i]
  BY <1>1, <1>5 DEF Performed, TypeOK
<1>7. Owed(t) # NoSlot /\ \A u \in Users \ {t} : Owed(u) # Owed(t)
  BY <1>5, HazardAssumption DEF OwnerInv, Slots, NoSlot
<1>8. pending'[t] \in Seq(Stores) /\ Len(pending'[t]) \in Nat
  <2>1. pending'[t] = Tail(pending[t])
    BY DEF Flush, TypeOK
  <2> QED BY <1>1, <1>4, <2>1 DEF TypeOK
<1>9. Len(pending'[t]) <= BufferSize /\ (Holding(t)' <=> slot'[t] # NoSlot)
  BY <1>1, <1>2, HazardAssumption DEF BufferInv, Buffer, Holding
<1>10. CASE slot[t] = NoSlot /\ Len(pending[t]) = 1
  <2>1. pending'[t] = <<>> /\ Len(pending'[t]) = 0
    BY <1>1, <1>8, <1>10
  <2>2. Owed(t)' = NoSlot
    BY <1>2, <1>10, <2>1 DEF Owed
  <2>3. Buffer(t)'
    BY <1>9, <2>1 DEF Buffer
  <2>4. \A u \in Users : Owed(u)' # NoSlot => inUse'[Owed(u)']
    BY <1>3, <1>6, <1>7, <2>2, OwedType DEF OwnerInv
  <2>5. \A u, v \in Users : Owed(u)' # NoSlot /\ Owed(u)' = Owed(v)' => u = v
    BY <1>3, <2>2 DEF OwnerInv
  <2>6. Owes(t)
    <3>1. pending[t][1][3] = FALSE
      BY <1>1, <1>5, <1>10, StoreKinds
    <3>2. inUse' = [inUse EXCEPT ![Owed(t)] = FALSE]
      BY <1>1, <1>5, <1>10, <3>1 DEF Performed
    <3> QED BY <1>3, <1>5, <2>2, <3>2 DEF Owes, TypeOK
  <2> QED BY <1>3, <1>5, <1>6, <2>3, <2>4, <2>5, <2>6 DEF BufferInv, OwnerInv
<1>11. CASE slot[t] # NoSlot \/ Len(pending[t]) # 1
  <2>1. inUse' = inUse
    BY <1>1, <1>5, <1>11 DEF Performed
  <2>2. Owed(t)' = Owed(t)
    <3>1. CASE slot[t] # NoSlot
      BY <1>2, <3>1 DEF Owed
    <3>2. CASE slot[t] = NoSlot
      <4>1. Len(pending'[t]) \in 1..Len(pending'[t]) /\ Len(pending'[t]) + 1 = Len(pending[t])
        <5>1. PICK n \in Nat \ {0} : n = Len(pending[t])
          BY <1>1
        <5>2. n # 1 /\ Len(pending'[t]) = n - 1
          BY <1>1, <1>11, <3>2, <5>1
        <5>3. n - 1 \in 1..(n - 1) /\ (n - 1) + 1 = n
          BY <5>1, <5>2, Predecessor
        <5> QED BY <5>1, <5>2, <5>3
      <4>2. pending'[t] # <<>> /\ pending'[t][Len(pending'[t])] = pending[t][Len(pending[t])]
        BY <1>1, <4>1
      <4> QED BY <1>2, <1>4, <3>2, <4>2 DEF Owed
    <3> QED BY <3>1, <3>2
  <2>3. ASSUME NEW k \in 1..Len(pending'[t])
        PROVE  /\ pending'[t][k][2] = Owed(t)
               /\ pending'[t][k][1] = "in_use" <=> (slot[t] = NoSlot /\ k = Len(pending'[t]))
    <3>1. k + 1 \in 1..Len(pending[t]) /\ (k + 1 = Len(pending[t]) <=> k = Len(pending'[t]))
      BY <1>1, <1>8
    <3>2. pending'[t][k] = pending[t][k + 1]
      BY <1>1
    <3> QED BY <3>1, <3>2 DEF BufferInv, Buffer
  <2>4. Buffer(t)'
    BY <1>2, <1>9, <2>2, <2>3 DEF Buffer
  <2>5. OwnerInv'
    BY <1>3, <2>1, <2>2 DEF OwnerInv
  <2>6. Owes(t)
    BY <1>3, <2>1, <2>2 DEF Owes
  <2> QED BY <1>3, <1>5, <1>6, <2>4, <2>5, <2>6 DEF BufferInv
<1> QED BY <1>10, <1>11

(* Everything else leaves slots, stores and what is held alone.            *)
LEMMA OwnerQuiet ==
  ASSUME BufferInv, OwnerInv, UNCHANGED <<slot, pending, inUse>>,
         \A u \in Users : Holding(u)' <=> Holding(u)
  PROVE  BufferInv' /\ OwnerInv' /\ \A t \in Users : Owes(t)
<1>1. \A u \in Users : Owed(u)' = Owed(u) /\ Buffer(u)'
  BY Untouched DEF BufferInv
<1> QED BY <1>1 DEF BufferInv, OwnerInv, Owes

(* The steps of acquire that take no slot, and those of the loops. *)
Quiet(t) ==
  \/ BeginAcquire(t) \/ GiveUp(t) \/ (TryAcquire(t) /\ inUse[probe[t]])
  \/ BeginScan(t) \/ (\E p \in Pointers : BeginAsk(t, p))
  \/ ScanInUse(t) \/ ScanPtr(t) \/ AskPtr(t) \/ EndScan(t)

(* These steps touch no slot and no store. *)
LEMMA QuietLeaves ==
  ASSUME TypeOK, NEW t \in Users, Quiet(t)
  PROVE  /\ UNCHANGED <<slot, pending, inUse, ptr, published>>
         /\ ~Holding(t) /\ ~Holding(t)'
         /\ \A u \in Users \ {t} : hpc'[u] = hpc[u]
<1>1. NextSlot(t) \in {"scan", "scanned"}
  BY DEF NextSlot
<1>2. CASE BeginAcquire(t) \/ GiveUp(t) \/ EndScan(t)
  BY <1>2 DEF BeginAcquire, GiveUp, EndScan, Holding, TypeOK
<1>3. CASE TryAcquire(t) /\ inUse[probe[t]]
  BY <1>3 DEF TryAcquire, Holding, TypeOK
<1>4. ASSUME NEW p, BeginLoop(t, p)
      PROVE  /\ UNCHANGED <<slot, pending, inUse, ptr, published>>
             /\ ~Holding(t) /\ ~Holding(t)'
             /\ \A u \in Users \ {t} : hpc'[u] = hpc[u]
  BY <1>4 DEF BeginLoop, Holding, TypeOK
<1>5. CASE ScanInUse(t)
  BY <1>1, <1>5 DEF ScanInUse, Holding, TypeOK
<1>6. CASE ScanPtr(t)
  BY <1>1, <1>6 DEF ScanPtr, Holding, TypeOK
<1>7. CASE AskPtr(t)
  BY <1>1, <1>7 DEF AskPtr, Holding, TypeOK
<1> QED BY <1>2, <1>3, <1>4, <1>5, <1>6, <1>7 DEF Quiet, BeginScan, BeginAsk

(* The steps of a user, by their effect on the slots. *)
LEMMA Steps ==
  ASSUME TypeOK, NEW t \in Users, Step(t)
  PROVE  \/ Quiet(t) \/ DropRelease(t) \/ Flush(t)
         \/ TryAcquire(t) /\ ~inUse[probe[t]]
         \/ \E p \in Pointers \union {Null}, to \in {"held", "dropping"} :
              Publishes(t, p, to) /\ (p # Null => to = "held")
BY Publishing DEF Step, Quiet

-----------------------------------------------------------------------------
(* Protections. *)

(* Every step keeps the protections. *)
LEMMA ProtectStep ==
  ASSUME TypeOK, BufferInv, OwnerInv, ProtectInv, NEW t \in Users, Step(t)
  PROVE  ProtectInv'
<1> DEFINE Protected(u) == published[u] # Null =>
             /\ hpc[u] = "held"
             /\ pending[u] = <<>> => ptr[slot[u]] = published[u]
             /\ pending[u] # <<>> => pending[u][Len(pending[u])] = <<"ptr", slot[u], published[u]>>
<1>1. ASSUME NEW u \in Users, published'[u] = published[u], hpc'[u] = hpc[u],
             slot'[u] = slot[u], pending'[u] = pending[u],
             slot[u] \in Slots => ptr'[slot[u]] = ptr[slot[u]]
      PROVE  Protected(u)'
  BY <1>1 DEF ProtectInv, BufferInv, Buffer, Holding, TypeOK
<1>2. CASE Quiet(t)
  <2>1. Protected(t)'
    BY <1>2, QuietLeaves DEF ProtectInv, Holding
  <2>2. \A u \in Users \ {t} : Protected(u)'
    BY <1>1, <1>2, QuietLeaves
  <2> QED BY <2>1, <2>2 DEF ProtectInv
<1>3. CASE TryAcquire(t) /\ ~inUse[probe[t]]
  <2>1. /\ hpc[t] = "acquire" /\ UNCHANGED <<ptr, pending, published>>
        /\ \A u \in Users \ {t} : slot'[u] = slot[u] /\ hpc'[u] = hpc[u]
    BY <1>3 DEF TryAcquire, TakeSlot, TypeOK
  <2>2. Protected(t)'
    BY <2>1 DEF ProtectInv
  <2>3. \A u \in Users \ {t} : Protected(u)'
    BY <1>1, <2>1
  <2> QED BY <2>2, <2>3 DEF ProtectInv
<1>4. CASE DropRelease(t)
  <2>1. UNCHANGED ptr /\ \A u \in Users \ {t} : pending'[u] = pending[u]
    BY <1>4, OwnerRelease
  <2>2. /\ hpc[t] = "dropping" /\ UNCHANGED published
        /\ \A u \in Users \ {t} : slot'[u] = slot[u] /\ hpc'[u] = hpc[u]
    BY <1>4 DEF DropRelease, TypeOK
  <2>3. Protected(t)'
    BY <2>2 DEF ProtectInv
  <2>4. \A u \in Users \ {t} : Protected(u)'
    BY <1>1, <2>1, <2>2
  <2> QED BY <2>3, <2>4 DEF ProtectInv
<1>5. CASE Flush(t)
  <2>1. /\ \A u \in Users \ {t} : pending'[u] = pending[u]
        /\ Len(pending[t]) \in Nat \ {0} /\ Len(pending'[t]) = Len(pending[t]) - 1
        /\ \A k \in 1..Len(pending'[t]) : pending'[t][k] = pending[t][k + 1]
        /\ ptr' = Performed(ptr, "ptr", pending[t][1])
    BY <1>5, FlushEffect
  <2>2. Owed(t) \in Slots /\ \A i \in Slots : i # Owed(t) => ptr'[i] = ptr[i]
    BY <1>5, OwnerFlush
  <2>3. UNCHANGED <<hpc, slot, published>>
    BY <1>5 DEF Flush
  <2>4. ASSUME NEW u \in Users \ {t} PROVE Protected(u)'
    <3>1. slot[u] \in Slots => slot[u] # Owed(t)
      BY <2>2, HazardAssumption DEF OwnerInv, Owed, Slots, NoSlot
    <3> QED BY <1>1, <2>1, <2>2, <2>3, <3>1
  <2>5. ASSUME published[t] # Null PROVE Protected(t)'
    <3>1. hpc[t] = "held" /\ pending[t] # <<>> /\ slot[t] \in Slots
      BY <1>5, <2>5 DEF ProtectInv, Flush, BufferInv, Buffer, Holding, TypeOK
    <3>2. pending[t][Len(pending[t])] = <<"ptr", slot[t], published[t]>>
      BY <2>5, <3>1 DEF ProtectInv
    <3>3. pending'[t] \in Seq(Stores)
      BY <1>5, <3>1 DEF Flush, TypeOK
    <3>4. CASE Len(pending[t]) = 1
      <4>1. pending'[t] = <<>>
        BY <2>1, <3>3, <3>4
      <4>2. ptr' = [ptr EXCEPT ![slot[t]] = published[t]]
        <5>1. PICK st : st = pending[t][1] /\ st = <<"ptr", slot[t], published[t]>>
          BY <3>2, <3>4
        <5>2. st[1] = "ptr" /\ st[2] = slot[t] /\ st[3] = published[t]
          BY <5>1
        <5> QED BY <2>1, <5>1, <5>2 DEF Performed
      <4> QED BY <2>3, <3>1, <4>1, <4>2 DEF TypeOK
    <3>5. CASE Len(pending[t]) # 1
      <4>1. PICK n \in Nat \ {0} : n = Len(pending[t])
        BY <2>1
      <4>2. n # 1 /\ Len(pending'[t]) = n - 1 /\ n - 1 \in 1..(n - 1)
        <5>1. n # 1 /\ Len(pending'[t]) = n - 1
          BY <2>1, <3>5, <4>1
        <5>2. n - 1 \in 1..(n - 1)
          BY <4>1, <5>1, Predecessor
        <5> QED BY <5>1, <5>2
      <4>3. pending'[t][n - 1] = pending[t][n] /\ pending'[t] # <<>>
        BY <2>1, <4>1, <4>2
      <4> QED BY <2>3, <3>1, <3>2, <4>1, <4>2, <4>3
    <3> QED BY <3>4, <3>5
  <2> QED BY <2>3, <2>4, <2>5 DEF ProtectInv
<1>6. ASSUME NEW p \in Pointers \union {Null}, NEW to \in {"held", "dropping"},
             Publishes(t, p, to), p # Null => to = "held"
      PROVE  ProtectInv'
  <2>1. /\ slot' = slot /\ slot[t] \in Slots /\ hpc'[t] = to /\ published'[t] = p
        /\ \A u \in Users \ {t} : hpc'[u] = hpc[u] /\ published'[u] = published[u]
    BY <1>6, HazardAssumption DEF Publishes, Publish, TypeOK, BufferInv, Buffer, Holding
  <2>2. PICK st \in Stores : st = <<"ptr", slot[t], p>> /\ Store(t, st)
    BY <1>6, <2>1 DEF Publishes, Stores, TypeOK
  <2>3. st[1] = "ptr" /\ st[2] = slot[t] /\ st[3] = p
    BY <2>2
  <2>4. /\ \A u \in Users \ {t} : pending'[u] = pending[u]
        /\ \/ /\ UNCHANGED <<ptr, inUse>>
              /\ Len(pending'[t]) = Len(pending[t]) + 1
              /\ pending'[t][Len(pending[t]) + 1] = st
           \/ /\ pending[t] = <<>> /\ pending' = pending /\ ptr' = Performed(ptr, "ptr", st)
    BY <2>2, StoreEffect DEF BufferInv, Buffer
  <2>5. \A i \in Slots : i # slot[t] => ptr'[i] = ptr[i]
    BY <2>3, <2>4 DEF Performed, TypeOK
  <2>6. ASSUME NEW u \in Users \ {t} PROVE Protected(u)'
    <3>1. slot[u] \in Slots => slot[u] # slot[t]
      BY <2>1, HazardAssumption DEF OwnerInv, Owed, Slots, NoSlot
    <3> QED BY <1>1, <2>1, <2>4, <2>5, <3>1
  <2>7. Protected(t)'
    <3>1. CASE pending[t] = <<>> /\ pending' = pending /\ ptr' = Performed(ptr, "ptr", st)
      <4>1. ptr' = [ptr EXCEPT ![slot[t]] = p]
        BY <2>3, <3>1 DEF Performed
      <4> QED BY <1>6, <2>1, <3>1, <4>1 DEF TypeOK
    <3>2. CASE Len(pending'[t]) = Len(pending[t]) + 1 /\ pending'[t][Len(pending[t]) + 1] = st
      <4>1. Len(pending[t]) \in Nat /\ Len(<<>>) = 0
        BY DEF TypeOK
      <4>2. pending'[t] # <<>>
        BY <3>2, <4>1
      <4> QED BY <1>6, <2>1, <2>2, <3>2, <4>2
    <3> QED BY <2>4, <3>1, <3>2
  <2> QED BY <2>6, <2>7 DEF ProtectInv
<1> QED BY <1>2, <1>3, <1>4, <1>5, <1>6, Steps

-----------------------------------------------------------------------------
(* Loops. *)

Looping(s) == hpc[s] \in {"scan", "scanptr", "scanned"}

(* What the loop of s has to know of a protection of u. *)
Met(s, u) ==
  /\ published[u] # Null /\ (pending[u] = <<>> \/ Together(s, u))
  /\ asked[s] = Null /\ (hpc[s] = "scanned" \/ slot[u] < probe[s]) => published[u] \in seen[s]
  /\ asked[s] # Null /\ published[u] = asked[s] =>
       IF hpc[s] = "scanned" THEN seen[s] = {asked[s]} ELSE slot[u] >= probe[s]

LoopInv == \A s \in Users : Looping(s) => \A u \in stable[s] : Met(s, u)

(* A loop that a step does not touch knows what it has to, if the step     *)
(* leaves the protections it relies on alone.                              *)
LEMMA LoopUntouched ==
  ASSUME LoopInv, NEW s \in Users,
         Looping(s)' => /\ Looping(s) /\ hpc'[s] = hpc[s] /\ probe'[s] = probe[s]
                        /\ seen'[s] = seen[s] /\ asked'[s] = asked[s] /\ stable'[s] \subseteq stable[s]
                        /\ \A u \in stable'[s] : /\ published'[u] = published[u] /\ slot'[u] = slot[u]
                                                 /\ pending[u] = <<>> => pending'[u] = <<>>
  PROVE  Looping(s)' => \A u \in stable'[s] : Met(s, u)'
BY DEF LoopInv, Met, Together

(* The owner of a stable protection holds its slot and is not in a loop. *)
LEMMA Stable ==
  ASSUME TypeOK, BufferInv, ProtectInv, LoopInv, NEW s \in Users, Looping(s), NEW u \in stable[s]
  PROVE  /\ u \in Users /\ u # s /\ hpc[u] = "held" /\ slot[u] \in Slots /\ Owed(u) = slot[u]
         /\ published[u] # Null /\ (pending[u] = <<>> \/ Together(s, u))
<1>1. u \in Users /\ published[u] # Null /\ (pending[u] = <<>> \/ Together(s, u))
  BY DEF TypeOK, LoopInv, Met
<1>2. hpc[u] = "held"
  BY <1>1 DEF ProtectInv
<1>3. slot[u] \in Slots /\ slot[u] # NoSlot
  BY <1>1, <1>2 DEF TypeOK, BufferInv, Buffer, Holding
<1> QED BY <1>1, <1>2, <1>3 DEF Looping, Owed

(* Only its owner has delayed stores to a slot that is held: none that     *)
(* gives it up, and the last is what it protects.                          *)
LEMMA StoresToHeld ==
  ASSUME TypeOK, BufferInv, OwnerInv, ProtectInv,
         NEW u \in Users, slot[u] \in Slots, Owed(u) = slot[u], published[u] # Null,
         NEW w \in Users
  PROVE  /\ LastTo(w, "in_use", slot[u]) = {}
         /\ w # u \/ pending[u] = <<>> => LastTo(w, "ptr", slot[u]) = {}
         /\ pending[u] # <<>> => LastTo(u, "ptr", slot[u]) = {published[u]}
<1>0. slot[u] # NoSlot /\ DOMAIN pending[w] = 1..Len(pending[w]) /\ Len(pending[w]) \in Nat
  BY HazardAssumption DEF Slots, NoSlot, TypeOK
<1>1. \A k \in DOMAIN pending[w] : pending[w][k][2] = slot[u] => w = u /\ pending[w][k][1] # "in_use"
  <2> SUFFICES ASSUME NEW k \in 1..Len(pending[w]), pending[w][k][2] = slot[u]
               PROVE  w = u /\ pending[w][k][1] # "in_use"
    BY <1>0
  <2>1. pending[w][k][2] = Owed(w)
    BY DEF BufferInv, Buffer
  <2>2. w = u
    BY <1>0, <2>1 DEF OwnerInv
  <2> QED BY <1>0, <2>2 DEF BufferInv, Buffer
<1>2. LastTo(w, "in_use", slot[u]) = {}
  BY <1>1, LastIsStore
<1>3. ASSUME w # u \/ pending[u] = <<>> PROVE LastTo(w, "ptr", slot[u]) = {}
  <2>1. CASE w # u
    BY <1>1, <2>1, LastIsStore
  <2>2. CASE w = u /\ pending[u] = <<>>
    <3>1. DOMAIN pending[w] = {}
      BY <2>2
    <3> QED BY <3>1, LastIsStore
  <2> QED BY <1>3, <2>1, <2>2
<1>4. ASSUME pending[u] # <<>> PROVE LastTo(u, "ptr", slot[u]) = {published[u]}
  <2>1. DOMAIN pending[u] = 1..Len(pending[u]) /\ Len(pending[u]) \in Nat \ {0}
    BY <1>4 DEF TypeOK
  <2>2. pending[u][Len(pending[u])] = <<"ptr", slot[u], published[u]>>
    BY <1>4 DEF ProtectInv
  <2>3. PICK n \in Nat \ {0} : n = Len(pending[u])
    BY <2>1
  <2> DEFINE to == {k \in DOMAIN pending[u] : pending[u][k][1] = "ptr" /\ pending[u][k][2] = slot[u]}
  <2>4. to \subseteq 1..n /\ n \in to
    BY <2>1, <2>2, <2>3
  <2>5. {k \in to : \A j \in to : j <= k} = {n}
    BY <2>4
  <2>6. LastTo(u, "ptr", slot[u]) = {pending[u][k][3] : k \in {k \in to : \A j \in to : j <= k}}
    BY DEF LastTo
  <2>7. LastTo(u, "ptr", slot[u]) = {pending[u][n][3]}
    BY <2>5, <2>6
  <2> QED BY <2>2, <2>3, <2>7
<1> QED BY <1>2, <1>3, <1>4

(* A loop that has come to the slot of a stable protection finds it in use *)
(* and loads what is protected, though it may be delayed yet.              *)
LEMMA StableLoads ==
  ASSUME TypeOK, BufferInv, OwnerInv, ProtectInv, LoopInv,
         NEW s \in Users, Looping(s), NEW u \in stable[s], slot[u] = probe[s]
  PROVE  /\ \A used \in LoadsInUse(s) : used
         /\ \A v \in LoadsPtr(s) : v = published[u]
<1>1. /\ u \in Users /\ slot[u] \in Slots /\ Owed(u) = slot[u] /\ published[u] # Null
      /\ pending[u] = <<>> \/ Together(s, u)
  BY Stable
<1>2. inUse[slot[u]]
  BY <1>1, HazardAssumption DEF OwnerInv, Slots, NoSlot
<1>3. \A used \in LoadsInUse(s) : used
  <2>1. \A w \in Users : LastTo(w, "in_use", slot[u]) = {}
    BY <1>1, StoresToHeld
  <2> QED BY <1>2, <2>1, LoadsFrom DEF LoadsInUse
<1>4. ASSUME NEW v \in LoadsPtr(s) PROVE v = published[u]
  <2>1. CASE pending[u] = <<>>
    <3>1. \A w \in Users : LastTo(w, "ptr", slot[u]) = {}
      BY <1>1, <2>1, StoresToHeld
    <3>2. v = ptr[slot[u]]
      BY <3>1, LoadsFrom DEF LoadsPtr
    <3> QED BY <1>1, <2>1, <3>2 DEF ProtectInv
  <2>2. CASE pending[u] # <<>>
    <3>1. LastTo(u, "ptr", slot[u]) = {published[u]}
      BY <1>1, <2>2, StoresToHeld
    <3>2. \A w \in Users : w # u => LastTo(w, "ptr", slot[u]) = {}
      BY <1>1, StoresToHeld
    <3>3. Together(s, u)
      BY <1>1, <2>2
    <3> QED BY <1>1, <3>1, <3>2, <3>3, LoadsFrom DEF LoadsPtr
  <2> QED BY <2>1, <2>2
<1> QED BY <1>3, <1>4

(* The loop goes on to the next slot, or ends after the last. *)
LEMMA NextIs ==
  ASSUME TypeOK, NEW t \in Users, probe[t] \in Slots
  PROVE  /\ probe[t] \in Nat /\ probe[t] <= NSlots /\ NSlots \in Nat
         /\ \A i \in Slots : i \in Nat /\ i <= NSlots
         /\ NextSlot(t) = "scanned" => probe[t] = NSlots
BY HazardAssumption DEF NextSlot, Slots

(* A loop that has looked at one more slot has met its protection. *)
LEMMA LoopScan ==
  ASSUME TypeOK, BufferInv, OwnerInv, ProtectInv, LoopInv,
         NEW t \in Users, ScanInUse(t) \/ ScanPtr(t) \/ AskPtr(t), NEW u \in stable[t]
  PROVE  Met(t, u)'
<1>1. Looping(t) /\ probe[t] \in Slots /\ hpc[t] # "scanned"
  BY DEF ScanInUse, ScanPtr, AskPtr, Looping, TypeOK
<1>2. /\ u \in Users /\ u # t /\ slot[u] \in Slots
      /\ published[u] # Null /\ Met(t, u)
  BY <1>1, Stable DEF LoopInv
<1>3. UNCHANGED <<slot, pending, published, asked>> /\ (Together(t, u)' <=> Together(t, u))
  BY DEF ScanInUse, ScanPtr, AskPtr, Together
<1>4. /\ probe[t] \in Nat /\ probe[t] <= NSlots /\ NSlots \in Nat
      /\ slot[u] \in Nat /\ slot[u] <= NSlots
      /\ NextSlot(t) = "scanned" => probe[t] = NSlots
  BY <1>1, <1>2, NextIs
<1>5. ASSUME NEW used \in LoadsInUse(t), used, ScanInUse(t), hpc'[t] = "scanptr", probe' = probe
      PROVE  Met(t, u)'
  <2>1. seen' = seen
    BY <1>5 DEF ScanInUse
  <2> QED BY <1>1, <1>2, <1>3, <1>5, <2>1 DEF Met
<1>6. ASSUME NEW used \in LoadsInUse(t), ~used, ScanInUse(t),
             hpc'[t] = NextSlot(t), probe'[t] = probe[t] + 1
      PROVE  Met(t, u)'
  <2>1. seen' = seen
    BY <1>6 DEF ScanInUse
  <2>2. slot[u] # probe[t]
    BY <1>1, <1>6, StableLoads
  <2>3. slot[u] < probe[t] + 1 \/ NextSlot(t) = "scanned" => slot[u] < probe[t]
    BY <1>4, <2>2
  <2>4. slot[u] >= probe[t] => slot[u] >= probe[t] + 1 /\ NextSlot(t) # "scanned"
    BY <1>4, <2>2
  <2> QED BY <1>1, <1>2, <1>3, <1>6, <2>1, <2>3, <2>4 DEF Met
<1>7. CASE ScanInUse(t)
  <2>1. PICK used \in LoadsInUse(t) :
          IF used
          THEN hpc' = [hpc EXCEPT ![t] = "scanptr"] /\ UNCHANGED probe
          ELSE hpc' = [hpc EXCEPT ![t] = NextSlot(t)] /\ probe' = [probe EXCEPT ![t] = @ + 1]
    BY <1>7 DEF ScanInUse
  <2>2. CASE used
    BY <1>5, <1>7, <2>1, <2>2 DEF TypeOK
  <2>3. CASE ~used
    BY <1>6, <1>7, <2>1, <2>3 DEF TypeOK
  <2> QED BY <2>2, <2>3
<1>8. CASE ScanPtr(t)
  <2>1. PICK v \in LoadsPtr(t) : seen' = [seen EXCEPT ![t] = @ \union ({v} \ {Null})]
    BY <1>8 DEF ScanPtr
  <2>2. /\ hpc'[t] = NextSlot(t) /\ probe'[t] = probe[t] + 1 /\ asked[t] = Null
        /\ seen'[t] = seen[t] \union ({v} \ {Null})
    BY <1>8, <2>1 DEF ScanPtr, TypeOK
  <2>3. slot[u] < probe[t] + 1 \/ NextSlot(t) = "scanned" => slot[u] < probe[t] \/ slot[u] = probe[t]
    BY <1>4
  <2>4. slot[u] = probe[t] => published[u] \in seen'[t]
    BY <1>1, <1>2, <2>2, StableLoads
  <2> QED BY <1>1, <1>2, <1>3, <2>2, <2>3, <2>4 DEF Met
<1>9. CASE AskPtr(t)
  <2>1. PICK v \in LoadsPtr(t) :
          /\ seen' = [seen EXCEPT ![t] = {v} \intersect {asked[t]}]
          /\ hpc' = [hpc EXCEPT ![t] = IF v = asked[t] THEN "scanned" ELSE NextSlot(t)]
    BY <1>9 DEF AskPtr
  <2>2. /\ hpc'[t] = IF v = asked[t] THEN "scanned" ELSE NextSlot(t)
        /\ probe'[t] = probe[t] + 1 /\ asked[t] # Null
        /\ seen'[t] = {v} \intersect {asked[t]}
    BY <1>9, <2>1 DEF AskPtr, TypeOK
  <2>3. CASE v = asked[t]
    <3>1. hpc'[t] = "scanned" /\ seen'[t] = {asked[t]}
      BY <2>2, <2>3
    <3> QED BY <1>2, <1>3, <2>2, <3>1 DEF Met
  <2>4. CASE v # asked[t]
    <3>1. published[u] = asked[t] => slot[u] >= probe[t] /\ slot[u] # probe[t]
      BY <1>1, <1>2, <2>2, <2>4, StableLoads DEF Met
    <3>2. published[u] = asked[t] => slot[u] >= probe[t] + 1 /\ NextSlot(t) # "scanned"
      BY <1>4, <3>1
    <3> QED BY <1>2, <1>3, <2>2, <2>4, <3>2 DEF Met
  <2> QED BY <2>3, <2>4
<1> QED BY <1>7, <1>8, <1>9

(* Every step keeps what the loops have to know. *)
LEMMA LoopStep ==
  ASSUME TypeOK, BufferInv, OwnerInv, ProtectInv, LoopInv, NEW t \in Users, Step(t)
  PROVE  LoopInv'
<1> SUFFICES ASSUME NEW s \in Users PROVE Looping(s)' => \A u \in stable'[s] : Met(s, u)'
  BY DEF LoopInv
<1>0. Looping(s) => \A u \in stable[s] : u \in Users /\ hpc[u] = "held"
  BY Stable
<1>1. CASE BeginAcquire(t) \/ GiveUp(t) \/ TryAcquire(t) \/ DropRelease(t)
  <2>1. /\ ~Looping(t)' /\ hpc[t] \notin {"held", "scan", "scanptr", "scanned"}
        /\ UNCHANGED <<published, seen, asked, stable>>
        /\ \A u \in Users \ {t} : hpc'[u] = hpc[u] /\ slot'[u] = slot[u] /\ probe'[u] = probe[u]
    BY <1>1 DEF BeginAcquire, GiveUp, TryAcquire, TakeSlot, DropRelease, Looping, TypeOK
  <2>2. \A u \in Users \ {t} : pending'[u] = pending[u]
    BY <1>1, OwnerRelease DEF BeginAcquire, GiveUp, TryAcquire
  <2> QED BY <1>0, <2>1, <2>2, LoopUntouched DEF Looping
<1>2. ASSUME NEW p \in Pointers \union {Null}, NEW to \in {"held", "dropping"}, Publishes(t, p, to)
      PROVE  Looping(s)' => \A u \in stable'[s] : Met(s, u)'
  <2>1. /\ ~Looping(t)' /\ hpc[t] = "held" /\ UNCHANGED <<seen, asked, probe, slot>>
        /\ stable'[s] = stable[s] \ {t}
        /\ \A u \in Users \ {t} : hpc'[u] = hpc[u] /\ published'[u] = published[u]
    BY <1>2 DEF Publishes, Publish, Looping, TypeOK
  <2>2. \A u \in Users \ {t} : pending'[u] = pending[u]
    BY <1>2 DEF Publishes, Store, TypeOK
  <2> QED BY <1>0, <2>1, <2>2, LoopUntouched DEF Looping
<1>3. CASE Flush(t)
  <2>1. /\ UNCHANGED <<hpc, slot, probe, asked, seen, published, stable>> /\ pending[t] # <<>>
        /\ \A u \in Users \ {t} : pending'[u] = pending[u]
    BY <1>3 DEF Flush, TypeOK
  <2> QED BY <1>0, <2>1, LoopUntouched DEF Looping
<1>4. CASE ScanInUse(t) \/ ScanPtr(t) \/ AskPtr(t)
  <2>1. /\ UNCHANGED <<slot, asked, published, stable, pending>>
        /\ \A v \in Users \ {t} : hpc'[v] = hpc[v] /\ probe'[v] = probe[v] /\ seen'[v] = seen[v]
    BY <1>4 DEF ScanInUse, ScanPtr, AskPtr, TypeOK
  <2>2. CASE s = t
    BY <1>4, <2>1, <2>2, LoopScan
  <2>3. CASE s # t
    BY <2>1, <2>3, LoopUntouched DEF Looping
  <2> QED BY <2>2, <2>3
<1>5. CASE EndScan(t)
  <2>1. /\ UNCHANGED <<slot, published, pending, probe>> /\ ~Looping(t)'
        /\ \A v \in Users \ {t} : /\ hpc'[v] = hpc[v] /\ seen'[v] = seen[v]
                                      /\ asked'[v] = asked[v] /\ stable'[v] = stable[v]
    BY <1>5 DEF EndScan, Looping, TypeOK
  <2> QED BY <2>1, LoopUntouched DEF Looping
<1>6. ASSUME NEW p, BeginLoop(t, p) PROVE Looping(s)' => \A u \in stable'[s] : Met(s, u)'
  <2>1. /\ UNCHANGED <<slot, published, pending>>
        /\ \A v \in Users \ {t} : /\ hpc'[v] = hpc[v] /\ seen'[v] = seen[v] /\ probe'[v] = probe[v]
                                      /\ asked'[v] = asked[v] /\ stable'[v] = stable[v]
        /\ hpc'[t] = "scan" /\ probe'[t] = 1
        /\ stable'[t] = {u \in Users : published[u] # Null /\ (pending[u] = <<>> \/ Together(t, u))}
    BY <1>6 DEF BeginLoop, TypeOK
  <2>2. CASE s # t
    BY <2>1, <2>2, LoopUntouched DEF Looping
  <2>3. ASSUME s = t, NEW u \in stable'[s] PROVE Met(s, u)'
    <3>1. u \in Users /\ published[u] # Null /\ (pending[u] = <<>> \/ Together(s, u)')
      BY <2>1, <2>3 DEF Together
    <3>2. slot[u] \in Nat /\ slot[u] >= 1
      <4>1. slot[u] \in Slots
        BY <3>1 DEF ProtectInv, BufferInv, Buffer, Holding, TypeOK
      <4> QED BY <4>1, HazardAssumption DEF Slots
    <3> QED BY <2>1, <2>3, <3>1, <3>2 DEF Met
  <2> QED BY <2>2, <2>3
<1> QED BY <1>1, <1>2, <1>3, <1>4, <1>5, <1>6, Publishing DEF Step, BeginScan, BeginAsk

-----------------------------------------------------------------------------
RegistryInv == BufferInv /\ OwnerInv /\ ProtectInv /\ LoopInv

(* Every step keeps the invariant of the registry. *)
LEMMA RegistryStep ==
  ASSUME TypeOK, RegistryInv, [Next]_registryVars PROVE RegistryInv'
<1> USE DEF RegistryInv
<1>1. ASSUME NEW t \in Users, Step(t) PROVE RegistryInv'
  <2>1. ProtectInv' /\ LoopInv'
    BY <1>1, ProtectStep, LoopStep
  <2>2. CASE Quiet(t)
    <3>1. UNCHANGED <<slot, pending, inUse>> /\ \A u \in Users : Holding(u)' <=> Holding(u)
      BY <2>2, QuietLeaves DEF Holding
    <3> QED BY <2>1, <3>1, OwnerQuiet
  <2>3. CASE TryAcquire(t) /\ ~inUse[probe[t]]
    <3>1. pending[t] = <<>> /\ hpc[t] = "acquire" /\ TakeSlot(t) /\ UNCHANGED pending
      BY <2>3, DrainedSelf DEF TryAcquire
    <3> QED BY <2>1, <2>3, <3>1, OwnerTake
  <2>4. CASE DropRelease(t)
    BY <2>1, <2>4, OwnerRelease
  <2>5. CASE Flush(t)
    BY <2>1, <2>5, OwnerFlush
  <2>6. ASSUME NEW p \in Pointers \union {Null}, NEW to \in {"held", "dropping"}, Publishes(t, p, to)
        PROVE  RegistryInv'
    BY <2>1, <2>6, OwnerPublish
  <2> QED BY <1>1, <2>2, <2>3, <2>4, <2>5, <2>6, Steps
<1>2. CASE UNCHANGED registryVars
  <2>1. UNCHANGED <<inUse, ptr, pending, hpc, slot, probe, asked, seen, published, stable>>
    BY <1>2 DEF registryVars
  <2>2. BufferInv' /\ OwnerInv'
    BY <2>1, OwnerQuiet DEF Holding
  <2>3. ProtectInv' /\ LoopInv'
    BY <2>1 DEF ProtectInv, LoopInv, Looping, Met
  <2> QED BY <2>2, <2>3
<1> QED BY <1>1, <1>2 DEF Next

(* The invariant of the registry: delayed stores go to the slot their     *)
(* user owes, slots are owed by one user, protections are in place or     *)
(* on their way, and loops have met those behind them.                    *)
THEOREM RegistryInvariant == Spec => []RegistryInv
<1>1. Init => RegistryInv
  <2> SUFFICES ASSUME Init PROVE RegistryInv
    OBVIOUS
  <2>1. \A t \in Users : /\ hpc[t] = "none" /\ slot[t] = NoSlot /\ pending[t] = <<>>
                           /\ Len(pending[t]) = 0 /\ published[t] = Null
    BY DEF Init
  <2>2. \A t \in Users : Owed(t) = NoSlot
    BY <2>1 DEF Owed
  <2>3. 0 <= BufferSize
    BY HazardAssumption
  <2> QED BY <2>1, <2>2, <2>3
          DEF RegistryInv, BufferInv, Buffer, Holding, OwnerInv, ProtectInv, LoopInv, Looping
<1>2. TypeOK /\ RegistryInv /\ [Next]_registryVars => RegistryInv'
  BY RegistryStep
<1> QED BY <1>1, <1>2, TypeCorrect, PTL DEF Spec

(* A slot has one owner at a time (src/src/hazard.rs:63-79), delayed       *)
(* releases included.                                                      *)
THEOREM SlotTheorem == Spec => []SlotExclusive
<1>1. TypeOK /\ RegistryInv => SlotExclusive
  BY DEF RegistryInv, OwnerInv, Owed, SlotExclusive
<1> QED BY <1>1, TypeCorrect, RegistryInvariant, PTL

(* Nobody but its guard wipes a protection (src/src/hazard.rs:141-145).    *)
THEOREM ProtectionTheorem == Spec => []ProtectionKept
<1>1. TypeOK /\ RegistryInv => ProtectionKept
  <2> SUFFICES ASSUME TypeOK, RegistryInv, NEW t \in Users, published[t] # Null
               PROVE  /\ StoresTo(t, slot[t]) = {} => ptr[slot[t]] = published[t]
                      /\ \A k \in StoresTo(t, slot[t]) :
                           (\A j \in StoresTo(t, slot[t]) : j <= k) => pending[t][k][3] = published[t]
                      /\ \A u \in Users \ {t} : StoresTo(u, slot[t]) = {}
    BY DEF ProtectionKept
  <2>1. hpc[t] = "held" /\ slot[t] # NoSlot /\ slot[t] \in Slots /\ Owed(t) = slot[t]
    BY DEF RegistryInv, ProtectInv, BufferInv, Buffer, Holding, TypeOK, Owed
  <2>2. \A u \in Users : DOMAIN pending[u] = 1..Len(pending[u]) /\ Len(pending[u]) \in Nat
    BY DEF TypeOK
  <2>3. \A k \in 1..Len(pending[t]) : pending[t][k][1] = "ptr" /\ pending[t][k][2] = slot[t]
    <3> SUFFICES ASSUME NEW k \in 1..Len(pending[t])
                 PROVE  pending[t][k][1] = "ptr" /\ pending[t][k][2] = slot[t]
      OBVIOUS
    <3>1. pending[t][k] \in Stores
      BY OwedType
    <3> QED BY <2>1, <3>1, StoreKinds DEF RegistryInv, BufferInv, Buffer
  <2>4. StoresTo(t, slot[t]) = 1..Len(pending[t])
    BY <2>2, <2>3 DEF StoresTo
  <2>5. StoresTo(t, slot[t]) = {} => ptr[slot[t]] = published[t]
    <3>1. StoresTo(t, slot[t]) = {} => pending[t] = <<>>
      <4>1. PICK n \in Nat : n = Len(pending[t])
        BY <2>2
      <4>2. n # 0 => n \in 1..n
        OBVIOUS
      <4>3. n = 0 => pending[t] = <<>>
        <5> SUFFICES ASSUME n = 0 PROVE pending[t] = <<>>
          OBVIOUS
        <5>1. pending[t] \in Seq(Stores)
          BY DEF TypeOK
        <5>2. Len(pending[t]) = 0
          BY <4>1
        <5> QED BY <5>1, <5>2
      <4> QED BY <2>4, <4>1, <4>2, <4>3
    <3> QED BY <3>1 DEF RegistryInv, ProtectInv
  <2>6. ASSUME NEW k \in StoresTo(t, slot[t]), \A j \in StoresTo(t, slot[t]) : j <= k
        PROVE  pending[t][k][3] = published[t]
    <3>1. k = Len(pending[t]) /\ pending[t] # <<>>
      <4>1. PICK n \in Nat : n = Len(pending[t])
        BY <2>2
      <4>2. k \in 1..n /\ \A j \in 1..n : j <= k
        BY <2>4, <2>6, <4>1
      <4>3. n \in 1..n
        BY <4>2
      <4>4. k = n /\ n # 0
        BY <4>2, <4>3
      <4> QED BY <4>1, <4>4
    <3>2. pending[t][k] = <<"ptr", slot[t], published[t]>>
      BY <3>1 DEF RegistryInv, ProtectInv
    <3> QED BY <3>2
  <2>7. ASSUME NEW u \in Users \ {t} PROVE StoresTo(u, slot[t]) = {}
    <3>1. Owed(u) # slot[t]
      BY <2>1 DEF RegistryInv, OwnerInv
    <3>2. \A k \in 1..Len(pending[u]) : pending[u][k][2] # slot[t]
      BY <3>1 DEF RegistryInv, BufferInv, Buffer
    <3> QED BY <2>2, <3>2 DEF StoresTo
  <2> QED BY <2>5, <2>6, <2>7
<1> QED BY <1>1, TypeCorrect, RegistryInvariant, PTL

(* A snapshot has every pointer that was visibly protected when its loop   *)
(* began and still is (src/src/hazard.rs:93-106).                          *)
THEOREM SnapshotTheorem == Spec => []SnapshotComplete
<1>1. RegistryInv => SnapshotComplete
  BY DEF RegistryInv, LoopInv, Looping, Met, SnapshotComplete
<1> QED BY <1>1, RegistryInvariant, PTL

(* is_hazarded does not miss such a pointer (src/src/hazard.rs:81-91).     *)
THEOREM AnswerTheorem == Spec => []AnswerComplete
<1>1. RegistryInv => AnswerComplete
  BY DEF RegistryInv, LoopInv, Looping, Met, AnswerComplete
<1> QED BY <1>1, RegistryInvariant, PTL

-----------------------------------------------------------------------------
(* Why acquire fails only if as many others as there are slots had one.    *)
(* The loop goes past a slot when somebody owes it; the same user may      *)
(* free that slot and be met again at a later one, so that counting what   *)
(* the loop went past is not enough.  A user met twice has looked for a    *)
(* slot itself in between, and it took the later slot because somebody     *)
(* owed each of the earlier ones: its own crowd is added to the count.     *)

(* t is trying one slot after the other. *)
Looking(t) == hpc[t] = "acquire" /\ pending[t] = <<>>

(* A slot in use is owed. *)
UseInv == \A i \in Slots : inUse[i] => \E u \in Users : Owed(u) = i

(* Who owes a slot while t acquires is a rival of t; the loop of t begins  *)
(* once its own stores are visible.                                        *)
AcquireInv ==
  \A t \in Users : hpc[t] = "acquire" =>
    /\ \A u \in Users \ {t} : Owed(u) # NoSlot => u \in rivals[t]
    /\ pending[t] # <<>> => probe[t] = 1

(* k users of M, each of which is of L or owes no slot beyond k. *)
Crowd(L, M, k) ==
  \E S \in SUBSET M : Cardinality(S) >= k /\ \A u \in S : u \in L \/ Owed(u) <= k

(* met: for each user, the others that owed a slot since it looks;         *)
(* later: those that began to look after it did.                           *)
Race(t, later, met) ==
  /\ met[t] \subseteq rivals[t] /\ t \notin met[t]
  /\ \A u \in Users \ {t} : Owed(u) # NoSlot => u \in met[t]
  /\ \A u \in met[t] : Looking(u) => u \in later[t]
  /\ Crowd(later[t], met[t], probe[t] - 1)
  /\ \A u \in later[t] : Looking(u) => later[u] \subseteq later[t] /\ met[u] \subseteq met[t]
  /\ \A u \in later[t] : Owed(u) # NoSlot => Crowd(later[t], met[t], Owed(u))

Races(later, met) == \A t \in Users : Looking(t) => Race(t, later, met)

RaceInv == \E later, met \in [Users -> SUBSET Users] : Races(later, met)

(* A user that looks for a slot owes none. *)
LEMMA LookersOweNothing ==
  ASSUME BufferInv, NEW t \in Users, Looking(t) PROVE Owed(t) = NoSlot
BY DEF Looking, BufferInv, Buffer, Holding, Owed

(* What a step that takes no slot does to those that acquire one: it goes  *)
(* past a slot in use, begins to acquire, or makes a store visible; the    *)
(* others go on as they were.                                              *)
LEMMA AcquireSteps ==
  ASSUME TypeOK, NEW t \in Users, Step(t), ~(TryAcquire(t) /\ ~inUse[probe[t]])
  PROVE  /\ \A u \in Users \ {t} : /\ hpc'[u] = hpc[u] /\ pending'[u] = pending[u]
                                     /\ probe'[u] = probe[u] /\ rivals'[u] = rivals[u]
         /\ hpc'[t] = "acquire" =>
              \/ /\ Looking(t) /\ Looking(t)' /\ inUse[probe[t]]
                 /\ probe'[t] = probe[t] + 1 /\ rivals' = rivals
              \/ /\ hpc[t] = "none" /\ UNCHANGED pending
                 /\ probe'[t] = 1 /\ rivals'[t] = {u \in Users \ {t} : Occupies(u)}
              \/ /\ hpc[t] = "acquire" /\ pending[t] # <<>>
                 /\ probe' = probe /\ rivals' = rivals
         /\ hpc'[t] = "failed" =>
              \/ /\ Looking(t) /\ probe[t] = NSlots /\ inUse[probe[t]] /\ rivals' = rivals
              \/ hpc[t] = "failed" /\ rivals' = rivals
<1>1. CASE BeginAcquire(t)
  BY <1>1 DEF BeginAcquire, TypeOK
<1>2. CASE TryAcquire(t)
  <2>1. /\ inUse[probe[t]] /\ hpc[t] = "acquire" /\ pending[t] = <<>>
        /\ hpc' = [hpc EXCEPT ![t] = IF probe[t] = NSlots THEN "failed" ELSE @]
        /\ probe' = [probe EXCEPT ![t] = @ + 1]
        /\ UNCHANGED <<pending, rivals>>
    BY <1>2, DrainedSelf DEF TryAcquire
  <2> QED BY <2>1 DEF Looking, TypeOK
<1>3. CASE GiveUp(t)
  BY <1>3 DEF GiveUp, TypeOK
<1>4. ASSUME NEW p \in Pointers \union {Null}, NEW to \in {"held", "dropping"}, Publishes(t, p, to)
      PROVE  /\ hpc'[t] = to
             /\ \A u \in Users \ {t} : /\ hpc'[u] = hpc[u] /\ pending'[u] = pending[u]
                                         /\ probe'[u] = probe[u] /\ rivals'[u] = rivals[u]
  BY <1>4 DEF Publishes, Store, TypeOK
<1>5. CASE DropRelease(t)
  <2>1. \A u \in Users \ {t} : pending'[u] = pending[u]
    BY <1>5, Releasing DEF Store, TypeOK
  <2> QED BY <1>5, <2>1 DEF DropRelease, TypeOK
<1>6. ASSUME NEW p, BeginLoop(t, p)
      PROVE  /\ hpc'[t] = "scan"
             /\ \A u \in Users \ {t} : /\ hpc'[u] = hpc[u] /\ pending'[u] = pending[u]
                                         /\ probe'[u] = probe[u] /\ rivals'[u] = rivals[u]
  BY <1>6 DEF BeginLoop, TypeOK
<1>7. CASE ScanInUse(t) \/ ScanPtr(t) \/ AskPtr(t)
  <2>1. NextSlot(t) \in {"scan", "scanned"}
    BY DEF NextSlot
  <2> QED BY <1>7, <2>1 DEF ScanInUse, ScanPtr, AskPtr, TypeOK
<1>8. CASE EndScan(t)
  BY <1>8 DEF EndScan, TypeOK
<1>9. CASE Flush(t)
  <2>1. \A u \in Users \ {t} : pending'[u] = pending[u]
    BY <1>9, FlushEffect
  <2> QED BY <1>9, <2>1 DEF Flush, Looking
<1> QED
  BY <1>1, <1>2, <1>3, <1>4, <1>5, <1>6, <1>7, <1>8, <1>9, Publishing
     DEF Step, BeginScan, BeginAsk

(* What such a step does to who owes what. *)
LEMMA OwesStep ==
  ASSUME TypeOK, RegistryInv, NEW t \in Users, Step(t), ~(TryAcquire(t) /\ ~inUse[probe[t]])
  PROVE  Owes(t)
<1> USE DEF RegistryInv
<1>1. CASE Quiet(t)
  <2>1. UNCHANGED <<slot, pending, inUse>> /\ \A u \in Users : Holding(u)' <=> Holding(u)
    BY <1>1, QuietLeaves DEF Holding
  <2> QED BY <2>1, OwnerQuiet
<1>2. CASE DropRelease(t)
  BY <1>2, OwnerRelease
<1>3. CASE Flush(t)
  BY <1>3, OwnerFlush
<1>4. ASSUME NEW p \in Pointers \union {Null}, NEW to \in {"held", "dropping"}, Publishes(t, p, to)
      PROVE  Owes(t)
  BY <1>4, OwnerPublish
<1> QED BY <1>1, <1>2, <1>3, <1>4, Steps

(* What taking a slot does. *)
LEMMA TakeEffect ==
  ASSUME TypeOK, NEW t \in Users, TryAcquire(t), ~inUse[probe[t]]
  PROVE  /\ Looking(t) /\ probe[t] \in Slots /\ probe[t] # NoSlot
         /\ Owed(t)' = probe[t] /\ \A u \in Users \ {t} : Owed(u)' = Owed(u)
         /\ inUse' = [inUse EXCEPT ![probe[t]] = TRUE]
         /\ hpc'[t] = "held" /\ \A u \in Users \ {t} : hpc'[u] = hpc[u]
         /\ UNCHANGED <<pending, probe>>
         /\ \A u \in Users \ {t} :
              rivals'[u] = IF hpc[u] = "acquire" THEN rivals[u] \union {t} ELSE rivals[u]
<1>1. /\ hpc[t] = "acquire" /\ pending[t] = <<>> /\ TakeSlot(t) /\ UNCHANGED <<pending, probe>>
  BY DrainedSelf DEF TryAcquire, TakeSlot
<1>2. probe[t] \in Slots /\ probe[t] # NoSlot
  BY <1>1, HazardAssumption DEF TypeOK, Slots, NoSlot
<1>3. /\ slot'[t] = probe[t] /\ \A u \in Users \ {t} : slot'[u] = slot[u]
      /\ hpc'[t] = "held" /\ \A u \in Users \ {t} : hpc'[u] = hpc[u]
  BY <1>1 DEF TakeSlot, TypeOK
<1>4. Owed(t)' = probe[t] /\ \A u \in Users \ {t} : Owed(u)' = Owed(u)
  BY <1>1, <1>2, <1>3 DEF Owed
<1> QED BY <1>1, <1>2, <1>3, <1>4 DEF Looking, TakeSlot

(* Every step keeps that the slots in use are owed. *)
LEMMA UseStep ==
  ASSUME TypeOK, RegistryInv, UseInv, NEW t \in Users, Step(t)
  PROVE  UseInv'
<1> SUFFICES ASSUME NEW i \in Slots, inUse'[i] PROVE \E u \in Users : Owed(u)' = i
  BY DEF UseInv
<1>0. i # NoSlot
  BY HazardAssumption DEF Slots, NoSlot
<1>1. CASE TryAcquire(t) /\ ~inUse[probe[t]]
  <2>1. CASE i = probe[t]
    BY <1>1, <2>1, TakeEffect
  <2>2. CASE i # probe[t]
    <3>1. inUse[i]
      BY <1>1, <2>2, TakeEffect DEF TypeOK
    <3>2. PICK u \in Users : Owed(u) = i
      BY <3>1 DEF UseInv
    <3>3. u # t
      BY <1>0, <1>1, <3>2, TakeEffect, LookersOweNothing DEF RegistryInv
    <3> QED BY <1>1, <3>2, <3>3, TakeEffect
  <2> QED BY <2>1, <2>2
<1>2. CASE ~(TryAcquire(t) /\ ~inUse[probe[t]])
  <2>1. Owes(t)
    BY <1>2, OwesStep
  <2>2. inUse[i]
    BY <2>1 DEF Owes
  <2>3. PICK u \in Users : Owed(u) = i
    BY <2>2 DEF UseInv
  <2> QED BY <2>1, <2>3 DEF Owes
<1> QED BY <1>1, <1>2

(* Every step keeps who is a rival. *)
LEMMA AcquireStep ==
  ASSUME TypeOK, RegistryInv, AcquireInv, NEW t \in Users, Step(t)
  PROVE  AcquireInv'
<1> SUFFICES ASSUME NEW s \in Users, hpc'[s] = "acquire"
             PROVE  /\ \A u \in Users \ {s} : Owed(u)' # NoSlot => u \in rivals'[s]
                    /\ pending'[s] # <<>> => probe'[s] = 1
  BY DEF AcquireInv
<1>1. CASE TryAcquire(t) /\ ~inUse[probe[t]]
  <2>1. s # t /\ hpc[s] = "acquire" /\ rivals'[s] = rivals[s] \union {t}
    BY <1>1, TakeEffect
  <2> QED BY <1>1, <2>1, TakeEffect DEF AcquireInv
<1>2. CASE ~(TryAcquire(t) /\ ~inUse[probe[t]])
  <2>1. \A u \in Users : Owed(u)' # NoSlot => Owed(u)' = Owed(u)
    BY <1>2, OwesStep DEF Owes
  <2>2. CASE s # t
    BY <1>2, <2>1, <2>2, AcquireSteps DEF AcquireInv
  <2>3. CASE s = t
    <3>1. CASE Looking(t) /\ Looking(t)' /\ rivals' = rivals
      BY <2>1, <2>3, <3>1 DEF AcquireInv, Looking
    <3>2. CASE probe'[t] = 1 /\ rivals'[t] = {u \in Users \ {t} : Occupies(u)}
      BY <2>1, <2>3, <3>2 DEF Owed, Occupies
    <3>3. CASE hpc[t] = "acquire" /\ pending[t] # <<>> /\ probe' = probe /\ rivals' = rivals
      BY <2>1, <2>3, <3>3 DEF AcquireInv
    <3> QED BY <1>2, <2>3, <3>1, <3>2, <3>3, AcquireSteps
  <2> QED BY <2>2, <2>3
<1> QED BY <1>1, <1>2

(* A crowd stays one when its users give slots up, when it gains           *)
(* users, and when more of them are known to be late.                      *)
LEMMA CrowdKept ==
  ASSUME NEW L, NEW M, NEW L2, NEW M2, NEW k \in Nat, Crowd(L, M, k),
         L \subseteq L2, M \subseteq M2,
         \A u \in M : u \in L2 \/ Owed(u)' = Owed(u) \/ Owed(u)' = NoSlot
  PROVE  Crowd(L2, M2, k)'
<1>1. PICK S \in SUBSET M : Cardinality(S) >= k /\ \A u \in S : u \in L \/ Owed(u) <= k
  BY DEF Crowd
<1>2. \A u \in S : u \in L2 \/ Owed(u)' <= k
  BY <1>1 DEF NoSlot
<1>3. S \in SUBSET M2
  BY <1>1
<1> QED BY <1>1, <1>2, <1>3 DEF Crowd

(* One more user in a crowd, one that was not counted before. *)
LEMMA CrowdGrows ==
  ASSUME IsFiniteSet(Users), NEW L, NEW S \in SUBSET Users, NEW w \in Users,
         NEW k \in Nat \ {0}, Cardinality(S) >= k - 1, w \notin S
  PROVE  IsFiniteSet(S) /\ Cardinality(S \union {w}) >= k
<1>1. IsFiniteSet(S)
  BY FS_Subset
<1>2. Cardinality(S) \in Nat /\ Cardinality(S \union {w}) = Cardinality(S) + 1
  BY <1>1, FS_CardinalityType, FS_AddElement
<1> QED BY <1>1, <1>2

(* Going past the slot in use that t is at: who owes it was counted as one *)
(* that is late, with its own crowd, or has not been counted yet.          *)
LEMMA Passing ==
  ASSUME IsFiniteSet(Users), TypeOK, RegistryInv, UseInv, NEW t \in Users, Looking(t),
         inUse[probe[t]], NEW later \in [Users -> SUBSET Users],
         NEW met \in [Users -> SUBSET Users], Race(t, later, met)
  PROVE  Crowd(later[t], met[t], probe[t])
<1>1. probe[t] \in Slots /\ probe[t] \in Nat \ {0} /\ probe[t] # NoSlot
  BY HazardAssumption DEF Looking, TypeOK, Slots, NoSlot
<1>2. PICK w \in Users : Owed(w) = probe[t]
  BY <1>1 DEF UseInv
<1>3. w # t /\ w \in met[t]
  BY <1>1, <1>2, LookersOweNothing DEF RegistryInv, Race
<1>4. CASE w \in later[t]
  BY <1>1, <1>2, <1>4 DEF Race
<1>5. CASE w \notin later[t]
  <2>1. PICK S \in SUBSET met[t] : /\ Cardinality(S) >= probe[t] - 1
                                   /\ \A u \in S : u \in later[t] \/ Owed(u) <= probe[t] - 1
    BY DEF Race, Crowd
  <2>2. w \notin S
    BY <1>1, <1>2, <1>5, <2>1
  <2>3. Cardinality(S \union {w}) >= probe[t]
    BY <1>1, <2>1, <2>2, CrowdGrows
  <2>4. \A u \in S : Owed(u) \in Nat
    BY <2>1, OwedType, HazardAssumption DEF Slots, NoSlot
  <2>5. \A u \in S \union {w} : u \in later[t] \/ Owed(u) <= probe[t]
    BY <1>1, <1>2, <2>1, <2>4
  <2> QED BY <1>3, <2>1, <2>3, <2>5 DEF Crowd
<1> QED BY <1>4, <1>5

(* A step that takes no slot and after which nobody new looks for one.     *)
LEMMA RaceStill ==
  ASSUME IsFiniteSet(Users), TypeOK, RegistryInv, UseInv, NEW t \in Users, Step(t),
         ~(TryAcquire(t) /\ ~inUse[probe[t]]), Looking(t)' => Looking(t),
         NEW later \in [Users -> SUBSET Users], NEW met \in [Users -> SUBSET Users],
         Races(later, met)
  PROVE  Races(later, met)'
<1>1. \A u \in Users : Owed(u)' = Owed(u) \/ Owed(u)' = NoSlot
  BY OwesStep DEF Owes
<1>2. \A u \in Users : Looking(u)' => Looking(u)
  BY AcquireSteps DEF Looking
<1> SUFFICES ASSUME NEW s \in Users, Looking(s)' PROVE Race(s, later, met)'
  BY DEF Races
<1>3. Looking(s) /\ Race(s, later, met)
  BY <1>2 DEF Races
<1>4. /\ rivals'[s] = rivals[s] /\ probe'[s] \in Nat \ {0}
      /\ probe'[s] = probe[s] \/ (probe'[s] = probe[s] + 1 /\ inUse[probe[s]])
  <2>1. TypeOK' /\ hpc'[s] = "acquire"
    BY TypeStep DEF Next, Looking, Holds, RegistryInv, BufferInv, Buffer, Holding
  <2>2. probe'[s] \in Nat \ {0}
    BY <2>1, HazardAssumption DEF TypeOK, Slots
  <2>3. CASE s # t
    BY <2>2, <2>3, AcquireSteps
  <2>4. CASE s = t
    BY <1>3, <2>1, <2>2, <2>4, AcquireSteps DEF Looking
  <2> QED BY <2>3, <2>4
<1>5. Crowd(later[s], met[s], probe'[s] - 1)
  <2>1. CASE probe'[s] = probe[s]
    BY <1>3, <2>1 DEF Race
  <2>2. CASE probe'[s] = probe[s] + 1 /\ inUse[probe[s]]
    <3>1. probe'[s] - 1 = probe[s]
      BY <1>3, <2>2 DEF TypeOK, Looking, Slots
    <3> QED BY <1>3, <2>2, <3>1, Passing
  <2> QED BY <1>4, <2>1, <2>2
<1>6. \A k \in Nat : Crowd(later[s], met[s], k) => Crowd(later[s], met[s], k)'
  <2> SUFFICES ASSUME NEW k \in Nat, Crowd(later[s], met[s], k) PROVE Crowd(later[s], met[s], k)'
    OBVIOUS
  <2>1. \A u \in met[s] : Owed(u)' = Owed(u) \/ Owed(u)' = NoSlot
    BY <1>1
  <2> QED BY <2>1, CrowdKept
<1>7. Crowd(later[s], met[s], probe[s] - 1)'
  <2>1. PICK k \in Nat : k = probe'[s] - 1
    BY <1>4
  <2>2. Crowd(later[s], met[s], k)'
    BY <1>5, <1>6, <2>1
  <2> QED BY <2>1, <2>2 DEF Crowd
<1>8. ASSUME NEW u \in later[s], Owed(u)' # NoSlot PROVE Crowd(later[s], met[s], Owed(u))'
  <2>1. PICK k \in Nat : k = Owed(u)
    BY OwedType, HazardAssumption DEF Slots, NoSlot
  <2>2. k = Owed(u)' /\ Owed(u) # NoSlot
    BY <1>1, <1>8, <2>1
  <2>3. Crowd(later[s], met[s], k)'
    BY <1>3, <1>6, <2>1, <2>2 DEF Race
  <2> QED BY <2>2, <2>3 DEF Crowd
<1> QED BY <1>1, <1>2, <1>3, <1>4, <1>7, <1>8 DEF Race

(* t takes the slot it is at: it joins every crowd, and those that count   *)
(* it as late get its own crowd with it.                                   *)
LEMMA RaceTake ==
  ASSUME IsFiniteSet(Users), TypeOK, RegistryInv, NEW t \in Users,
         TryAcquire(t), ~inUse[probe[t]],
         NEW later \in [Users -> SUBSET Users], NEW met \in [Users -> SUBSET Users],
         NEW met2 \in [Users -> SUBSET Users],
         \A u \in Users : met2[u] = met[u] \union {t}, Races(later, met)
  PROVE  Races(later, met2)'
<1>1. /\ Looking(t) /\ probe[t] \in Slots /\ probe[t] \in Nat \ {0}
      /\ Owed(t)' = probe[t] /\ \A u \in Users \ {t} : Owed(u)' = Owed(u)
      /\ \A u \in Users : Looking(u)' => Looking(u) /\ u # t
      /\ \A u \in Users : Looking(u) /\ u # t => rivals'[u] = rivals[u] \union {t}
      /\ UNCHANGED <<pending, probe>>
  <2>1. /\ Looking(t) /\ probe[t] \in Slots /\ probe[t] # NoSlot /\ UNCHANGED <<pending, probe>>
        /\ Owed(t)' = probe[t] /\ \A u \in Users \ {t} : Owed(u)' = Owed(u)
        /\ hpc'[t] = "held" /\ \A u \in Users \ {t} : hpc'[u] = hpc[u]
        /\ \A u \in Users \ {t} :
             rivals'[u] = IF hpc[u] = "acquire" THEN rivals[u] \union {t} ELSE rivals[u]
    BY TakeEffect
  <2>2. probe[t] \in Nat \ {0}
    BY <2>1, HazardAssumption DEF Slots
  <2>3. \A u \in Users : Looking(u)' => Looking(u) /\ u # t
    BY <2>1 DEF Looking
  <2> QED BY <2>1, <2>2, <2>3 DEF Looking
<1> SUFFICES ASSUME NEW s \in Users, Looking(s)' PROVE Race(s, later, met2)'
  BY DEF Races
<1>2. Looking(s) /\ s # t /\ Race(s, later, met) /\ Race(t, later, met)
  BY <1>1 DEF Races
<1>3. met2[s] \subseteq rivals'[s] /\ s \notin met2[s]
  BY <1>1, <1>2 DEF Race
<1>4. \A u \in Users \ {s} : Owed(u)' # NoSlot => u \in met2[s]
  BY <1>1, <1>2 DEF Race
<1>5. \A u \in met2[s] : Looking(u)' => u \in later[s]
  BY <1>1, <1>2 DEF Race
<1>6. \A k \in Nat : Crowd(later[s], met[s], k) => Crowd(later[s], met2[s], k)'
  <2> SUFFICES ASSUME NEW k \in Nat, Crowd(later[s], met[s], k)
               PROVE  Crowd(later[s], met2[s], k)'
    OBVIOUS
  <2>1. \A u \in met[s] : u \in later[s] \/ Owed(u)' = Owed(u) \/ Owed(u)' = NoSlot
    BY <1>1, <1>2 DEF Race
  <2> QED BY <2>1, CrowdKept
<1>7. Crowd(later[s], met2[s], probe[s] - 1)'
  <2>1. PICK k \in Nat : k = probe[s] - 1
    BY <1>2, HazardAssumption DEF Looking, TypeOK, Slots
  <2>2. Crowd(later[s], met2[s], k)'
    BY <1>2, <1>6, <2>1 DEF Race
  <2> QED BY <1>1, <2>1, <2>2 DEF Crowd
<1>8. \A u \in later[s] : Looking(u)' => later[u] \subseteq later[s] /\ met2[u] \subseteq met2[s]
  BY <1>1, <1>2 DEF Race
<1>9. ASSUME NEW u \in later[s], Owed(u)' # NoSlot PROVE Crowd(later[s], met2[s], Owed(u))'
  <2>1. CASE u # t
    <3>1. PICK k \in Nat : k = Owed(u)
      BY OwedType, HazardAssumption DEF Slots, NoSlot
    <3>2. k = Owed(u)'
      BY <1>1, <2>1, <3>1
    <3>3. Crowd(later[s], met2[s], k)'
      BY <1>2, <1>6, <1>9, <3>1, <3>2 DEF Race
    <3> QED BY <3>2, <3>3 DEF Crowd
  <2>2. CASE u = t
    <3>1. PICK k \in Nat \ {0} : k = probe[t]
      BY <1>1
    <3>2. later[t] \subseteq later[s] /\ met[t] \subseteq met[s] /\ t \notin met[t]
      BY <1>1, <1>2, <2>2 DEF Race
    <3>3. PICK S \in SUBSET met[t] : /\ Cardinality(S) >= k - 1
                                     /\ \A v \in S : v \in later[t] \/ Owed(v) <= k - 1
      BY <1>2, <3>1 DEF Race, Crowd
    <3>4. Cardinality(S \union {t}) >= k
      BY <3>2, <3>3, CrowdGrows
    <3>5. \A v \in S \union {t} : v \in later[s] \/ Owed(v)' <= k
      <4> SUFFICES ASSUME NEW v \in S, v \notin later[s] PROVE Owed(v)' <= k
        BY <2>2
      <4>1. v \in Users /\ v # t /\ Owed(v) <= k - 1 /\ Owed(v) \in Nat
        BY <3>2, <3>3, OwedType, HazardAssumption DEF Slots, NoSlot
      <4>2. Owed(v)' = Owed(v)
        BY <1>1, <4>1
      <4> QED BY <4>1, <4>2
    <3>6. S \union {t} \in SUBSET met2[s]
      BY <3>2, <3>3
    <3>7. Crowd(later[s], met2[s], k)'
      BY <3>4, <3>5, <3>6 DEF Crowd
    <3> QED BY <1>1, <2>2, <3>1, <3>7 DEF Crowd
  <2> QED BY <2>1, <2>2
<1> QED BY <1>3, <1>4, <1>5, <1>7, <1>8, <1>9 DEF Race

(* t begins to look: those that look already count it as late, and it      *)
(* begins with the users that owe a slot now.                              *)
LEMMA RaceBegin ==
  ASSUME IsFiniteSet(Users), TypeOK, RegistryInv, AcquireInv, NEW t \in Users, Step(t),
         ~Looking(t), Looking(t)',
         NEW later \in [Users -> SUBSET Users], NEW met \in [Users -> SUBSET Users],
         NEW later2 \in [Users -> SUBSET Users], NEW met2 \in [Users -> SUBSET Users],
         later2[t] = {}, met2[t] = {u \in Users \ {t} : Owed(u)' # NoSlot},
         \A u \in Users \ {t} : later2[u] = later[u] \union {t} /\ met2[u] = met[u],
         Races(later, met)
  PROVE  Races(later2, met2)'
<1>1. ~(TryAcquire(t) /\ ~inUse[probe[t]])
  BY TakeEffect DEF Looking
<1>2. \A u \in Users : Owed(u)' = Owed(u) \/ Owed(u)' = NoSlot
  BY <1>1, OwesStep DEF Owes
<1>3. \A u \in Users \ {t} : (Looking(u)' <=> Looking(u)) /\ probe'[u] = probe[u] /\ rivals'[u] = rivals[u]
  BY <1>1, AcquireSteps DEF Looking
<1>4. Owed(t)' = NoSlot
  <2>1. CASE Owed(t) = NoSlot
    BY <1>2, <2>1
  <2>2. CASE Owed(t) # NoSlot
    <3>1. hpc'[t] = "acquire" /\ pending'[t] = <<>>
      BY DEF Looking
    <3>2. BufferInv'
      BY RegistryStep DEF Next, RegistryInv
    <3> QED BY <3>1, <3>2 DEF BufferInv, Buffer, Holding, Owed
  <2> QED BY <2>1, <2>2
<1>5. AcquireInv' /\ hpc'[t] = "acquire"
  BY AcquireStep DEF Looking
<1>6. probe'[t] = 1
  BY <1>1, AcquireSteps DEF Looking, AcquireInv
<1>7. Race(t, later2, met2)'
  <2>1. met2[t] \subseteq rivals'[t] /\ t \notin met2[t]
    BY <1>5 DEF AcquireInv
  <2>2. \A u \in met2[t] : ~Looking(u)'
    <3> SUFFICES ASSUME NEW u \in Users \ {t}, Owed(u)' # NoSlot, Looking(u)' PROVE FALSE
      OBVIOUS
    <3> QED BY <1>2, <1>3, LookersOweNothing DEF RegistryInv
  <2>3. Crowd(later2[t], met2[t], probe[t] - 1)'
    <3>1. Cardinality({}) >= probe'[t] - 1
      BY <1>6, FS_EmptySet
    <3> QED BY <3>1 DEF Crowd
  <2> QED BY <2>1, <2>2, <2>3 DEF Race
<1>8. ASSUME NEW s \in Users \ {t}, Looking(s)' PROVE Race(s, later2, met2)'
  <2>1. Looking(s) /\ Race(s, later, met) /\ probe'[s] = probe[s] /\ rivals'[s] = rivals[s]
        /\ later2[s] = later[s] \union {t} /\ met2[s] = met[s]
    BY <1>3, <1>8 DEF Races
  <2>2. \A k \in Nat : Crowd(later[s], met[s], k) => Crowd(later2[s], met2[s], k)'
    <3> SUFFICES ASSUME NEW k \in Nat, Crowd(later[s], met[s], k)
                 PROVE  Crowd(later2[s], met2[s], k)'
      OBVIOUS
    <3>1. \A u \in met[s] : Owed(u)' = Owed(u) \/ Owed(u)' = NoSlot
      BY <1>2
    <3> QED BY <2>1, <3>1, CrowdKept
  <2>3. Crowd(later2[s], met2[s], probe[s] - 1)'
    <3>1. PICK k \in Nat : k = probe[s] - 1
      BY <2>1, HazardAssumption DEF Looking, TypeOK, Slots
    <3>2. Crowd(later2[s], met2[s], k)'
      BY <2>1, <2>2, <3>1 DEF Race
    <3> QED BY <2>1, <3>1, <3>2 DEF Crowd
  <2>4. ASSUME NEW u \in later2[s], Owed(u)' # NoSlot PROVE Crowd(later2[s], met2[s], Owed(u))'
    <3>1. u # t /\ u \in later[s]
      BY <1>4, <2>1, <2>4
    <3>2. PICK k \in Nat : k = Owed(u)
      BY OwedType, HazardAssumption DEF Slots, NoSlot
    <3>3. k = Owed(u)'
      BY <1>2, <2>4, <3>2
    <3>4. Crowd(later2[s], met2[s], k)'
      BY <2>1, <2>2, <2>4, <3>1, <3>2, <3>3 DEF Race
    <3> QED BY <3>3, <3>4 DEF Crowd
  <2>5. \A u \in Users \ {s} : Owed(u)' # NoSlot => u \in met2[s]
    BY <1>2, <2>1 DEF Race
  <2>6. \A u \in met2[s] : Looking(u)' => u \in later2[s]
    BY <1>3, <2>1 DEF Race
  <2>7. ASSUME NEW u \in later2[s], Looking(u)'
        PROVE  later2[u] \subseteq later2[s] /\ met2[u] \subseteq met2[s]
    <3>1. CASE u = t
      <4>1. Owed(s)' = NoSlot
        BY <1>2, <2>1, LookersOweNothing DEF RegistryInv
      <4> QED BY <2>5, <3>1, <4>1
    <3>2. CASE u # t
      BY <1>3, <2>1, <2>7, <3>2 DEF Race
    <3> QED BY <3>1, <3>2
  <2>8. met2[s] \subseteq rivals'[s] /\ s \notin met2[s]
    BY <2>1 DEF Race
  <2> QED BY <2>3, <2>4, <2>5, <2>6, <2>7, <2>8 DEF Race
<1> QED BY <1>7, <1>8 DEF Races

(* Every step keeps the race: it has a history after the step, too.        *)
LEMMA RaceStep ==
  ASSUME IsFiniteSet(Users), TypeOK, RegistryInv, UseInv, AcquireInv, RaceInv,
         NEW t \in Users, Step(t)
  PROVE  RaceInv'
<1>1. PICK later, met \in [Users -> SUBSET Users] : Races(later, met)
  BY DEF RaceInv
<1>2. CASE TryAcquire(t) /\ ~inUse[probe[t]]
  <2> DEFINE met2 == [u \in Users |-> met[u] \union {t}]
  <2>1. met2 \in [Users -> SUBSET Users] /\ \A u \in Users : met2[u] = met[u] \union {t}
    OBVIOUS
  <2> HIDE DEF met2
  <2>2. PICK m \in [Users -> SUBSET Users] : \A u \in Users : m[u] = met[u] \union {t}
    BY <2>1
  <2>3. Races(later, m)'
    BY <1>1, <1>2, <2>2, RaceTake
  <2> QED BY <2>3 DEF RaceInv
<1>3. CASE ~(TryAcquire(t) /\ ~inUse[probe[t]]) /\ (Looking(t)' => Looking(t))
  <2>1. Races(later, met)'
    BY <1>1, <1>3, RaceStill
  <2> QED BY <2>1 DEF RaceInv
<1>4. CASE ~Looking(t) /\ Looking(t)'
  <2>1. PICK owing \in SUBSET Users : owing = {u \in Users \ {t} : Owed(u)' # NoSlot}
    OBVIOUS
  <2>2. PICK later2 \in [Users -> SUBSET Users] :
          later2[t] = {} /\ \A u \in Users \ {t} : later2[u] = later[u] \union {t}
    <3>1. [u \in Users |-> IF u = t THEN {} ELSE later[u] \union {t}] \in [Users -> SUBSET Users]
      OBVIOUS
    <3> QED BY <3>1
  <2>3. PICK met2 \in [Users -> SUBSET Users] :
          met2[t] = owing /\ \A u \in Users \ {t} : met2[u] = met[u]
    <3>1. [u \in Users |-> IF u = t THEN owing ELSE met[u]] \in [Users -> SUBSET Users]
      OBVIOUS
    <3> QED BY <3>1
  <2>4. Races(later2, met2)'
    BY <1>1, <1>4, <2>1, <2>2, <2>3, RaceBegin
  <2> QED BY <2>4 DEF RaceInv
<1> QED BY <1>2, <1>3, <1>4

(* Every step keeps that who failed has had enough rivals.                 *)
LEMMA FailStep ==
  ASSUME IsFiniteSet(Users), TypeOK, RegistryInv, UseInv, AcquireInv, RaceInv,
         ExhaustedByGuards, NEW t \in Users, Step(t)
  PROVE  ExhaustedByGuards'
<1> SUFFICES ASSUME NEW s \in Users, hpc'[s] = "failed" PROVE Cardinality(rivals'[s]) >= NSlots
  BY DEF ExhaustedByGuards
<1>1. CASE hpc[s] = "failed" /\ rivals'[s] = rivals[s]
  BY <1>1 DEF ExhaustedByGuards
<1>2. CASE Looking(s) /\ probe[s] = NSlots /\ inUse[probe[s]] /\ rivals'[s] = rivals[s]
  <2>1. PICK later, met \in [Users -> SUBSET Users] : Races(later, met)
    BY DEF RaceInv
  <2>2. Race(s, later, met)
    BY <1>2, <2>1 DEF Races
  <2>3. Crowd(later[s], met[s], NSlots)
    BY <1>2, <2>2, Passing
  <2>4. PICK S \in SUBSET met[s] : Cardinality(S) >= NSlots
    BY <2>3 DEF Crowd
  <2>5. S \in SUBSET rivals[s] /\ rivals[s] \in SUBSET Users
    BY <2>2 DEF Race, TypeOK
  <2>6. IsFiniteSet(rivals[s])
    BY <2>5, FS_Subset
  <2>7. Cardinality(S) <= Cardinality(rivals[s])
    BY <2>5, <2>6, FS_Subset
  <2>8. IsFiniteSet(S) /\ Cardinality(S) \in Nat /\ Cardinality(rivals[s]) \in Nat
    BY <2>5, <2>6, FS_Subset, FS_CardinalityType
  <2> QED BY <1>2, <2>4, <2>7, <2>8, HazardAssumption
<1>3. CASE TryAcquire(t) /\ ~inUse[probe[t]]
  <2>1. s # t /\ hpc[s] = "failed" /\ rivals'[s] = rivals[s]
    BY <1>3, TakeEffect
  <2> QED BY <1>1, <2>1
<1>4. CASE ~(TryAcquire(t) /\ ~inUse[probe[t]])
  <2>1. CASE s = t
    BY <1>1, <1>2, <1>4, <2>1, AcquireSteps
  <2>2. CASE s # t
    BY <1>1, <1>4, <2>2, AcquireSteps
  <2> QED BY <2>1, <2>2
<1> QED BY <1>3, <1>4

(* The inductive invariant of acquire. *)
RivalInv == UseInv /\ AcquireInv /\ RaceInv /\ ExhaustedByGuards

(* acquire fails only if at least as many other guards as there are slots  *)
(* had one while it looked (src/src/hazard.rs:63-79), in whatever order    *)
(* slots are taken and released around its loop, and whether the guards    *)
(* are those of other threads or of its own, as in the test                *)
(* slots_exhausted_returns_none (src/src/hazard.rs:238-245).               *)
THEOREM ExhaustedTheorem == ASSUME IsFiniteSet(Users) PROVE Spec => []ExhaustedByGuards
<1>1. Init => RivalInv
  <2> SUFFICES ASSUME Init PROVE RivalInv
    OBVIOUS
  <2>1. (\A t \in Users : hpc[t] = "none") /\ \A i \in Slots : ~inUse[i]
    BY DEF Init
  <2>2. [t \in Users |-> {}] \in [Users -> SUBSET Users]
    OBVIOUS
  <2>3. RaceInv
    BY <2>1, <2>2 DEF RaceInv, Races, Looking
  <2> QED BY <2>1, <2>3 DEF RivalInv, UseInv, AcquireInv, ExhaustedByGuards
<1>2. TypeOK /\ RegistryInv /\ RivalInv /\ [Next]_registryVars => RivalInv'
  <2> SUFFICES ASSUME TypeOK, RegistryInv, RivalInv, [Next]_registryVars PROVE RivalInv'
    OBVIOUS
  <2>1. ASSUME NEW t \in Users, Step(t) PROVE RivalInv'
    BY <2>1, UseStep, AcquireStep, RaceStep, FailStep DEF RivalInv
  <2>2. CASE UNCHANGED registryVars
    <3>1. UNCHANGED <<inUse, pending, hpc, slot, probe, rivals>>
      BY <2>2 DEF registryVars
    <3>2. (UseInv /\ AcquireInv /\ ExhaustedByGuards)'
      BY <3>1 DEF RivalInv, UseInv, AcquireInv, ExhaustedByGuards, Owed
    <3>3. RaceInv'
      BY <3>1 DEF RivalInv, RaceInv, Races, Race, Crowd, Looking, Owed
    <3> QED BY <3>2, <3>3 DEF RivalInv
  <2> QED BY <2>1, <2>2 DEF Next
<1>3. RivalInv => ExhaustedByGuards
  BY DEF RivalInv
<1> QED BY <1>1, <1>2, <1>3, TypeCorrect, RegistryInvariant, PTL DEF Spec

(* Nobody is a rival of its own. *)
NotOwnRival == \A t \in Users : t \notin rivals[t]

(* A step of t that takes no slot does not make it a rival of its own. *)
LEMMA OwnRival ==
  ASSUME TypeOK, NEW t \in Users, Step(t), t \notin rivals[t],
         ~(TryAcquire(t) /\ ~inUse[probe[t]])
  PROVE  t \notin rivals'[t]
<1>1. CASE BeginAcquire(t) \/ GiveUp(t)
  BY <1>1 DEF BeginAcquire, GiveUp, TypeOK
<1>2. CASE TryAcquire(t)
  <2>1. UNCHANGED rivals
    BY <1>2 DEF TryAcquire
  <2> QED BY <2>1
<1>3. CASE DropRelease(t) \/ ScanInUse(t) \/ ScanPtr(t) \/ AskPtr(t) \/ EndScan(t) \/ Flush(t)
  BY <1>3 DEF DropRelease, ScanInUse, ScanPtr, AskPtr, EndScan, Flush
<1>4. ASSUME NEW p, NEW to, Publishes(t, p, to) PROVE rivals' = rivals
  BY <1>4 DEF Publishes
<1>5. ASSUME NEW p, BeginLoop(t, p) PROVE rivals' = rivals
  BY <1>5 DEF BeginLoop
<1> QED BY <1>1, <1>2, <1>3, <1>4, <1>5, Publishing DEF Step, BeginScan, BeginAsk

(* A registry with a slot for every guard and scan that its threads ever   *)
(* have at a time never refuses one: this is what MAX_HAZARDS has to be    *)
(* chosen for (src/src/hazard.rs:28-30), and not for the threads.          *)
THEOREM NeverExhausted ==
  ASSUME IsFiniteSet(Users), Cardinality(Users) <= NSlots
  PROVE  Spec => [](\A t \in Users : hpc[t] # "failed")
<1>1. Init => NotOwnRival
  BY DEF Init, NotOwnRival
<1>2. TypeOK /\ NotOwnRival /\ [Next]_registryVars => NotOwnRival'
  <2> SUFFICES ASSUME TypeOK, NotOwnRival, [Next]_registryVars PROVE NotOwnRival'
    OBVIOUS
  <2>1. ASSUME NEW t \in Users, Step(t) PROVE NotOwnRival'
    <3>1. CASE TryAcquire(t) /\ ~inUse[probe[t]]
      BY <3>1 DEF TryAcquire, TakeSlot, NotOwnRival
    <3>2. CASE ~(TryAcquire(t) /\ ~inUse[probe[t]])
      <4>1. \A u \in Users \ {t} : rivals'[u] = rivals[u]
        BY <2>1, <3>2, AcquireSteps
      <4>2. t \notin rivals'[t]
        BY <2>1, <3>2, OwnRival DEF NotOwnRival
      <4> QED BY <4>1, <4>2 DEF NotOwnRival
    <3> QED BY <3>1, <3>2
  <2>2. CASE UNCHANGED registryVars
    BY <2>2 DEF registryVars, NotOwnRival
  <2> QED BY <2>1, <2>2 DEF Next
<1>3. TypeOK /\ NotOwnRival /\ ExhaustedByGuards => \A t \in Users : hpc[t] # "failed"
  <2> SUFFICES ASSUME TypeOK, NotOwnRival, ExhaustedByGuards, NEW t \in Users, hpc[t] = "failed"
               PROVE  FALSE
    OBVIOUS
  <2>1. rivals[t] \in SUBSET Users /\ t \notin rivals[t] /\ Cardinality(rivals[t]) >= NSlots
    BY DEF TypeOK, NotOwnRival, ExhaustedByGuards
  <2>2. IsFiniteSet(rivals[t]) /\ Cardinality(rivals[t]) <= Cardinality(Users)
        /\ (Cardinality(rivals[t]) = Cardinality(Users) => rivals[t] = Users)
    BY <2>1, FS_Subset
  <2>3. Cardinality(rivals[t]) \in Nat /\ Cardinality(Users) \in Nat
    BY <2>2, FS_CardinalityType
  <2>4. Cardinality(rivals[t]) = Cardinality(Users)
    BY <2>1, <2>2, <2>3, HazardAssumption
  <2> QED BY <2>1, <2>2, <2>4
<1> QED BY <1>1, <1>2, <1>3, TypeCorrect, ExhaustedTheorem, PTL DEF Spec

=============================================================================
