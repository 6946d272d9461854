---------------------- MODULE SafeTreiberStack_proofs ----------------------
(***************************************************************************)
(* The stack with hazard pointers, for any number of threads, addresses,   *)
(* slots and pushes and any threshold.  The registry below it brings its   *)
(* own theorems, cited as theorems of Reg; what the two stacks have in     *)
(* common is the list, and the facts about lists are cited from the proofs *)
(* of the plain stack.                                                     *)
(***************************************************************************)
EXTENDS SafeTreiberStack, FiniteSetTheorems, TLAPS

Reg == INSTANCE HazardRegistry_proofs WITH
  Pointers <- Addrs, Users <- Threads, ThreadOf <- [t \in Threads |-> t]

L == INSTANCE TreiberStack_proofs WITH Reuse <- TRUE, freed <- {}

(* The assumption of the registry, of which the registry's theorems are    *)
(* consequences.                                                           *)
LEMMA RegAssumption ==
  /\ NSlots \in Nat \ {0}
  /\ Null \notin Addrs
  /\ BufferSize \in Nat
BY StackAssumption

(* The assumption of the plain stack. *)
LEMMA ListAssumption ==
  /\ Null \notin Addrs
  /\ NoValue \notin Nat
  /\ TRUE \in BOOLEAN
  /\ MaxPushes \in Nat
BY StackAssumption

-----------------------------------------------------------------------------
(* Types. *)

(* A pointer that is not null leads to a node that has been given a value. *)
Stamped(p) == p = Null \/ value[p] # 0

StampInv ==
  /\ Stamped(head)
  /\ \A a \in Addrs : Stamped(next[a])
  /\ \A t \in Threads : Stamped(node[t]) /\ Stamped(after[t])

(* Every step keeps the types of the stack's own variables. *)
LEMMA StackTypeStep ==
  ASSUME StackTypeOK, StampInv, [Next]_vars PROVE StackTypeOK' /\ StampInv'
<1> USE StackAssumption DEF StackTypeOK, StampInv, Stamped, Goto, PushPCs, OwnerPCs,
                            listVars, nodeVars, poolVars, localVars
<1>1. ASSUME NEW t \in Threads, PushStart(t) PROVE StackTypeOK' /\ StampInv'
  <2>1. PICK a \in Addrs \ allocated :
          /\ allocated' = allocated \union {a}
          /\ value' = [value EXCEPT ![a] = pushes + 1]
          /\ next' = [next EXCEPT ![a] = Null]
          /\ node' = [node EXCEPT ![t] = a]
    BY <1>1 DEF PushStart
  <2>2. pushes' = pushes + 1 /\ pushes + 1 \in 1..MaxPushes
    BY <1>1 DEF PushStart
  <2>3. \A p \in Addrs : value[p] # 0 => value'[p] # 0
    BY <2>1, <2>2
  <2>4. StampInv'
    BY <1>1, <2>1, <2>2, <2>3 DEF PushStart
  <2> QED BY <1>1, <2>1, <2>2, <2>4 DEF PushStart
<1>2. ASSUME NEW t \in Threads, PushLoad(t) PROVE StackTypeOK' /\ StampInv'
  BY <1>2 DEF PushLoad
<1>3. ASSUME NEW t \in Threads, PushCas(t) PROVE StackTypeOK' /\ StampInv'
  <2>1. CASE head = after[t]
    <3>1. node[t] \in Addrs
      BY <1>3 DEF PushCas
    <3>2. <<node[t]>> \o chain \in Seq(Addrs)
      BY <3>1, L!Pushed, ListAssumption
    <3>3. /\ head' = node[t] /\ chain' = <<node[t]>> \o chain
          /\ node' = [node EXCEPT ![t] = Null] /\ after' = [after EXCEPT ![t] = Null]
          /\ pc' = [pc EXCEPT ![t] = "idle"]
          /\ UNCHANGED <<nodeVars, poolVars, got, pushes>>
      BY <1>3, <2>1 DEF PushCas
    <3> QED BY <3>1, <3>2, <3>3
  <2>2. CASE head # after[t]
    BY <1>3, <2>2 DEF PushCas
  <2> QED BY <2>1, <2>2
<1>4. ASSUME NEW t \in Threads, PopStart(t) PROVE StackTypeOK' /\ StampInv'
  BY <1>4 DEF PopStart
<1>5. ASSUME NEW t \in Threads, PopAcquire(t) PROVE StackTypeOK' /\ StampInv'
  <2>1. pc' = [pc EXCEPT ![t] = pc'[t]] /\ pc'[t] \in {"load", "panicked", "acquire"}
    BY <1>5 DEF PopAcquire
  <2> QED BY <1>5, <2>1 DEF PopAcquire
<1>6. ASSUME NEW t \in Threads, PopLoad(t) PROVE StackTypeOK' /\ StampInv'
  BY <1>6 DEF PopLoad
<1>7. ASSUME NEW t \in Threads, PopProtect(t) \/ PopVerify(t) \/ PopClear(t) \/ PopDropClear(t)
      PROVE  StackTypeOK' /\ StampInv'
  BY <1>7 DEF PopProtect, PopVerify, PopClear, PopDropClear
<1>8. ASSUME NEW t \in Threads, PopReadNext(t) PROVE StackTypeOK' /\ StampInv'
  BY <1>8 DEF PopReadNext
<1>9. ASSUME NEW t \in Threads, PopCas(t) PROVE StackTypeOK' /\ StampInv'
  <2>1. chain # <<>> => Tail(chain) \in Seq(Addrs)
    OBVIOUS
  <2>2. CASE head = node[t]
    BY <1>9, <2>1, <2>2 DEF PopCas
  <2>3. CASE head # node[t]
    BY <1>9, <2>3 DEF PopCas
  <2> QED BY <2>2, <2>3
<1>10. ASSUME NEW t \in Threads, PopReadValue(t) PROVE StackTypeOK' /\ StampInv'
  <2>1. value[node[t]] \in 1..MaxPushes
    <3>1. node[t] \in Addrs /\ node[t] # Null
      BY <1>10 DEF PopReadValue
    <3>2. value[node[t]] \in 0..MaxPushes /\ value[node[t]] # 0
      BY <3>1
    <3> QED BY <3>2
  <2> QED BY <1>10, <2>1 DEF PopReadValue
<1>11. ASSUME NEW t \in Threads, PopDropRelease(t) PROVE StackTypeOK' /\ StampInv'
  BY <1>11 DEF PopDropRelease
<1>12. ASSUME NEW t \in Threads, Retire(t) PROVE StackTypeOK' /\ StampInv'
  <2>1. /\ retired' = retired \union {node[t]} /\ node[t] \in Addrs
        /\ node' = [node EXCEPT ![t] = Null]
        /\ UNCHANGED <<listVars, nodeVars, open, after, pushes>>
    BY <1>12 DEF Retire
  <2>2. \/ lock' = t /\ pc' = [pc EXCEPT ![t] = "scan"] /\ got' = got
        \/ lock' = lock /\ pc' = [pc EXCEPT ![t] = "idle"] /\ got' = [got EXCEPT ![t] = NoValue]
    BY <1>12 DEF Retire
  <2>3. StampInv'
    BY <2>1
  <2>4. /\ pc' = [pc EXCEPT ![t] = pc'[t]] /\ pc'[t] \in {"scan", "idle"}
        /\ lock' \in Threads \union {NoThread}
        /\ got' \in [Threads -> (1..MaxPushes) \union {NoValue}]
    BY <2>2
  <2> QED BY <2>1, <2>3, <2>4
<1>13. ASSUME NEW t \in Threads, ForceReclaim(t) \/ Scan(t) \/ Reclaim(t) \/ Visible(t)
       PROVE  StackTypeOK' /\ StampInv'
  BY <1>13 DEF ForceReclaim, Scan, Reclaim, Visible
<1>14. CASE DropStack
  <2>1. /\ open' = FALSE /\ head' = Null /\ chain' = <<>> /\ retired' = {}
        /\ allocated' \in SUBSET Addrs
        /\ UNCHANGED <<next, value, lock, pc, localVars, pushes>>
    BY <1>14 DEF DropStack
  <2>2. <<>> \in Seq(Addrs)
    OBVIOUS
  <2> QED BY <2>1, <2>2
<1>15. CASE UNCHANGED vars
  BY <1>15 DEF vars
<1> QED
  BY <1>1, <1>2, <1>3, <1>4, <1>5, <1>6, <1>7, <1>8, <1>9, <1>10, <1>11, <1>12, <1>13, <1>14,
     <1>15 DEF Next, Step, Dropped

(* The stack's own variables keep their types, in every execution. *)
THEOREM StackTypes == Spec => [](StackTypeOK /\ StampInv)
<1>1. Init => StackTypeOK /\ StampInv
  BY StackAssumption DEF Init, StackTypeOK, StampInv, Stamped
<1> QED BY <1>1, StackTypeStep, PTL DEF Spec

-----------------------------------------------------------------------------
(* The registry. *)

(* The operators of the registry are the same under both of its names. *)
LEMMA SameRegistry ==
  /\ H!TypeOK <=> Reg!TypeOK
  /\ H!Init <=> Reg!Init
  /\ H!SnapshotComplete <=> Reg!SnapshotComplete
BY DEF H!TypeOK, Reg!TypeOK, H!Init, Reg!Init, H!SnapshotComplete, Reg!SnapshotComplete,
       H!Slots, Reg!Slots, H!NoSlot, Reg!NoSlot, H!Stores, Reg!Stores

(* What a thread does to the registry in a step of the stack. *)
RegistryStep(t) ==
  \/ H!BeginAcquire(t) \/ H!TryAcquire(t)
  \/ (\E p \in Addrs : H!Protect(t, p))
  \/ H!Clear(t) \/ H!DropClear(t) \/ H!DropRelease(t)
  \/ H!BeginScan(t) \/ H!ScanInUse(t) \/ H!ScanPtr(t) \/ H!EndScan(t)
  \/ H!Flush(t)

(* Every such step is a step of the registry. *)
LEMMA SameSteps ==
  ASSUME NEW t \in Threads, RegistryStep(t) PROVE Reg!Step(t)
<1> USE DEF H!Together, Reg!Together, H!Alone, Reg!Alone, H!Drained, Reg!Drained
<1>1. CASE H!BeginAcquire(t)
  BY <1>1 DEF H!BeginAcquire, Reg!BeginAcquire, H!Occupies, Reg!Occupies, H!NoSlot, Reg!NoSlot,
              Reg!Step
<1>2. CASE H!TryAcquire(t)
  BY <1>2 DEF H!TryAcquire, Reg!TryAcquire, H!TakeSlot, Reg!TakeSlot, Reg!Step
<1> USE DEF H!Store, Reg!Store, H!Performed, Reg!Performed, H!Publish, Reg!Publish
<1>3. ASSUME NEW p \in Addrs, H!Protect(t, p) PROVE Reg!Step(t)
  BY <1>3 DEF H!Protect, Reg!Protect, Reg!Step
<1>4. CASE H!Clear(t)
  BY <1>4 DEF H!Clear, Reg!Clear, Reg!Step
<1>5. CASE H!DropClear(t)
  BY <1>5 DEF H!DropClear, Reg!DropClear, H!DropStores, Reg!DropStores, Reg!Step
<1>6. CASE H!DropRelease(t)
  BY <1>6 DEF H!DropRelease, Reg!DropRelease, H!DropStores, Reg!DropStores, H!NoSlot, Reg!NoSlot,
              Reg!Step
<1>7. CASE H!BeginScan(t)
  BY <1>7 DEF H!BeginScan, Reg!BeginScan, H!BeginLoop, Reg!BeginLoop, Reg!Step
<1>8. CASE H!ScanInUse(t) \/ H!ScanPtr(t)
  <2>1. H!LoadsInUse(t) = Reg!LoadsInUse(t) /\ H!LoadsPtr(t) = Reg!LoadsPtr(t)
    BY DEF H!LoadsInUse, Reg!LoadsInUse, H!LoadsPtr, Reg!LoadsPtr, H!Loads, Reg!Loads,
           H!LastTo, Reg!LastTo
  <2> QED
    BY <1>8, <2>1 DEF H!ScanInUse, Reg!ScanInUse, H!ScanPtr, Reg!ScanPtr, H!NextSlot, Reg!NextSlot,
                      Reg!Step
<1>9. CASE H!EndScan(t)
  BY <1>9 DEF H!EndScan, Reg!EndScan, Reg!Step
<1>10. CASE H!Flush(t)
  BY <1>10 DEF H!Flush, Reg!Flush, Reg!Step
<1> QED
  BY <1>1, <1>2, <1>3, <1>4, <1>5, <1>6, <1>7, <1>8, <1>9, <1>10 DEF RegistryStep

(* A step of the stack is such a step, or leaves the registry alone. *)
LEMMA StepRegistry ==
  ASSUME StackTypeOK, NEW t \in Threads, Step(t)
  PROVE  RegistryStep(t) \/ UNCHANGED registryVars
<1>1. CASE PopProtect(t)
  <2>1. node[t] \in Addrs
    BY <1>1 DEF PopProtect, StackTypeOK
  <2> QED BY <1>1, <2>1 DEF PopProtect, RegistryStep
<1>2. CASE PopStart(t) \/ PopAcquire(t) \/ PopClear(t) \/ PopDropClear(t) \/ PopDropRelease(t)
  BY <1>2 DEF PopStart, PopAcquire, PopClear, PopDropClear, PopDropRelease, RegistryStep
<1>3. CASE Retire(t) \/ ForceReclaim(t) \/ Scan(t) \/ Reclaim(t) \/ Visible(t)
  BY <1>3 DEF Retire, ForceReclaim, Scan, Reclaim, Visible, RegistryStep
<1>4. CASE PushStart(t) \/ PushLoad(t) \/ PushCas(t) \/ PopLoad(t) \/ PopVerify(t)
           \/ PopReadNext(t) \/ PopCas(t) \/ PopReadValue(t)
  BY <1>4 DEF PushStart, PushLoad, PushCas, PopLoad, PopVerify, PopReadNext, PopCas, PopReadValue
<1> QED BY <1>1, <1>2, <1>3, <1>4 DEF Step

(* The stack uses its registry as the registry's own specification allows. *)
THEOREM RegistryUsed == Spec => Reg!Spec
<1>1. Init => Reg!Init
  BY SameRegistry DEF Init
<1>2. StackTypeOK /\ [Next]_vars => [Reg!Next]_Reg!registryVars
  <2> SUFFICES ASSUME StackTypeOK, [Next]_vars PROVE [Reg!Next]_Reg!registryVars
    OBVIOUS
  <2>1. ASSUME NEW t \in Threads, Step(t) PROVE [Reg!Next]_Reg!registryVars
    BY <2>1, StepRegistry, SameSteps DEF Reg!Next, registryVars, Reg!registryVars
  <2>2. CASE DropStack
    BY <2>2 DEF DropStack, registryVars, Reg!registryVars
  <2>3. CASE UNCHANGED vars
    BY <2>3 DEF vars, registryVars, Reg!registryVars
  <2> QED BY <2>1, <2>2, <2>3 DEF Next, Dropped
<1> QED BY <1>1, <1>2, StackTypes, PTL DEF Spec, Reg!Spec

(* Every variable keeps its type. *)
THEOREM TypeCorrect == Spec => []TypeOK
<1>1. Reg!Spec => []Reg!TypeOK
  BY Reg!TypeCorrect, RegAssumption
<1>2. StackTypeOK /\ Reg!TypeOK => TypeOK
  BY SameRegistry DEF TypeOK
<1> QED BY <1>1, <1>2, StackTypes, RegistryUsed, PTL

(* What a scan has collected holds what was protected when it began and    *)
(* still is.                                                               *)
THEOREM ScanTheorem == Spec => []H!SnapshotComplete
<1>1. Reg!Spec => []Reg!SnapshotComplete
  BY Reg!SnapshotTheorem, RegAssumption
<1>2. Reg!SnapshotComplete => H!SnapshotComplete
  BY SameRegistry
<1> QED BY <1>1, <1>2, RegistryUsed, PTL

(* With a slot for every thread no pop panics for want of one (the expect  *)
(* of src/src/safe_treiber.rs:80).                                         *)
THEOREM NeverPanics ==
  ASSUME IsFiniteSet(Threads), Cardinality(Threads) <= NSlots
  PROVE  Spec => [](\A t \in Threads : pc[t] # "panicked")
<1> DEFINE Granted == \A t \in Threads : hpc[t] # "failed"
           Calm == \A t \in Threads : pc[t] # "panicked"
<1>1. Reg!Spec => []Granted
  <2>1. Reg!IsFiniteSet(Threads)
    BY DEF IsFiniteSet, Reg!IsFiniteSet
  <2>2. Reg!Cardinality(Threads) = Cardinality(Threads)
    BY DEF Cardinality, Reg!Cardinality
  <2> QED BY <2>1, <2>2, Reg!NeverExhausted, RegAssumption
<1>2. Init => Calm
  BY DEF Init
<1>3. StackTypeOK /\ Granted' /\ Calm /\ [Next]_vars => Calm'
  <2> SUFFICES ASSUME StackTypeOK, Granted', Calm, [Next]_vars PROVE Calm'
    OBVIOUS
  <2>1. ASSUME NEW t \in Threads, Step(t) PROVE Calm'
    <3> USE <2>1 DEF Goto, StackTypeOK
    <3>1. CASE PushStart(t) \/ PushLoad(t) \/ PushCas(t) \/ PopStart(t) \/ PopLoad(t)
      BY <3>1 DEF PushStart, PushLoad, PushCas, PopStart, PopLoad
    <3>2. CASE PopAcquire(t)
      BY <3>2 DEF PopAcquire
    <3>3. CASE PopProtect(t) \/ PopVerify(t) \/ PopReadNext(t) \/ PopCas(t) \/ PopReadValue(t)
      BY <3>3 DEF PopProtect, PopVerify, PopReadNext, PopCas, PopReadValue
    <3>4. CASE PopClear(t) \/ PopDropClear(t) \/ PopDropRelease(t) \/ Retire(t)
      BY <3>4 DEF PopClear, PopDropClear, PopDropRelease, Retire
    <3>5. CASE ForceReclaim(t) \/ Scan(t) \/ Reclaim(t) \/ Visible(t)
      BY <3>5 DEF ForceReclaim, Scan, Reclaim, Visible, localVars
    <3> QED BY <3>1, <3>2, <3>3, <3>4, <3>5 DEF Step
  <2>2. CASE DropStack
    BY <2>2 DEF DropStack, localVars
  <2>3. CASE UNCHANGED vars
    BY <2>3 DEF vars, localVars
  <2> QED BY <2>1, <2>2, <2>3 DEF Next, Dropped
<1>4. Calm <=> \A t \in Threads : pc[t] # "panicked"
  OBVIOUS
<1> HIDE DEF Granted, Calm
<1> QED BY <1>1, <1>2, <1>3, <1>4, StackTypes, RegistryUsed, PTL DEF Spec

(* What a thread has protected, and what its own loop over the slots is at,*)
(* changes in its own steps only; and a step of u takes no other thread    *)
(* off a loop's list of those that have kept their protections.            *)
LEMMA StepFrame ==
  ASSUME StackTypeOK, H!TypeOK, NEW u \in Threads, Step(u)
  PROVE  \A t \in Threads \ {u} :
           /\ published'[t] = published[t] /\ pending'[t] = pending[t]
           /\ hpc'[t] = hpc[t] /\ asked'[t] = asked[t]
           /\ \A s \in Threads \ {u} : t \in stable[s] => t \in stable'[s]
<1> USE DEF H!TypeOK, H!Store, H!Publish
<1>1. CASE UNCHANGED registryVars
  BY <1>1 DEF registryVars
<1>2. CASE H!BeginAcquire(u)
  BY <1>2 DEF H!BeginAcquire
<1>3. CASE H!TryAcquire(u)
  BY <1>3 DEF H!TryAcquire, H!TakeSlot
<1>4. ASSUME NEW p \in Addrs, H!Protect(u, p)
      PROVE  /\ \A t \in Threads \ {u} : published'[t] = published[t] /\ pending'[t] = pending[t]
             /\ UNCHANGED <<hpc, asked>>
             /\ \A t \in Threads \ {u}, s \in Threads \ {u} : t \in stable[s] => t \in stable'[s]
  BY <1>4 DEF H!Protect
<1>5. CASE H!Clear(u) \/ H!DropClear(u)
  <2>1. \A t \in Threads \ {u} : published'[t] = published[t] /\ pending'[t] = pending[t]
    BY <1>5 DEF H!Clear, H!DropClear
  <2>2. asked' = asked /\ \A t \in Threads \ {u} : hpc'[t] = hpc[t]
    BY <1>5 DEF H!Clear, H!DropClear
  <2>3. \A t \in Threads \ {u}, s \in Threads \ {u} : t \in stable[s] => t \in stable'[s]
    BY <1>5 DEF H!Clear, H!DropClear
  <2> QED BY <2>1, <2>2, <2>3
<1>6. CASE H!DropRelease(u)
  BY <1>6 DEF H!DropRelease
<1>7. CASE H!BeginScan(u)
  BY <1>7 DEF H!BeginScan, H!BeginLoop
<1>8. CASE H!ScanInUse(u) \/ H!ScanPtr(u)
  BY <1>8 DEF H!ScanInUse, H!ScanPtr
<1>9. CASE H!EndScan(u)
  BY <1>9 DEF H!EndScan
<1>10. CASE H!Flush(u)
  BY <1>10 DEF H!Flush
<1> QED
  BY <1>1, <1>2, <1>3, <1>4, <1>5, <1>6, <1>7, <1>8, <1>9, <1>10, StepRegistry DEF RegistryStep

-----------------------------------------------------------------------------
(* Where no verification overtakes the protection. *)

(* A machine that performs every store at once has nothing to overtake. *)
THEOREM StoresAtOnce == ASSUME BufferSize = 0 PROVE Spec => InOrder
<1>1. Reg!Spec => []Reg!TypeOK /\ []Reg!RegistryInv
  BY Reg!TypeCorrect, Reg!RegistryInvariant, RegAssumption, PTL
<1>2. Reg!TypeOK /\ Reg!RegistryInv => [\A t \in Threads : ~Overtakes(t)]_vars
  <2> SUFFICES ASSUME Reg!TypeOK, Reg!RegistryInv, NEW t \in Threads PROVE Drained(t)
    BY DEF Overtakes
  <2>1. Len(pending[t]) <= 0
    BY DEF Reg!RegistryInv, Reg!BufferInv, Reg!Buffer
  <2>2. pending[t] \in Seq(Reg!Stores)
    BY DEF Reg!TypeOK
  <2>3. pending[t] = <<>>
    BY <2>1, <2>2
  <2> QED BY <2>3 DEF Drained
<1> QED BY <1>1, <1>2, RegistryUsed, PTL DEF InOrder

(* A load that waits for the store overtakes nothing. *)
THEOREM LoadWaits == ASSUME PromptProtect PROVE Spec => InOrder
<1>1. [\A t \in Threads : ~Overtakes(t)]_vars
  BY DEF Overtakes, PopVerify
<1> QED BY <1>1, PTL DEF InOrder

-----------------------------------------------------------------------------
(* Safety. *)

(* A thread that answers for a node: the push that made it, the pop that   *)
(* won it.                                                                 *)
Holder(t) == Pushing(t) \/ Owning(t)

(* Every allocated node is on the stack, in the retired list or with one   *)
(* thread; nothing else is, and no two of these have the same node.        *)
OwnInv ==
  /\ \A a \in allocated :
       a \in L!Nodes(chain) \/ a \in retired \/ \E t \in Threads : Holder(t) /\ node[t] = a
  /\ L!Nodes(chain) \subseteq allocated \ retired
  /\ retired \subseteq allocated
  /\ \A t \in Threads :
       Holder(t) => node[t] \in allocated /\ node[t] \notin retired \union L!Nodes(chain)
  /\ \A t, u \in Threads : Holder(t) /\ Holder(u) /\ node[t] = node[u] => t = u
  /\ L!Distinct(chain)

(* Memory spells the stack out, and what a compare-and-swap is about to    *)
(* link is still what its node says.                                       *)
LinkInv ==
  /\ L!Linked(head, next, chain)
  /\ \A t \in Threads : pc[t] \in {"pushCas", "popCas"} => next[node[t]] = after[t]

(* The thread that scans is the one that holds the mutex.                  *)
LockInv ==
  \A t \in Threads :
    /\ pc[t] = "scan" <=> lock = t
    /\ pc[t] = "scan" => hpc[t] \in {"scan", "scanptr", "scanned"} /\ asked[t] = Null

Verified(t) == pc[t] \in {"readNext", "popCas"}

(* A node whose protection has been verified is allocated, is not a node   *)
(* that is being pushed again, and no scan that could free it missed the   *)
(* protection: the scan began after the store was visible, or the node was *)
(* not retired when it began.                                              *)
Guarded(t) ==
  /\ pc[t] = "verify" => published[t] = node[t]
  /\ Verified(t) =>
       /\ published[t] = node[t] /\ pending[t] = <<>>
       /\ node[t] \in allocated
       /\ \A u \in Threads : Pushing(u) => node[u] # node[t]
       /\ \A s \in Threads : pc[s] = "scan" => t \in stable[s] \/ node[t] \notin retired

GuardInv == \A t \in Threads : Guarded(t)

SafeInv == OwnInv /\ LinkInv /\ LockInv /\ GuardInv

(* The mutex. *)
LEMMA LockStep ==
  ASSUME StackTypeOK, H!TypeOK, LockInv, NEW u \in Threads, Step(u) PROVE LockInv'
<1> USE StackAssumption DEF StackTypeOK, H!TypeOK, Goto
<1>1. \A t \in Threads \ {u} : hpc'[t] = hpc[t] /\ asked'[t] = asked[t]
  BY StepFrame
<1>2. ASSUME \A t \in Threads \ {u} : pc'[t] = pc[t], pc[u] # "scan", pc'[u] # "scan", lock' = lock
      PROVE  LockInv'
  BY <1>1, <1>2 DEF LockInv
<1>3. CASE PushStart(u) \/ PushLoad(u) \/ PushCas(u)
  BY <1>2, <1>3 DEF PushStart, PushLoad, PushCas, poolVars
<1>4. CASE PopStart(u) \/ PopLoad(u) \/ PopProtect(u) \/ PopVerify(u) \/ PopReadNext(u)
           \/ PopCas(u) \/ PopReadValue(u)
  BY <1>2, <1>4 DEF PopStart, PopLoad, PopProtect, PopVerify, PopReadNext, PopCas, PopReadValue,
                    poolVars
<1>5. CASE PopAcquire(u)
  <2>1. pc' = [pc EXCEPT ![u] = pc'[u]] /\ pc'[u] \in {"load", "panicked", "acquire"}
    BY <1>5 DEF PopAcquire
  <2> QED BY <1>2, <1>5, <2>1 DEF PopAcquire, poolVars
<1>6. CASE PopClear(u) \/ PopDropClear(u) \/ PopDropRelease(u)
  BY <1>2, <1>6 DEF PopClear, PopDropClear, PopDropRelease, poolVars
<1>7. ASSUME lock = NoThread, lock' = u, pc' = [pc EXCEPT ![u] = "scan"], H!BeginScan(u)
      PROVE  LockInv'
  BY <1>1, <1>7 DEF LockInv, H!BeginScan, H!BeginLoop
<1>8. CASE Retire(u)
  <2>1. CASE Cardinality(retired') >= Threshold
    BY <1>7, <1>8, <2>1 DEF Retire
  <2>2. CASE ~(Cardinality(retired') >= Threshold)
    BY <1>2, <1>8, <2>2 DEF Retire
  <2> QED BY <2>1, <2>2
<1>9. CASE ForceReclaim(u)
  BY <1>7, <1>9 DEF ForceReclaim
<1>10. CASE Scan(u)
  <2>1. pc' = pc /\ lock' = lock /\ pc[u] = "scan"
    BY <1>10 DEF Scan, poolVars
  <2>2. hpc'[u] \in {"scan", "scanptr", "scanned"} /\ asked'[u] = asked[u]
    BY <1>10 DEF Scan, H!ScanInUse, H!ScanPtr, H!NextSlot
  <2> QED BY <1>1, <2>1, <2>2 DEF LockInv
<1>11. CASE Reclaim(u)
  BY <1>1, <1>11 DEF Reclaim, LockInv
<1>12. CASE Visible(u)
  BY <1>12 DEF Visible, H!Flush, LockInv, poolVars
<1> QED
  BY <1>3, <1>4, <1>5, <1>6, <1>8, <1>9, <1>10, <1>11, <1>12 DEF Step

(* A step of u leaves the locals of the other threads alone. *)
LEMMA LocalFrame ==
  ASSUME StackTypeOK, NEW u \in Threads, Step(u), NEW t \in Threads \ {u}
  PROVE  pc'[t] = pc[t] /\ node'[t] = node[t] /\ after'[t] = after[t] /\ got'[t] = got[t]
<1> USE DEF StackTypeOK, Goto, localVars
<1>1. CASE PushStart(u) \/ PushLoad(u) \/ PushCas(u)
  BY <1>1 DEF PushStart, PushLoad, PushCas
<1>2. CASE PopStart(u) \/ PopAcquire(u) \/ PopLoad(u) \/ PopProtect(u) \/ PopVerify(u)
           \/ PopReadNext(u) \/ PopCas(u) \/ PopReadValue(u)
  BY <1>2 DEF PopStart, PopAcquire, PopLoad, PopProtect, PopVerify, PopReadNext, PopCas,
              PopReadValue
<1>3. CASE PopClear(u) \/ PopDropClear(u) \/ PopDropRelease(u)
  BY <1>3 DEF PopClear, PopDropClear, PopDropRelease
<1>4. CASE Retire(u) \/ ForceReclaim(u) \/ Scan(u) \/ Reclaim(u) \/ Visible(u)
  BY <1>4 DEF Retire, ForceReclaim, Scan, Reclaim, Visible
<1> QED BY <1>1, <1>2, <1>3, <1>4 DEF Step

(* A step of u does not harm what another thread t has verified: a node    *)
(* given to a push is not allocated, and a scan frees nothing it has seen. *)
LEMMA GuardOthers ==
  ASSUME StackTypeOK, H!TypeOK, H!SnapshotComplete, LockInv, GuardInv,
         NEW u \in Threads, Step(u), NEW t \in Threads \ {u}
  PROVE  Guarded(t)'
<1> USE StackAssumption
<1>1. /\ pc'[t] = pc[t] /\ node'[t] = node[t]
      /\ published'[t] = published[t] /\ pending'[t] = pending[t]
  BY LocalFrame, StepFrame
<1>2. \A v \in Threads \ {u} : pc'[v] = pc[v] /\ node'[v] = node[v]
  BY LocalFrame
<1>3. \A s \in Threads \ {u} : t \in stable[s] => t \in stable'[s]
  BY StepFrame
<1>4. pc'[t] = "verify" => published'[t] = node'[t]
  BY <1>1 DEF GuardInv, Guarded
<1>5. SUFFICES ASSUME Verified(t) PROVE Guarded(t)'
  BY <1>1, <1>4 DEF Guarded, Verified
<1>6. /\ published[t] = node[t] /\ pending[t] = <<>> /\ node[t] \in allocated
      /\ \A v \in Threads : Pushing(v) => node[v] # node[t]
      /\ \A s \in Threads : pc[s] = "scan" => t \in stable[s] \/ node[t] \notin retired
  BY <1>5 DEF GuardInv, Guarded
<1>7. node[t] \in Addrs /\ node[t] # Null
  BY <1>6 DEF StackTypeOK
<1>8. SUFFICES /\ node[t] \in allocated'
               /\ Pushing(u)' => node'[u] # node[t]
               /\ \A s \in Threads : pc'[s] = "scan" => t \in stable'[s] \/ node[t] \notin retired'
  BY <1>1, <1>2, <1>4, <1>6 DEF Guarded, Pushing
(* A step that neither starts a push nor a scan, and frees nothing. *)
<1>9. ASSUME node[t] \in allocated', retired' = retired,
             Pushing(u)' => node'[u] # node[t], pc'[u] = "scan" => t \in stable'[u]
      PROVE  /\ node[t] \in allocated'
             /\ Pushing(u)' => node'[u] # node[t]
             /\ \A s \in Threads : pc'[s] = "scan" => t \in stable'[s] \/ node[t] \notin retired'
  BY <1>2, <1>3, <1>6, <1>9
<1> USE DEF StackTypeOK, H!TypeOK, Goto, Pushing, PushPCs
<1>10. CASE PushStart(u)
  <2>1. PICK a \in Addrs \ allocated :
          allocated' = allocated \union {a} /\ node' = [node EXCEPT ![u] = a]
    BY <1>10 DEF PushStart
  <2>2. pc'[u] = "pushLoad" /\ retired' = retired
    BY <1>10 DEF PushStart, poolVars
  <2> QED BY <1>6, <1>9, <2>1, <2>2
<1>11. CASE PushLoad(u) \/ PushCas(u)
  <2>1. pc[u] \in PushPCs /\ (Pushing(u)' => node'[u] = node[u])
    BY <1>11 DEF PushLoad, PushCas
  <2>2. allocated' = allocated /\ retired' = retired /\ pc'[u] # "scan"
    BY <1>11 DEF PushLoad, PushCas, nodeVars, poolVars
  <2> QED BY <1>6, <1>9, <2>1, <2>2
<1>12. CASE PopStart(u) \/ PopLoad(u) \/ PopProtect(u) \/ PopVerify(u) \/ PopReadNext(u)
            \/ PopCas(u) \/ PopReadValue(u) \/ PopClear(u) \/ PopDropClear(u)
            \/ PopDropRelease(u)
  <2>1. pc'[u] \notin PushPCs \union {"scan"}
    BY <1>12 DEF PopStart, PopLoad, PopProtect, PopVerify, PopReadNext, PopCas, PopReadValue,
                 PopClear, PopDropClear, PopDropRelease
  <2>2. allocated' = allocated /\ retired' = retired
    BY <1>12 DEF PopStart, PopLoad, PopProtect, PopVerify, PopReadNext, PopCas, PopReadValue,
                 PopClear, PopDropClear, PopDropRelease, nodeVars, poolVars
  <2> QED BY <1>6, <1>9, <2>1, <2>2
<1>13. CASE PopAcquire(u)
  <2>1. pc' = [pc EXCEPT ![u] = pc'[u]] /\ pc'[u] \in {"load", "panicked", "acquire"}
    BY <1>13 DEF PopAcquire
  <2>2. allocated' = allocated /\ retired' = retired
    BY <1>13 DEF PopAcquire, nodeVars, poolVars
  <2> QED BY <1>6, <1>9, <2>1, <2>2
(* A scan that begins now sees the protection, and nobody else scans. *)
<1>14. ASSUME H!BeginScan(u) PROVE t \in stable'[u]
  BY <1>6, <1>7, <1>14 DEF H!BeginScan, H!BeginLoop
<1>15. ASSUME lock = NoThread, pc'[u] = "scan" => t \in stable'[u]
       PROVE  \A s \in Threads : pc'[s] = "scan" => t \in stable'[s]
  BY <1>2, <1>15 DEF LockInv
<1>16. CASE Retire(u)
  <2>1. lock = NoThread /\ allocated' = allocated
    BY <1>16 DEF Retire, nodeVars
  <2>2. pc'[u] \in {"scan", "idle"}
    BY <1>16 DEF Retire
  <2>3. pc'[u] = "scan" => t \in stable'[u]
    BY <1>14, <1>16 DEF Retire
  <2> QED BY <1>6, <1>15, <2>1, <2>2, <2>3
<1>17. CASE ForceReclaim(u)
  BY <1>6, <1>9, <1>14, <1>17 DEF ForceReclaim, nodeVars
<1>18. CASE Scan(u)
  <2>1. stable' = stable /\ UNCHANGED <<pc, allocated, retired, node>> /\ pc[u] = "scan"
    BY <1>18 DEF Scan, H!ScanInUse, H!ScanPtr, nodeVars, poolVars, localVars
  <2> QED BY <1>6, <2>1
<1>19. CASE Reclaim(u)
  <2>1. /\ allocated' = allocated \ (retired \ seen[u])
        /\ retired' = retired \intersect seen[u]
        /\ pc' = [pc EXCEPT ![u] = "idle"]
        /\ pc[u] = "scan"
    BY <1>19 DEF Reclaim
  <2>2. hpc[u] = "scanned" /\ asked[u] = Null
    BY <1>19, <2>1 DEF Reclaim, H!EndScan, LockInv
  <2>3. node[t] \in retired => node[t] \in seen[u]
    BY <1>6, <2>1, <2>2 DEF H!SnapshotComplete
  <2>4. \A s \in Threads : pc'[s] # "scan"
    BY <2>1 DEF LockInv
  <2> QED BY <1>6, <2>1, <2>3, <2>4
<1>20. CASE Visible(u)
  <2>1. UNCHANGED <<pc, allocated, retired, node, stable>>
    BY <1>20 DEF Visible, H!Flush, nodeVars, poolVars, localVars
  <2> QED BY <1>6, <2>1
<1> QED
  BY <1>10, <1>11, <1>12, <1>13, <1>16, <1>17, <1>18, <1>19, <1>20 DEF Step

(* A pop verifies only a node that is still on the stack, with its         *)
(* protection visible.                                                     *)
LEMMA GuardSelf ==
  ASSUME StackTypeOK, H!TypeOK, OwnInv, LinkInv, GuardInv,
         NEW u \in Threads, Step(u), ~Overtakes(u)
  PROVE  Guarded(u)'
<1> USE StackAssumption DEF StackTypeOK, H!TypeOK, Goto
<1>1. ASSUME pc'[u] # "verify", ~Verified(u)' PROVE Guarded(u)'
  BY <1>1 DEF Guarded
<1> USE DEF Verified
<1>2. CASE PushStart(u) \/ PushLoad(u) \/ PushCas(u)
  BY <1>1, <1>2 DEF PushStart, PushLoad, PushCas
<1>3. CASE PopStart(u) \/ PopLoad(u) \/ PopCas(u) \/ PopReadValue(u)
           \/ PopClear(u) \/ PopDropClear(u) \/ PopDropRelease(u)
  BY <1>1, <1>3 DEF PopStart, PopLoad, PopCas, PopReadValue, PopClear, PopDropClear,
                    PopDropRelease
<1>4. CASE PopAcquire(u)
  <2>1. pc' = [pc EXCEPT ![u] = pc'[u]] /\ pc'[u] \in {"load", "panicked", "acquire"}
    BY <1>4 DEF PopAcquire
  <2> QED BY <1>1, <2>1
<1>5. CASE PopProtect(u)
  <2>1. pc'[u] = "verify" /\ node' = node /\ published'[u] = node[u]
    BY <1>5 DEF PopProtect, H!Protect, H!Publish, localVars
  <2> QED BY <2>1 DEF Guarded
<1>6. CASE PopVerify(u)
  <2>1. CASE head # node[u]
    BY <1>1, <1>6, <2>1 DEF PopVerify
  <2>2. CASE head = node[u]
    <3>1. /\ pc'[u] = "readNext" /\ pc[u] = "verify" /\ pending[u] = <<>>
          /\ \A s \in Threads \ {u} : pc'[s] = pc[s]
          /\ UNCHANGED <<node, allocated, retired, chain, published, pending>>
      BY <1>6, <2>2 DEF PopVerify, Overtakes, Drained, nodeVars, poolVars, localVars, listVars, registryVars
    <3>2. node[u] \in Addrs /\ published[u] = node[u]
      BY <3>1 DEF GuardInv, Guarded
    <3>3. node[u] \in L!Nodes(chain)
      <4>1. chain # <<>> /\ chain[1] = node[u]
        BY <2>2, <3>2 DEF LinkInv, L!Linked
      <4> QED BY <4>1, L!PopNodes, ListAssumption DEF OwnInv
    <3>4. node[u] \in allocated /\ node[u] \notin retired
      BY <3>2, <3>3 DEF OwnInv
    <3>5. \A v \in Threads : Pushing(v) => node[v] # node[u]
      BY <3>3 DEF OwnInv, Holder
    <3> QED BY <3>1, <3>2, <3>4, <3>5 DEF Guarded, Pushing, PushPCs
  <2> QED BY <2>1, <2>2
<1>7. CASE PopReadNext(u)
  <2>1. /\ pc[u] = "readNext" /\ pc'[u] = "popCas"
        /\ \A s \in Threads \ {u} : pc'[s] = pc[s]
        /\ UNCHANGED <<node, allocated, retired, published, pending, stable>>
    BY <1>7 DEF PopReadNext, nodeVars, poolVars, registryVars
  <2> QED BY <2>1 DEF GuardInv, Guarded, Pushing, PushPCs
<1>8. CASE Retire(u) \/ ForceReclaim(u) \/ Scan(u) \/ Reclaim(u)
  <2>1. pc'[u] \in {"idle", "scan"}
    BY <1>8 DEF Retire, ForceReclaim, Scan, Reclaim
  <2> QED BY <1>1, <2>1
<1>9. CASE Visible(u)
  <2>1. UNCHANGED <<pc, node, published>> /\ pending[u] # <<>>
    BY <1>9 DEF Visible, H!Flush, localVars
  <2> QED BY <2>1 DEF GuardInv, Guarded
<1> QED
  BY <1>2, <1>3, <1>4, <1>5, <1>6, <1>7, <1>8, <1>9 DEF Step

(* What a pop has verified stays good until it is done with the node. *)
LEMMA GuardStep ==
  ASSUME StackTypeOK, H!TypeOK, H!SnapshotComplete, SafeInv,
         NEW u \in Threads, Step(u), ~Overtakes(u)
  PROVE  GuardInv'
BY GuardOthers, GuardSelf DEF GuardInv, SafeInv

(* Ownership.  A step that moves no node between owners keeps it. *)
LEMMA OwnQuiet ==
  ASSUME StackTypeOK, OwnInv, NEW u \in Threads,
         \A t \in Threads \ {u} : pc'[t] = pc[t] /\ node'[t] = node[t],
         UNCHANGED <<allocated, retired, chain>>,
         Holder(u)' <=> Holder(u), Holder(u) => node'[u] = node[u]
  PROVE  OwnInv'
<1>1. \A t \in Threads : (Holder(t)' <=> Holder(t)) /\ (Holder(t) => node'[t] = node[t])
  BY DEF Holder, Pushing, Owning
<1> QED BY <1>1 DEF OwnInv

(* Every other step hands one node on. *)
LEMMA OwnStep ==
  ASSUME StackTypeOK, OwnInv, LinkInv, NEW u \in Threads, Step(u)
  PROVE  OwnInv'
<1> USE StackAssumption DEF StackTypeOK, Goto
<1>1. \A t \in Threads \ {u} : pc'[t] = pc[t] /\ node'[t] = node[t]
  BY LocalFrame
<1>2. \A t \in Threads \ {u} : Holder(t)' <=> Holder(t)
  BY <1>1 DEF Holder, Pushing, Owning
<1>3. CASE PushStart(u)
  <2>1. PICK a \in Addrs \ allocated :
          allocated' = allocated \union {a} /\ node' = [node EXCEPT ![u] = a]
    BY <1>3 DEF PushStart
  <2>2. pc[u] = "idle" /\ pc'[u] = "pushLoad" /\ UNCHANGED <<retired, chain>>
    BY <1>3 DEF PushStart, poolVars, listVars
  <2>3. ~Holder(u) /\ Holder(u)' /\ node'[u] = a
    BY <2>1, <2>2 DEF Holder, Pushing, Owning, PushPCs, OwnerPCs
  <2> QED BY <1>1, <1>2, <2>1, <2>2, <2>3 DEF OwnInv
<1>4. CASE PushLoad(u) \/ PopStart(u) \/ PopLoad(u) \/ PopProtect(u) \/ PopVerify(u)
           \/ PopReadNext(u) \/ PopReadValue(u)
  <2>1. UNCHANGED <<allocated, retired, chain>>
    BY <1>4 DEF PushLoad, PopStart, PopLoad, PopProtect, PopVerify, PopReadNext, PopReadValue,
                nodeVars, poolVars, listVars
  <2>2. (Holder(u)' <=> Holder(u)) /\ (Holder(u) => node'[u] = node[u])
    BY <1>4 DEF PushLoad, PopStart, PopLoad, PopProtect, PopVerify, PopReadNext, PopReadValue,
                localVars, Holder, Pushing, Owning, PushPCs, OwnerPCs
  <2> QED BY <1>1, <2>1, <2>2, OwnQuiet
<1>5. CASE PopAcquire(u)
  <2>1. pc' = [pc EXCEPT ![u] = pc'[u]] /\ pc'[u] \in {"load", "panicked", "acquire"}
    BY <1>5 DEF PopAcquire
  <2>2. UNCHANGED <<allocated, retired, chain>> /\ pc[u] = "acquire"
    BY <1>5 DEF PopAcquire, nodeVars, poolVars, listVars
  <2>3. ~Holder(u) /\ ~Holder(u)'
    BY <2>1, <2>2 DEF Holder, Pushing, Owning, PushPCs, OwnerPCs
  <2> QED BY <1>1, <2>2, <2>3, OwnQuiet
<1>6. CASE PopClear(u) \/ PopDropClear(u) \/ PopDropRelease(u)
  <2>1. UNCHANGED <<allocated, retired, chain, node>>
    BY <1>6 DEF PopClear, PopDropClear, PopDropRelease, nodeVars, poolVars, listVars, localVars
  <2>2. Holder(u)' <=> Holder(u)
    BY <1>6, <2>1 DEF PopClear, PopDropClear, PopDropRelease, Holder, Pushing, Owning, PushPCs,
                      OwnerPCs
  <2> QED BY <1>1, <2>1, <2>2, OwnQuiet
<1>7. CASE ForceReclaim(u) \/ Scan(u) \/ Visible(u)
  <2>1. UNCHANGED <<allocated, retired, chain, node>>
    BY <1>7 DEF ForceReclaim, Scan, Visible, nodeVars, poolVars, listVars, localVars
  <2>2. Holder(u)' <=> Holder(u)
    BY <1>7, <2>1 DEF ForceReclaim, Scan, Visible, Holder, Pushing, Owning, PushPCs, OwnerPCs
  <2> QED BY <1>1, <2>1, <2>2, OwnQuiet
(* The node goes from the push to the stack. *)
<1>8. CASE PushCas(u)
  <2>1. UNCHANGED <<allocated, retired>> /\ pc[u] = "pushCas" /\ node[u] \in Addrs
    BY <1>8 DEF PushCas, nodeVars, poolVars
  <2>2. Holder(u)
    BY <2>1 DEF Holder, Pushing, PushPCs
  <2>3. CASE head # after[u]
    <3>1. chain' = chain /\ node' = node /\ pc'[u] = "pushLoad"
      BY <1>8, <2>3 DEF PushCas, listVars
    <3>2. Holder(u)'
      BY <3>1 DEF Holder, Pushing, PushPCs
    <3> QED BY <1>1, <2>1, <2>2, <3>1, <3>2, OwnQuiet
  <2>4. CASE head = after[u]
    <3>1. chain' = <<node[u]>> \o chain /\ pc'[u] = "idle"
      BY <1>8, <2>4 DEF PushCas
    <3>2. ~Holder(u)'
      BY <3>1 DEF Holder, Pushing, Owning, PushPCs, OwnerPCs
    <3>3. /\ node[u] \notin L!Nodes(chain) /\ node[u] \in allocated \ retired
          /\ \A t \in Threads \ {u} : Holder(t) => node[t] # node[u]
      BY <2>2 DEF OwnInv
    <3>4. L!Nodes(chain)' = L!Nodes(chain) \union {node[u]} /\ L!Distinct(chain)'
      BY <2>1, <3>1, <3>3, L!PushNodes, ListAssumption DEF OwnInv
    <3>5. \A t \in Threads : Holder(t)' <=> t # u /\ Holder(t)
      BY <1>2, <3>2
    <3> HIDE DEF StackTypeOK, Goto
    <3>6. \A a \in allocated' : \/ a \in L!Nodes(chain)' \/ a \in retired'
                               \/ \E t \in Threads : Holder(t)' /\ node'[t] = a
      <4> SUFFICES ASSUME NEW a \in allocated, a # node[u], a \notin retired, a \notin L!Nodes(chain)
                   PROVE  \E t \in Threads : Holder(t)' /\ node'[t] = a
        BY <2>1, <3>4
      <4>1. PICK t \in Threads : Holder(t) /\ node[t] = a
        BY DEF OwnInv
      <4> QED BY <1>1, <3>5, <4>1
    <3>7. \A t \in Threads : Holder(t)' =>
            node'[t] \in allocated' /\ node'[t] \notin retired' \union L!Nodes(chain)'
      BY <1>1, <2>1, <3>3, <3>4, <3>5 DEF OwnInv
    <3>8. \A t, v \in Threads : Holder(t)' /\ Holder(v)' /\ node'[t] = node'[v] => t = v
      BY <1>1, <3>5 DEF OwnInv
    <3>9. L!Nodes(chain)' \subseteq allocated' \ retired' /\ retired' \subseteq allocated'
      BY <2>1, <3>3, <3>4 DEF OwnInv
    <3> QED BY <3>4, <3>6, <3>7, <3>8, <3>9 DEF OwnInv
  <2> QED BY <2>3, <2>4
(* The node goes from the stack to the pop. *)
<1>9. CASE PopCas(u)
  <2>1. UNCHANGED <<allocated, retired, node>> /\ pc[u] = "popCas" /\ node[u] \in Addrs
    BY <1>9 DEF PopCas, nodeVars, poolVars
  <2>2. ~Holder(u)
    BY <2>1 DEF Holder, Pushing, Owning, PushPCs, OwnerPCs
  <2>3. CASE head # node[u]
    <3>1. chain' = chain /\ pc'[u] = "load"
      BY <1>9, <2>3 DEF PopCas, listVars
    <3>2. ~Holder(u)'
      BY <3>1 DEF Holder, Pushing, Owning, PushPCs, OwnerPCs
    <3> QED BY <1>1, <2>1, <2>2, <3>1, <3>2, OwnQuiet
  <2>4. CASE head = node[u]
    <3>1. chain # <<>> /\ chain[1] = node[u]
      BY <2>1, <2>4 DEF LinkInv, L!Linked
    <3>2. chain' = Tail(chain) /\ pc'[u] = "readValue"
      BY <1>9, <2>4, <3>1 DEF PopCas
    <3>3. Holder(u)'
      BY <2>1, <3>2 DEF Holder, Owning, OwnerPCs
    <3>4. /\ node[u] \in L!Nodes(chain)
          /\ L!Nodes(chain)' = L!Nodes(chain) \ {node[u]} /\ L!Distinct(chain)'
      BY <3>1, <3>2, L!PopNodes, ListAssumption DEF OwnInv
    <3>5. \A t \in Threads : Holder(t)' <=> t = u \/ Holder(t)
      BY <1>2, <3>3
    <3>6. \A t \in Threads : Holder(t) => node[t] # node[u]
      BY <3>4 DEF OwnInv
    <3> QED BY <2>1, <3>4, <3>5, <3>6 DEF OwnInv
  <2> QED BY <2>3, <2>4
(* The node goes from the pop to the retired list. *)
<1>10. CASE Retire(u)
  <2>1. /\ retired' = retired \union {node[u]} /\ pc[u] = "retire" /\ node[u] \in Addrs
        /\ UNCHANGED <<allocated, chain>>
    BY <1>10 DEF Retire, nodeVars, listVars
  <2>2. pc'[u] \in {"scan", "idle"}
    BY <1>10 DEF Retire
  <2>3. Holder(u) /\ ~Holder(u)'
    BY <2>1, <2>2 DEF Holder, Pushing, Owning, PushPCs, OwnerPCs
  <2> HIDE DEF StackTypeOK, Goto
  <2>4. \A t \in Threads : Holder(t)' <=> t # u /\ Holder(t)
    BY <1>2, <2>3
  <2>5. \A a \in allocated' : \/ a \in L!Nodes(chain)' \/ a \in retired'
                             \/ \E t \in Threads : Holder(t)' /\ node'[t] = a
    <3> SUFFICES ASSUME NEW a \in allocated, a # node[u], a \notin retired, a \notin L!Nodes(chain)
                 PROVE  \E t \in Threads : Holder(t)' /\ node'[t] = a
      BY <2>1
    <3>1. PICK t \in Threads : Holder(t) /\ node[t] = a
      BY DEF OwnInv
    <3> QED BY <1>1, <2>4, <3>1
  <2>6. \A t \in Threads : Holder(t)' =>
          node'[t] \in allocated' /\ node'[t] \notin retired' \union L!Nodes(chain)'
    BY <1>1, <2>1, <2>3, <2>4 DEF OwnInv
  <2>7. \A t, v \in Threads : Holder(t)' /\ Holder(v)' /\ node'[t] = node'[v] => t = v
    BY <1>1, <2>4 DEF OwnInv
  <2>8. L!Nodes(chain)' \subseteq allocated' \ retired' /\ retired' \subseteq allocated'
    BY <2>1, <2>3 DEF OwnInv
  <2> QED BY <2>1, <2>5, <2>6, <2>7, <2>8 DEF OwnInv
(* Some nodes of the retired list are freed. *)
<1>11. CASE Reclaim(u)
  <2>1. /\ retired' = retired \intersect seen[u] /\ allocated' = allocated \ (retired \ seen[u])
        /\ UNCHANGED <<chain, node>> /\ pc[u] = "scan" /\ pc'[u] = "idle"
    BY <1>11 DEF Reclaim, listVars
  <2>2. ~Holder(u) /\ ~Holder(u)'
    BY <2>1 DEF Holder, Pushing, Owning, PushPCs, OwnerPCs
  <2> QED BY <1>1, <1>2, <2>1, <2>2 DEF OwnInv
<1> QED
  BY <1>3, <1>4, <1>5, <1>6, <1>7, <1>8, <1>9, <1>10, <1>11 DEF Step

(* The list in memory. *)
LEMMA LinkStep ==
  ASSUME StackTypeOK, OwnInv, LinkInv, GuardInv, NEW u \in Threads, Step(u)
  PROVE  LinkInv'
<1> USE StackAssumption DEF StackTypeOK, Goto
<1>1. \A t \in Threads \ {u} : pc'[t] = pc[t] /\ node'[t] = node[t] /\ after'[t] = after[t]
  BY LocalFrame
<1>2. ASSUME UNCHANGED <<head, chain, next>>,
             pc'[u] \in {"pushCas", "popCas"} => next[node'[u]] = after'[u]
      PROVE  LinkInv'
  BY <1>1, <1>2 DEF LinkInv
<1>3. ASSUME UNCHANGED <<head, chain>>, \A a \in L!Nodes(chain) : next'[a] = next[a]
      PROVE  L!Linked(head, next, chain)'
  BY <1>3 DEF LinkInv, L!Linked, L!Nodes
<1>4. CASE PushStart(u)
  <2>1. PICK a \in Addrs \ allocated : next' = [next EXCEPT ![a] = Null]
    BY <1>4 DEF PushStart
  <2>2. UNCHANGED <<head, chain>> /\ pc'[u] = "pushLoad"
    BY <1>4 DEF PushStart, listVars
  <2>3. \A t \in Threads : pc[t] \in {"pushCas", "popCas"} => node[t] \in allocated
    BY DEF OwnInv, Holder, Pushing, PushPCs, GuardInv, Guarded, Verified
  <2>4. L!Linked(head, next, chain)'
    BY <1>3, <2>1, <2>2 DEF OwnInv
  <2> QED BY <1>1, <2>1, <2>2, <2>3, <2>4 DEF LinkInv
<1>5. CASE PushLoad(u)
  <2>1. /\ after' = [after EXCEPT ![u] = head] /\ next' = [next EXCEPT ![node[u]] = head]
        /\ UNCHANGED <<head, chain, node>> /\ pc[u] = "pushLoad" /\ node[u] \in Addrs
    BY <1>5 DEF PushLoad, listVars
  <2>2. Holder(u) /\ Pushing(u)
    BY <2>1 DEF Holder, Pushing, PushPCs
  <2>3. \A t \in Threads \ {u} : pc[t] \in {"pushCas", "popCas"} => node[t] # node[u]
    BY <2>2 DEF OwnInv, Holder, Pushing, PushPCs, GuardInv, Guarded, Verified
  <2>4. L!Linked(head, next, chain)'
    BY <1>3, <2>1, <2>2 DEF OwnInv
  <2>5. \A t \in Threads \ {u} : pc'[t] \in {"pushCas", "popCas"} => next'[node'[t]] = after'[t]
    BY <1>1, <2>1, <2>3 DEF LinkInv
  <2> QED BY <2>1, <2>4, <2>5 DEF LinkInv
<1>6. CASE PushCas(u)
  <2>1. pc[u] = "pushCas" /\ next' = next /\ node[u] \in Addrs /\ next[node[u]] = after[u]
    BY <1>6 DEF PushCas, nodeVars, LinkInv
  <2>2. CASE head # after[u]
    BY <1>2, <1>6, <2>1, <2>2 DEF PushCas, listVars
  <2>3. CASE head = after[u]
    <3>1. head' = node[u] /\ chain' = <<node[u]>> \o chain /\ pc'[u] = "idle"
      BY <1>6, <2>3 DEF PushCas
    <3>2. L!Linked(head, next, chain)'
      BY <2>1, <2>3, <3>1, L!PushLinks, ListAssumption DEF LinkInv
    <3> QED BY <1>1, <2>1, <3>1, <3>2 DEF LinkInv
  <2> QED BY <2>2, <2>3
<1>7. CASE PopStart(u) \/ PopLoad(u) \/ PopProtect(u) \/ PopVerify(u) \/ PopReadValue(u)
  <2>1. UNCHANGED <<head, chain, next>> /\ pc'[u] \notin {"pushCas", "popCas"}
    BY <1>7 DEF PopStart, PopLoad, PopProtect, PopVerify, PopReadValue, nodeVars, listVars
  <2> QED BY <1>2, <2>1
<1>8. CASE PopAcquire(u)
  <2>1. pc' = [pc EXCEPT ![u] = pc'[u]] /\ pc'[u] \in {"load", "panicked", "acquire"}
    BY <1>8 DEF PopAcquire
  <2> QED BY <1>2, <1>8, <2>1 DEF PopAcquire, nodeVars, listVars
<1>9. CASE PopReadNext(u)
  <2>1. UNCHANGED <<head, chain, next, node>> /\ after'[u] = next[node[u]]
    BY <1>9 DEF PopReadNext, nodeVars, listVars
  <2> QED BY <1>2, <2>1
<1>10. CASE PopCas(u)
  <2>1. /\ pc[u] = "popCas" /\ next' = next /\ node[u] \in Addrs /\ next[node[u]] = after[u]
        /\ pc'[u] \in {"readValue", "load"}
    BY <1>10 DEF PopCas, nodeVars, LinkInv
  <2>2. CASE head # node[u]
    BY <1>2, <1>10, <2>1, <2>2 DEF PopCas, listVars
  <2>3. CASE head = node[u]
    <3>1. chain # <<>>
      BY <2>1, <2>3 DEF LinkInv, L!Linked
    <3>2. chain' = Tail(chain) /\ head' = after[u]
      BY <1>10, <2>3, <3>1 DEF PopCas
    <3>3. L!Linked(head, next, chain)'
      BY <2>1, <2>3, <3>1, <3>2, L!PopLinks, ListAssumption DEF LinkInv
    <3> QED BY <1>1, <2>1, <3>3 DEF LinkInv
  <2> QED BY <2>2, <2>3
<1>11. CASE PopClear(u) \/ PopDropClear(u) \/ PopDropRelease(u)
  BY <1>2, <1>11 DEF PopClear, PopDropClear, PopDropRelease, nodeVars, listVars
<1>12. CASE Retire(u) \/ ForceReclaim(u) \/ Scan(u) \/ Reclaim(u)
  <2>1. UNCHANGED <<head, chain, next>> /\ pc'[u] \in {"scan", "idle"}
    BY <1>12 DEF Retire, ForceReclaim, Scan, Reclaim, nodeVars, listVars
  <2> QED BY <1>2, <2>1
<1>13. CASE Visible(u)
  BY <1>2, <1>13 DEF Visible, nodeVars, listVars, localVars, LinkInv
<1> QED
  BY <1>4, <1>5, <1>6, <1>7, <1>8, <1>9, <1>10, <1>11, <1>12, <1>13 DEF Step

(* Dropping a stack that nobody uses frees all it ever allocated. *)
LEMMA DropFrees ==
  ASSUME StackTypeOK, OwnInv, LinkInv, DropStack PROVE allocated' = {}
<1>1. \A t \in Threads : ~Holder(t)
  BY DEF DropStack, Holder, Pushing, Owning, PushPCs, OwnerPCs
<1>2. L!Nodes(chain) \subseteq Addrs
  BY DEF L!Nodes, StackTypeOK
<1>3. ASSUME NEW S \in SUBSET Addrs,
             {head} \ {Null} \subseteq S, \A b \in S : {next[b]} \ {Null} \subseteq S
      PROVE  L!Nodes(chain) \subseteq S
  BY <1>3, StackAssumption, L!LinkedReached, ListAssumption DEF LinkInv, StackTypeOK
<1>4. L!Nodes(chain) \subseteq OnList
  BY <1>2, <1>3 DEF OnList
<1>5. \A a \in allocated : a \in retired \union OnList
  BY <1>1, <1>4 DEF OwnInv
<1> QED BY <1>5 DEF DropStack

(* Freeing all nodes of a stack that nobody uses keeps the invariant.      *)
LEMMA DropSafe ==
  ASSUME StackTypeOK, SafeInv, DropStack PROVE SafeInv'
<1>1. /\ allocated' = {} /\ retired' = {} /\ chain' = <<>> /\ head' = Null
      /\ UNCHANGED <<lock, pc, node, after, registryVars>>
      /\ \A t \in Threads : pc[t] \in {"idle", "panicked"}
  BY DropFrees DEF DropStack, SafeInv, localVars
<1>2. \A t \in Threads : ~Holder(t)'
  BY <1>1 DEF Holder, Pushing, Owning, PushPCs, OwnerPCs
<1>3. OwnInv'
  BY <1>1, <1>2 DEF OwnInv, L!Nodes, L!Distinct
<1>4. LinkInv'
  BY <1>1 DEF LinkInv, L!Linked
<1>5. LockInv'
  BY <1>1 DEF SafeInv, LockInv, registryVars
<1>6. GuardInv'
  BY <1>1 DEF GuardInv, Guarded, Verified
<1> QED BY <1>3, <1>4, <1>5, <1>6 DEF SafeInv

(* The invariant behind the safety of the stack.  It holds in every        *)
(* execution of the code as it stands in which no verification overtakes   *)
(* its protection; the run safe_stack_delayed_protect shows one in which a *)
(* verification does, and a pop reads freed memory.                        *)
THEOREM SafeInvariant == Spec /\ InOrder => []SafeInv
<1>1. Init => SafeInv
  <2> SUFFICES ASSUME Init PROVE SafeInv
    OBVIOUS
  <2> USE StackAssumption DEF Init
  <2>1. \A t \in Threads : pc[t] = "idle" /\ ~Holder(t)
    BY DEF Holder, Pushing, Owning, PushPCs, OwnerPCs
  <2>2. OwnInv
    BY <2>1 DEF OwnInv, L!Nodes, L!Distinct
  <2>3. LinkInv
    BY DEF LinkInv, L!Linked
  <2>4. LockInv
    BY DEF LockInv
  <2>5. GuardInv
    BY DEF GuardInv, Guarded, Verified
  <2> QED BY <2>2, <2>3, <2>4, <2>5 DEF SafeInv
<1>2. StackTypeOK /\ TypeOK /\ H!SnapshotComplete /\ SafeInv /\ [Next]_vars
        /\ [\A t \in Threads : ~Overtakes(t)]_vars => SafeInv'
  <2> SUFFICES ASSUME StackTypeOK, TypeOK, H!SnapshotComplete, SafeInv, [Next]_vars,
                      [\A t \in Threads : ~Overtakes(t)]_vars
               PROVE  SafeInv'
    OBVIOUS
  <2>1. H!TypeOK
    BY DEF TypeOK
  <2>2. ASSUME NEW u \in Threads, Step(u), ~Overtakes(u) PROVE SafeInv'
    BY <2>1, <2>2, LockStep, GuardStep, OwnStep, LinkStep DEF SafeInv
  <2>3. CASE DropStack
    BY <2>3, DropSafe
  <2>4. CASE UNCHANGED vars
    <3>1. OwnInv' /\ LinkInv'
      BY <2>4 DEF vars, listVars, nodeVars, poolVars, localVars, SafeInv, OwnInv, LinkInv, Holder,
                  Pushing, Owning
    <3>2. LockInv' /\ GuardInv'
      BY <2>4 DEF vars, nodeVars, poolVars, localVars, registryVars, SafeInv, LockInv, GuardInv,
                  Guarded, Verified, Pushing
    <3> QED BY <3>1, <3>2 DEF SafeInv
  <2> QED BY <2>2, <2>3, <2>4 DEF Next, Dropped
<1> QED BY <1>1, <1>2, StackTypes, TypeCorrect, ScanTheorem, PTL DEF Spec, InOrder

(* Where no verification overtakes its protection, a node is not freed     *)
(* between that verification and the last access to it                     *)
(* (src/src/safe_treiber.rs:94-106).                                       *)
THEOREM NoUseAfterFreeTheorem == Spec /\ InOrder => []NoUseAfterFree
<1>1. StackTypeOK /\ SafeInv => NoUseAfterFree
  <2> SUFFICES ASSUME StackTypeOK, SafeInv, NEW t \in Threads,
                      pc[t] \in {"readNext", "popCas", "readValue"}
               PROVE  node[t] \in allocated
    BY DEF NoUseAfterFree
  <2>1. CASE Verified(t)
    BY <2>1 DEF SafeInv, GuardInv, Guarded
  <2>2. CASE pc[t] = "readValue"
    <3>1. Holder(t)
      BY <2>2, StackAssumption DEF Holder, Owning, OwnerPCs, StackTypeOK
    <3> QED BY <3>1 DEF SafeInv, OwnInv
  <2> QED BY <2>1, <2>2 DEF Verified
<1> QED BY <1>1, StackTypes, SafeInvariant, PTL

(* Where no verification overtakes its protection, memory spells out the   *)
(* stack that the compare-and-swaps built, though addresses come back.     *)
THEOREM ListTheorem == Spec /\ InOrder => []ListIntact
<1>1. SafeInv => ListIntact
  BY DEF SafeInv, LinkInv, L!Linked, ListIntact
<1> QED BY <1>1, SafeInvariant, PTL

(* Where no verification overtakes its protection, every allocated node    *)
(* has exactly one owner, and no other has any: no node is freed twice and *)
(* none leaks, not even when the stack is dropped.                         *)
THEOREM OwnedTheorem == Spec /\ InOrder => []EveryNodeOwned
<1>1. SafeInv => EveryNodeOwned
  <2> SUFFICES ASSUME SafeInv PROVE EveryNodeOwned
    OBVIOUS
  <2> DEFINE Holders(a) == {t \in Threads : (Pushing(t) \/ Owning(t)) /\ node[t] = a}
  <2>1. \A a : InChain(a) <=> a \in L!Nodes(chain)
    BY DEF InChain, L!Nodes
  <2>2. ASSUME NEW a \in Addrs
        PROVE  /\ Cardinality(Holders(a)) = IF Holders(a) = {} THEN 0 ELSE 1
               /\ Holders(a) # {} <=> a \in allocated /\ ~InChain(a) /\ a \notin retired
    <3>1. CASE Holders(a) = {}
      <4>1. a \in allocated => InChain(a) \/ a \in retired
        BY <2>1, <3>1 DEF SafeInv, OwnInv, Holder
      <4> QED BY <3>1, <4>1, FS_EmptySet
    <3>2. CASE Holders(a) # {}
      <4>1. PICK t \in Threads : Holder(t) /\ node[t] = a
        BY <3>2 DEF Holder
      <4>2. Holders(a) = {t}
        BY <4>1 DEF SafeInv, OwnInv, Holder
      <4>3. a \in allocated /\ ~InChain(a) /\ a \notin retired
        BY <2>1, <4>1 DEF SafeInv, OwnInv
      <4> QED BY <3>2, <4>2, <4>3, FS_Singleton
    <3> QED BY <3>1, <3>2
  <2>3. \A a \in Addrs : InChain(a) => a \in allocated /\ a \notin retired
    BY <2>1 DEF SafeInv, OwnInv
  <2>4. \A a \in retired : a \in allocated
    BY DEF SafeInv, OwnInv
  <2>5. \A i, j \in DOMAIN chain : chain[i] = chain[j] => i = j
    BY DEF SafeInv, OwnInv, L!Distinct
  <2>6. ASSUME NEW a \in Addrs
        PROVE  (IF InChain(a) THEN 1 ELSE 0) + (IF a \in retired THEN 1 ELSE 0)
                 + Cardinality(Holders(a)) = IF a \in allocated THEN 1 ELSE 0
    BY <2>2, <2>3, <2>4
  <2> QED BY <2>5, <2>6 DEF EveryNodeOwned
<1> QED BY <1>1, SafeInvariant, PTL

-----------------------------------------------------------------------------
(* Values. *)

(* Different nodes in use hold different values. *)
ValueInv ==
  /\ \A a \in allocated : value[a] \in 1..pushes
  /\ \A a, b \in allocated : value[a] = value[b] => a = b

(* A thread has a value only between reading it and returning it. *)
ResultInv ==
  \A t \in Threads : got[t] # NoValue =>
    \/ pc[t] \in {"clear", "retire", "scan"}
    \/ pc[t] \in {"drop", "release"} /\ node[t] # Null

(* A value is written once, by the push that allocates the node.           *)
LEMMA ValueStep ==
  ASSUME StackTypeOK, ValueInv, [Next]_vars PROVE ValueInv'
<1> USE StackAssumption DEF StackTypeOK
<1>1. ASSUME value' = value, pushes' = pushes, allocated' \subseteq allocated PROVE ValueInv'
  BY <1>1 DEF ValueInv
<1>2. ASSUME NEW u \in Threads, PushStart(u) PROVE ValueInv'
  <2>1. PICK a \in Addrs \ allocated :
          allocated' = allocated \union {a} /\ value' = [value EXCEPT ![a] = pushes + 1]
    BY <1>2 DEF PushStart
  <2>2. pushes' = pushes + 1 /\ pushes \in Nat
    BY <1>2 DEF PushStart
  <2>3. \A b \in allocated : value'[b] = value[b] /\ value[b] \in 1..pushes
    BY <2>1 DEF ValueInv
  <2>4. value'[a] = pushes + 1
    BY <2>1
  <2> QED BY <2>1, <2>2, <2>3, <2>4 DEF ValueInv
<1> USE DEF nodeVars
<1>3. ASSUME NEW u \in Threads,
             PushLoad(u) \/ PushCas(u) \/ PopStart(u) \/ PopAcquire(u) \/ PopLoad(u)
               \/ PopProtect(u) \/ PopVerify(u) \/ PopReadNext(u) \/ PopCas(u) \/ PopReadValue(u)
      PROVE  ValueInv'
  BY <1>1, <1>3 DEF PushLoad, PushCas, PopStart, PopAcquire, PopLoad, PopProtect, PopVerify,
                    PopReadNext, PopCas, PopReadValue, localVars
<1>4. ASSUME NEW u \in Threads,
             PopClear(u) \/ PopDropClear(u) \/ PopDropRelease(u) \/ Retire(u)
               \/ ForceReclaim(u) \/ Scan(u) \/ Reclaim(u) \/ Visible(u)
      PROVE  ValueInv'
  BY <1>1, <1>4 DEF PopClear, PopDropClear, PopDropRelease, Retire, ForceReclaim, Scan, Reclaim,
                    Visible
<1>5. CASE DropStack
  BY <1>1, <1>5 DEF DropStack
<1>6. CASE UNCHANGED vars
  BY <1>1, <1>6 DEF vars
<1> QED BY <1>2, <1>3, <1>4, <1>5, <1>6 DEF Next, Step, Dropped

(* What a pop has read goes when it returns.                               *)
LEMMA ResultStep ==
  ASSUME StackTypeOK, ResultInv, [Next]_vars PROVE ResultInv'
<1> USE StackAssumption DEF StackTypeOK, Goto, PushPCs, OwnerPCs
<1>1. ASSUME NEW u \in Threads, Step(u) PROVE ResultInv'
  <2>1. \A t \in Threads \ {u} : pc'[t] = pc[t] /\ node'[t] = node[t] /\ got'[t] = got[t]
    BY <1>1, LocalFrame
  <2>2. SUFFICES ASSUME got'[u] # NoValue
                 PROVE  \/ pc'[u] \in {"clear", "retire", "scan"}
                        \/ pc'[u] \in {"drop", "release"} /\ node'[u] # Null
    BY <2>1 DEF ResultInv
  <2>3. CASE PushStart(u) \/ PushLoad(u) \/ PushCas(u)
    BY <2>2, <2>3 DEF PushStart, PushLoad, PushCas, ResultInv
  <2>4. CASE PopStart(u) \/ PopAcquire(u) \/ PopLoad(u) \/ PopProtect(u) \/ PopVerify(u)
             \/ PopReadNext(u) \/ PopCas(u) \/ PopReadValue(u)
    BY <2>2, <2>4 DEF PopStart, PopAcquire, PopLoad, PopProtect, PopVerify, PopReadNext, PopCas,
                      PopReadValue, ResultInv, localVars
  <2>5. CASE PopClear(u) \/ PopDropClear(u) \/ PopDropRelease(u)
    BY <2>2, <2>5 DEF PopClear, PopDropClear, PopDropRelease, ResultInv, localVars
  <2>6. CASE Retire(u)
    <3>1. pc'[u] = "scan" \/ got'[u] = NoValue
      BY <2>6 DEF Retire
    <3> QED BY <2>2, <3>1
  <2>7. CASE ForceReclaim(u) \/ Scan(u) \/ Reclaim(u) \/ Visible(u)
    BY <2>2, <2>7 DEF ForceReclaim, Scan, Reclaim, Visible, ResultInv, localVars
  <2> QED BY <1>1, <2>3, <2>4, <2>5, <2>6, <2>7 DEF Step
<1>2. CASE DropStack
  BY <1>2 DEF DropStack, ResultInv, localVars
<1>3. CASE UNCHANGED vars
  BY <1>3 DEF vars, ResultInv, localVars
<1> QED BY <1>1, <1>2, <1>3 DEF Next, Dropped

(* Values and results are consistent, in every execution. *)
THEOREM ValueInvariant == Spec => [](ValueInv /\ ResultInv)
<1>1. Init => ValueInv /\ ResultInv
  BY DEF Init, ValueInv, ResultInv
<1> QED BY <1>1, ValueStep, ResultStep, StackTypes, PTL DEF Spec

-----------------------------------------------------------------------------
(* The refinement of AtomicStack. *)
Offered == {value[node[t]] : t \in {u \in Threads : Pushing(u)}}

HeldBy(t) == IF pc[t] = "readValue" THEN value[node[t]] ELSE got[t]

Held == [t \in Threads |-> HeldBy(t)]

Contents == L!ValuesOf(value, chain)

(* The steps of AtomicStack in these terms. *)
LEMMA AbstractSteps ==
  /\ UNCHANGED <<Offered, Contents, Held>> => UNCHANGED Abstract!vars
  /\ \A v \in 1..MaxPushes :
       \/ Offered' = Offered \union {v} /\ Contents' = Contents /\ Held' = Held
       \/ /\ v \in Offered /\ Offered' = Offered \ {v}
          /\ Contents' = <<v>> \o Contents /\ Held' = Held
       => Abstract!Next
  /\ \A t \in Threads :
       \/ /\ Contents # <<>> /\ Held[t] = NoValue /\ Contents' = Tail(Contents)
          /\ Held' = [Held EXCEPT ![t] = Head(Contents)] /\ Offered' = Offered
       \/ /\ Held[t] # NoValue /\ Held' = [Held EXCEPT ![t] = NoValue]
          /\ Offered' = Offered /\ Contents' = Contents
       => Abstract!Next
  /\ /\ Offered = {} /\ \A t \in Threads : Held[t] = NoValue
     /\ Contents' = <<>> /\ Offered' = Offered /\ Held' = Held
     => Abstract!Next
<1> USE DEF Offered, Contents, L!ValuesOf, Held, HeldBy
<1>1. UNCHANGED <<Offered, Contents, Held>> => UNCHANGED Abstract!vars
  BY DEF Abstract!vars
<1>2. ASSUME NEW v \in 1..MaxPushes,
             Offered' = Offered \union {v} /\ Contents' = Contents /\ Held' = Held
      PROVE  Abstract!Next
  BY <1>2 DEF Abstract!Next, Abstract!Offer
<1>3. ASSUME NEW v \in 1..MaxPushes, v \in Offered, Offered' = Offered \ {v},
             Contents' = <<v>> \o Contents, Held' = Held
      PROVE  Abstract!Next
  BY <1>3 DEF Abstract!Next, Abstract!Push
<1>4. ASSUME NEW t \in Threads, Contents # <<>>, Held[t] = NoValue, Contents' = Tail(Contents),
             Held' = [Held EXCEPT ![t] = Head(Contents)], Offered' = Offered
      PROVE  Abstract!Next
  BY <1>4 DEF Abstract!Next, Abstract!Pop
<1>5. ASSUME NEW t \in Threads, Held[t] # NoValue, Held' = [Held EXCEPT ![t] = NoValue],
             Offered' = Offered, Contents' = Contents
      PROVE  Abstract!Next
  BY <1>5 DEF Abstract!Next, Abstract!Return
<1>6. ASSUME Offered = {}, \A t \in Threads : Held[t] = NoValue,
             Contents' = <<>>, Offered' = Offered, Held' = Held
      PROVE  Abstract!Next
  BY <1>6 DEF Abstract!Next, Abstract!Discard
<1> HIDE DEF Offered, Contents, L!ValuesOf, Held, HeldBy
<1> QED BY <1>1, <1>2, <1>3, <1>4, <1>5, <1>6

(* A step that neither pushes nor pops shows nothing of itself. *)
LEMMA Quiet ==
  ASSUME StackTypeOK, NEW u \in Threads, Step(u), UNCHANGED <<value, chain>>,
         Pushing(u)' <=> Pushing(u), Pushing(u) => node'[u] = node[u]
  PROVE  /\ Offered' = Offered /\ Contents' = Contents
         /\ Held' = [Held EXCEPT ![u] = HeldBy(u)']
<1>1. \A t \in Threads \ {u} : pc'[t] = pc[t] /\ node'[t] = node[t] /\ got'[t] = got[t]
  BY LocalFrame
<1>2. \A t \in Threads : (Pushing(t)' <=> Pushing(t)) /\ (Pushing(t) => node'[t] = node[t])
  BY <1>1 DEF Pushing
<1>3. Offered' = Offered
  BY <1>2 DEF Offered
<1>4. \A t \in Threads \ {u} : HeldBy(t)' = HeldBy(t)
  BY <1>1 DEF HeldBy
<1>5. Held' = [Held EXCEPT ![u] = HeldBy(u)']
  BY <1>4 DEF Held
<1> QED BY <1>3, <1>5 DEF Contents, L!ValuesOf

(* Every step of a thread is a step of AtomicStack or changes nothing that *)
(* AtomicStack shows: a push takes effect at its compare-and-swap, a pop   *)
(* at its own, and returns when it leaves retire.                          *)
LEMMA RefinesStep ==
  ASSUME StackTypeOK, SafeInv, ValueInv, ResultInv, NEW u \in Threads, Step(u)
  PROVE  Abstract!Next \/ UNCHANGED Abstract!vars
<1> USE StackAssumption DEF StackTypeOK, Goto
<1>1. \A t \in Threads \ {u} : pc'[t] = pc[t] /\ node'[t] = node[t] /\ got'[t] = got[t]
  BY LocalFrame
<1>2. \A t \in Threads : Held[t] = HeldBy(t)
  BY DEF Held
<1>3. ASSUME UNCHANGED <<value, chain>>, Pushing(u)' <=> Pushing(u),
             Pushing(u) => node'[u] = node[u], HeldBy(u)' = HeldBy(u)
      PROVE  UNCHANGED Abstract!vars
  <2>1. Offered' = Offered /\ Contents' = Contents /\ Held' = [Held EXCEPT ![u] = HeldBy(u)]
    BY <1>3, Quiet
  <2>2. Held' = Held
    BY <2>1 DEF Held
  <2> QED BY <2>1, <2>2, AbstractSteps
<1>4. ASSUME UNCHANGED <<value, chain>>, ~Pushing(u), ~Pushing(u)', HeldBy(u)' = NoValue
      PROVE  Abstract!Next \/ UNCHANGED Abstract!vars
  <2>1. CASE HeldBy(u) = NoValue
    BY <1>3, <1>4, <2>1
  <2>2. CASE HeldBy(u) # NoValue
    <3>1. Offered' = Offered /\ Contents' = Contents /\ Held' = [Held EXCEPT ![u] = NoValue]
      BY <1>4, Quiet
    <3> QED BY <1>2, <2>2, <3>1, AbstractSteps
  <2> QED BY <2>1, <2>2
<1> USE DEF Pushing, PushPCs, HeldBy
<1>5. CASE PushStart(u)
  <2>1. PICK a \in Addrs \ allocated :
          /\ value' = [value EXCEPT ![a] = pushes + 1] /\ node' = [node EXCEPT ![u] = a]
    BY <1>5 DEF PushStart
  <2>2. /\ pc[u] = "idle" /\ pc' = [pc EXCEPT ![u] = "pushLoad"] /\ got' = got /\ chain' = chain
        /\ pushes + 1 \in 1..MaxPushes
    BY <1>5 DEF PushStart, listVars
  <2>3. \A b \in allocated : value'[b] = value[b]
    BY <2>1
  <2>4. \A t \in Threads \ {u} : pc[t] \in PushPCs \union {"readValue"} =>
          /\ node'[t] = node[t] /\ value'[node[t]] = value[node[t]]
    <3>1. \A t \in Threads : pc[t] \in PushPCs \union {"readValue"} => Holder(t)
      BY DEF Holder, Owning, OwnerPCs
    <3> QED BY <1>1, <2>3, <3>1 DEF SafeInv, OwnInv
  <2>5. Offered' = Offered \union {pushes + 1}
    <3>1. Pushing(u)' /\ ~Pushing(u) /\ value'[node'[u]] = pushes + 1
      BY <2>1, <2>2
    <3>2. \A t \in Threads \ {u} :
            /\ Pushing(t)' <=> Pushing(t)
            /\ Pushing(t) => value'[node'[t]] = value[node[t]]
      BY <1>1, <2>4
    <3> HIDE DEF Pushing, StackTypeOK
    <3> QED BY <3>1, <3>2 DEF Offered
  <2>6. Contents' = Contents
    <3>1. \A i \in DOMAIN chain : value'[chain[i]] = value[chain[i]]
      BY <2>3 DEF SafeInv, OwnInv, L!Nodes
    <3> QED BY <2>2, <3>1 DEF Contents, L!ValuesOf
  <2>7. Held' = Held
    <3>1. \A t \in Threads : HeldBy(t)' = HeldBy(t)
      BY <1>1, <2>2, <2>4
    <3> HIDE DEF HeldBy
    <3> QED BY <3>1 DEF Held
  <2> QED BY <2>2, <2>5, <2>6, <2>7, AbstractSteps
<1>6. CASE PushLoad(u)
  BY <1>3, <1>6 DEF PushLoad, listVars
<1>7. CASE PushCas(u)
  <2>1. value' = value /\ pc[u] = "pushCas" /\ node[u] \in Addrs /\ got' = got
    BY <1>7 DEF PushCas, nodeVars
  <2>2. CASE head # after[u]
    BY <1>3, <1>7, <2>2 DEF PushCas, listVars, nodeVars
  <2>3. CASE head = after[u]
    <3>1. chain' = <<node[u]>> \o chain /\ pc'[u] = "idle"
      BY <1>7, <2>3 DEF PushCas
    <3>2. value[node[u]] \in 1..MaxPushes /\ value[node[u]] \in Offered
      <4>1. Holder(u)
        BY <2>1 DEF Holder
      <4>2. value[node[u]] \in 1..pushes
        BY <4>1 DEF SafeInv, OwnInv, ValueInv
      <4> QED BY <2>1, <4>2 DEF Offered
    <3>3. Contents' = <<value[node[u]]>> \o Contents
      BY <2>1, <3>1, L!ValuesPushed, ListAssumption DEF Contents
    <3>4. Held' = Held
      <4>1. \A t \in Threads : HeldBy(t)' = HeldBy(t)
        BY <1>1, <2>1, <3>1
      <4> HIDE DEF HeldBy
      <4> QED BY <4>1 DEF Held
    <3>5. Offered' = Offered \ {value[node[u]]}
      <4>1. Pushing(u) /\ ~Pushing(u)'
        BY <2>1, <3>1
      <4>2. \A t \in Threads \ {u} :
              (Pushing(t)' <=> Pushing(t)) /\ value'[node'[t]] = value[node[t]]
        BY <1>1, <2>1
      <4> HIDE DEF Pushing, StackTypeOK
      <4>3. \A t \in Threads \ {u} : Pushing(t) => value[node[t]] # value[node[u]]
        BY <4>1 DEF SafeInv, OwnInv, ValueInv, Holder
      <4> QED BY <4>1, <4>2, <4>3 DEF Offered
    <3> QED BY <3>2, <3>3, <3>4, <3>5, AbstractSteps
  <2> QED BY <2>2, <2>3
<1>8. CASE PopStart(u) \/ PopLoad(u) \/ PopProtect(u) \/ PopVerify(u) \/ PopReadNext(u)
           \/ PopReadValue(u)
  <2>1. UNCHANGED <<value, chain>>
    BY <1>8 DEF PopStart, PopLoad, PopProtect, PopVerify, PopReadNext, PopReadValue, nodeVars,
                listVars
  <2>2. ~Pushing(u) /\ ~Pushing(u)' /\ HeldBy(u)' = HeldBy(u)
    BY <1>8 DEF PopStart, PopLoad, PopProtect, PopVerify, PopReadNext, PopReadValue, localVars
  <2> QED BY <1>3, <2>1, <2>2
<1>9. CASE PopAcquire(u)
  <2>1. pc' = [pc EXCEPT ![u] = pc'[u]] /\ pc'[u] \in {"load", "panicked", "acquire"}
    BY <1>9 DEF PopAcquire
  <2>2. UNCHANGED <<value, chain, got>> /\ pc[u] = "acquire"
    BY <1>9 DEF PopAcquire, nodeVars, listVars, localVars
  <2> QED BY <1>3, <2>1, <2>2
<1>10. CASE PopCas(u)
  <2>1. /\ value' = value /\ pc[u] = "popCas" /\ node[u] \in Addrs
        /\ UNCHANGED <<node, got>>
    BY <1>10 DEF PopCas, nodeVars
  <2>2. CASE head # node[u]
    <3>1. chain' = chain /\ pc'[u] = "load"
      BY <1>10, <2>2 DEF PopCas, listVars
    <3> QED BY <1>3, <2>1, <3>1
  <2>3. CASE head = node[u]
    <3>1. chain # <<>> /\ chain[1] = node[u]
      BY <2>1, <2>3 DEF SafeInv, LinkInv, L!Linked
    <3>2. chain' = Tail(chain) /\ pc'[u] = "readValue"
      BY <1>10, <2>3, <3>1 DEF PopCas
    <3>3. Contents' = Tail(Contents) /\ Contents # <<>> /\ Head(Contents) = value[node[u]]
      BY <2>1, <3>1, <3>2, L!ValuesPopped, ListAssumption DEF Contents
    <3>4. Held[u] = NoValue
      BY <1>2, <2>1 DEF ResultInv
    <3>5. Held' = [Held EXCEPT ![u] = Head(Contents)]
      <4>1. HeldBy(u)' = Head(Contents)
        BY <2>1, <3>2, <3>3
      <4>2. \A t \in Threads \ {u} : HeldBy(t)' = HeldBy(t)
        BY <1>1, <2>1
      <4> HIDE DEF HeldBy
      <4> QED BY <4>1, <4>2 DEF Held
    <3>6. Offered' = Offered
      <4>1. \A t \in Threads : Pushing(t)' <=> Pushing(t)
        BY <1>1, <2>1, <3>2
      <4> HIDE DEF Pushing
      <4> QED BY <2>1, <4>1 DEF Offered
    <3> QED BY <3>3, <3>4, <3>5, <3>6, AbstractSteps
  <2> QED BY <2>2, <2>3
<1>11. CASE PopClear(u) \/ PopDropClear(u) \/ PopDropRelease(u)
  BY <1>3, <1>11 DEF PopClear, PopDropClear, PopDropRelease, nodeVars, listVars, localVars
<1>12. CASE Retire(u)
  <2>1. UNCHANGED <<value, chain>> /\ pc[u] = "retire"
    BY <1>12 DEF Retire, nodeVars, listVars
  <2>2. \/ pc'[u] = "scan" /\ got' = got
        \/ pc'[u] = "idle" /\ got'[u] = NoValue
    BY <1>12 DEF Retire
  <2> QED BY <1>3, <1>4, <2>1, <2>2
<1>13. CASE ForceReclaim(u) \/ Scan(u) \/ Visible(u)
  BY <1>3, <1>13 DEF ForceReclaim, Scan, Visible, nodeVars, listVars, localVars
<1>14. CASE Reclaim(u)
  BY <1>4, <1>14 DEF Reclaim, listVars
<1> QED
  BY <1>5, <1>6, <1>7, <1>8, <1>9, <1>10, <1>11, <1>12, <1>13, <1>14 DEF Step

(* Dropping the stack discards its contents. *)
LEMMA RefinesDrop ==
  ASSUME StackTypeOK, ResultInv, DropStack PROVE Abstract!Next
<1>1. /\ chain' = <<>> /\ UNCHANGED <<value, pc, node, got>>
      /\ \A t \in Threads : pc[t] \in {"idle", "panicked"}
  BY DEF DropStack, localVars
<1>2. \A t \in Threads : ~Pushing(t) /\ ~Pushing(t)' /\ HeldBy(t) = NoValue /\ HeldBy(t)' = HeldBy(t)
  BY <1>1 DEF Pushing, PushPCs, HeldBy, ResultInv
<1>3. Offered = {} /\ Offered' = {}
  BY <1>2 DEF Offered
<1>4. Held' = Held /\ \A t \in Threads : Held[t] = NoValue
  BY <1>2 DEF Held
<1>5. Contents' = <<>>
  BY <1>1 DEF Contents, L!ValuesOf
<1> QED BY <1>3, <1>4, <1>5, AbstractSteps

(* Every execution in which no verification overtakes its protection is    *)
(* one of AtomicStack, for any number of threads, addresses, slots and     *)
(* pushes and any threshold.                                               *)
THEOREM Refinement == Spec /\ InOrder => ImplementsAtomicStack
<1>1. Init => Abstract!Init
  <2> SUFFICES ASSUME Init PROVE Abstract!Init
    OBVIOUS
  <2>1. \A t \in Threads : pc[t] = "idle" /\ got[t] = NoValue
    BY DEF Init
  <2>2. Offered = {}
    BY <2>1 DEF Offered, Pushing, PushPCs
  <2>3. Contents = <<>>
    BY DEF Init, Contents, L!ValuesOf
  <2>4. Held = [t \in Threads |-> NoValue]
    BY <2>1 DEF Held, HeldBy
  <2> QED BY <2>2, <2>3, <2>4 DEF Abstract!Init, Offered, Contents, L!ValuesOf, Held, HeldBy
<1>2. StackTypeOK /\ SafeInv /\ ValueInv /\ ResultInv /\ [Next]_vars
        => [Abstract!Next]_(Abstract!vars)
  <2> SUFFICES ASSUME StackTypeOK, SafeInv, ValueInv, ResultInv, [Next]_vars
               PROVE  Abstract!Next \/ UNCHANGED Abstract!vars
    OBVIOUS
  <2>1. ASSUME NEW u \in Threads, Step(u) PROVE Abstract!Next \/ UNCHANGED Abstract!vars
    BY <2>1, RefinesStep
  <2>2. CASE DropStack
    BY <2>2, RefinesDrop
  <2>3. CASE UNCHANGED vars
    <3>1. UNCHANGED <<Offered, Contents, Held>>
      BY <2>3 DEF vars, listVars, nodeVars, localVars, Offered, Contents, L!ValuesOf, Held, HeldBy,
                  Pushing
    <3> QED BY <3>1, AbstractSteps
  <2> QED BY <2>1, <2>2, <2>3 DEF Next, Dropped
<1> QED
  BY <1>1, <1>2, StackTypes, SafeInvariant, ValueInvariant, PTL
     DEF Spec, ImplementsAtomicStack, Abstract!Spec

(* Where stores are performed at once the stack keeps all its promises,    *)
(* for the code as it stands and in every execution.                       *)
THEOREM SafeWhereStoresAreAtOnce ==
  ASSUME BufferSize = 0
  PROVE  Spec => []NoUseAfterFree /\ []ListIntact /\ []EveryNodeOwned /\ ImplementsAtomicStack
BY StoresAtOnce, NoUseAfterFreeTheorem, ListTheorem, OwnedTheorem, Refinement, PTL

=============================================================================
