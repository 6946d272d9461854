-------------------------- MODULE SafeTreiberStack --------------------------
(***************************************************************************)
(* SafeTreiberStack of src/src/safe_treiber.rs: a lock-free stack whose    *)
(* pop protects the head in a hazard slot, verifies it, and retires the    *)
(* node it won; a retire scan frees the retired nodes nobody protects.     *)
(* One action per access to shared memory; the steps on the registry are   *)
(* those of HazardRegistry.                                                *)
(*                                                                         *)
(* Nodes are addresses: Box::new takes any address that is not allocated,  *)
(* one just freed included.  The retired list is filled and scanned under  *)
(* its mutex, and its order is irrelevant, so it is a set.                 *)
(***************************************************************************)
EXTENDS Naturals, Sequences, FiniteSets

CONSTANTS
  Threads,
  Addrs,       \* addresses the allocator hands out
  Null,        \* the null pointer
  NSlots,      \* MAX_HAZARDS
  Threshold,   \* RETIRE_THRESHOLD
  BufferSize,  \* capacity of the store buffer of a thread
  PromptProtect, \* for the runs: the load that verifies waits for the store of protect.
                 \* FALSE is the code
  NoThread,    \* the retired mutex is free
  NoValue,     \* pop has not read a value
  (* Bound of the model: calls of push. *)
  MaxPushes

ASSUME StackAssumption ==
  /\ Null \notin Addrs
  /\ NSlots \in Nat \ {0}
  /\ BufferSize \in Nat
  /\ Threshold \in Nat \ {0}
  /\ PromptProtect \in BOOLEAN
  /\ NoThread \notin Threads
  /\ NoValue \notin Nat
  /\ MaxPushes \in Nat

VARIABLES
  head,       \* the atomic head pointer
  next,       \* Node::next
  value,      \* Node::value
  allocated,  \* addresses of live boxes
  retired,    \* the retired list
  lock,       \* who holds its mutex
  open,       \* the stack has not been dropped
  (* locals of the operation a thread is in *)
  pc,
  node,       \* push: new; pop: head
  after,      \* push: head; pop: next
  got,        \* pop: value
  pushes,     \* push calls so far, for the bound and as distinct values
  chain,      \* history variable: the nodes of the stack, top first
  (* the registry *)
  inUse, ptr, pending, hpc, slot, probe, asked, seen, published, stable, rivals

(* The registry is the stack's own, and a pop gives its slot up before it  *)
(* retires, so a thread is one user of it at a time.                       *)
H == INSTANCE HazardRegistry WITH
  Pointers <- Addrs, Users <- Threads, ThreadOf <- [t \in Threads |-> t]

listVars  == <<head, chain>>
nodeVars  == <<next, value, allocated>>
poolVars  == <<retired, lock, open>>
localVars == <<node, after, got>>
registryVars == <<inUse, ptr, pending, hpc, slot, probe, asked, seen, published, stable, rivals>>
vars == <<listVars, nodeVars, poolVars, pc, localVars, pushes, registryVars>>

PushPCs == {"pushLoad", "pushCas"}
OwnerPCs == {"readValue", "clear", "drop", "release", "retire"}

StackTypeOK ==
  /\ head \in Addrs \union {Null}
  /\ next \in [Addrs -> Addrs \union {Null}]
  /\ value \in [Addrs -> 0..MaxPushes]
  /\ allocated \in SUBSET Addrs
  /\ retired \in SUBSET Addrs
  /\ lock \in Threads \union {NoThread}
  /\ open \in BOOLEAN
  /\ pc \in [Threads -> PushPCs \union OwnerPCs \union
               {"idle", "acquire", "load", "protect", "verify", "readNext", "popCas",
                "scan", "panicked"}]
  /\ node \in [Threads -> Addrs \union {Null}]
  /\ \A t \in Threads :
       pc[t] \notin {"idle", "acquire", "load", "drop", "release", "scan", "panicked"}
         => node[t] \in Addrs
  /\ after \in [Threads -> Addrs \union {Null}]
  /\ got \in [Threads -> (1..MaxPushes) \union {NoValue}]
  /\ pushes \in 0..MaxPushes
  /\ chain \in Seq(Addrs)

TypeOK == StackTypeOK /\ H!TypeOK

Init ==
  /\ head = Null
  /\ next = [a \in Addrs |-> Null]
  /\ value = [a \in Addrs |-> 0]
  /\ allocated = {} /\ retired = {}
  /\ lock = NoThread
  /\ open = TRUE
  /\ pc = [t \in Threads |-> "idle"]
  /\ node = [t \in Threads |-> Null]
  /\ after = [t \in Threads |-> Null]
  /\ got = [t \in Threads |-> NoValue]
  /\ pushes = 0
  /\ chain = <<>>
  /\ H!Init

Goto(t, to) == pc' = [pc EXCEPT ![t] = to]

(* A compare-and-swap or a mutex operation of t waits for its own stores. *)
Drained(t) == pending[t] = <<>>

-----------------------------------------------------------------------------
(* push *)

PushStart(t) ==
  /\ open /\ pc[t] = "idle"
  /\ pushes < MaxPushes
  /\ \E a \in Addrs \ allocated :
       /\ allocated' = allocated \union {a}
       /\ value' = [value EXCEPT ![a] = pushes + 1]
       /\ next' = [next EXCEPT ![a] = Null]
       /\ node' = [node EXCEPT ![t] = a]
  /\ pushes' = pushes + 1
  /\ Goto(t, "pushLoad")
  /\ UNCHANGED <<listVars, poolVars, after, got, registryVars>>

(* let head = self.head.load(); new.next = head, which only t can see. *)
PushLoad(t) ==
  /\ pc[t] = "pushLoad"
  /\ after' = [after EXCEPT ![t] = head]
  /\ next' = [next EXCEPT ![node[t]] = head]
  /\ Goto(t, "pushCas")
  /\ UNCHANGED <<listVars, value, allocated, poolVars, node, got, pushes, registryVars>>

(* Faulty: a failed compare-and-swap is retried with the head it returned, *)
(* without linking the new node to it.                                     *)
PushCas_StaleNext(t) ==
  /\ pc[t] = "pushCas"
  /\ Drained(t)
  /\ IF head = after[t]
     THEN /\ head' = node[t]
          /\ chain' = <<node[t]>> \o chain
          /\ node' = [node EXCEPT ![t] = Null]
          /\ after' = [after EXCEPT ![t] = Null]
          /\ Goto(t, "idle")
     ELSE /\ after' = [after EXCEPT ![t] = head]
          /\ UNCHANGED <<pc, listVars, node>>
  /\ UNCHANGED <<nodeVars, poolVars, got, pushes, registryVars>>

(* Faulty: the new node is boxed inside the loop and lost on a retry. *)
PushCas_Leaks(t) ==
  /\ pc[t] = "pushCas"
  /\ Drained(t)
  /\ node' = [node EXCEPT ![t] = Null]
  /\ after' = [after EXCEPT ![t] = Null]
  /\ Goto(t, "idle")
  /\ IF head = after[t]
     THEN head' = node[t] /\ chain' = <<node[t]>> \o chain
     ELSE UNCHANGED listVars
  /\ UNCHANGED <<nodeVars, poolVars, got, pushes, registryVars>>

PushCas(t) ==
  /\ pc[t] = "pushCas"
  /\ Drained(t)
  /\ IF head = after[t]
     THEN /\ head' = node[t]
          /\ chain' = <<node[t]>> \o chain
          /\ node' = [node EXCEPT ![t] = Null]
          /\ after' = [after EXCEPT ![t] = Null]
          /\ Goto(t, "idle")
     ELSE /\ Goto(t, "pushLoad")
          /\ UNCHANGED <<listVars, node, after>>
  /\ UNCHANGED <<nodeVars, poolVars, got, pushes, registryVars>>

-----------------------------------------------------------------------------
(* pop *)

PopStart(t) ==
  /\ open /\ pc[t] = "idle"
  /\ H!BeginAcquire(t)
  /\ Goto(t, "acquire")
  /\ UNCHANGED <<listVars, nodeVars, poolVars, localVars, pushes>>

(* self.hazards.acquire().expect("hazard slot exhausted") *)
PopAcquire(t) ==
  /\ pc[t] = "acquire"
  /\ H!TryAcquire(t)
  /\ Goto(t, CASE hpc'[t] = "held" -> "load"
               [] hpc'[t] = "failed" -> "panicked"
               [] OTHER -> "acquire")
  /\ UNCHANGED <<listVars, nodeVars, poolVars, localVars, pushes>>

(* Faulty: the null check is missing. *)
PopLoad_NoNullCheck(t) ==
  /\ pc[t] = "load"
  /\ node' = [node EXCEPT ![t] = head]
  /\ Goto(t, "protect")
  /\ UNCHANGED <<listVars, nodeVars, poolVars, after, got, pushes, registryVars>>

(* let head = self.head.load(); an empty stack ends the pop. *)
PopLoad(t) ==
  /\ pc[t] = "load"
  /\ node' = [node EXCEPT ![t] = head]
  /\ Goto(t, IF head = Null THEN "drop" ELSE "protect")
  /\ UNCHANGED <<listVars, nodeVars, poolVars, after, got, pushes, registryVars>>

PopProtect(t) ==
  /\ pc[t] = "protect"
  /\ H!Protect(t, node[t])
  /\ Goto(t, "verify")
  /\ UNCHANGED <<listVars, nodeVars, poolVars, localVars, pushes>>

(* Faulty: the head is not read again after the protection. *)
PopVerify_Trusts(t) ==
  /\ pc[t] = "verify"
  /\ Goto(t, "readNext")
  /\ UNCHANGED <<listVars, nodeVars, poolVars, localVars, pushes, registryVars>>

(* if self.head.load() != head { continue; }  With Acquire and Release     *)
(* alone the load may run while the store of protect is still delayed.     *)
PopVerify(t) ==
  /\ pc[t] = "verify"
  /\ PromptProtect => Drained(t)
  /\ Goto(t, IF head = node[t] THEN "readNext" ELSE "load")
  /\ UNCHANGED <<listVars, nodeVars, poolVars, localVars, pushes, registryVars>>

(* let next = head.next *)
PopReadNext(t) ==
  /\ pc[t] = "readNext"
  /\ after' = [after EXCEPT ![t] = next[node[t]]]
  /\ Goto(t, "popCas")
  /\ UNCHANGED <<listVars, nodeVars, poolVars, node, got, pushes, registryVars>>

(* The compare-and-swap; on failure the loop starts over, slot kept. *)
PopCas(t) ==
  /\ pc[t] = "popCas"
  /\ Drained(t)
  /\ after' = [after EXCEPT ![t] = Null]
  /\ IF head = node[t]
     THEN /\ head' = after[t]
          /\ chain' = IF chain = <<>> THEN chain ELSE Tail(chain)
          /\ Goto(t, "readValue")
     ELSE Goto(t, "load") /\ UNCHANGED listVars
  /\ UNCHANGED <<nodeVars, poolVars, node, got, pushes, registryVars>>

(* let value = head.value *)
PopReadValue(t) ==
  /\ pc[t] = "readValue"
  /\ got' = [got EXCEPT ![t] = value[node[t]]]
  /\ Goto(t, "clear")
  /\ UNCHANGED <<listVars, nodeVars, poolVars, node, after, pushes, registryVars>>

(* slot.clear() *)
PopClear(t) ==
  /\ pc[t] = "clear"
  /\ H!Clear(t)
  /\ Goto(t, "drop")
  /\ UNCHANGED <<listVars, nodeVars, poolVars, localVars, pushes>>

(* drop(slot), also at the end of a pop that found the stack empty. *)
PopDropClear(t) ==
  /\ pc[t] = "drop"
  /\ H!DropClear(t)
  /\ Goto(t, "release")
  /\ UNCHANGED <<listVars, nodeVars, poolVars, localVars, pushes>>

PopDropRelease(t) ==
  /\ pc[t] = "release"
  /\ H!DropRelease(t)
  /\ Goto(t, IF node[t] = Null THEN "idle" ELSE "retire")
  /\ UNCHANGED <<listVars, nodeVars, poolVars, localVars, pushes>>

-----------------------------------------------------------------------------
(* retire, reclaim_locked, force_reclaim *)

(* The node joins the retired list; past the threshold the thread keeps    *)
(* the mutex and goes on to scan, else pop returns.                        *)
Retire(t) ==
  /\ pc[t] = "retire"
  /\ Drained(t) /\ lock = NoThread
  /\ retired' = retired \union {node[t]}
  /\ node' = [node EXCEPT ![t] = Null]
  /\ IF Cardinality(retired') >= Threshold
     THEN lock' = t /\ Goto(t, "scan") /\ H!BeginScan(t) /\ UNCHANGED got
     ELSE /\ Goto(t, "idle")
          /\ got' = [got EXCEPT ![t] = NoValue]
          /\ UNCHANGED <<lock, registryVars>>
  /\ UNCHANGED <<listVars, nodeVars, open, after, pushes>>

ForceReclaim(t) ==
  /\ open /\ pc[t] = "idle"
  /\ Drained(t) /\ lock = NoThread
  /\ lock' = t
  /\ H!BeginScan(t)
  /\ Goto(t, "scan")
  /\ UNCHANGED <<listVars, nodeVars, retired, open, localVars, pushes>>

Scan(t) ==
  /\ pc[t] = "scan"
  /\ H!ScanInUse(t) \/ H!ScanPtr(t)
  /\ UNCHANGED <<listVars, nodeVars, poolVars, pc, localVars, pushes>>

(* Faulty: every retired node is freed. *)
Reclaim_All(t) ==
  /\ pc[t] = "scan"
  /\ H!EndScan(t)
  /\ retired' = {}
  /\ allocated' = allocated \ retired
  /\ lock' = NoThread
  /\ got' = [got EXCEPT ![t] = NoValue]
  /\ Goto(t, "idle")
  /\ UNCHANGED <<listVars, next, value, open, node, after, pushes>>

(* retained are the nodes of the snapshot; the others are freed. *)
Reclaim(t) ==
  /\ pc[t] = "scan"
  /\ H!EndScan(t)
  /\ retired' = retired \intersect seen[t]
  /\ allocated' = allocated \ (retired \ seen[t])
  /\ lock' = NoThread
  /\ got' = [got EXCEPT ![t] = NoValue]
  /\ Goto(t, "idle")
  /\ UNCHANGED <<listVars, next, value, open, node, after, pushes>>

-----------------------------------------------------------------------------
(* The nodes that pop finds one after the other when nobody interferes. *)
OnList ==
  {a \in Addrs : \A S \in SUBSET Addrs :
     ({head} \ {Null} \subseteq S /\ \A b \in S : {next[b]} \ {Null} \subseteq S) => a \in S}

(* Drop: the stack is dropped when no thread uses it any more; what is on  *)
(* it is popped and retired, and all that is retired is freed.             *)
DropStack ==
  /\ open
  /\ \A t \in Threads : pc[t] \in {"idle", "panicked"} /\ Drained(t)
  /\ open' = FALSE
  /\ head' = Null
  /\ chain' = <<>>
  /\ retired' = {}
  /\ allocated' = allocated \ (retired \union OnList)
  /\ UNCHANGED <<next, value, lock, pc, localVars, pushes, registryVars>>

Visible(t) ==
  /\ H!Flush(t)
  /\ UNCHANGED <<listVars, nodeVars, poolVars, pc, localVars, pushes>>

Step(t) ==
  \/ PushStart(t) \/ PushLoad(t) \/ PushCas(t)
  \/ PopStart(t) \/ PopAcquire(t) \/ PopLoad(t) \/ PopProtect(t) \/ PopVerify(t)
  \/ PopReadNext(t) \/ PopCas(t) \/ PopReadValue(t)
  \/ PopClear(t) \/ PopDropClear(t) \/ PopDropRelease(t)
  \/ Retire(t) \/ ForceReclaim(t) \/ Scan(t) \/ Reclaim(t)
  \/ Visible(t)

(* Nothing happens to a dropped stack. *)
Dropped == ~open /\ UNCHANGED vars

Next == (\E t \in Threads : Step(t)) \/ DropStack \/ Dropped

Spec == Init /\ [][Next]_vars

-----------------------------------------------------------------------------
(* Properties. *)

InChain(a) == \E i \in DOMAIN chain : chain[i] = a
Pushing(t) == pc[t] \in PushPCs
Owning(t)  == pc[t] \in OwnerPCs /\ node[t] # Null

(* The load that verifies finds the head unchanged, while the store of     *)
(* protect is still delayed: the load has overtaken the store.             *)
Overtakes(t) == PopVerify(t) /\ head = node[t] /\ ~Drained(t)

(* No verification overtakes the protection that it verifies.  The code    *)
(* does not ensure it (Release in src/src/hazard.rs:126, Acquire in        *)
(* src/src/safe_treiber.rs:91).  It is what the SAFETY comment of          *)
(* src/src/safe_treiber.rs:94-96 takes for granted, and all that it does:  *)
(* the executions in which it holds are safe.                              *)
InOrder == [][\A t \in Threads : ~Overtakes(t)]_vars

(* A node is not freed between the verification of its protection and the  *)
(* last access to it (the SAFETY comments of src/src/safe_treiber.rs:94-96 *)
(* and 103-106); popCas does not read it, but its success means something  *)
(* only if the address was not given to another node.                      *)
NoUseAfterFree ==
  \A t \in Threads : pc[t] \in {"readNext", "popCas", "readValue"} => node[t] \in allocated

(* The list that head and next spell out in memory is the stack that the   *)
(* successful compare-and-swaps built: no node is lost, duplicated or out  *)
(* of order.                                                               *)
ListIntact ==
  /\ head = IF chain = <<>> THEN Null ELSE chain[1]
  /\ \A i \in DOMAIN chain :
       next[chain[i]] = IF i = Len(chain) THEN Null ELSE chain[i + 1]

(* Every allocated node has exactly one owner: the stack, the retired      *)
(* list, the push that made it or the pop that won it.  Hence no node is   *)
(* freed or retired twice and none leaks, and a dropped stack leaves       *)
(* nothing behind (test drop_drains_retired_queue).                        *)
EveryNodeOwned ==
  LET owners(a) == (IF InChain(a) THEN 1 ELSE 0) + (IF a \in retired THEN 1 ELSE 0)
        + Cardinality({t \in Threads : (Pushing(t) \/ Owning(t)) /\ node[t] = a})
  IN  /\ \A a \in Addrs : owners(a) = IF a \in allocated THEN 1 ELSE 0
      /\ \A i, j \in DOMAIN chain : chain[i] = chain[j] => i = j

(* The stack implements AtomicStack: pops take effect at the successful    *)
(* compare-and-swap and return the value of the node that was on top then, *)
(* though they read it from memory later (test                             *)
(* interleaved_high_contention_no_duplicates of src/src/safe_treiber.rs).  *)
Abstract == INSTANCE AtomicStack WITH
  Values  <- 1..MaxPushes,
  offered <- {value[node[t]] : t \in {u \in Threads : Pushing(u)}},
  stack   <- [i \in DOMAIN chain |-> value[chain[i]]],
  held    <- [t \in Threads |-> IF pc[t] = "readValue" THEN value[node[t]] ELSE got[t]]

ImplementsAtomicStack == Abstract!Spec

=============================================================================
