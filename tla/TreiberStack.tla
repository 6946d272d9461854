---------------------------- MODULE TreiberStack ----------------------------
(***************************************************************************)
(* TreiberStack of src/src/treiber.rs: the lock-free stack without         *)
(* reclamation, whose pop frees the node it won.  One action per access to *)
(* shared memory.  Reuse says whether the allocator hands out the address  *)
(* of a freed node again; FALSE is the no-ABA assumption of the source.    *)
(* The contents of freed memory are arbitrary.                             *)
(***************************************************************************)
EXTENDS Naturals, Sequences, FiniteSets

CONSTANTS
  Threads,
  Addrs,    \* addresses the allocator hands out
  Null,     \* the null pointer
  NoValue,  \* pop has not read a value
  Reuse,    \* freed addresses are allocated again
  (* Bound of the model: calls of push. *)
  MaxPushes

ASSUME TreiberAssumption ==
  /\ Null \notin Addrs
  /\ NoValue \notin Nat
  /\ Reuse \in BOOLEAN
  /\ MaxPushes \in Nat

VARIABLES
  head,      \* the atomic head pointer
  next,      \* Node::next
  value,     \* Node::value
  allocated, \* addresses of live boxes
  freed,     \* addresses freed at least once
  pc,
  node,      \* push: new; pop: head
  after,     \* push: head; pop: next
  got,       \* pop: value
  pushes,    \* push calls so far, for the bound and as distinct values
  chain      \* history variable: the nodes of the stack, top first

listVars == <<head, chain>>
nodeVars == <<next, value, allocated, freed>>
vars == <<listVars, nodeVars, pc, node, after, got, pushes>>

TypeOK ==
  /\ head \in Addrs \union {Null}
  /\ next \in [Addrs -> Addrs \union {Null}]
  /\ value \in [Addrs -> 0..MaxPushes]
  /\ allocated \in SUBSET Addrs
  /\ freed \in SUBSET Addrs
  /\ pc \in [Threads -> {"idle", "pushLoad", "pushCas", "load", "readNext", "popCas",
                         "take", "return"}]
  /\ node \in [Threads -> Addrs \union {Null}]
  /\ \A t \in Threads : pc[t] \in {"pushLoad", "pushCas", "readNext", "popCas", "take"}
       => node[t] \in Addrs
  /\ after \in [Threads -> Addrs \union {Null}]
  /\ got \in [Threads -> (1..MaxPushes) \union {NoValue}]
  /\ pushes \in 0..MaxPushes
  /\ chain \in Seq(Addrs)

Init ==
  /\ head = Null
  /\ next = [a \in Addrs |-> Null]
  /\ value = [a \in Addrs |-> 0]
  /\ allocated = {} /\ freed = {}
  /\ pc = [t \in Threads |-> "idle"]
  /\ node = [t \in Threads |-> Null]
  /\ after = [t \in Threads |-> Null]
  /\ got = [t \in Threads |-> NoValue]
  /\ pushes = 0
  /\ chain = <<>>

Goto(t, to) == pc' = [pc EXCEPT ![t] = to]

Available == Addrs \ (allocated \union (IF Reuse THEN {} ELSE freed))

-----------------------------------------------------------------------------
(* push *)

PushStart(t) ==
  /\ pc[t] = "idle"
  /\ pushes < MaxPushes
  /\ \E a \in Available :
       /\ allocated' = allocated \union {a}
       /\ value' = [value EXCEPT ![a] = pushes + 1]
       /\ next' = [next EXCEPT ![a] = Null]
       /\ node' = [node EXCEPT ![t] = a]
  /\ pushes' = pushes + 1
  /\ Goto(t, "pushLoad")
  /\ UNCHANGED <<listVars, freed, after, got>>

PushLoad(t) ==
  /\ pc[t] = "pushLoad"
  /\ after' = [after EXCEPT ![t] = head]
  /\ next' = [next EXCEPT ![node[t]] = head]
  /\ Goto(t, "pushCas")
  /\ UNCHANGED <<listVars, value, allocated, freed, node, got, pushes>>

(* Faulty: a failed compare-and-swap is retried with the head it returned, *)
(* without linking the new node to it.                                     *)
PushCas_StaleNext(t) ==
  /\ pc[t] = "pushCas"
  /\ IF head = after[t]
     THEN /\ head' = node[t]
          /\ chain' = <<node[t]>> \o chain
          /\ node' = [node EXCEPT ![t] = Null]
          /\ after' = [after EXCEPT ![t] = Null]
          /\ Goto(t, "idle")
     ELSE /\ after' = [after EXCEPT ![t] = head]
          /\ UNCHANGED <<pc, listVars, node>>
  /\ UNCHANGED <<nodeVars, got, pushes>>

(* Faulty: a failed compare-and-swap is retried without a new load. *)
PushCas_NoReload(t) ==
  /\ pc[t] = "pushCas"
  /\ IF head = after[t]
     THEN /\ head' = node[t]
          /\ chain' = <<node[t]>> \o chain
          /\ node' = [node EXCEPT ![t] = Null]
          /\ after' = [after EXCEPT ![t] = Null]
          /\ Goto(t, "idle")
     ELSE UNCHANGED <<pc, listVars, node, after>>
  /\ UNCHANGED <<nodeVars, got, pushes>>

PushCas(t) ==
  /\ pc[t] = "pushCas"
  /\ IF head = after[t]
     THEN /\ head' = node[t]
          /\ chain' = <<node[t]>> \o chain
          /\ node' = [node EXCEPT ![t] = Null]
          /\ after' = [after EXCEPT ![t] = Null]
          /\ Goto(t, "idle")
     ELSE /\ Goto(t, "pushLoad")
          /\ UNCHANGED <<listVars, node, after>>
  /\ UNCHANGED <<nodeVars, got, pushes>>

-----------------------------------------------------------------------------
(* pop *)

PopStart(t) ==
  /\ pc[t] = "idle"
  /\ Goto(t, "load")
  /\ UNCHANGED <<listVars, nodeVars, node, after, got, pushes>>

(* Faulty: the null check is missing. *)
PopLoad_NoNullCheck(t) ==
  /\ pc[t] = "load"
  /\ node' = [node EXCEPT ![t] = head]
  /\ Goto(t, "readNext")
  /\ UNCHANGED <<listVars, nodeVars, after, got, pushes>>

PopLoad(t) ==
  /\ pc[t] = "load"
  /\ node' = [node EXCEPT ![t] = head]
  /\ Goto(t, IF head = Null THEN "idle" ELSE "readNext")
  /\ UNCHANGED <<listVars, nodeVars, after, got, pushes>>

(* let next = head.next: of freed memory, any pointer may come back. *)
PopReadNext(t) ==
  /\ pc[t] = "readNext"
  /\ \E n \in IF node[t] \in allocated THEN {next[node[t]]} ELSE Addrs \union {Null} :
       after' = [after EXCEPT ![t] = n]
  /\ Goto(t, "popCas")
  /\ UNCHANGED <<listVars, nodeVars, node, got, pushes>>

(* Faulty: the head is stored, whatever it has become meanwhile. *)
PopCas_Stores(t) ==
  /\ pc[t] = "popCas"
  /\ head' = after[t]
  /\ chain' = IF chain = <<>> THEN chain ELSE Tail(chain)
  /\ after' = [after EXCEPT ![t] = Null]
  /\ Goto(t, "take")
  /\ UNCHANGED <<nodeVars, node, got, pushes>>

PopCas(t) ==
  /\ pc[t] = "popCas"
  /\ after' = [after EXCEPT ![t] = Null]
  /\ IF head = node[t]
     THEN /\ head' = after[t]
          /\ chain' = IF chain = <<>> THEN chain ELSE Tail(chain)
          /\ Goto(t, "take")
          /\ UNCHANGED node
     ELSE /\ node' = [node EXCEPT ![t] = Null]
          /\ Goto(t, "load")
          /\ UNCHANGED listVars
  /\ UNCHANGED <<nodeVars, got, pushes>>

(* Box::from_raw(head): the value is read and the box is freed. *)
PopTake(t) ==
  /\ pc[t] = "take"
  /\ got' = [got EXCEPT ![t] = value[node[t]]]
  /\ allocated' = allocated \ {node[t]}
  /\ freed' = freed \union {node[t]}
  /\ node' = [node EXCEPT ![t] = Null]
  /\ Goto(t, "return")
  /\ UNCHANGED <<listVars, next, value, after, pushes>>

PopReturn(t) ==
  /\ pc[t] = "return"
  /\ got' = [got EXCEPT ![t] = NoValue]
  /\ Goto(t, "idle")
  /\ UNCHANGED <<listVars, nodeVars, node, after, pushes>>

(* The nodes that pop finds one after the other when nobody interferes. *)
OnList ==
  {a \in Addrs : \A S \in SUBSET Addrs :
     ({head} \ {Null} \subseteq S /\ \A b \in S : {next[b]} \ {Null} \subseteq S) => a \in S}

(* Drop: the remaining nodes are popped and freed; nobody uses the stack.  *)
(* The module goes on with a new, empty stack.                             *)
DropStack ==
  /\ \A t \in Threads : pc[t] = "idle"
  /\ head' = Null
  /\ chain' = <<>>
  /\ allocated' = allocated \ OnList
  /\ freed' = freed \union OnList
  /\ UNCHANGED <<next, value, pc, node, after, got, pushes>>

Step(t) ==
  \/ PushStart(t) \/ PushLoad(t) \/ PushCas(t)
  \/ PopStart(t) \/ PopLoad(t) \/ PopReadNext(t) \/ PopCas(t) \/ PopTake(t) \/ PopReturn(t)

Next == (\E t \in Threads : Step(t)) \/ DropStack

Spec == Init /\ [][Next]_vars

(* A thread inside push or pop keeps being scheduled. *)
Continue(t) == pc[t] # "idle" /\ Step(t)

FairSpec == Spec /\ \A t \in Threads : WF_vars(Continue(t))

-----------------------------------------------------------------------------
(* Properties. *)

InChain(a) == \E i \in DOMAIN chain : chain[i] = a
Pushing(t) == pc[t] \in {"pushLoad", "pushCas"}

(* "While we hold this load, no other thread can free head because they    *)
(* would need to win the CAS first" (src/src/treiber.rs:89-91, on the read *)
(* of next).                                                               *)
NoUseAfterFree == \A t \in Threads : pc[t] = "readNext" => node[t] \in allocated

(* Every box has one owner, the list, a push or a pop: nothing leaks and   *)
(* nothing is freed twice.  Without reuse of addresses this survives the   *)
(* reads of freed memory, because the compare-and-swap after them fails.   *)
EveryNodeOwned ==
  \A a \in Addrs :
    (IF InChain(a) THEN 1 ELSE 0)
      + Cardinality({t \in Threads : (Pushing(t) \/ pc[t] = "take") /\ node[t] = a})
    = IF a \in allocated THEN 1 ELSE 0

(* The stack implements AtomicStack: a pop takes effect at its successful  *)
(* compare-and-swap and returns what was on top then (test                 *)
(* interleaved_push_pop_under_contention of src/src/treiber.rs).           *)
Abstract == INSTANCE AtomicStack WITH
  Values  <- 1..MaxPushes,
  offered <- {value[node[t]] : t \in {u \in Threads : Pushing(u)}},
  stack   <- [i \in DOMAIN chain |-> value[chain[i]]],
  held    <- [t \in Threads |-> IF pc[t] = "take" THEN value[node[t]] ELSE got[t]]

ImplementsAtomicStack == Abstract!Spec

(* Lock-freedom: an operation retries only because another one succeeded.  *)
(* With a bound on the pushes, and so on the nodes that can be popped,     *)
(* interference is bounded and every push and pop comes to its end, reads  *)
(* of freed memory included (src/src/treiber.rs:66-81 and 84-104).         *)
OpsComplete == \A t \in Threads : (pc[t] # "idle") ~> (pc[t] = "idle")

=============================================================================
