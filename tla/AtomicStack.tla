---------------------------- MODULE AtomicStack ----------------------------
(***************************************************************************)
(* What a concurrent stack of distinct values promises its users: every    *)
(* value offered is pushed at most once, a pop takes the value on top in   *)
(* one step and hands exactly that value to its caller.                    *)
(***************************************************************************)
EXTENDS Sequences

CONSTANTS
  Threads,
  Values,
  NoValue  \* not a value

VARIABLES
  offered, \* values whose push has been called and has not taken effect
  stack,   \* the contents, top first
  held     \* the value each thread has popped and not returned yet

vars == <<offered, stack, held>>

TypeOK ==
  /\ offered \in SUBSET Values
  /\ stack \in Seq(Values)
  /\ held \in [Threads -> Values \union {NoValue}]

Init ==
  /\ offered = {}
  /\ stack = <<>>
  /\ held = [t \in Threads |-> NoValue]

Offer(v) ==
  /\ offered' = offered \union {v}
  /\ UNCHANGED <<stack, held>>

Push(v) ==
  /\ v \in offered
  /\ offered' = offered \ {v}
  /\ stack' = <<v>> \o stack
  /\ UNCHANGED held

Pop(t) ==
  /\ stack # <<>>
  /\ held[t] = NoValue
  /\ stack' = Tail(stack)
  /\ held' = [held EXCEPT ![t] = Head(stack)]
  /\ UNCHANGED offered

Return(t) ==
  /\ held[t] # NoValue
  /\ held' = [held EXCEPT ![t] = NoValue]
  /\ UNCHANGED <<offered, stack>>

(* The stack is dropped with what it still holds, and nobody is using it. *)
Discard ==
  /\ offered = {}
  /\ \A t \in Threads : held[t] = NoValue
  /\ stack' = <<>>
  /\ UNCHANGED <<offered, held>>

Next ==
  \/ \E v \in Values : Offer(v) \/ Push(v)
  \/ \E t \in Threads : Pop(t) \/ Return(t)
  \/ Discard

Spec == Init /\ [][Next]_vars
=============================================================================
