------------------------ MODULE TreiberStack_proofs ------------------------
(***************************************************************************)
(* The plain stack, for any number of threads, addresses and pushes, when  *)
(* no address is allocated twice; and the facts about linked lists that    *)
(* the proofs of both stacks use.                                          *)
(***************************************************************************)
EXTENDS TreiberStack, FiniteSetTheorems, SequenceTheorems, WellFoundedInduction, TLAPS

(* Natural numbers and sequences. *)

(* A set of natural numbers that is not empty has a least element. *)
LEMMA Least ==
  ASSUME NEW T \in SUBSET Nat, T # {}
  PROVE  \E i \in T : \A j \in T : i <= j
<1>1. PICK i \in T : \A j \in T : ~(<<j, i>> \in OpToRel(<, Nat))
  BY NatLessThanWellFounded, WFMin
<1>2. ASSUME NEW j \in T PROVE i <= j
  <2>1. j \in Nat /\ i \in Nat
    OBVIOUS
  <2>2. ~(<<j, i>> \in OpToRel(<, Nat))
    BY <1>1
  <2>3. ~(j < i)
    BY <2>1, <2>2 DEF OpToRel
  <2> QED BY <2>1, <2>3
<1> QED BY <1>2


(* The nodes of a list, a list of different nodes, and a list that the     *)
(* pointer h and the references n spell out in memory.                     *)
Nodes(c) == {c[i] : i \in DOMAIN c}

Distinct(c) == \A i, j \in DOMAIN c : c[i] = c[j] => i = j

Linked(h, n, c) ==
  /\ h = IF c = <<>> THEN Null ELSE c[1]
  /\ \A i \in DOMAIN c : n[c[i]] = IF i = Len(c) THEN Null ELSE c[i + 1]

(* A node in front of a list. *)
LEMMA Pushed ==
  ASSUME NEW S, NEW s \in Seq(S), NEW x \in S
  PROVE  /\ <<x>> \o s \in Seq(S)
         /\ Len(s) \in Nat
         /\ Len(<<x>> \o s) = Len(s) + 1
         /\ (<<x>> \o s)[1] = x
         /\ \A i \in 1..Len(s) : (<<x>> \o s)[i + 1] = s[i]
         /\ DOMAIN (<<x>> \o s) = 1..(Len(s) + 1)
         /\ <<x>> \o s # <<>>
OBVIOUS

(* A list without its first node. *)
LEMMA Popped ==
  ASSUME NEW S, NEW s \in Seq(S), s # <<>>
  PROVE  /\ Tail(s) \in Seq(S)
         /\ Len(s) \in Nat \ {0}
         /\ Len(Tail(s)) = Len(s) - 1
         /\ \A i \in 1..Len(s) - 1 : Tail(s)[i] = s[i + 1]
         /\ DOMAIN Tail(s) = 1..Len(s) - 1
         /\ Tail(s) = <<>> <=> Len(s) = 1
<1>1. /\ Tail(s) \in Seq(S)
      /\ Len(s) \in Nat \ {0}
      /\ Len(Tail(s)) = Len(s) - 1
      /\ \A i \in 1..Len(s) - 1 : Tail(s)[i] = s[i + 1]
      /\ DOMAIN Tail(s) = 1..Len(s) - 1
  OBVIOUS
<1>2. \A c \in Seq(S) : c = <<>> <=> Len(c) = 0
  OBVIOUS
<1> QED BY <1>1, <1>2

(* A node in front of a list is one more node of it. *)
LEMMA PushNodes ==
  ASSUME NEW S, NEW s \in Seq(S), NEW x \in S
  PROVE  /\ Nodes(<<x>> \o s) = Nodes(s) \union {x}
         /\ Distinct(s) /\ x \notin Nodes(s) => Distinct(<<x>> \o s)
<1>1. PICK c : c = <<x>> \o s
  OBVIOUS
<1>2. /\ Len(s) \in Nat /\ c[1] = x /\ DOMAIN s = 1..Len(s)
      /\ \A i \in 1..Len(s) : c[i + 1] = s[i]
      /\ DOMAIN c = 1..(Len(s) + 1)
  BY <1>1, Pushed
<1>3. \A j \in DOMAIN c : j = 1 \/ (j - 1 \in DOMAIN s /\ c[j] = s[j - 1])
  <2> SUFFICES ASSUME NEW j \in DOMAIN c, j # 1 PROVE j - 1 \in DOMAIN s /\ c[j] = s[j - 1]
    OBVIOUS
  <2>1. j - 1 \in 1..Len(s) /\ j = (j - 1) + 1
    BY <1>2
  <2> QED BY <1>2, <2>1
<1>4. Nodes(c) = Nodes(s) \union {x}
  <2>1. ASSUME NEW b \in Nodes(c) PROVE b \in Nodes(s) \union {x}
    BY <1>2, <1>3, <2>1 DEF Nodes
  <2>2. ASSUME NEW b \in Nodes(s) PROVE b \in Nodes(c)
    <3>1. PICK i \in 1..Len(s) : s[i] = b
      BY <1>2, <2>2 DEF Nodes
    <3>2. i + 1 \in DOMAIN c /\ c[i + 1] = b
      BY <1>2, <3>1
    <3> QED BY <3>2 DEF Nodes
  <2>3. x \in Nodes(c)
    <3>1. 1 \in DOMAIN c
      BY <1>2
    <3> QED BY <1>2, <3>1 DEF Nodes
  <2> QED BY <2>1, <2>2, <2>3
<1>5. ASSUME Distinct(s), x \notin Nodes(s) PROVE Distinct(c)
  <2> SUFFICES ASSUME NEW i \in DOMAIN c, NEW j \in DOMAIN c, c[i] = c[j] PROVE i = j
    BY DEF Distinct
  <2>1. \A k \in DOMAIN s : s[k] # x
    BY <1>5 DEF Nodes
  <2>2. (i = 1) <=> (j = 1)
    BY <1>2, <1>3, <2>1
  <2>3. i # 1 => i - 1 = j - 1
    BY <1>3, <1>5, <2>2 DEF Distinct
  <2> QED BY <1>2, <2>2, <2>3
<1> QED BY <1>1, <1>4, <1>5

(* The first node of a list is not one of the rest. *)
LEMMA PopNodes ==
  ASSUME NEW S, NEW s \in Seq(S), s # <<>>, Distinct(s)
  PROVE  /\ s[1] \in Nodes(s)
         /\ Nodes(Tail(s)) = Nodes(s) \ {s[1]}
         /\ Distinct(Tail(s))
<1>1. PICK c : c = Tail(s)
  OBVIOUS
<1>2. /\ Len(s) \in Nat \ {0} /\ DOMAIN s = 1..Len(s)
      /\ \A i \in 1..Len(s) - 1 : c[i] = s[i + 1]
      /\ DOMAIN c = 1..Len(s) - 1
  BY <1>1, Popped
<1>3. 1 \in DOMAIN s /\ s[1] \in Nodes(s)
  BY <1>2 DEF Nodes
<1>4. \A i \in DOMAIN c : i + 1 \in DOMAIN s /\ c[i] = s[i + 1] /\ i + 1 # 1
  BY <1>2
<1>5. Nodes(c) = Nodes(s) \ {s[1]}
  <2>1. ASSUME NEW b \in Nodes(c) PROVE b \in Nodes(s) /\ b # s[1]
    BY <1>3, <1>4, <2>1 DEF Nodes, Distinct
  <2>2. ASSUME NEW b \in Nodes(s), b # s[1] PROVE b \in Nodes(c)
    <3>1. PICK i \in DOMAIN s : s[i] = b
      BY <2>2 DEF Nodes
    <3>2. i - 1 \in DOMAIN c /\ (i - 1) + 1 = i
      BY <1>2, <2>2, <3>1
    <3>3. c[i - 1] = b
      BY <1>4, <3>1, <3>2
    <3> QED BY <3>2, <3>3 DEF Nodes
  <2> QED BY <2>1, <2>2
<1>6. Distinct(c)
  <2> SUFFICES ASSUME NEW i \in DOMAIN c, NEW j \in DOMAIN c, c[i] = c[j] PROVE i = j
    BY DEF Distinct
  <2>1. i + 1 = j + 1
    BY <1>4 DEF Distinct
  <2> QED BY <1>2, <2>1
<1> QED BY <1>1, <1>3, <1>5, <1>6

(* A node that refers to what h leads to can be put in front of the list.  *)
LEMMA PushLinks ==
  ASSUME NEW S, NEW s \in Seq(S), NEW x \in S, NEW h, NEW n, Linked(h, n, s), n[x] = h
  PROVE  Linked(x, n, <<x>> \o s)
<1>1. PICK c : c = <<x>> \o s
  OBVIOUS
<1>2. /\ Len(s) \in Nat /\ Len(c) = Len(s) + 1 /\ c[1] = x /\ c # <<>>
      /\ \A i \in 1..Len(s) : c[i + 1] = s[i]
      /\ DOMAIN c = 1..(Len(s) + 1)
  BY <1>1, Pushed
<1>3. DOMAIN s = 1..Len(s) /\ (s = <<>> <=> Len(s) = 0)
  OBVIOUS
<1>4. n[c[1]] = IF 1 = Len(c) THEN Null ELSE c[1 + 1]
  <2>1. CASE s = <<>>
    BY <1>2, <1>3, <2>1 DEF Linked
  <2>2. CASE s # <<>>
    <3>1. Len(c) # 1 /\ c[1 + 1] = s[1]
      BY <1>2, <1>3, <2>2
    <3> QED BY <1>2, <2>2, <3>1 DEF Linked
  <2> QED BY <2>1, <2>2
<1>5. ASSUME NEW i \in 1..Len(s)
      PROVE  n[c[i + 1]] = IF i + 1 = Len(c) THEN Null ELSE c[(i + 1) + 1]
  <2>1. n[s[i]] = IF i = Len(s) THEN Null ELSE s[i + 1]
    BY <1>3, <1>5 DEF Linked
  <2>2. CASE i = Len(s)
    BY <1>2, <2>1, <2>2
  <2>3. CASE i # Len(s)
    <3>1. i + 1 \in 1..Len(s) /\ i + 1 # Len(c)
      BY <1>2, <2>3
    <3>2. c[(i + 1) + 1] = s[i + 1]
      BY <1>2, <3>1
    <3> QED BY <1>2, <2>1, <2>3, <3>1, <3>2
  <2> QED BY <2>2, <2>3
<1>6. ASSUME NEW j \in DOMAIN c, j # 1 PROVE \E i \in 1..Len(s) : j = i + 1
  <2>1. j - 1 \in 1..Len(s) /\ j = (j - 1) + 1
    BY <1>2, <1>6
  <2> QED BY <2>1
<1>7. Linked(x, n, c)
  BY <1>2, <1>4, <1>5, <1>6 DEF Linked
<1> QED BY <1>1, <1>7

(* h leads to the first node, and its reference to the rest of the list.   *)
LEMMA PopLinks ==
  ASSUME NEW S, NEW s \in Seq(S), s # <<>>, NEW h, NEW n, Linked(h, n, s)
  PROVE  h = s[1] /\ Linked(n[h], n, Tail(s))
<1>1. PICK c : c = Tail(s)
  OBVIOUS
<1>2. /\ Len(s) \in Nat \ {0} /\ Len(c) = Len(s) - 1
      /\ \A i \in 1..Len(s) - 1 : c[i] = s[i + 1]
      /\ DOMAIN c = 1..Len(s) - 1
      /\ c = <<>> <=> Len(s) = 1
  BY <1>1, Popped
<1>3. DOMAIN s = 1..Len(s) /\ 1 \in DOMAIN s /\ h = s[1]
  BY <1>2 DEF Linked
<1>4. n[h] = IF 1 = Len(s) THEN Null ELSE s[1 + 1]
  BY <1>3 DEF Linked
<1>5. n[h] = IF c = <<>> THEN Null ELSE c[1]
  <2>1. CASE Len(s) = 1
    BY <1>2, <1>4, <2>1
  <2>2. CASE Len(s) # 1
    <3>1. 1 \in 1..Len(s) - 1
      BY <1>2, <2>2
    <3> QED BY <1>2, <1>4, <2>2, <3>1
  <2> QED BY <2>1, <2>2
<1>6. ASSUME NEW i \in DOMAIN c PROVE n[c[i]] = IF i = Len(c) THEN Null ELSE c[i + 1]
  <2>1. i + 1 \in DOMAIN s /\ c[i] = s[i + 1]
    BY <1>2, <1>3
  <2>2. n[s[i + 1]] = IF i + 1 = Len(s) THEN Null ELSE s[(i + 1) + 1]
    BY <2>1 DEF Linked
  <2>3. CASE i = Len(c)
    BY <1>2, <2>1, <2>2, <2>3
  <2>4. CASE i # Len(c)
    <3>1. i + 1 \in 1..Len(s) - 1 /\ i + 1 # Len(s)
      BY <1>2, <2>4
    <3>2. c[i + 1] = s[(i + 1) + 1]
      BY <1>2, <3>1
    <3> QED BY <2>1, <2>2, <2>4, <3>1, <3>2
  <2> QED BY <2>3, <2>4
<1>7. Linked(n[h], n, c)
  BY <1>5, <1>6 DEF Linked
<1> QED BY <1>1, <1>3, <1>7

(* Whoever follows the references of a list meets all its nodes: a first   *)
(* one that is missed would be the one h or its predecessor refers to.     *)
LEMMA LinkedReached ==
  ASSUME NEW A, Null \notin A, NEW s \in Seq(A), NEW h, NEW n, Linked(h, n, s),
         NEW S, {h} \ {Null} \subseteq S, \A b \in S : {n[b]} \ {Null} \subseteq S
  PROVE  Nodes(s) \subseteq S
<1> DEFINE Missed == {i \in DOMAIN s : s[i] \notin S}
<1>1. SUFFICES ASSUME Missed # {} PROVE FALSE
  BY DEF Nodes
<1>2. Missed \subseteq Nat /\ DOMAIN s = 1..Len(s) /\ Len(s) \in Nat
  OBVIOUS
<1>3. PICK i \in Missed : \A j \in Missed : i <= j
  <2> HIDE DEF Missed
  <2> QED BY <1>1, <1>2, Least
<1>4. i \in DOMAIN s /\ s[i] \notin S /\ s[i] # Null
  OBVIOUS
<1>5. CASE i = 1
  <2>1. h = s[1]
    BY <1>2, <1>4, <1>5 DEF Linked
  <2> QED BY <1>4, <1>5, <2>1
<1>6. CASE i # 1
  <2>1. i - 1 \in DOMAIN s /\ i - 1 # Len(s) /\ (i - 1) + 1 = i
    BY <1>2, <1>4, <1>6
  <2>2. s[i - 1] \in S
    <3>1. ~(i <= i - 1)
      BY <1>2, <1>4
    <3> QED BY <1>3, <2>1, <3>1
  <2>3. n[s[i - 1]] = s[i]
    BY <2>1 DEF Linked
  <2> QED BY <1>4, <2>2, <2>3
<1> QED BY <1>5, <1>6

(* The values of the nodes of a list. *)
ValuesOf(v, c) == [i \in DOMAIN c |-> v[c[i]]]

(* They are as many as the nodes. *)
LEMMA ValuesType ==
  ASSUME NEW S, NEW s \in Seq(S), NEW v
  PROVE  /\ ValuesOf(v, s) \in Seq({v[x] : x \in S}) /\ Len(ValuesOf(v, s)) = Len(s)
         /\ \A i \in 1..Len(s) : ValuesOf(v, s)[i] = v[s[i]]
<1> DEFINE T == {v[x] : x \in S}
<1>1. DOMAIN s = 1..Len(s) /\ Len(s) \in Nat /\ \A i \in 1..Len(s) : s[i] \in S
  OBVIOUS
<1>2. \A i \in 1..Len(s) : v[s[i]] \in T
  BY <1>1
<1>3. ValuesOf(v, s) = [i \in 1..Len(s) |-> v[s[i]]]
  BY <1>1 DEF ValuesOf
<1> HIDE DEF T
<1>4. ValuesOf(v, s) \in Seq(T) /\ Len(ValuesOf(v, s)) = Len(s)
  BY <1>1, <1>2, <1>3, IsASeq
<1> QED BY <1>1, <1>3, <1>4 DEF T

(* A node in front of a list adds its value in front. *)
LEMMA ValuesPushed ==
  ASSUME NEW S, NEW s \in Seq(S), NEW v, NEW x \in S
  PROVE  ValuesOf(v, <<x>> \o s) = <<v[x]>> \o ValuesOf(v, s)
<1> DEFINE T == {v[y] : y \in S}
           c == <<x>> \o s
           a == ValuesOf(v, c)
           r == ValuesOf(v, s)
           b == <<v[x]>> \o r
<1>1. /\ c \in Seq(S) /\ Len(s) \in Nat /\ Len(c) = Len(s) + 1 /\ c[1] = x
      /\ \A i \in 1..Len(s) : c[i + 1] = s[i]
  BY Pushed
<1>2. v[x] \in T
  OBVIOUS
<1>3. r \in Seq(T) /\ Len(r) = Len(s) /\ \A i \in 1..Len(s) : r[i] = v[s[i]]
  BY ValuesType
<1> HIDE DEF T, c, r
<1>4. a \in Seq(T) /\ Len(a) = Len(c) /\ \A i \in 1..Len(c) : a[i] = v[c[i]]
  <2>1. c \in Seq(S)
    BY <1>1
  <2> QED BY <2>1, ValuesType DEF T
<1>5. /\ b \in Seq(T) /\ Len(b) = Len(r) + 1 /\ b[1] = v[x]
      /\ \A i \in 1..Len(r) : b[i + 1] = r[i]
  BY <1>2, <1>3, Pushed
<1> HIDE DEF a, b
<1>6. ASSUME NEW i \in 1..Len(a) PROVE a[i] = b[i]
  <2>1. CASE i = 1
    BY <1>1, <1>4, <1>5, <2>1
  <2>2. CASE i # 1
    <3>1. i - 1 \in 1..Len(s) /\ (i - 1) + 1 = i /\ i \in 1..Len(c)
      BY <1>1, <1>4, <2>2
    <3>2. c[i] = s[i - 1]
      BY <1>1, <3>1
    <3>3. b[i] = r[i - 1]
      BY <1>3, <1>5, <3>1
    <3> QED BY <1>3, <1>4, <3>1, <3>2, <3>3
  <2> QED BY <2>1, <2>2
<1>7. a = b
  BY <1>1, <1>3, <1>4, <1>5, <1>6, SeqEqual
<1> QED BY <1>7 DEF a, b, c, r

(* The rest of a list has the rest of the values. *)
LEMMA ValuesPopped ==
  ASSUME NEW S, NEW s \in Seq(S), s # <<>>, NEW v
  PROVE  /\ ValuesOf(v, Tail(s)) = Tail(ValuesOf(v, s))
         /\ ValuesOf(v, s) # <<>>
         /\ Head(ValuesOf(v, s)) = v[s[1]]
<1> DEFINE T == {v[y] : y \in S}
           c == Tail(s)
           a == ValuesOf(v, c)
           r == ValuesOf(v, s)
           b == Tail(r)
<1>1. /\ c \in Seq(S) /\ Len(s) \in Nat \ {0} /\ Len(c) = Len(s) - 1
      /\ \A i \in 1..Len(s) - 1 : c[i] = s[i + 1]
  BY Popped
<1>2. r \in Seq(T) /\ Len(r) = Len(s) /\ \A i \in 1..Len(s) : r[i] = v[s[i]]
  BY ValuesType
<1> HIDE DEF T, c, r
<1>3. a \in Seq(T) /\ Len(a) = Len(c) /\ \A i \in 1..Len(c) : a[i] = v[c[i]]
  <2>1. c \in Seq(S)
    BY <1>1
  <2> QED BY <2>1, ValuesType DEF T
<1>4. r # <<>> /\ Head(r) = v[s[1]]
  BY <1>1, <1>2
<1>5. b \in Seq(T) /\ Len(b) = Len(r) - 1 /\ \A i \in 1..Len(r) - 1 : b[i] = r[i + 1]
  BY <1>2, <1>4, Popped
<1> HIDE DEF a, b
<1>6. ASSUME NEW i \in 1..Len(a) PROVE a[i] = b[i]
  <2>1. i \in 1..Len(s) - 1 /\ i + 1 \in 1..Len(s)
    BY <1>1, <1>3
  <2>2. a[i] = v[s[i + 1]] /\ b[i] = r[i + 1]
    BY <1>1, <1>2, <1>3, <1>5, <2>1
  <2> QED BY <1>2, <2>1, <2>2
<1>7. a = b
  BY <1>1, <1>2, <1>3, <1>5, <1>6, SeqEqual
<1> QED BY <1>4, <1>7 DEF a, b, c, r

-----------------------------------------------------------------------------
(* The invariant. *)

(* A thread that answers for a node: the push that made it, the pop that   *)
(* won it.                                                                 *)
Holder(t) == Pushing(t) \/ pc[t] = "take"

(* Every allocated node is on the stack or with one thread; nothing else   *)
(* is, and no two of these have the same node.                             *)
OwnInv ==
  /\ \A a \in allocated : a \in Nodes(chain) \/ \E t \in Threads : Holder(t) /\ node[t] = a
  /\ Nodes(chain) \subseteq allocated
  /\ \A t \in Threads : Holder(t) => node[t] \in allocated \ Nodes(chain)
  /\ \A t, u \in Threads : Holder(t) /\ Holder(u) /\ node[t] = node[u] => t = u
  /\ Distinct(chain)

Visited(t) == pc[t] \in {"readNext", "popCas"}

(* The node that a pop looks at may have been freed under it, and then it  *)
(* never comes back; it is not the node of a push.                         *)
FreeInv ==
  /\ allocated \intersect freed = {}
  /\ \A t \in Threads : Visited(t) =>
       /\ node[t] \in allocated \union freed
       /\ \A u \in Threads : Pushing(u) => node[u] # node[t]

(* Memory spells the stack out, and what a compare-and-swap is about to    *)
(* link is still what its node says, or was read from freed memory.        *)
LinkInv ==
  /\ Linked(head, next, chain)
  /\ \A t \in Threads :
       pc[t] = "pushCas" \/ (pc[t] = "popCas" /\ node[t] \in allocated)
         => next[node[t]] = after[t]

(* Every allocated node has a value of its own. *)
ValueInv ==
  /\ \A a \in allocated : value[a] \in 1..pushes
  /\ \A a, b \in allocated : value[a] = value[b] => a = b

StackInv == TypeOK /\ OwnInv /\ FreeInv /\ LinkInv /\ ValueInv

(* A step of u leaves the locals of the other threads alone. *)
LEMMA LocalFrame ==
  ASSUME TypeOK, NEW u \in Threads, Step(u), NEW t \in Threads \ {u}
  PROVE  /\ pc'[t] = pc[t] /\ node'[t] = node[t] /\ after'[t] = after[t] /\ got'[t] = got[t]
         /\ Holder(t)' <=> Holder(t)
         /\ Pushing(t)' <=> Pushing(t)
<1> USE DEF TypeOK, Goto
<1>1. CASE PushStart(u) \/ PushLoad(u) \/ PushCas(u)
  BY <1>1 DEF PushStart, PushLoad, PushCas, Holder, Pushing
<1>2. CASE PopStart(u) \/ PopLoad(u) \/ PopReadNext(u) \/ PopCas(u) \/ PopTake(u) \/ PopReturn(u)
  BY <1>2 DEF PopStart, PopLoad, PopReadNext, PopCas, PopTake, PopReturn, Holder, Pushing
<1> QED BY <1>1, <1>2 DEF Step

(* Types: the value that a pop takes is one that was pushed, since it owns *)
(* its node.                                                               *)
LEMMA TypeStep ==
  ASSUME StackInv, NEW u \in Threads, Step(u) PROVE TypeOK'
<1> USE TreiberAssumption DEF StackInv, TypeOK, Goto, listVars, nodeVars
<1>1. CASE PushStart(u)
  <2>1. PICK a \in Addrs :
          /\ allocated' = allocated \union {a}
          /\ value' = [value EXCEPT ![a] = pushes + 1]
          /\ next' = [next EXCEPT ![a] = Null]
          /\ node' = [node EXCEPT ![u] = a]
    BY <1>1 DEF PushStart, Available
  <2>2. pushes' = pushes + 1 /\ pushes + 1 \in 1..MaxPushes
    BY <1>1 DEF PushStart
  <2> QED BY <1>1, <2>1, <2>2 DEF PushStart
<1>2. CASE PushLoad(u)
  BY <1>2 DEF PushLoad
<1>3. CASE PushCas(u)
  <2>1. CASE head = after[u]
    <3>1. node[u] \in Addrs
      BY <1>3 DEF PushCas
    <3>2. <<node[u]>> \o chain \in Seq(Addrs)
      BY <3>1, Pushed
    <3>3. /\ head' = node[u] /\ chain' = <<node[u]>> \o chain
          /\ node' = [node EXCEPT ![u] = Null] /\ after' = [after EXCEPT ![u] = Null]
          /\ pc' = [pc EXCEPT ![u] = "idle"]
          /\ UNCHANGED <<nodeVars, got, pushes>>
      BY <1>3, <2>1 DEF PushCas
    <3> QED BY <3>1, <3>2, <3>3
  <2>2. CASE head # after[u]
    BY <1>3, <2>2 DEF PushCas
  <2> QED BY <2>1, <2>2
<1>4. CASE PopStart(u)
  BY <1>4 DEF PopStart
<1>5. CASE PopLoad(u)
  BY <1>5 DEF PopLoad
<1>6. CASE PopReadNext(u)
  BY <1>6 DEF PopReadNext
<1>7. CASE PopCas(u)
  <2>1. chain # <<>> => Tail(chain) \in Seq(Addrs)
    OBVIOUS
  <2>2. CASE head = node[u]
    BY <1>7, <2>1, <2>2 DEF PopCas
  <2>3. CASE head # node[u]
    BY <1>7, <2>3 DEF PopCas
  <2> QED BY <2>2, <2>3
<1>8. CASE PopTake(u)
  <2>1. node[u] \in allocated
    BY <1>8 DEF PopTake, OwnInv, Holder
  <2>2. value[node[u]] \in 1..MaxPushes
    BY <2>1 DEF ValueInv
  <2>3. /\ got' = [got EXCEPT ![u] = value[node[u]]]
        /\ allocated' \in SUBSET Addrs /\ freed' \in SUBSET Addrs
        /\ node' = [node EXCEPT ![u] = Null]
        /\ pc' = [pc EXCEPT ![u] = "return"]
        /\ UNCHANGED <<listVars, next, value, after, pushes>>
    BY <1>8 DEF PopTake
  <2> QED BY <2>2, <2>3
<1>9. CASE PopReturn(u)
  BY <1>9 DEF PopReturn
<1> QED BY <1>1, <1>2, <1>3, <1>4, <1>5, <1>6, <1>7, <1>8, <1>9 DEF Step

-----------------------------------------------------------------------------
(* The steps. *)

(* Ownership: a step that moves no node between owners keeps it. *)
LEMMA OwnQuiet ==
  ASSUME StackInv, NEW u \in Threads, Step(u),
         UNCHANGED <<allocated, chain>>,
         Holder(u)' <=> Holder(u), Holder(u) => node'[u] = node[u]
  PROVE  OwnInv'
<1>1. \A t \in Threads : (Holder(t)' <=> Holder(t)) /\ (Holder(t) => node'[t] = node[t])
  BY LocalFrame DEF StackInv
<1> QED BY <1>1 DEF OwnInv, StackInv

(* Ownership: every other step hands one node on. *)
LEMMA OwnStep ==
  ASSUME StackInv, NEW u \in Threads, Step(u) PROVE OwnInv'
<1> USE DEF StackInv, TypeOK, Goto
<1>1. \A t \in Threads \ {u} : node'[t] = node[t] /\ (Holder(t)' <=> Holder(t))
  BY LocalFrame
<1>2. CASE PushStart(u)
  <2>1. PICK a \in Addrs \ allocated :
          allocated' = allocated \union {a} /\ node' = [node EXCEPT ![u] = a]
    BY <1>2 DEF PushStart, Available
  <2>2. ~Holder(u) /\ Holder(u)' /\ node'[u] = a /\ chain' = chain
    BY <1>2, <2>1 DEF PushStart, listVars, Holder, Pushing
  <2> QED BY <1>1, <2>1, <2>2 DEF OwnInv
<1>3. CASE PushLoad(u) \/ PopStart(u) \/ PopLoad(u) \/ PopReadNext(u) \/ PopReturn(u)
  <2>1. UNCHANGED <<allocated, chain>>
    BY <1>3 DEF PushLoad, PopStart, PopLoad, PopReadNext, PopReturn, nodeVars, listVars
  <2>2. (Holder(u)' <=> Holder(u)) /\ (Holder(u) => node'[u] = node[u])
    BY <1>3 DEF PushLoad, PopStart, PopLoad, PopReadNext, PopReturn, Holder, Pushing
  <2> QED BY <2>1, <2>2, OwnQuiet
(* The node goes from the push to the stack. *)
<1>4. CASE PushCas(u)
  <2>1. allocated' = allocated /\ pc[u] = "pushCas" /\ node[u] \in Addrs
    BY <1>4 DEF PushCas, nodeVars
  <2>2. Holder(u)
    BY <2>1 DEF Holder, Pushing
  <2>3. CASE head # after[u]
    BY <1>4, <2>1, <2>3, OwnQuiet DEF PushCas, listVars, Holder, Pushing
  <2>4. CASE head = after[u]
    <3>1. chain' = <<node[u]>> \o chain /\ ~Holder(u)'
      BY <1>4, <2>4 DEF PushCas, Holder, Pushing
    <3>2. /\ node[u] \notin Nodes(chain) /\ node[u] \in allocated
          /\ \A t \in Threads \ {u} : Holder(t) => node[t] # node[u]
      BY <2>2 DEF OwnInv
    <3>3. Nodes(chain)' = Nodes(chain) \union {node[u]} /\ Distinct(chain)'
      BY <2>1, <3>1, <3>2, PushNodes DEF OwnInv
    <3>4. \A t \in Threads : Holder(t)' <=> t # u /\ Holder(t)
      BY <1>1, <3>1
    <3> HIDE DEF TypeOK, Goto
    <3>5. \A a \in allocated' :
            a \in Nodes(chain)' \/ \E t \in Threads : Holder(t)' /\ node'[t] = a
      <4> SUFFICES ASSUME NEW a \in allocated, a # node[u], a \notin Nodes(chain)
                   PROVE  \E t \in Threads : Holder(t)' /\ node'[t] = a
        BY <2>1, <3>3
      <4>1. PICK t \in Threads : Holder(t) /\ node[t] = a
        BY DEF OwnInv
      <4> QED BY <1>1, <3>4, <4>1
    <3>6. \A t \in Threads : Holder(t)' => node'[t] \in allocated' \ Nodes(chain)'
      BY <1>1, <2>1, <3>2, <3>3, <3>4 DEF OwnInv
    <3>7. \A t, v \in Threads : Holder(t)' /\ Holder(v)' /\ node'[t] = node'[v] => t = v
      BY <1>1, <3>4 DEF OwnInv
    <3>8. Nodes(chain)' \subseteq allocated'
      BY <2>1, <3>2, <3>3 DEF OwnInv
    <3> QED BY <3>3, <3>5, <3>6, <3>7, <3>8 DEF OwnInv
  <2> QED BY <2>3, <2>4
(* The node goes from the stack to the pop. *)
<1>5. CASE PopCas(u)
  <2>1. UNCHANGED <<allocated>> /\ pc[u] = "popCas" /\ node[u] \in Addrs /\ node[u] # Null
    BY <1>5, TreiberAssumption DEF PopCas, nodeVars
  <2>2. ~Holder(u)
    BY <2>1 DEF Holder, Pushing
  <2>3. CASE head # node[u]
    BY <1>5, <2>1, <2>2, <2>3, OwnQuiet DEF PopCas, listVars, Holder, Pushing
  <2>4. CASE head = node[u]
    <3>1. chain # <<>> /\ chain[1] = node[u]
      BY <2>1, <2>4 DEF LinkInv, Linked
    <3>2. chain' = Tail(chain) /\ node' = node /\ Holder(u)'
      BY <1>5, <2>4, <3>1 DEF PopCas, Holder
    <3>3. /\ node[u] \in Nodes(chain)
          /\ Nodes(chain)' = Nodes(chain) \ {node[u]} /\ Distinct(chain)'
      BY <3>1, <3>2, PopNodes DEF OwnInv
    <3>4. \A t \in Threads : Holder(t)' <=> t = u \/ Holder(t)
      BY <1>1, <3>2
    <3>5. \A t \in Threads : Holder(t) => node[t] # node[u]
      BY <3>3 DEF OwnInv
    <3> QED BY <2>1, <3>2, <3>3, <3>4, <3>5 DEF OwnInv
  <2> QED BY <2>3, <2>4
(* The pop frees the node. *)
<1>6. CASE PopTake(u)
  <2>1. allocated' = allocated \ {node[u]} /\ chain' = chain /\ Holder(u) /\ ~Holder(u)'
    BY <1>6 DEF PopTake, listVars, Holder, Pushing
  <2>2. \A t \in Threads : Holder(t)' <=> t # u /\ Holder(t)
    BY <1>1, <2>1
  <2>3. node[u] \notin Nodes(chain) /\ \A t \in Threads \ {u} : Holder(t) => node[t] # node[u]
    BY <2>1 DEF OwnInv
  <2> HIDE DEF TypeOK, Goto
  <2>4. \A a \in allocated' :
          a \in Nodes(chain)' \/ \E t \in Threads : Holder(t)' /\ node'[t] = a
    <3> SUFFICES ASSUME NEW a \in allocated, a # node[u], a \notin Nodes(chain)
                 PROVE  \E t \in Threads : Holder(t)' /\ node'[t] = a
      BY <2>1
    <3>1. PICK t \in Threads : Holder(t) /\ node[t] = a
      BY DEF OwnInv
    <3> QED BY <1>1, <2>2, <3>1
  <2>5. \A t \in Threads : Holder(t)' => node'[t] \in allocated' \ Nodes(chain)'
    BY <1>1, <2>1, <2>2, <2>3 DEF OwnInv
  <2>6. \A t, v \in Threads : Holder(t)' /\ Holder(v)' /\ node'[t] = node'[v] => t = v
    BY <1>1, <2>2 DEF OwnInv
  <2>7. Nodes(chain)' \subseteq allocated' /\ Distinct(chain)'
    BY <2>1, <2>3 DEF OwnInv
  <2> QED BY <2>4, <2>5, <2>6, <2>7 DEF OwnInv
<1> QED BY <1>2, <1>3, <1>4, <1>5, <1>6 DEF Step

(* A freed node stays freed while no address is allocated twice, so a pop  *)
(* that was late does not find it on the stack again.                      *)
LEMMA FreeStep ==
  ASSUME Reuse = FALSE, StackInv, NEW u \in Threads, Step(u) PROVE FreeInv'
<1> USE DEF StackInv, TypeOK, Goto
<1>1. \A t \in Threads \ {u} :
        pc'[t] = pc[t] /\ node'[t] = node[t] /\ (Pushing(t)' <=> Pushing(t))
  BY LocalFrame
<1>2. ASSUME UNCHANGED <<allocated, freed>>, Pushing(u)' => Pushing(u) /\ node'[u] = node[u],
             Visited(u)' => Visited(u) /\ node'[u] = node[u]
      PROVE  FreeInv'
  BY <1>1, <1>2 DEF FreeInv, Visited
<1>3. CASE PushStart(u)
  <2>1. PICK a \in Addrs \ (allocated \union freed) :
          allocated' = allocated \union {a} /\ node' = [node EXCEPT ![u] = a]
    BY <1>3 DEF PushStart, Available
  <2>2. freed' = freed /\ pc'[u] = "pushLoad"
    BY <1>3 DEF PushStart
  <2> QED BY <1>1, <2>1, <2>2 DEF FreeInv, Visited
<1>4. CASE PushLoad(u) \/ PushCas(u) \/ PopStart(u) \/ PopReadNext(u) \/ PopReturn(u)
  <2>1. UNCHANGED <<allocated, freed>>
    BY <1>4 DEF PushLoad, PushCas, PopStart, PopReadNext, PopReturn, nodeVars
  <2>2. /\ Pushing(u)' => Pushing(u) /\ node'[u] = node[u]
        /\ Visited(u)' => Visited(u) /\ node'[u] = node[u]
    BY <1>4 DEF PushLoad, PushCas, PopStart, PopReadNext, PopReturn, listVars, Pushing, Visited
  <2> QED BY <1>2, <2>1, <2>2
(* The head is on the stack. *)
<1>5. CASE PopLoad(u)
  <2>1. /\ node' = [node EXCEPT ![u] = head] /\ UNCHANGED <<allocated, freed>> /\ ~Pushing(u)'
        /\ Visited(u)' => head # Null
    BY <1>5 DEF PopLoad, nodeVars, Pushing, Visited
  <2>2. ASSUME head # Null PROVE head \in Nodes(chain)
    <3>1. chain # <<>> /\ chain[1] = head
      BY <2>2 DEF LinkInv, Linked
    <3> QED BY <3>1, PopNodes DEF OwnInv
  <2>3. ASSUME head # Null PROVE head \in allocated /\ \A t \in Threads : Pushing(t) => node[t] # head
    BY <2>2, <2>3 DEF OwnInv, Holder
  <2> QED BY <1>1, <2>1, <2>3 DEF FreeInv, Visited
<1>6. CASE PopCas(u)
  BY <1>2, <1>6 DEF PopCas, nodeVars, Pushing, Visited
<1>7. CASE PopTake(u)
  <2>1. /\ allocated' = allocated \ {node[u]} /\ freed' = freed \union {node[u]}
        /\ ~Pushing(u)' /\ ~Visited(u)'
    BY <1>7 DEF PopTake, Pushing, Visited
  <2> QED BY <1>1, <2>1 DEF FreeInv, Visited
<1> QED BY <1>3, <1>4, <1>5, <1>6, <1>7 DEF Step

(* The list in memory: a compare-and-swap that succeeds after a read of    *)
(* freed memory would break it, and there is none, since the node it       *)
(* compares with is freed and the nodes of the stack are allocated.        *)
LEMMA LinkStep ==
  ASSUME Reuse = FALSE, StackInv, NEW u \in Threads, Step(u) PROVE LinkInv'
<1> USE TreiberAssumption DEF StackInv, TypeOK, Goto
<1>1. \A t \in Threads \ {u} : pc'[t] = pc[t] /\ node'[t] = node[t] /\ after'[t] = after[t]
  BY LocalFrame
<1>2. ASSUME UNCHANGED <<head, chain, next>>, allocated' \subseteq allocated,
             pc'[u] = "pushCas" \/ (pc'[u] = "popCas" /\ node'[u] \in allocated')
               => next[node'[u]] = after'[u]
      PROVE  LinkInv'
  BY <1>1, <1>2 DEF LinkInv
<1>3. ASSUME UNCHANGED <<head, chain>>, \A a \in Nodes(chain) : next'[a] = next[a]
      PROVE  Linked(head, next, chain)'
  BY <1>3 DEF LinkInv, Linked, Nodes
<1>4. CASE PushStart(u)
  <2>1. PICK a \in Addrs \ (allocated \union freed) :
          next' = [next EXCEPT ![a] = Null] /\ allocated' = allocated \union {a}
    BY <1>4 DEF PushStart, Available
  <2>2. UNCHANGED <<head, chain>> /\ pc'[u] = "pushLoad"
    BY <1>4 DEF PushStart, listVars
  <2>3. \A t \in Threads : pc[t] \in {"pushCas", "popCas"} => node[t] \in allocated \union freed
    BY DEF OwnInv, Holder, Pushing, FreeInv, Visited
  <2>4. Linked(head, next, chain)'
    BY <1>3, <2>1, <2>2 DEF OwnInv
  <2> QED BY <1>1, <2>1, <2>2, <2>3, <2>4 DEF LinkInv
<1>5. CASE PushLoad(u)
  <2>1. /\ after' = [after EXCEPT ![u] = head] /\ next' = [next EXCEPT ![node[u]] = head]
        /\ UNCHANGED <<head, chain, node, allocated>> /\ Holder(u) /\ Pushing(u)
        /\ node[u] \in Addrs
    BY <1>5 DEF PushLoad, listVars, Holder, Pushing
  <2>2. \A t \in Threads \ {u} : pc[t] \in {"pushCas", "popCas"} => node[t] # node[u]
    BY <2>1 DEF OwnInv, Holder, Pushing, FreeInv, Visited
  <2>3. Linked(head, next, chain)'
    BY <1>3, <2>1 DEF OwnInv
  <2>4. \A t \in Threads \ {u} :
          pc'[t] = "pushCas" \/ (pc'[t] = "popCas" /\ node'[t] \in allocated')
            => next'[node'[t]] = after'[t]
    BY <1>1, <2>1, <2>2 DEF LinkInv
  <2> QED BY <2>1, <2>3, <2>4 DEF LinkInv
<1>6. CASE PushCas(u)
  <2>1. /\ pc[u] = "pushCas" /\ next' = next /\ node[u] \in Addrs /\ next[node[u]] = after[u]
        /\ allocated' = allocated
    BY <1>6 DEF PushCas, nodeVars, LinkInv
  <2>2. CASE head # after[u]
    BY <1>2, <1>6, <2>1, <2>2 DEF PushCas, listVars
  <2>3. CASE head = after[u]
    <3>1. head' = node[u] /\ chain' = <<node[u]>> \o chain /\ pc'[u] = "idle"
      BY <1>6, <2>3 DEF PushCas
    <3>2. Linked(head, next, chain)'
      BY <2>1, <2>3, <3>1, PushLinks DEF LinkInv
    <3> QED BY <1>1, <2>1, <3>1, <3>2 DEF LinkInv
  <2> QED BY <2>2, <2>3
<1>7. CASE PopStart(u) \/ PopLoad(u) \/ PopTake(u) \/ PopReturn(u)
  <2>1. UNCHANGED <<head, chain, next>> /\ pc'[u] \notin {"pushCas", "popCas"}
    BY <1>7 DEF PopStart, PopLoad, PopTake, PopReturn, nodeVars, listVars
  <2>2. allocated' \subseteq allocated
    BY <1>7 DEF PopStart, PopLoad, PopTake, PopReturn, nodeVars
  <2> QED BY <1>2, <2>1, <2>2
<1>8. CASE PopReadNext(u)
  <2>1. UNCHANGED <<head, chain, next, node, allocated>>
    BY <1>8 DEF PopReadNext, nodeVars, listVars
  <2>2. pc'[u] = "popCas" /\ (node[u] \in allocated => after'[u] = next[node[u]])
    BY <1>8 DEF PopReadNext
  <2> QED BY <1>2, <2>1, <2>2
<1>9. CASE PopCas(u)
  <2>1. pc[u] = "popCas" /\ UNCHANGED <<next, allocated>> /\ node[u] \in Addrs
    BY <1>9 DEF PopCas, nodeVars
  <2>2. CASE head # node[u]
    BY <1>2, <1>9, <2>1, <2>2 DEF PopCas, listVars
  <2>3. CASE head = node[u]
    <3>1. chain # <<>> /\ chain[1] = node[u]
      BY <2>1, <2>3 DEF LinkInv, Linked
    <3>2. node[u] \in allocated
      BY <3>1, PopNodes DEF OwnInv
    <3>3. chain' = Tail(chain) /\ head' = after[u] /\ after[u] = next[head] /\ pc'[u] = "take"
      BY <1>9, <2>1, <2>3, <3>1, <3>2 DEF PopCas, LinkInv
    <3>4. Linked(head, next, chain)'
      BY <2>1, <3>1, <3>3, PopLinks DEF LinkInv
    <3> QED BY <1>1, <2>1, <3>3, <3>4 DEF LinkInv
  <2> QED BY <2>2, <2>3
<1> QED BY <1>4, <1>5, <1>6, <1>7, <1>8, <1>9 DEF Step

(* Values: the number of the push. *)
LEMMA ValueStep ==
  ASSUME StackInv, NEW u \in Threads, Step(u) PROVE ValueInv'
<1> USE TreiberAssumption DEF StackInv, TypeOK, nodeVars
<1>1. ASSUME value' = value, pushes' = pushes, allocated' \subseteq allocated PROVE ValueInv'
  BY <1>1 DEF ValueInv
<1>2. CASE PushStart(u)
  <2>1. PICK a \in Addrs \ allocated :
          allocated' = allocated \union {a} /\ value' = [value EXCEPT ![a] = pushes + 1]
    BY <1>2 DEF PushStart, Available
  <2>2. pushes' = pushes + 1 /\ pushes \in Nat
    BY <1>2 DEF PushStart
  <2>3. \A b \in allocated : value'[b] = value[b] /\ value[b] \in 1..pushes
    BY <2>1 DEF ValueInv
  <2>4. value'[a] = pushes + 1
    BY <2>1
  <2> QED BY <2>1, <2>2, <2>3, <2>4 DEF ValueInv
<1>3. CASE PushLoad(u) \/ PushCas(u) \/ PopStart(u) \/ PopLoad(u) \/ PopReadNext(u) \/ PopCas(u)
           \/ PopTake(u) \/ PopReturn(u)
  BY <1>1, <1>3 DEF PushLoad, PushCas, PopStart, PopLoad, PopReadNext, PopCas, PopTake, PopReturn
<1> QED BY <1>2, <1>3 DEF Step

(* Dropping a stack that nobody uses frees all it ever allocated, since    *)
(* whoever follows the references from the head meets all its nodes.       *)
LEMMA DropFrees ==
  ASSUME StackInv, DropStack PROVE allocated' = {}
<1> USE DEF StackInv
<1>1. \A t \in Threads : ~Holder(t)
  BY DEF DropStack, Holder, Pushing
<1>2. Nodes(chain) \subseteq Addrs
  BY DEF Nodes, TypeOK
<1>3. ASSUME NEW S \in SUBSET Addrs,
             {head} \ {Null} \subseteq S, \A b \in S : {next[b]} \ {Null} \subseteq S
      PROVE  Nodes(chain) \subseteq S
  BY <1>3, TreiberAssumption, LinkedReached DEF LinkInv, TypeOK
<1>4. Nodes(chain) \subseteq OnList
  BY <1>2, <1>3 DEF OnList
<1> QED BY <1>1, <1>4 DEF OwnInv, DropStack

(* And leaves the stack as it was made. *)
LEMMA DropStep ==
  ASSUME StackInv, DropStack PROVE StackInv'
<1>1. /\ allocated' = {} /\ chain' = <<>> /\ head' = Null
      /\ UNCHANGED <<next, value, pc, node, after, got, pushes>>
      /\ \A t \in Threads : pc[t] = "idle"
  BY DropFrees DEF DropStack
<1>2. freed' \in SUBSET Addrs
  BY DEF DropStack, OnList, StackInv, TypeOK
<1>3. TypeOK'
  <2>1. <<>> \in Seq(Addrs)
    OBVIOUS
  <2> QED BY <1>1, <1>2, <2>1 DEF StackInv, TypeOK
<1>4. OwnInv'
  BY <1>1 DEF OwnInv, Holder, Pushing, Nodes, Distinct
<1>5. FreeInv'
  BY <1>1 DEF FreeInv, Visited
<1>6. LinkInv'
  BY <1>1 DEF LinkInv, Linked
<1>7. ValueInv'
  BY <1>1 DEF ValueInv
<1> QED BY <1>3, <1>4, <1>5, <1>6, <1>7 DEF StackInv

-----------------------------------------------------------------------------
(* The theorems. *)

(* While no address is allocated twice the stack is in order, reads of     *)
(* freed memory or not.  With reuse it is not: a compare-and-swap that     *)
(* meets a recycled node stores what was read from freed memory.           *)
THEOREM StackInvariant == ASSUME Reuse = FALSE PROVE Spec => []StackInv
<1>1. Init => StackInv
  <2> SUFFICES ASSUME Init PROVE StackInv
    OBVIOUS
  <2> USE TreiberAssumption DEF Init
  <2>1. TypeOK
    BY DEF TypeOK
  <2>2. OwnInv
    BY DEF OwnInv, Holder, Pushing, Nodes, Distinct
  <2>3. FreeInv /\ LinkInv /\ ValueInv
    BY DEF FreeInv, Visited, LinkInv, Linked, ValueInv
  <2> QED BY <2>1, <2>2, <2>3 DEF StackInv
<1>2. StackInv /\ [Next]_vars => StackInv'
  <2> SUFFICES ASSUME StackInv, [Next]_vars PROVE StackInv'
    OBVIOUS
  <2>1. ASSUME NEW u \in Threads, Step(u) PROVE StackInv'
    <3>1. TypeOK' /\ OwnInv'
      BY <2>1, TypeStep, OwnStep
    <3>2. FreeInv' /\ LinkInv' /\ ValueInv'
      BY <2>1, FreeStep, LinkStep, ValueStep
    <3> QED BY <3>1, <3>2 DEF StackInv
  <2>2. CASE DropStack
    BY <2>2, DropStep
  <2>3. CASE UNCHANGED vars
    <3>1. TypeOK' /\ OwnInv'
      BY <2>3 DEF StackInv, vars, listVars, nodeVars, TypeOK, OwnInv, Holder, Pushing
    <3>2. FreeInv' /\ LinkInv' /\ ValueInv'
      BY <2>3 DEF StackInv, vars, listVars, nodeVars, FreeInv, Visited, Pushing, LinkInv, ValueInv
    <3> QED BY <3>1, <3>2 DEF StackInv
  <2> QED BY <2>1, <2>2, <2>3 DEF Next
<1> QED BY <1>1, <1>2, PTL DEF Spec

(* Every variable keeps its type; a pop returns a value that was pushed.   *)
THEOREM TypeCorrect == ASSUME Reuse = FALSE PROVE Spec => []TypeOK
<1>1. StackInv => TypeOK
  BY DEF StackInv
<1> QED BY <1>1, StackInvariant, PTL

(* Every box has exactly one owner: none leaks and none is freed twice,    *)
(* not even when the stack is dropped (src/src/treiber.rs:101, 118-122).   *)
THEOREM OwnedTheorem == ASSUME Reuse = FALSE PROVE Spec => []EveryNodeOwned
<1>1. StackInv => EveryNodeOwned
  <2> SUFFICES ASSUME StackInv PROVE EveryNodeOwned
    OBVIOUS
  <2> DEFINE Holders(a) == {t \in Threads : (Pushing(t) \/ pc[t] = "take") /\ node[t] = a}
  <2>1. \A a : InChain(a) <=> a \in Nodes(chain)
    BY DEF InChain, Nodes
  <2>2. ASSUME NEW a \in Addrs
        PROVE  /\ Cardinality(Holders(a)) = IF Holders(a) = {} THEN 0 ELSE 1
               /\ Holders(a) # {} <=> a \in allocated /\ ~InChain(a)
    <3>1. CASE Holders(a) = {}
      <4>1. a \in allocated => InChain(a)
        BY <2>1, <3>1 DEF StackInv, OwnInv, Holder
      <4> QED BY <3>1, <4>1, FS_EmptySet
    <3>2. CASE Holders(a) # {}
      <4>1. PICK t \in Threads : Holder(t) /\ node[t] = a
        BY <3>2 DEF Holder
      <4>2. Holders(a) = {t}
        BY <4>1 DEF StackInv, OwnInv, Holder
      <4>3. a \in allocated /\ ~InChain(a)
        BY <2>1, <4>1 DEF StackInv, OwnInv
      <4> QED BY <3>2, <4>2, <4>3, FS_Singleton
    <3> QED BY <3>1, <3>2
  <2>3. \A a \in Addrs : InChain(a) => a \in allocated
    BY <2>1 DEF StackInv, OwnInv
  <2>4. ASSUME NEW a \in Addrs
        PROVE  (IF InChain(a) THEN 1 ELSE 0) + Cardinality(Holders(a))
                 = IF a \in allocated THEN 1 ELSE 0
    BY <2>2, <2>3
  <2> QED BY <2>4 DEF EveryNodeOwned
<1> QED BY <1>1, StackInvariant, PTL

-----------------------------------------------------------------------------
(* The refinement of AtomicStack. *)

(* A thread has a value only between taking it and returning it. *)
ResultInv == \A t \in Threads : got[t] # NoValue => pc[t] = "return"

(* The results of the pops. *)
LEMMA ResultStep ==
  ASSUME TypeOK, ResultInv, [Next]_vars PROVE ResultInv'
<1>1. ASSUME NEW u \in Threads, Step(u) PROVE ResultInv'
  <2>1. \A t \in Threads \ {u} : pc'[t] = pc[t] /\ got'[t] = got[t]
    BY <1>1, LocalFrame
  <2>2. SUFFICES ASSUME got'[u] # NoValue PROVE pc'[u] = "return"
    BY <2>1 DEF ResultInv
  <2> USE DEF TypeOK, Goto, ResultInv
  <2>3. CASE PushStart(u) \/ PushLoad(u) \/ PushCas(u)
    BY <2>2, <2>3 DEF PushStart, PushLoad, PushCas
  <2>4. CASE PopStart(u) \/ PopLoad(u) \/ PopReadNext(u) \/ PopCas(u) \/ PopTake(u) \/ PopReturn(u)
    BY <2>2, <2>4 DEF PopStart, PopLoad, PopReadNext, PopCas, PopTake, PopReturn
  <2> QED BY <1>1, <2>3, <2>4 DEF Step
<1>2. CASE DropStack \/ UNCHANGED vars
  BY <1>2 DEF DropStack, vars, ResultInv
<1> QED BY <1>1, <1>2 DEF Next

Offered == {value[node[t]] : t \in {u \in Threads : Pushing(u)}}

HeldBy(t) == IF pc[t] = "take" THEN value[node[t]] ELSE got[t]

Held == [t \in Threads |-> HeldBy(t)]

Contents == ValuesOf(value, chain)

(* The steps of AtomicStack in these terms. *)
LEMMA AbstractSteps ==
  /\ UNCHANGED <<Offered, Contents, Held>> => UNCHANGED Abstract!vars
  /\ \A v \in 1..MaxPushes :
       \/ Offered' = Offered \union {v} /\ Contents' = Contents /\ Held' = Held
       \/ /\ v \in Offered /\ Offered' = Offered \ {v}
          /\ Contents' = <<v>> \o Contents /\ Held' = Held
       => Abstract!Next
  /\ \A t \in Threads :
       \/ /\ Contents # <<>> /\ Held[t] = NoValue /\ Contents' = Tail(Contents)
          /\ Held' = [Held EXCEPT ![t] = Head(Contents)] /\ Offered' = Offered
       \/ /\ Held[t] # NoValue /\ Held' = [Held EXCEPT ![t] = NoValue]
          /\ Offered' = Offered /\ Contents' = Contents
       => Abstract!Next
  /\ /\ Offered = {} /\ \A t \in Threads : Held[t] = NoValue
     /\ Contents' = <<>> /\ Offered' = Offered /\ Held' = Held
     => Abstract!Next
<1> USE DEF Offered, Contents, ValuesOf, Held, HeldBy
<1>1. UNCHANGED <<Offered, Contents, Held>> => UNCHANGED Abstract!vars
  BY DEF Abstract!vars
<1>2. ASSUME NEW v \in 1..MaxPushes,
             Offered' = Offered \union {v} /\ Contents' = Contents /\ Held' = Held
      PROVE  Abstract!Next
  BY <1>2 DEF Abstract!Next, Abstract!Offer
<1>3. ASSUME NEW v \in 1..MaxPushes, v \in Offered, Offered' = Offered \ {v},
             Contents' = <<v>> \o Contents, Held' = Held
      PROVE  Abstract!Next
  BY <1>3 DEF Abstract!Next, Abstract!Push
<1>4. ASSUME NEW t \in Threads, Contents # <<>>, Held[t] = NoValue, Contents' = Tail(Contents),
             Held' = [Held EXCEPT ![t] = Head(Contents)], Offered' = Offered
      PROVE  Abstract!Next
  BY <1>4 DEF Abstract!Next, Abstract!Pop
<1>5. ASSUME NEW t \in Threads, Held[t] # NoValue, Held' = [Held EXCEPT ![t] = NoValue],
             Offered' = Offered, Contents' = Contents
      PROVE  Abstract!Next
  BY <1>5 DEF Abstract!Next, Abstract!Return
<1>6. ASSUME Offered = {}, \A t \in Threads : Held[t] = NoValue,
             Contents' = <<>>, Offered' = Offered, Held' = Held
      PROVE  Abstract!Next
  BY <1>6 DEF Abstract!Next, Abstract!Discard
<1> HIDE DEF Offered, Contents, ValuesOf, Held, HeldBy
<1> QED BY <1>1, <1>2, <1>3, <1>4, <1>5, <1>6

(* Every step of a thread is a step of AtomicStack or changes nothing that *)
(* AtomicStack shows: a push and a pop take effect at their successful     *)
(* compare-and-swaps.                                                      *)
LEMMA RefinesStep ==
  ASSUME StackInv, ResultInv, NEW u \in Threads, Step(u)
  PROVE  Abstract!Next \/ UNCHANGED Abstract!vars
<1> USE DEF TypeOK, Goto, StackInv
<1>1. \A t \in Threads \ {u} :
        pc'[t] = pc[t] /\ node'[t] = node[t] /\ got'[t] = got[t] /\ (Pushing(t)' <=> Pushing(t))
  BY LocalFrame
<1>2. \A t \in Threads : Held[t] = HeldBy(t)
  BY DEF Held
(* A step that neither pushes nor pops shows nothing of itself. *)
<1>3. ASSUME UNCHANGED <<value, chain>>, Pushing(u)' <=> Pushing(u),
             Pushing(u) => node'[u] = node[u]
      PROVE  /\ Offered' = Offered /\ Contents' = Contents
             /\ Held' = [Held EXCEPT ![u] = HeldBy(u)']
  <2>1. \A t \in Threads : (Pushing(t)' <=> Pushing(t)) /\ (Pushing(t) => node'[t] = node[t])
    BY <1>1, <1>3
  <2>2. Offered' = Offered
    BY <1>3, <2>1 DEF Offered
  <2>3. \A t \in Threads \ {u} : HeldBy(t)' = HeldBy(t)
    BY <1>1, <1>3 DEF HeldBy
  <2>4. Held' = [Held EXCEPT ![u] = HeldBy(u)']
    BY <2>3 DEF Held
  <2> QED BY <1>3, <2>2, <2>4 DEF Contents, ValuesOf
<1>4. ASSUME UNCHANGED <<value, chain>>, Pushing(u)' <=> Pushing(u),
             Pushing(u) => node'[u] = node[u], HeldBy(u)' = HeldBy(u)
      PROVE  UNCHANGED Abstract!vars
  <2>1. Held' = Held
    BY <1>3, <1>4 DEF Held
  <2> QED BY <1>3, <1>4, <2>1, AbstractSteps
<1> USE DEF Pushing, HeldBy
<1>5. CASE PushStart(u)
  <2>1. PICK a \in Addrs \ allocated :
          /\ value' = [value EXCEPT ![a] = pushes + 1] /\ node' = [node EXCEPT ![u] = a]
    BY <1>5 DEF PushStart, Available
  <2>2. /\ pc[u] = "idle" /\ pc' = [pc EXCEPT ![u] = "pushLoad"] /\ got' = got /\ chain' = chain
        /\ pushes + 1 \in 1..MaxPushes
    BY <1>5, TreiberAssumption DEF PushStart, listVars
  <2>3. \A b \in allocated : value'[b] = value[b]
    BY <2>1
  <2>4. \A t \in Threads \ {u} : Holder(t) => node'[t] = node[t] /\ value'[node[t]] = value[node[t]]
    BY <1>1, <2>3 DEF OwnInv
  <2>5. Offered' = Offered \union {pushes + 1}
    <3>1. Pushing(u)' /\ ~Pushing(u) /\ value'[node'[u]] = pushes + 1
      BY <2>1, <2>2
    <3>2. \A t \in Threads \ {u} :
            /\ Pushing(t)' <=> Pushing(t)
            /\ Pushing(t) => value'[node'[t]] = value[node[t]]
      BY <1>1, <2>4 DEF Holder
    <3> HIDE DEF Pushing, TypeOK
    <3> QED BY <3>1, <3>2 DEF Offered
  <2>6. Contents' = Contents
    <3>1. \A i \in DOMAIN chain : value'[chain[i]] = value[chain[i]]
      BY <2>3 DEF OwnInv, Nodes
    <3> QED BY <2>2, <3>1 DEF Contents, ValuesOf
  <2>7. Held' = Held
    <3>1. \A t \in Threads : HeldBy(t)' = HeldBy(t)
      BY <1>1, <2>2, <2>4 DEF Holder
    <3> HIDE DEF HeldBy
    <3> QED BY <3>1 DEF Held
  <2> QED BY <2>2, <2>5, <2>6, <2>7, AbstractSteps
<1>6. CASE PushLoad(u)
  BY <1>4, <1>6 DEF PushLoad, listVars
<1>7. CASE PushCas(u)
  <2>1. value' = value /\ pc[u] = "pushCas" /\ node[u] \in Addrs /\ got' = got
    BY <1>7 DEF PushCas, nodeVars
  <2>2. CASE head # after[u]
    BY <1>4, <1>7, <2>2 DEF PushCas, listVars, nodeVars
  <2>3. CASE head = after[u]
    <3>1. chain' = <<node[u]>> \o chain /\ pc'[u] = "idle"
      BY <1>7, <2>3 DEF PushCas
    <3>2. value[node[u]] \in 1..MaxPushes /\ value[node[u]] \in Offered
      <4>1. Holder(u)
        BY <2>1 DEF Holder
      <4>2. value[node[u]] \in 1..pushes
        BY <4>1 DEF OwnInv, ValueInv
      <4> QED BY <2>1, <4>2, TreiberAssumption DEF Offered
    <3>3. Contents' = <<value[node[u]]>> \o Contents
      BY <2>1, <3>1, ValuesPushed DEF Contents
    <3>4. Held' = Held
      <4>1. \A t \in Threads : HeldBy(t)' = HeldBy(t)
        BY <1>1, <2>1, <3>1
      <4> HIDE DEF HeldBy
      <4> QED BY <4>1 DEF Held
    <3>5. Offered' = Offered \ {value[node[u]]}
      <4>1. Pushing(u) /\ ~Pushing(u)'
        BY <2>1, <3>1
      <4>2. \A t \in Threads \ {u} :
              (Pushing(t)' <=> Pushing(t)) /\ value'[node'[t]] = value[node[t]]
        BY <1>1, <2>1
      <4> HIDE DEF Pushing, TypeOK
      <4>3. \A t \in Threads \ {u} : Pushing(t) => value[node[t]] # value[node[u]]
        BY <4>1 DEF OwnInv, ValueInv, Holder
      <4> QED BY <4>1, <4>2, <4>3 DEF Offered
    <3> QED BY <3>2, <3>3, <3>4, <3>5, AbstractSteps
  <2> QED BY <2>2, <2>3
<1>8. CASE PopStart(u) \/ PopLoad(u) \/ PopReadNext(u) \/ PopTake(u)
  <2>1. UNCHANGED <<value, chain>>
    BY <1>8 DEF PopStart, PopLoad, PopReadNext, PopTake, nodeVars, listVars
  <2>2. ~Pushing(u) /\ ~Pushing(u)' /\ HeldBy(u)' = HeldBy(u)
    BY <1>8 DEF PopStart, PopLoad, PopReadNext, PopTake
  <2> QED BY <1>4, <2>1, <2>2
<1>9. CASE PopCas(u)
  <2>1. value' = value /\ pc[u] = "popCas" /\ node[u] \in Addrs /\ got' = got
    BY <1>9 DEF PopCas, nodeVars
  <2>2. CASE head # node[u]
    BY <1>4, <1>9, <2>1, <2>2 DEF PopCas, listVars
  <2>3. CASE head = node[u]
    <3>1. chain # <<>> /\ chain[1] = node[u]
      BY <2>1, <2>3, TreiberAssumption DEF LinkInv, Linked
    <3>2. chain' = Tail(chain) /\ pc'[u] = "take" /\ node' = node
      BY <1>9, <2>3, <3>1 DEF PopCas
    <3>3. Contents' = Tail(Contents) /\ Contents # <<>> /\ Head(Contents) = value[node[u]]
      BY <2>1, <3>1, <3>2, ValuesPopped DEF Contents
    <3>4. Held[u] = NoValue
      BY <1>2, <2>1 DEF ResultInv
    <3>5. Held' = [Held EXCEPT ![u] = Head(Contents)]
      <4>1. HeldBy(u)' = Head(Contents)
        BY <2>1, <3>2, <3>3
      <4>2. \A t \in Threads \ {u} : HeldBy(t)' = HeldBy(t)
        BY <1>1, <2>1
      <4> HIDE DEF HeldBy
      <4> QED BY <4>1, <4>2 DEF Held
    <3>6. Offered' = Offered
      <4>1. \A t \in Threads : Pushing(t)' <=> Pushing(t)
        BY <1>1, <2>1, <3>2
      <4> HIDE DEF Pushing
      <4> QED BY <2>1, <3>2, <4>1 DEF Offered
    <3> QED BY <3>3, <3>4, <3>5, <3>6, AbstractSteps
  <2> QED BY <2>2, <2>3
<1>10. CASE PopReturn(u)
  <2>1. /\ UNCHANGED <<value, chain>> /\ ~Pushing(u) /\ ~Pushing(u)' /\ HeldBy(u)' = NoValue
    BY <1>10 DEF PopReturn, nodeVars, listVars
  <2>2. CASE HeldBy(u) = NoValue
    BY <1>4, <2>1, <2>2
  <2>3. CASE HeldBy(u) # NoValue
    <3>1. Offered' = Offered /\ Contents' = Contents /\ Held' = [Held EXCEPT ![u] = NoValue]
      BY <1>3, <2>1
    <3> QED BY <1>2, <2>3, <3>1, AbstractSteps
  <2> QED BY <2>2, <2>3
<1> QED BY <1>5, <1>6, <1>7, <1>8, <1>9, <1>10 DEF Step

(* Dropping the stack discards its contents. *)
LEMMA RefinesDrop ==
  ASSUME ResultInv, DropStack PROVE Abstract!Next
<1>1. chain' = <<>> /\ UNCHANGED <<value, pc, node, got>> /\ \A t \in Threads : pc[t] = "idle"
  BY DEF DropStack
<1>2. \A t \in Threads : ~Pushing(t) /\ ~Pushing(t)' /\ HeldBy(t) = NoValue /\ HeldBy(t)' = HeldBy(t)
  BY <1>1 DEF Pushing, HeldBy, ResultInv
<1>3. Offered = {} /\ Offered' = {}
  BY <1>2 DEF Offered
<1>4. Held' = Held /\ \A t \in Threads : Held[t] = NoValue
  BY <1>2 DEF Held
<1>5. Contents' = <<>>
  BY <1>1 DEF Contents, ValuesOf
<1> QED BY <1>3, <1>4, <1>5, AbstractSteps

(* The stack implements AtomicStack, for any number of threads, addresses  *)
(* and pushes, although it reads freed memory: nothing that was read there *)
(* is ever used.                                                           *)
THEOREM Refinement == ASSUME Reuse = FALSE PROVE Spec => ImplementsAtomicStack
<1>1. Init => Abstract!Init /\ ResultInv
  <2> SUFFICES ASSUME Init PROVE Abstract!Init /\ ResultInv
    OBVIOUS
  <2>1. \A t \in Threads : pc[t] = "idle" /\ got[t] = NoValue
    BY DEF Init
  <2>2. Offered = {}
    BY <2>1 DEF Offered, Pushing
  <2>3. Contents = <<>>
    BY DEF Init, Contents, ValuesOf
  <2>4. Held = [t \in Threads |-> NoValue]
    BY <2>1 DEF Held, HeldBy
  <2>5. Abstract!Init
    BY <2>2, <2>3, <2>4 DEF Abstract!Init, Offered, Contents, ValuesOf, Held, HeldBy
  <2> QED BY <2>1, <2>5 DEF ResultInv
<1>2. StackInv /\ ResultInv /\ [Next]_vars => ResultInv'
  BY ResultStep DEF StackInv
<1>3. StackInv /\ ResultInv /\ [Next]_vars => [Abstract!Next]_(Abstract!vars)
  <2> SUFFICES ASSUME StackInv, ResultInv, [Next]_vars
               PROVE  Abstract!Next \/ UNCHANGED Abstract!vars
    OBVIOUS
  <2>1. ASSUME NEW u \in Threads, Step(u) PROVE Abstract!Next \/ UNCHANGED Abstract!vars
    BY <2>1, RefinesStep
  <2>2. CASE DropStack
    BY <2>2, RefinesDrop
  <2>3. CASE UNCHANGED vars
    <3>1. UNCHANGED <<Offered, Contents, Held>>
      BY <2>3 DEF vars, listVars, nodeVars, Offered, Contents, ValuesOf, Held, HeldBy, Pushing
    <3> QED BY <3>1, AbstractSteps
  <2> QED BY <2>1, <2>2, <2>3 DEF Next
<1> QED
  BY <1>1, <1>2, <1>3, StackInvariant, PTL DEF Spec, ImplementsAtomicStack, Abstract!Spec

=============================================================================
