----------------------------- MODULE QueueLemmas -----------------------------
(***************************************************************************)
(* Facts about queues of threads, for the proofs of the other modules.     *)
(***************************************************************************)
EXTENDS Integers, Sequences, Functions, TLAPS

\* The empty queue, as the sleep queue and the ready list start.
LEMMA EmptyQueue ==
    ASSUME NEW S
    PROVE  /\ <<>> \in Seq(S)
           /\ Len(<<>>) = 0
           /\ Range(<<>>) = {}
           /\ IsInjective(<<>>)
  BY DEF Range, IsInjective

\* A queue is empty when its length is zero and when nobody is in it.
LEMMA EmptyIff ==
    ASSUME NEW S, NEW q \in Seq(S)
    PROVE  /\ q = <<>> <=> Len(q) = 0
           /\ q = <<>> <=> Range(q) = {}
           /\ Len(q) \in Nat
           /\ Range(q) \subseteq S
<1>1. Len(q) \in Nat /\ DOMAIN q = 1..Len(q) /\ \A i \in 1..Len(q) : q[i] \in S
  OBVIOUS
<1>2. q # <<>> => Len(q) # 0
  OBVIOUS
<1>3. q # <<>> => q[1] \in Range(q)
  BY <1>1, <1>2 DEF Range
<1>4. Range(<<>>) = {} /\ Len(<<>>) = 0
  BY EmptyQueue
<1> QED  BY <1>1, <1>2, <1>3, <1>4, Zenon DEF Range

\* Joining a queue, as sleepq_add does.
LEMMA AppendQueue ==
    ASSUME NEW S, NEW q \in Seq(S), NEW e \in S
    PROVE  /\ Append(q, e) \in Seq(S)
           /\ Len(Append(q, e)) = Len(q) + 1
           /\ Range(Append(q, e)) = Range(q) \cup {e}
           /\ IsInjective(q) /\ e \notin Range(q) => IsInjective(Append(q, e))
<1>1. /\ Append(q, e) \in Seq(S)
      /\ Len(q) \in Nat /\ Len(Append(q, e)) = Len(q) + 1
      /\ DOMAIN q = 1..Len(q)
      /\ DOMAIN Append(q, e) = 1..(Len(q) + 1)
      /\ \A i \in 1..Len(q) : Append(q, e)[i] = q[i]
      /\ Append(q, e)[Len(q) + 1] = e
  OBVIOUS
<1>2. \A i \in 1..(Len(q) + 1) : i \in 1..Len(q) \/ i = Len(q) + 1
  BY <1>1
<1>3. 1..Len(q) \subseteq 1..(Len(q) + 1) /\ Len(q) + 1 \in 1..(Len(q) + 1)
  BY <1>1
<1>4. Range(Append(q, e)) = Range(q) \cup {e}
  BY <1>1, <1>2, <1>3 DEF Range
<1>5. ASSUME IsInjective(q), e \notin Range(q)
      PROVE  IsInjective(Append(q, e))
  BY <1>1, <1>2, <1>5 DEF Range, IsInjective
<1> QED  BY <1>1, <1>4, <1>5

\* Leaving a queue at its head, as sleepq_wake and the scheduler do.
LEMMA TailQueue ==
    ASSUME NEW S, NEW q \in Seq(S), q # <<>>
    PROVE  /\ Head(q) \in S /\ Head(q) \in Range(q)
           /\ Tail(q) \in Seq(S)
           /\ Len(Tail(q)) = Len(q) - 1
           /\ Range(q) = Range(Tail(q)) \cup {Head(q)}
           /\ IsInjective(q) => IsInjective(Tail(q)) /\ Head(q) \notin Range(Tail(q))
<1>1. /\ Len(q) \in Nat \ {0} /\ DOMAIN q = 1..Len(q)
      /\ Head(q) = q[1] /\ Head(q) \in S
      /\ Tail(q) \in Seq(S)
      /\ Len(Tail(q)) = Len(q) - 1 /\ DOMAIN Tail(q) = 1..(Len(q) - 1)
      /\ \A i \in 1..(Len(q) - 1) : Tail(q)[i] = q[i + 1]
  OBVIOUS
<1>2. \A i \in 1..(Len(q) - 1) : i + 1 \in 1..Len(q) /\ i + 1 # 1
  BY <1>1
<1>3. \A i \in 1..Len(q) : i = 1 \/ (i - 1 \in 1..(Len(q) - 1) /\ Tail(q)[i - 1] = q[i])
  BY <1>1
<1>4. 1 \in 1..Len(q)
  BY <1>1
<1>5. Head(q) \in Range(q)
  BY <1>1, <1>4 DEF Range
<1>6. Range(q) = Range(Tail(q)) \cup {Head(q)}
  <2>1. ASSUME NEW x \in Range(q)  PROVE x \in Range(Tail(q)) \cup {Head(q)}
    <3>1. PICK i \in 1..Len(q) : q[i] = x
      BY <1>1, <2>1 DEF Range
    <3>2. CASE i = 1
      BY <1>1, <3>1, <3>2
    <3>3. CASE i # 1
      BY <1>1, <1>3, <3>1, <3>3, Zenon DEF Range
    <3> QED  BY <3>2, <3>3
  <2>2. Range(Tail(q)) \subseteq Range(q)
    BY <1>1, <1>2 DEF Range
  <2> QED  BY <1>5, <2>1, <2>2
<1>7. ASSUME IsInjective(q)
      PROVE  IsInjective(Tail(q)) /\ Head(q) \notin Range(Tail(q))
  <2>1. \A i, j \in 1..Len(q) : q[i] = q[j] => i = j
    BY <1>1, <1>7 DEF IsInjective
  <2>2. \A i, j \in 1..(Len(q) - 1) : i + 1 = j + 1 => i = j
    BY <1>1
  <2>3. IsInjective(Tail(q))
    BY <1>1, <1>2, <2>1, <2>2 DEF IsInjective
  <2>4. Head(q) \notin Range(Tail(q))
    BY <1>1, <1>2, <1>4, <2>1 DEF Range
  <2> QED  BY <2>3, <2>4
<1> QED  BY <1>1, <1>5, <1>6, <1>7

\* r is the queue q of elements of S after e joined it.
Joined(S, q, e, r) ==
    /\ r \in Seq(S)
    /\ Len(r) = Len(q) + 1
    /\ Range(r) = Range(q) \cup {e}
    /\ IsInjective(q) /\ e \notin Range(q) => IsInjective(r)

\* r is the queue q after its first element left.
Left(S, q, r) ==
    /\ r \in Seq(S)
    /\ Len(r) = Len(q) - 1
    /\ Head(q) \in S /\ Head(q) \in Range(q)
    /\ Range(q) = Range(r) \cup {Head(q)}
    /\ IsInjective(q) => IsInjective(r) /\ Head(q) \notin Range(r)

\* The same facts for a queue that is known to be such an Append or Tail.
LEMMA AfterAppend ==
    ASSUME NEW S, NEW q \in Seq(S), NEW e \in S, NEW r, r = Append(q, e)
    PROVE  Joined(S, q, e, r)
<1>1. Joined(S, q, e, Append(q, e))
  BY AppendQueue DEF Joined
<1> QED  BY <1>1, Zenon

LEMMA AfterTail ==
    ASSUME NEW S, NEW q \in Seq(S), q # <<>>, NEW r, r = Tail(q)
    PROVE  Left(S, q, r)
<1>1. Left(S, q, Tail(q))
  BY TailQueue DEF Left
<1> QED  BY <1>1, Zenon

\* A queue behind the request that is being served.
LEMMA ServedQueue ==
    ASSUME NEW S, NEW e \in S, NEW q \in Seq(S)
    PROVE  /\ <<e>> \o q # <<>>
           /\ Head(<<e>> \o q) = e /\ Tail(<<e>> \o q) = q
           /\ Range(<<e>> \o q) = Range(q) \cup {e}
           /\ \A x \in S : <<e>> \o Append(q, x) = Append(<<e>> \o q, x)
<1> DEFINE r == <<e>> \o q
<1>1. <<e>> \in Seq(S) /\ Len(<<e>>) = 1 /\ <<e>>[1] = e /\ Len(q) \in Nat
  OBVIOUS
<1>2. /\ r \in Seq(S) /\ Len(r) = Len(q) + 1 /\ r[1] = e
      /\ \A i \in 2..(Len(q) + 1) : r[i] = q[i - 1]
  BY <1>1
<1>3. r # <<>>
  BY <1>1, <1>2
<1>4. Head(r) = e
  BY <1>2, <1>3
<1> HIDE DEF r
<1>5. Tail(r) = q
  <2>1. /\ Tail(r) \in Seq(S) /\ Len(Tail(r)) = Len(q)
        /\ \A i \in 1..Len(Tail(r)) : Tail(r)[i] = r[i + 1]
    BY <1>1, <1>2, <1>3
  <2>2. \A i \in 1..Len(q) : i + 1 \in 2..(Len(q) + 1) /\ (i + 1) - 1 = i
    BY <1>1
  <2>3. \A i \in 1..Len(Tail(r)) : Tail(r)[i] = q[i]
    BY <1>2, <2>1, <2>2
  <2> QED  BY <2>1, <2>3
<1>6. Range(r) = Range(q) \cup {e}
  BY <1>2, <1>3, <1>4, <1>5, TailQueue, Zenon
<1>7. ASSUME NEW x \in S PROVE <<e>> \o Append(q, x) = Append(<<e>> \o q, x)
  <2>1. PICK w \in Seq(S) : w = Append(q, x)
    BY AppendQueue, Zenon
  <2>2. /\ Len(w) = Len(q) + 1 /\ w[Len(q) + 1] = x
        /\ \A i \in 1..Len(q) : w[i] = q[i]
    BY <1>1, <2>1
  <2>3. PICK u : u = <<e>> \o w
    BY Zenon
  <2>4. /\ u \in Seq(S) /\ Len(u) = Len(q) + 2 /\ u[1] = e
        /\ \A i \in 2..(Len(q) + 2) : u[i] = w[i - 1]
    BY <1>1, <2>2, <2>3
  <2>5. PICK v : v = Append(r, x)
    BY Zenon
  <2>6. /\ v \in Seq(S) /\ Len(v) = Len(q) + 2 /\ v[Len(q) + 2] = x
        /\ \A i \in 1..(Len(q) + 1) : v[i] = r[i]
    BY <1>1, <1>2, <2>5
  <2>7. ASSUME NEW i \in 1..(Len(q) + 2) PROVE u[i] = v[i]
    <3>1. CASE i = 1
      BY <1>1, <1>2, <2>4, <2>6, <3>1
    <3>2. CASE i # 1 /\ i # Len(q) + 2
      <4>1. i \in 2..(Len(q) + 1) /\ i \in 1..(Len(q) + 1) /\ i - 1 \in 1..Len(q) /\ i \in 2..(Len(q) + 2)
        BY <1>1, <3>2
      <4> QED  BY <1>2, <2>2, <2>4, <2>6, <4>1, Zenon
    <3>3. CASE i = Len(q) + 2
      BY <1>1, <2>2, <2>4, <2>6, <3>3
    <3> QED  BY <3>1, <3>2, <3>3
  <2>8. u = v
    BY <2>4, <2>6, <2>7
  <2> QED  BY <2>1, <2>3, <2>5, <2>8 DEF r
<1> QED  BY <1>3, <1>4, <1>5, <1>6, <1>7 DEF r

\* A queue is its head and the rest.
LEMMA HeadAndTail ==
    ASSUME NEW S, NEW q \in Seq(S), q # <<>>
    PROVE  <<Head(q)>> \o Tail(q) = q
<1>1. Len(q) \in Nat \ {0} /\ Head(q) = q[1]
  OBVIOUS
<1>2. PICK h \in S : h = Head(q)
  OBVIOUS
<1>3. /\ Tail(q) \in Seq(S) /\ Len(Tail(q)) = Len(q) - 1 /\ <<h>> \in Seq(S) /\ Len(<<h>>) = 1
      /\ \A i \in 1..(Len(q) - 1) : Tail(q)[i] = q[i + 1]
  OBVIOUS
<1>4. /\ <<h>> \o Tail(q) \in Seq(S) /\ Len(<<h>> \o Tail(q)) = Len(q)
      /\ \A i \in 1..Len(q) : (<<h>> \o Tail(q))[i] = IF i <= 1 THEN <<h>>[i] ELSE Tail(q)[i - 1]
  BY <1>1, <1>3
<1>5. ASSUME NEW i \in 1..Len(q) PROVE (<<h>> \o Tail(q))[i] = q[i]
  <2>1. CASE i = 1
    BY <1>1, <1>2, <1>4, <2>1
  <2>2. CASE i # 1
    <3>1. i - 1 \in 1..(Len(q) - 1) /\ (i - 1) + 1 = i /\ ~(i <= 1)
      BY <1>1, <2>2
    <3> QED  BY <1>3, <1>4, <3>1
  <2> QED  BY <2>1, <2>2
<1>6. <<h>> \o Tail(q) = q
  BY <1>4, <1>5
<1> QED  BY <1>2, <1>6
=============================================================================
