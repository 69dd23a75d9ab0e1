----------------------------- MODULE QueueLemmas ----------------------------
(***************************************************************************)
(* Lemmas about sequences that repeat no element, which the brokers use as *)
(* queues of free workers.                                                 *)
(***************************************************************************)
EXTENDS Naturals, Sequences, SequenceTheorems, TLAPS

Occurs(x, seq) == \E i \in DOMAIN seq : seq[i] = x
NoRepeat(seq) == \A i, j \in DOMAIN seq : seq[i] = seq[j] => i = j

(* An element that is put on the queue was not on it before. *)
LEMMA Enqueue ==
  ASSUME NEW S, NEW q \in Seq(S), NEW x \in S, NoRepeat(q), ~Occurs(x, q)
  PROVE  /\ Append(q, x) \in Seq(S) /\ Append(q, x) # <<>>
         /\ NoRepeat(Append(q, x))
         /\ \A y : Occurs(y, Append(q, x)) <=> Occurs(y, q) \/ y = x
<1> DEFINE r == Append(q, x)
<1>1. /\ r \in Seq(S) /\ r # <<>> /\ Len(r) = Len(q) + 1
      /\ \A i \in 1 .. Len(q) : r[i] = q[i]
      /\ r[Len(q) + 1] = x
  BY AppendProperties
<1>2. /\ Len(q) \in Nat /\ DOMAIN q = 1 .. Len(q)
      /\ DOMAIN r = 1 .. Len(q) + 1
  BY <1>1, LenProperties
<1> HIDE DEF r
<1>3. \A y : Occurs(y, r) <=> Occurs(y, q) \/ y = x
  BY <1>1, <1>2 DEF Occurs
<1>4. NoRepeat(r)
  BY <1>1, <1>2 DEF NoRepeat, Occurs
<1> QED BY <1>1, <1>3, <1>4 DEF r

(* The element that is taken off the queue is not on it afterwards. *)
LEMMA Dequeue ==
  ASSUME NEW S, NEW q \in Seq(S), q # <<>>, NoRepeat(q)
  PROVE  /\ Head(q) \in S /\ Occurs(Head(q), q)
         /\ Tail(q) \in Seq(S) /\ NoRepeat(Tail(q))
         /\ \A y : Occurs(y, Tail(q)) <=> Occurs(y, q) /\ y # Head(q)
<1> DEFINE r == Tail(q)
<1>1. /\ r \in Seq(S) /\ Len(r) = Len(q) - 1
      /\ \A i \in 1 .. Len(r) : r[i] = q[i + 1]
      /\ Head(q) \in S
  BY HeadTailProperties
<1>2. /\ Len(q) \in Nat \ {0} /\ DOMAIN q = 1 .. Len(q)
      /\ DOMAIN r = 1 .. Len(q) - 1
      /\ Head(q) = q[1]
  BY <1>1, LenProperties, EmptySeq
<1> HIDE DEF r
<1>3. NoRepeat(r)
  <2> SUFFICES ASSUME NEW i \in DOMAIN r, NEW j \in DOMAIN r, r[i] = r[j]
               PROVE  i = j
    BY DEF NoRepeat
  <2>1. /\ i \in 1 .. Len(r) /\ j \in 1 .. Len(r) /\ i \in Nat /\ j \in Nat
        /\ i + 1 \in DOMAIN q /\ j + 1 \in DOMAIN q
    BY <1>1, <1>2
  <2>2. q[i + 1] = q[j + 1]
    BY <1>1, <2>1
  <2>3. i + 1 = j + 1
    BY <2>1, <2>2 DEF NoRepeat
  <2> QED BY <2>1, <2>3
<1>4. ASSUME NEW y, Occurs(y, q), y # Head(q)
      PROVE  Occurs(y, r)
  <2>1. PICK i \in 1 .. Len(q) : q[i] = y
    BY <1>2, <1>4 DEF Occurs
  <2>2. i - 1 \in DOMAIN r /\ r[i - 1] = q[i]
    BY <1>1, <1>2, <1>4, <2>1
  <2> QED BY <2>1, <2>2 DEF Occurs
<1>5. ASSUME NEW y, Occurs(y, r)
      PROVE  Occurs(y, q) /\ y # Head(q)
  <2>1. PICK i \in 1 .. Len(q) - 1 : q[i + 1] = y
    BY <1>1, <1>2, <1>5 DEF Occurs
  <2>2. i + 1 \in DOMAIN q /\ 1 \in DOMAIN q /\ i + 1 # 1
    BY <1>2, <2>1
  <2> QED BY <1>2, <2>1, <2>2 DEF Occurs, NoRepeat
<1>6. Occurs(Head(q), q)
  BY <1>2 DEF Occurs
<1> QED BY <1>1, <1>3, <1>4, <1>5, <1>6 DEF r

=============================================================================
