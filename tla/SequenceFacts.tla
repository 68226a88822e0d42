--------------------------- MODULE SequenceFacts ----------------------------
(***************************************************************************)
(* What a queue or a pipe is once its head is taken, once a frame is put   *)
(* behind the others, and once its head is replaced, index by index: the   *)
(* form in which the proofs about frames in flight need it.  And induction *)
(* over the natural numbers in a set, for what a loop comes to.            *)
(***************************************************************************)
EXTENDS Naturals, Sequences, WellFoundedInduction, TLAPS

\* q is p without its head, or with x behind it.
Popped(p, q) ==
  /\ Len(p) \in Nat /\ Len(p) >= 1 /\ 1 \in 1..Len(p) /\ Head(p) = p[1] /\ Len(q) \in Nat /\ Len(q) = Len(p) - 1
  /\ \A i \in 1..Len(q) : i + 1 \in 1..Len(p) /\ q[i] = p[i + 1] /\ i + 1 # 1
  /\ \A i \in 1..Len(p) : i # 1 => i - 1 \in 1..Len(q) /\ q[i - 1] = p[i]
Pushed(p, q, x) ==
  /\ Len(p) \in Nat /\ Len(q) \in Nat /\ Len(q) = Len(p) + 1 /\ q # <<>> /\ q[Len(q)] = x /\ Len(q) \in 1..Len(q)
  /\ \A i \in 1..Len(p) : i \in 1..Len(q) /\ q[i] = p[i] /\ i < Len(q)
  /\ \A i \in 1..Len(q) : i \in 1..Len(p) \/ i = Len(q)
\* q is p with x for its head.
Swapped(p, q, x) ==
  /\ Len(p) \in Nat /\ Len(p) >= 1 /\ 1 \in 1..Len(p) /\ Head(p) = p[1] /\ Len(q) = Len(p) /\ q # <<>> /\ q[1] = x
  /\ \A i \in 1..Len(p) : i # 1 => q[i] = p[i]

LEMMA PoppedSeq ==
  ASSUME NEW S, NEW p \in Seq(S), p # <<>>
  PROVE  Tail(p) \in Seq(S) /\ Popped(p, Tail(p)) /\ p[1] \in S
<1>1. /\ Len(p) \in Nat /\ Len(p) >= 1 /\ Head(p) = p[1] /\ p[1] \in S
      /\ Tail(p) \in Seq(S) /\ Len(Tail(p)) = Len(p) - 1
      /\ \A i \in 1..(Len(p) - 1) : Tail(p)[i] = p[i + 1]
  OBVIOUS
<1>2. DEFINE n == Len(p)
<1>3. /\ \A i \in 1..(n - 1) : i + 1 \in 1..n /\ i + 1 # 1
      /\ \A i \in 1..n : i # 1 => i - 1 \in 1..(n - 1) /\ (i - 1) + 1 = i
      /\ n - 1 \in Nat /\ 1 \in 1..n
  <2>1. n \in Nat /\ n >= 1
    BY <1>1
  <2> HIDE DEF n
  <2>. QED  BY <2>1
<1>4. \A i \in 1..Len(p) : i # 1 => Tail(p)[i - 1] = p[i]
  <2> SUFFICES ASSUME NEW i \in 1..Len(p), i # 1 PROVE Tail(p)[i - 1] = p[i]
    OBVIOUS
  <2>1. i - 1 \in 1..(Len(p) - 1) /\ (i - 1) + 1 = i
    BY <1>3
  <2>2. Tail(p)[i - 1] = p[(i - 1) + 1]
    BY <2>1, <1>1
  <2>. QED  BY <2>1, <2>2
<1>. QED  BY <1>1, <1>3, <1>4 DEF Popped

LEMMA PushedSeq ==
  ASSUME NEW S, NEW p \in Seq(S), NEW x \in S
  PROVE  Append(p, x) \in Seq(S) /\ Pushed(p, Append(p, x), x)
<1>1. /\ Append(p, x) \in Seq(S) /\ Len(p) \in Nat /\ Len(Append(p, x)) = Len(p) + 1 /\ Append(p, x)[Len(p) + 1] = x
      /\ \A i \in 1..Len(p) : Append(p, x)[i] = p[i]
  OBVIOUS
<1>2. Len(<<>>) = 0
  OBVIOUS
<1>. QED  BY <1>1, <1>2 DEF Pushed

LEMMA SwappedSeq ==
  ASSUME NEW S, NEW p \in Seq(S), p # <<>>, NEW x \in S
  PROVE  <<x>> \o Tail(p) \in Seq(S) /\ Swapped(p, <<x>> \o Tail(p), x)
<1>1. /\ Len(p) \in Nat /\ Len(p) >= 1 /\ Head(p) = p[1] /\ Tail(p) \in Seq(S) /\ Len(Tail(p)) = Len(p) - 1
      /\ \A i \in 1..(Len(p) - 1) : Tail(p)[i] = p[i + 1]
  OBVIOUS
<1>2. <<x>> \in Seq(S) /\ Len(<<x>>) = 1 /\ <<x>>[1] = x
  OBVIOUS
<1>3. DEFINE q == <<x>> \o Tail(p)
<1>4. q \in Seq(S) /\ Len(q) = Len(p) /\ \A i \in 1..Len(q) : q[i] = IF i <= 1 THEN <<x>>[i] ELSE Tail(p)[i - 1]
  BY <1>1, <1>2
<1>5. ASSUME NEW i \in 1..Len(p), i # 1 PROVE q[i] = p[i]
  <2>1. i - 1 \in 1..(Len(p) - 1) /\ (i - 1) + 1 = i /\ ~(i <= 1) /\ i \in 1..Len(q)
    BY <1>1, <1>4, <1>5
  <2>2. q[i] = Tail(p)[i - 1] /\ Tail(p)[i - 1] = p[(i - 1) + 1]
    BY <2>1, <1>1, <1>4
  <2>. QED  BY <2>1, <2>2
<1>6. q[1] = x /\ 1 \in 1..Len(p) /\ q # <<>>
  <2>1. 1 \in 1..Len(q) /\ q[1] = <<x>>[1]
    BY <1>1, <1>4
  <2>2. Len(<<>>) = 0
    OBVIOUS
  <2>. QED  BY <2>1, <2>2, <1>1, <1>2, <1>4
<1>. QED  BY <1>1, <1>4, <1>5, <1>6 DEF Swapped

\* Induction, over the members of a set.
LEMMA SetInduction ==
  ASSUME NEW T, 0 \in T, \A n \in Nat : n \in T => n + 1 \in T
  PROVE  Nat \subseteq T
<1>. DEFINE bad == Nat \ T
            R == {p \in Nat \X Nat : p[1] < p[2]}
<1>1. SUFFICES ASSUME bad # {} PROVE FALSE
  OBVIOUS
<1>2. IsWellFoundedOn(R, Nat)
  BY NatLessThanWellFounded DEF OpToRel
<1>. HIDE DEF R
<1>3. PICK x \in bad : \A y \in bad : <<y, x>> \notin R
  BY <1>1, <1>2, WFMin
<1>4. \A y \in bad : ~(y < x)
  BY <1>3 DEF R
<1>5. x \in Nat /\ x \notin T /\ x # 0 /\ x - 1 \in Nat
  BY <1>3
<1>6. x - 1 \in T
  BY <1>4, <1>5
<1>. QED  BY <1>5, <1>6
=============================================================================
