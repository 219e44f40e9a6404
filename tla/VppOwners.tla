------------------------------ MODULE VppOwners ------------------------------
(***************************************************************************)
(* Proofs about Vpp, continued: PictureInv is inductive together with      *)
(* VppInv, hence every capture buffer has exactly one owner, the decoder   *)
(* counts the fields that are out, and every picture that is given back is *)
(* the one its stages remember, if there are input buffers and vframes for *)
(* two fields of each capture buffer and every progressive mode has the    *)
(* DI's own memory.  First come lemmas about counting, then one lemma per  *)
(* action with one step per conjunct of OnInv, and last what is with the   *)
(* user when the stream ends.                                              *)
(***************************************************************************)
EXTENDS VppProofs

USE DEF Live, fieldVars

-----------------------------------------------------------------------------
(* Counting.                                                               *)

LEMMA HereFacts ==
  ASSUME NEW c
  PROVE  Here(c) \in {0, 1} /\ (c => Here(c) = 1) /\ (~ c => Here(c) = 0)
BY DEF Here

(* A set of positions of a sequence that gets one more.                    *)
LEMMA CountOneMore ==
  ASSUME NEW n \in Nat, NEW A \in SUBSET (1..n)
  PROVE  /\ IsFiniteSet(A) /\ Cardinality(A) \in Nat
         /\ Cardinality(A \cup {n + 1}) = Cardinality(A) + 1
<1>1. IsFiniteSet(A) /\ Cardinality(A) \in Nat
  <2>1. IsFiniteSet(1..n)
    BY FS_Interval
  <2> QED BY <2>1, FS_Subset, FS_CardinalityType
<1>2. n + 1 \notin A
  OBVIOUS
<1> QED BY <1>1, <1>2, FS_AddElement

(* ... and of one that loses its head.                                     *)
LEMMA CountTail ==
  ASSUME NEW n \in Nat \ {0}, NEW A \in SUBSET (1..n), NEW B,
         B = {i \in 1..(n - 1) : i + 1 \in A}
  PROVE  /\ IsFiniteSet(B) /\ Cardinality(B) \in Nat
         /\ Cardinality(A) = Cardinality(B) + Here(1 \in A)
<1>1. IsFiniteSet(A) /\ IsFiniteSet(B) /\ Cardinality(B) \in Nat
  <2>1. A \subseteq 1..n /\ B \subseteq 1..n
    OBVIOUS
  <2>2. IsFiniteSet(1..n)
    BY FS_Interval
  <2> QED BY <2>1, <2>2, FS_Subset, FS_CardinalityType
<1> DEFINE C == A \ {1}
           g == [i \in B |-> i + 1]
<1>2. IsFiniteSet(C) /\ Cardinality(C) = Cardinality(B)
  <2>1. g \in [B -> C]
    OBVIOUS
  <2>2. g \in Bijection(B, C)
    <3>1. \A i, j \in B : g[i] = g[j] => i = j
      OBVIOUS
    <3>2. ASSUME NEW k \in C PROVE \E i \in B : g[i] = k
      <4>1. k - 1 \in B /\ g[k - 1] = k
        OBVIOUS
      <4> QED BY <4>1
    <3> HIDE DEF g, C
    <3> QED BY <2>1, <3>1, <3>2 DEF Bijection, Injection, IsInjective, Surjection
  <2>3. ExistsBijection(B, C)
    BY <2>2 DEF ExistsBijection
  <2> QED BY <1>1, <2>3, FS_Bijection
<1>3. CASE 1 \in A
  <2>1. A = C \cup {1} /\ 1 \notin C
    BY <1>3
  <2>2. Cardinality(A) = Cardinality(C) + 1
    BY <1>2, <2>1, FS_AddElement
  <2> QED BY <1>1, <1>2, <1>3, <2>2 DEF Here
<1>4. CASE 1 \notin A
  <2>1. A = C
    BY <1>4
  <2> QED BY <1>1, <1>2, <1>4, <2>1 DEF Here
<1> QED BY <1>1, <1>3, <1>4

(* How often a buffer is in a queue: never, or at some position; at most   *)
(* once, or at two positions; and what a queue gains and loses.            *)
LEMMA PositionsFacts ==
  ASSUME NEW n \in Nat, NEW A \in SUBSET (1..n)
  PROVE  /\ Cardinality(A) \in Nat
         /\ Cardinality(A) = 0 <=> \A i \in 1..n : i \notin A
         /\ Cardinality(A) <= 1 => \A i, j \in A : i = j
<1>1. IsFiniteSet(A) /\ Cardinality(A) \in Nat
  BY CountOneMore, FS_Interval, FS_Subset, FS_CardinalityType
<1>2. Cardinality(A) = 0 <=> A = {}
  BY <1>1, FS_EmptySet
<1>3. ASSUME Cardinality(A) <= 1, NEW i \in A, NEW j \in A PROVE i = j
  <2>1. Cardinality(A) = 1
    BY <1>1, <1>2, <1>3
  <2>2. \E x : A = {x}
    BY <1>1, <2>1, FS_Singleton
  <2> QED BY <2>2
<1> QED BY <1>1, <1>2, <1>3

LEMMA OftenFacts ==
  ASSUME NEW b, NEW S, NEW q \in Seq(S)
  PROVE  /\ Often(b, q) \in Nat
         /\ Often(b, q) = 0 <=> \A i \in 1..Len(q) : q[i] # b
         /\ q # <<>> => /\ Often(b, Tail(q)) \in Nat
                        /\ Often(b, q) = Often(b, Tail(q)) + Here(Head(q) = b)
<1> DEFINE A == {i \in 1..Len(q) : q[i] = b}
<1>1. Len(q) \in Nat /\ A \in SUBSET (1..Len(q)) /\ Often(b, q) = Cardinality(A)
  BY DEF Often
<1>2. \A i \in 1..Len(q) : i \in A <=> q[i] = b
  OBVIOUS
<1>4. ASSUME q # <<>>
      PROVE  /\ Often(b, Tail(q)) \in Nat
             /\ Often(b, q) = Often(b, Tail(q)) + Here(Head(q) = b)
  <2> DEFINE r == Tail(q)
             B == {i \in 1..Len(r) : r[i] = b}
  <2>1. /\ Len(q) \in Nat \ {0} /\ Len(r) = Len(q) - 1 /\ Head(q) = q[1]
        /\ \A i \in 1..Len(r) : i + 1 \in 1..Len(q) /\ r[i] = q[i + 1]
    BY <1>4, TailFacts
  <2>2. Often(b, r) = Cardinality(B)
    BY DEF Often
  <2>3. (1 \in A) = (Head(q) = b)
    BY <2>1
  <2> HIDE DEF r
  <2>4. B = {i \in 1..(Len(q) - 1) : i + 1 \in A}
    BY <2>1
  <2> HIDE DEF A, B
  <2>5. Cardinality(B) \in Nat /\ Cardinality(A) = Cardinality(B) + Here(1 \in A)
    BY <1>1, <2>1, <2>4, CountTail
  <2> QED BY <1>1, <2>2, <2>3, <2>5 DEF r
<1>5. Cardinality(A) \in Nat /\ (Cardinality(A) = 0 <=> \A i \in 1..Len(q) : i \notin A)
  <2> HIDE DEF A
  <2> QED BY <1>1, PositionsFacts
<1> HIDE DEF A
<1> QED BY <1>1, <1>2, <1>4, <1>5

LEMMA OftenAppend ==
  ASSUME NEW b, NEW S, NEW q \in Seq(S), NEW x \in S
  PROVE  Often(b, Append(q, x)) = Often(b, q) + (IF x = b THEN 1 ELSE 0)
<1> DEFINE A == {i \in 1..Len(q) : q[i] = b}
           r == Append(q, x)
           B == {i \in 1..Len(r) : r[i] = b}
<1>1. Len(q) \in Nat /\ A \in SUBSET (1..Len(q)) /\ Often(b, q) = Cardinality(A)
  BY DEF Often
<1>2. /\ Len(r) = Len(q) + 1
      /\ \A i \in 1..Len(r) : r[i] = IF i <= Len(q) THEN q[i] ELSE x
  BY AppendFacts
<1>3. Often(b, r) = Cardinality(B)
  BY DEF Often
<1> HIDE DEF r
<1>4. B = IF x = b THEN A \cup {Len(q) + 1} ELSE A
  BY <1>1, <1>2
<1> HIDE DEF A, B
<1>5. Cardinality(A) \in Nat /\ Cardinality(A \cup {Len(q) + 1}) = Cardinality(A) + 1
  BY <1>1, CountOneMore
<1> QED BY <1>1, <1>3, <1>4, <1>5 DEF r

LEMMA PicturesFacts ==
  ASSUME NEW b, NEW q \in Seq(Frame)
  PROVE  /\ Pictures(b, q) \in Nat
         /\ Pictures(b, q) = 0 <=> \A i \in 1..Len(q) : q[i].fb # b
         /\ Pictures(b, q) <= 1 => \A i, j \in 1..Len(q) : q[i].fb = b /\ q[j].fb = b => i = j
         /\ \A x \in Frame : Pictures(b, Append(q, x)) = Pictures(b, q) + Here(x.fb = b)
         /\ q # <<>> => /\ Pictures(b, Tail(q)) \in Nat
                        /\ Pictures(b, q) = Pictures(b, Tail(q)) + Here(Head(q).fb = b)
<1> DEFINE A == {i \in 1..Len(q) : q[i].fb = b}
<1>1. Len(q) \in Nat /\ A \in SUBSET (1..Len(q)) /\ Pictures(b, q) = Cardinality(A)
  BY DEF Pictures
<1>2. \A i \in 1..Len(q) : i \in A <=> q[i].fb = b
  OBVIOUS
<1>3. ASSUME NEW x \in Frame
      PROVE  Pictures(b, Append(q, x)) = Pictures(b, q) + Here(x.fb = b)
  <2> DEFINE r == Append(q, x)
             B == {i \in 1..Len(r) : r[i].fb = b}
  <2>1. /\ Len(r) = Len(q) + 1
        /\ \A i \in 1..Len(r) : r[i] = IF i <= Len(q) THEN q[i] ELSE x
    BY AppendFacts
  <2>2. Pictures(b, r) = Cardinality(B)
    BY DEF Pictures
  <2> HIDE DEF r
  <2>3. B = IF x.fb = b THEN A \cup {Len(q) + 1} ELSE A
    BY <1>1, <2>1
  <2> HIDE DEF A, B
  <2>4. Cardinality(A) \in Nat /\ Cardinality(A \cup {Len(q) + 1}) = Cardinality(A) + 1
    BY <1>1, CountOneMore
  <2>5. Cardinality(B) = Cardinality(A) + Here(x.fb = b)
    BY <2>3, <2>4 DEF Here
  <2> QED BY <1>1, <2>2, <2>5 DEF r
<1>4. ASSUME q # <<>>
      PROVE  /\ Pictures(b, Tail(q)) \in Nat
             /\ Pictures(b, q) = Pictures(b, Tail(q)) + Here(Head(q).fb = b)
  <2> DEFINE r == Tail(q)
             B == {i \in 1..Len(r) : r[i].fb = b}
  <2>1. /\ Len(q) \in Nat \ {0} /\ Len(r) = Len(q) - 1 /\ Head(q) = q[1]
        /\ \A i \in 1..Len(r) : i + 1 \in 1..Len(q) /\ r[i] = q[i + 1]
    BY <1>4, TailFacts
  <2>2. Pictures(b, r) = Cardinality(B)
    BY DEF Pictures
  <2>3. (1 \in A) = (Head(q).fb = b)
    BY <2>1
  <2> HIDE DEF r
  <2>4. B = {i \in 1..(Len(q) - 1) : i + 1 \in A}
    BY <2>1
  <2> HIDE DEF A, B
  <2>5. Cardinality(B) \in Nat /\ Cardinality(A) = Cardinality(B) + Here(1 \in A)
    BY <1>1, <2>1, <2>4, CountTail
  <2> QED BY <1>1, <2>2, <2>3, <2>5 DEF r
<1>5. /\ Cardinality(A) \in Nat /\ (Cardinality(A) = 0 <=> \A i \in 1..Len(q) : i \notin A)
      /\ Cardinality(A) <= 1 => \A i, j \in A : i = j
  <2> HIDE DEF A
  <2> QED BY <1>1, PositionsFacts
<1> HIDE DEF A
<1> QED BY <1>1, <1>2, <1>3, <1>4, <1>5

(* The same of the pictures the user has.                                  *)
PicturesOf(b, U) == {f \in U : f.fb = b}
LEMMA FramesFinite == IsFiniteSet(Frame)
<1> DEFINE P == (Buf \X Time) \X (1..2)
           g == [p \in P |-> [fb |-> p[1][1], ts |-> p[1][2], nth |-> p[2]]]
<1>1. IsFiniteSet(P)
  <2>1. IsFiniteSet(Buf) /\ IsFiniteSet(Time) /\ IsFiniteSet(1..2)
    <3>1. {NumBuf, Times - 1, 0, 1, 2} \subseteq Int
      BY VppAssumption
    <3>2. \A i, j \in Int : IsFiniteSet(i..j)
      BY FS_Interval
    <3> QED BY <3>1, <3>2 DEF Buf, Time
  <2> QED BY <2>1, FS_Product
<1>2. g \in Surjection(P, Frame)
  <2>1. g \in [P -> Frame]
    BY DEF Frame
  <2>2. ASSUME NEW f \in Frame PROVE \E p \in P : g[p] = f
    <3>1. <<<<f.fb, f.ts>>, f.nth>> \in P /\ g[<<<<f.fb, f.ts>>, f.nth>>] = f
      BY DEF Frame
    <3> QED BY <3>1
  <2> HIDE DEF g
  <2> QED BY <2>1, <2>2 DEF Surjection
<1> HIDE DEF g, P
<1> QED BY <1>1, <1>2, FS_Surjection

LEMMA UserFacts ==
  ASSUME NEW U \in SUBSET Frame, NEW b
  PROVE  /\ Cardinality(PicturesOf(b, U)) \in Nat
         /\ Cardinality(PicturesOf(b, U)) = 0 <=> \A f \in U : f.fb # b
         /\ Cardinality(PicturesOf(b, U)) <= 1 => \A f, g \in U : f.fb = b /\ g.fb = b => f = g
         /\ \A f \in Frame : f \notin U =>
              Cardinality(PicturesOf(b, U \cup {f})) = Cardinality(PicturesOf(b, U)) + Here(f.fb = b)
         /\ \A f \in U : /\ Cardinality(PicturesOf(b, U \ {f})) \in Nat
                         /\ Cardinality(PicturesOf(b, U))
                              = Cardinality(PicturesOf(b, U \ {f})) + Here(f.fb = b)
<1> DEFINE A == PicturesOf(b, U)
<1>1. IsFiniteSet(A) /\ Cardinality(A) \in Nat
  <2>1. A \in SUBSET Frame
    BY DEF PicturesOf
  <2> QED BY <2>1, FramesFinite, FS_Subset, FS_CardinalityType
<1>2. Cardinality(A) = 0 <=> A = {}
  BY <1>1, FS_EmptySet
<1>3. \A f \in U : f \in A <=> f.fb = b
  BY DEF PicturesOf
<1>4. ASSUME NEW f \in Frame, f \notin U
      PROVE  Cardinality(PicturesOf(b, U \cup {f})) = Cardinality(A) + Here(f.fb = b)
  <2>1. CASE f.fb = b
    <3>1. PicturesOf(b, U \cup {f}) = A \cup {f} /\ f \notin A
      BY <1>4, <2>1 DEF PicturesOf
    <3> QED BY <1>1, <2>1, <3>1, FS_AddElement DEF Here
  <2>2. CASE f.fb # b
    <3>1. PicturesOf(b, U \cup {f}) = A
      BY <2>2 DEF PicturesOf
    <3> QED BY <1>1, <2>2, <3>1 DEF Here
  <2> QED BY <2>1, <2>2
<1>5. ASSUME NEW f \in U
      PROVE  /\ Cardinality(PicturesOf(b, U \ {f})) \in Nat
             /\ Cardinality(A) = Cardinality(PicturesOf(b, U \ {f})) + Here(f.fb = b)
  <2>1. CASE f.fb = b
    <3>1. PicturesOf(b, U \ {f}) = A \ {f} /\ f \in A
      BY <2>1 DEF PicturesOf
    <3>2. IsFiniteSet(A \ {f}) /\ Cardinality(A \ {f}) = Cardinality(A) - 1
      BY <1>1, <3>1, FS_RemoveElement
    <3> DEFINE C == A \ {f}
    <3>3. IsFiniteSet(C)
      BY <3>2
    <3> HIDE DEF C
    <3>4. Cardinality(C) \in Nat
      BY <3>3, FS_CardinalityType
    <3>5. Here(f.fb = b) = 1
      BY <2>1 DEF Here
    <3> HIDE DEF A
    <3>6. Cardinality(A \ {f}) \in Nat /\ Cardinality(A) = Cardinality(A \ {f}) + 1
      BY <1>1, <3>1, <3>2, <3>4 DEF C
    <3> QED BY <3>1, <3>5, <3>6
  <2>2. CASE f.fb # b
    <3>1. PicturesOf(b, U \ {f}) = A
      BY <2>2 DEF PicturesOf
    <3> QED BY <1>1, <2>2, <3>1 DEF Here
  <2> QED BY <2>1, <2>2
<1>6. ASSUME Cardinality(A) <= 1, NEW f \in A, NEW g \in A PROVE f = g
  <2>1. Cardinality(A) = 1
    BY <1>1, <1>2, <1>6
  <2>2. \E x : A = {x}
    BY <1>1, <2>1, FS_Singleton
  <2> QED BY <2>2, <1>6
<1>7. A \subseteq U
  BY DEF PicturesOf
<1> HIDE DEF A
<1>8. Cardinality(A) = 0 <=> \A f \in U : f.fb # b
  BY <1>2, <1>3, <1>7
<1>9. Cardinality(A) <= 1 => \A f, g \in U : f.fb = b /\ g.fb = b => f = g
  BY <1>3, <1>6
<1> QED BY <1>1, <1>4, <1>5, <1>8, <1>9 DEF A

(* What is in a queue that loses its head or gets one more.                *)
LEMMA ElementsFacts ==
  ASSUME NEW S, NEW q \in Seq(S)
  PROVE  /\ Elements(q) \subseteq S
         /\ \A x \in S : Elements(Append(q, x)) = Elements(q) \cup {x}
         /\ q # <<>> => /\ Head(q) \in Elements(q)
                        /\ Elements(Tail(q)) \subseteq Elements(q)
                        /\ Elements(q) = Elements(Tail(q)) \cup {Head(q)}
<1>1. Elements(q) \subseteq S
  BY DEF Elements
<1>2. ASSUME NEW x \in S PROVE Elements(Append(q, x)) = Elements(q) \cup {x}
  <2> DEFINE r == Append(q, x)
  <2>1. /\ Len(q) \in Nat /\ Len(r) = Len(q) + 1
        /\ \A i \in 1..Len(r) : r[i] = IF i <= Len(q) THEN q[i] ELSE x
    BY AppendFacts
  <2> HIDE DEF r
  <2>2. Elements(r) \subseteq Elements(q) \cup {x}
    BY <2>1 DEF Elements
  <2>3. Elements(q) \subseteq Elements(r)
    <3>1. ASSUME NEW i \in 1..Len(q) PROVE i \in 1..Len(r) /\ r[i] = q[i]
      BY <2>1
    <3> QED BY <3>1 DEF Elements
  <2>4. x \in Elements(r)
    <3>1. Len(q) + 1 \in 1..Len(r) /\ r[Len(q) + 1] = x
      BY <2>1
    <3> QED BY <3>1 DEF Elements
  <2> QED BY <2>2, <2>3, <2>4 DEF r
<1>3. ASSUME q # <<>>
      PROVE  Elements(q) = Elements(Tail(q)) \cup {Head(q)}
  <2> DEFINE r == Tail(q)
  <2>1. /\ Len(q) \in Nat \ {0} /\ Len(r) = Len(q) - 1 /\ Head(q) = q[1]
        /\ \A i \in 1..Len(r) : i + 1 \in 1..Len(q) /\ r[i] = q[i + 1]
    BY <1>3, TailFacts
  <2> HIDE DEF r
  <2>2. Elements(r) \cup {Head(q)} \subseteq Elements(q)
    <3>1. 1 \in 1..Len(q)
      BY <2>1
    <3> QED BY <2>1, <3>1 DEF Elements
  <2>3. ASSUME NEW i \in 1..Len(q) PROVE q[i] \in Elements(r) \cup {Head(q)}
    <3>1. CASE i = 1
      BY <2>1, <3>1
    <3>2. CASE i # 1
      <4>1. i - 1 \in 1..Len(r) /\ r[i - 1] = q[i]
        BY <2>1, <3>2
      <4> QED BY <4>1 DEF Elements
    <3> QED BY <3>1, <3>2
  <2>4. Elements(q) \subseteq Elements(r) \cup {Head(q)}
    BY <2>3 DEF Elements
  <2> QED BY <2>2, <2>4 DEF r
<1> QED BY <1>1, <1>2, <1>3

LEMMA PicturesNone ==
  ASSUME NEW b, NEW q \in Seq(Frame)
  PROVE  Pictures(b, q) = 0 <=> \A f \in Elements(q) : f.fb # b
BY PicturesFacts DEF Elements

(* What a queue of pictures, and the fifo of output buffers, gains and     *)
(* loses.                                                                  *)
LEMMA AfterTake ==
  ASSUME NEW q \in Seq(Frame), q # <<>>
  PROVE  /\ Tail(q) \in Seq(Frame) /\ Head(q) \in Frame /\ Head(q) \in Elements(q)
         /\ Len(Tail(q)) \in Nat /\ Len(q) = Len(Tail(q)) + 1
         /\ Elements(q) = Elements(Tail(q)) \cup {Head(q)}
         /\ \A b : /\ Pictures(b, Tail(q)) \in Nat
                   /\ Pictures(b, q) = Pictures(b, Tail(q)) + (IF Head(q).fb = b THEN 1 ELSE 0)
<1>1. /\ Tail(q) \in Seq(Frame) /\ Head(q) \in Frame
      /\ Len(Tail(q)) \in Nat /\ Len(q) = Len(Tail(q)) + 1
  BY TailFacts
<1>2. Head(q) \in Elements(q) /\ Elements(q) = Elements(Tail(q)) \cup {Head(q)}
  BY ElementsFacts
<1>3. ASSUME NEW b
      PROVE  /\ Pictures(b, Tail(q)) \in Nat
             /\ Pictures(b, q) = Pictures(b, Tail(q)) + (IF Head(q).fb = b THEN 1 ELSE 0)
  BY PicturesFacts DEF Here
<1> QED BY <1>1, <1>2, <1>3

LEMMA AfterAppend ==
  ASSUME NEW q \in Seq(Frame), NEW f \in Frame
  PROVE  /\ Append(q, f) \in Seq(Frame) /\ Len(q) \in Nat /\ Len(Append(q, f)) = Len(q) + 1
         /\ Elements(Append(q, f)) = Elements(q) \cup {f}
         /\ \A b : /\ Pictures(b, q) \in Nat
                   /\ Pictures(b, Append(q, f)) = Pictures(b, q) + (IF f.fb = b THEN 1 ELSE 0)
<1>1. Append(q, f) \in Seq(Frame) /\ Len(q) \in Nat /\ Len(Append(q, f)) = Len(q) + 1
  BY AppendFacts
<1>2. Elements(Append(q, f)) = Elements(q) \cup {f}
  BY ElementsFacts
<1>3. ASSUME NEW b
      PROVE  /\ Pictures(b, q) \in Nat
             /\ Pictures(b, Append(q, f)) = Pictures(b, q) + (IF f.fb = b THEN 1 ELSE 0)
  <2>1. \A x \in Frame : Pictures(b, Append(q, x)) = Pictures(b, q) + Here(x.fb = b)
    BY PicturesFacts
  <2>2. Here(f.fb = b) = IF f.fb = b THEN 1 ELSE 0
    BY DEF Here
  <2> QED BY <2>1, <2>2, PicturesFacts
<1> QED BY <1>1, <1>2, <1>3

LEMMA AfterPut ==
  ASSUME NEW S, NEW q \in Seq(S), NEW x \in S
  PROVE  /\ Elements(Append(q, x)) = Elements(q) \cup {x}
         /\ \A b : /\ Often(b, q) \in Nat
                   /\ Often(b, Append(q, x)) = Often(b, q) + (IF x = b THEN 1 ELSE 0)
         /\ q # <<>> => /\ Elements(q) = Elements(Tail(q)) \cup {Head(q)}
                        /\ Head(q) \in S
                        /\ \A b : /\ Often(b, Tail(q)) \in Nat
                                  /\ Often(b, q) = Often(b, Tail(q)) + (IF Head(q) = b THEN 1 ELSE 0)
<1>1. /\ Elements(Append(q, x)) = Elements(q) \cup {x}
      /\ q # <<>> => Elements(q) = Elements(Tail(q)) \cup {Head(q)}
  BY ElementsFacts
<1>2. q # <<>> => Head(q) \in S
  BY TailFacts
<1>3. ASSUME NEW b
      PROVE  /\ Often(b, q) \in Nat
             /\ Often(b, Append(q, x)) = Often(b, q) + (IF x = b THEN 1 ELSE 0)
             /\ q # <<>> => /\ Often(b, Tail(q)) \in Nat
                            /\ Often(b, q) = Often(b, Tail(q)) + (IF Head(q) = b THEN 1 ELSE 0)
  <2>0. Often(b, q) \in Nat
    BY OftenFacts
  <2>1. Often(b, Append(q, x)) = Often(b, q) + (IF x = b THEN 1 ELSE 0)
    BY OftenAppend, Zenon
  <2>2. ASSUME q # <<>>
        PROVE  /\ Often(b, Tail(q)) \in Nat
               /\ Often(b, q) = Often(b, Tail(q)) + Here(Head(q) = b)
    BY <2>2, OftenFacts
  <2>3. Here(Head(q) = b) = IF Head(q) = b THEN 1 ELSE 0
    BY DEF Here
  <2> QED BY <2>0, <2>1, <2>2, <2>3
<1> QED BY <1>1, <1>2, <1>3

-----------------------------------------------------------------------------
(* Sequences.                                                              *)

(* Sequences with the same elements are equal.                             *)
LEMMA SameElements ==
  ASSUME NEW S, NEW s \in Seq(S), NEW t \in Seq(S), Len(s) = Len(t),
         \A i \in 1..Len(s) : s[i] = t[i]
  PROVE  s = t
OBVIOUS

LEMMA ConcatFacts ==
  ASSUME NEW S, NEW s \in Seq(S), NEW t \in Seq(S)
  PROVE  /\ s \o t \in Seq(S) /\ Len(s) \in Nat /\ Len(t) \in Nat
         /\ Len(s \o t) = Len(s) + Len(t)
         /\ \A i \in 1..Len(s \o t) : (s \o t)[i] = IF i <= Len(s) THEN s[i] ELSE t[i - Len(s)]
OBVIOUS

(* One more element at the end of the second part.                         *)
LEMMA AppendConcat ==
  ASSUME NEW S, NEW s \in Seq(S), NEW t \in Seq(S), NEW x \in S
  PROVE  s \o Append(t, x) = Append(s \o t, x)
<1> DEFINE u == s \o Append(t, x)
           v == Append(s \o t, x)
<1>1. Append(t, x) \in Seq(S) /\ s \o t \in Seq(S)
  BY AppendFacts, ConcatFacts
<1>2. u \in Seq(S) /\ v \in Seq(S)
  BY <1>1, AppendFacts, ConcatFacts
<1>3. Len(u) = Len(v)
  BY <1>1, AppendFacts, ConcatFacts
<1>4. \A i \in 1..Len(u) : u[i] = v[i]
  OBVIOUS
<1> HIDE DEF u, v
<1>5. u = v
  BY <1>2, <1>3, <1>4, SameElements
<1> QED BY <1>5 DEF u, v

(* The head of one part becomes the end of the one before.                 *)
LEMMA MoveOver ==
  ASSUME NEW S, NEW s \in Seq(S), NEW t \in Seq(S), t # <<>>
  PROVE  Append(s, Head(t)) \o Tail(t) = s \o t
<1> DEFINE u == Append(s, Head(t)) \o Tail(t)
           v == s \o t
<1>1. u \in Seq(S) /\ v \in Seq(S)
  OBVIOUS
<1>2. Len(u) = Len(v)
  OBVIOUS
<1>3. \A i \in 1..Len(u) : u[i] = v[i]
  OBVIOUS
<1> HIDE DEF u, v
<1>4. u = v
  BY <1>1, <1>2, <1>3, SameElements
<1> QED BY <1>4 DEF u, v

(* The first part loses its head.                                          *)
LEMMA TailConcat ==
  ASSUME NEW S, NEW s \in Seq(S), NEW t \in Seq(S), s # <<>>
  PROVE  s \o t # <<>> /\ Tail(s) \o t = Tail(s \o t)
<1> DEFINE u == Tail(s) \o t
           v == Tail(s \o t)
<1>1. s \o t # <<>>
  OBVIOUS
<1>2. u \in Seq(S) /\ v \in Seq(S)
  BY <1>1
<1>3. Len(u) = Len(v)
  BY <1>1
<1>4. \A i \in 1..Len(u) : u[i] = v[i]
  BY <1>1
<1> HIDE DEF u, v
<1>5. u = v
  BY <1>2, <1>3, <1>4, SameElements
<1> QED BY <1>1, <1>5 DEF u, v

(* What is in two parts is in the whole.                                   *)
LEMMA ElementsConcat ==
  ASSUME NEW S, NEW s \in Seq(S), NEW t \in Seq(S)
  PROVE  Elements(s \o t) = Elements(s) \cup Elements(t)
<1> DEFINE u == s \o t
<1>1. /\ Len(s) \in Nat /\ Len(t) \in Nat /\ Len(u) = Len(s) + Len(t)
      /\ \A i \in 1..Len(u) : u[i] = IF i <= Len(s) THEN s[i] ELSE t[i - Len(s)]
  BY ConcatFacts
<1> HIDE DEF u
<1>2. ASSUME NEW i \in 1..Len(u) PROVE u[i] \in Elements(s) \cup Elements(t)
  <2>1. CASE i <= Len(s)
    BY <1>1, <2>1 DEF Elements
  <2>2. CASE ~ i <= Len(s)
    <3>1. i - Len(s) \in 1..Len(t) /\ u[i] = t[i - Len(s)]
      BY <1>1, <2>2
    <3> QED BY <3>1 DEF Elements
  <2> QED BY <2>1, <2>2
<1>3. ASSUME NEW i \in 1..Len(s) PROVE s[i] \in Elements(u)
  <2>1. i \in 1..Len(u) /\ u[i] = s[i]
    BY <1>1
  <2> QED BY <2>1 DEF Elements
<1>4. ASSUME NEW i \in 1..Len(t) PROVE t[i] \in Elements(u)
  <2>1. Len(s) + i \in 1..Len(u) /\ u[Len(s) + i] = t[i]
    BY <1>1
  <2> QED BY <2>1 DEF Elements
<1>5. Elements(u) = Elements(s) \cup Elements(t)
  <2>1. Elements(u) \subseteq Elements(s) \cup Elements(t)
    BY <1>2 DEF Elements
  <2>2. Elements(s) \subseteq Elements(u)
    BY <1>3 DEF Elements
  <2>3. Elements(t) \subseteq Elements(u)
    BY <1>4 DEF Elements
  <2> QED BY <2>1, <2>2, <2>3
<1> QED BY <1>5 DEF u

(* A queue of one element.                                                 *)
LEMMA SingleFacts ==
  ASSUME NEW S, NEW x \in S, NEW s \in Seq(S)
  PROVE  /\ <<x>> \in Seq(S) /\ <<x>> # <<>> /\ Head(<<x>>) = x /\ Tail(<<x>>) = <<>>
         /\ Len(<<x>>) = 1 /\ Append(<<>>, x) = <<x>>
         /\ s \o <<x>> = Append(s, x) /\ <<>> \o s = s /\ s \o <<>> = s
<1> QED OBVIOUS

-----------------------------------------------------------------------------
(* Chains.                                                                 *)

(* Which stages follow which depends on the items and the maps.            *)
SameLinks(c, d) == c.items = d.items /\ c.submit = d.submit /\ c.recycle = d.recycle
LEMMA LinksKept ==
  ASSUME NEW c, NEW d, SameLinks(c, d), NEW t, NEW u
  PROVE  Linked(c, t, u) <=> Linked(d, t, u)
BY DEF SameLinks, Linked, Follows, Precedes

LEMMA PushLinks ==
  ASSUME NEW c \in Chain(Frame), NEW t \in Task, NEW f
  PROVE  SameLinks(Push(c, t, f), c)
<1>1. ASSUME NEW k PROVE SameLinks([c EXCEPT !.vframe[t][k] = f], c)
  BY DEF SameLinks, Chain
<1> QED BY <1>1 DEF Push, SameLinks

LEMMA PopLinks ==
  ASSUME NEW c \in Chain(Frame), NEW t \in Task
  PROVE  SameLinks(Pop(c, t), c)
<1>1. ASSUME NEW k PROVE SameLinks([c EXCEPT !.vframe[t][k] = NoFrame], c)
  BY DEF SameLinks, Chain
<1> QED BY <1>1 DEF Pop, SameLinks

(* A picture pushed onto an empty stage is the one it remembers.           *)
LEMMA PushRemembers ==
  ASSUME NEW c \in Chain(Frame), NEW t \in Task, NEW f \in Frame, Held(c, t) = {}
  PROVE  OnlyHolds(Push(c, t, f), t, f)
<1> DEFINE free == {i \in 1..3 : c.vframe[t][i] = NoFrame}
           k == CHOOSE i \in free : \A j \in free : i <= j
<1>1. free = 1..3 /\ free # {}
  BY DEF Held
<1>2. k \in 1..3
  <2>1. \E i \in free : \A j \in free : i <= j
    <3>1. 1 \in free /\ \A j \in free : 1 <= j
      BY <1>1
    <3> QED BY <3>1
  <2>2. k \in free
    BY <2>1
  <2> QED BY <1>1, <2>2
<1>3. Push(c, t, f) = [c EXCEPT !.vframe[t][k] = f]
  BY <1>1 DEF Push
<1> HIDE DEF k
<1>4. c.vframe \in [Task -> [1..3 -> Frame \cup {NoFrame}]]
  BY DEF Chain
<1>5. Push(c, t, f).vframe = [c.vframe EXCEPT ![t][k] = f]
  BY <1>3 DEF Chain
<1>6. \A i \in 1..3 : Push(c, t, f).vframe[t][i] = IF i = k THEN f ELSE NoFrame
  BY <1>1, <1>2, <1>4, <1>5
<1>7. Held(Push(c, t, f), t) = {k} /\ Push(c, t, f).vframe[t][k] = f
  BY <1>2, <1>6, FrameFacts DEF Held
<1> QED BY <1>2, <1>7 DEF OnlyHolds

(* The other stages are as they were.                                      *)
LEMMA SameStage ==
  ASSUME NEW c, NEW d, NEW t, \A i \in 1..3 : d.vframe[t][i] = c.vframe[t][i], NEW f
  PROVE  Held(d, t) = Held(c, t) /\ (OnlyHolds(d, t, f) <=> OnlyHolds(c, t, f))
<1>1. Held(d, t) = Held(c, t)
  BY DEF Held
<1> QED BY <1>1 DEF OnlyHolds

LEMMA PushOthers ==
  ASSUME NEW c \in Chain(Frame), NEW t \in Task, NEW f \in Frame, NEW u \in Task \ {t}, NEW g
  PROVE  /\ Held(Push(c, t, f), u) = Held(c, u)
         /\ OnlyHolds(Push(c, t, f), u, g) <=> OnlyHolds(c, u, g)
<1>1. \A i \in 1..3 : Push(c, t, f).vframe[u][i] = c.vframe[u][i]
  BY PushFacts
<1> QED BY <1>1, SameStage

LEMMA PopOthers ==
  ASSUME NEW c \in Chain(Frame), NEW t \in Task, NEW u \in Task \ {t}, NEW g
  PROVE  /\ Held(Pop(c, t), u) = Held(c, u)
         /\ OnlyHolds(Pop(c, t), u, g) <=> OnlyHolds(c, u, g)
<1>1. \A i \in 1..3 : Pop(c, t).vframe[u][i] = c.vframe[u][i]
  BY PopFacts
<1> QED BY <1>1, SameStage

(* A stage gives back the only picture it holds, and is empty then.        *)
LEMMA HoldsTop ==
  ASSUME NEW c, NEW t, NEW f \in Frame, OnlyHolds(c, t, f)
  PROVE  Top(c, t) = f /\ Top(c, t) # NoFrame /\ Cardinality(Held(c, t)) = 1
<1>1. PICK k \in 1..3 : Held(c, t) = {k} /\ c.vframe[t][k] = f
  BY DEF OnlyHolds
<1>2. First(c, t) = k
  BY <1>1, FirstFacts
<1>3. Cardinality(Held(c, t)) = 1
  BY <1>1, FS_Singleton
<1> QED BY <1>1, <1>2, <1>3, FrameFacts DEF Top

LEMMA HoldsPop ==
  ASSUME NEW c \in Chain(Frame), NEW t \in Task, NEW f, OnlyHolds(c, t, f)
  PROVE  Held(Pop(c, t), t) = {}
<1>1. PICK k \in 1..3 : Held(c, t) = {k}
  BY DEF OnlyHolds
<1>2. First(c, t) \in Held(c, t) /\ Held(Pop(c, t), t) = Held(c, t) \ {First(c, t)}
  BY <1>1, FirstFacts, PopFacts
<1> QED BY <1>1, <1>2

(* The links of a new picture's buffer, whose last stage is empty.         *)
LEMMA AttachLinks ==
  ASSUME NEW c \in Chain(Frame), NEW t \in Task
  PROVE  /\ Attach(c, t) \in Chain(Frame)
         /\ Attach(c, t).items = c.items \cup {t} /\ Attach(c, t).cur = t
         /\ Attach(c, t).submit = [c.submit EXCEPT ![t] = c.cur]
         /\ Attach(c, t).recycle = [c.recycle EXCEPT ![c.cur] = t]
<1>1. Attach(c, t) \in Chain(Frame)
  BY AttachFacts
<1> QED BY <1>1 DEF Attach, Chain

LEMMA PipelineLinks ==
  ASSUME mode \in Mode, NEW c \in Chain(Frame), NEW who \in {"dec", "vpp"}
  PROVE  LET p == Pipeline(c, who)
         IN  /\ who = "dec" => Linked(p, "dec", "vpp")
             /\ who = LastStage => Linked(p, "vpp", "sink")
             /\ Held(p, "vpp") = {}
<1>1. {"dec", "vpp", "sink"} \subseteq Task
  BY DEF Task
<1>2. CASE who = "dec" /\ mode.is_prog
  <2> DEFINE c1 == Attach(c, "sink")
             c2 == Attach(c1, "vpp")
             c3 == Attach(c2, "dec")
  <2>1. Pipeline(c, who) = c3
    BY <1>2 DEF Pipeline
  <2>2. c1 \in Chain(Frame) /\ c1.cur = "sink" /\ c1.items = c.items \cup {"sink"}
    BY <1>1, AttachLinks
  <2> HIDE DEF c1
  <2>3. /\ c2 \in Chain(Frame) /\ c2.cur = "vpp" /\ c2.items = c1.items \cup {"vpp"}
        /\ c2.submit = [c1.submit EXCEPT !["vpp"] = "sink"]
        /\ c2.recycle = [c1.recycle EXCEPT !["sink"] = "vpp"]
    BY SMTT(30), <1>1, <2>2, AttachLinks
  <2>30. \A u \in Task, i \in 1..3 :
           c2.vframe[u][i] = IF u = "vpp" THEN NoFrame ELSE c1.vframe[u][i]
    BY <1>1, <2>2, AttachFacts
  <2> HIDE DEF c2
  <2>4. /\ c3.items = c2.items \cup {"dec"}
        /\ c3.submit = [c2.submit EXCEPT !["dec"] = "vpp"]
        /\ c3.recycle = [c2.recycle EXCEPT !["vpp"] = "dec"]
    <3>1. c2 \in Chain(Frame) /\ "dec" \in Task
      BY <1>1, <2>3
    <3>2. /\ c3.items = c2.items \cup {"dec"}
          /\ c3.submit = [c2.submit EXCEPT !["dec"] = c2.cur]
          /\ c3.recycle = [c2.recycle EXCEPT ![c2.cur] = "dec"]
      BY <3>1, AttachLinks
    <3> QED BY <2>3, <3>2
  <2>40. \A u \in Task, i \in 1..3 :
           c3.vframe[u][i] = IF u = "dec" THEN NoFrame ELSE c2.vframe[u][i]
    <3>1. c2 \in Chain(Frame) /\ "dec" \in Task
      BY <1>1, <2>3
    <3> QED BY <3>1, AttachFacts
  <2> HIDE DEF c3
  <2>5. c1.submit \in [Task -> Task] /\ c1.recycle \in [Task -> Task]
    BY <2>2 DEF Chain
  <2>6. /\ c3.submit["dec"] = "vpp" /\ c3.submit["vpp"] = "sink"
        /\ c3.recycle["vpp"] = "dec" /\ c3.recycle["sink"] = "vpp"
    BY <1>1, <2>3, <2>4, <2>5
  <2>7. {"dec", "vpp", "sink"} \subseteq c3.items
    BY <2>2, <2>3, <2>4
  <2>8. Linked(c3, "dec", "vpp") /\ Linked(c3, "vpp", "sink")
    BY <2>6, <2>7 DEF Linked, Follows, Precedes
  <2>9. Held(c3, "vpp") = {}
    <3>1. \A i \in 1..3 : c3.vframe["vpp"][i] = NoFrame
      BY <1>1, <2>30, <2>40
    <3> QED BY <3>1 DEF Held
  <2> QED BY <2>1, <2>8, <2>9
<1>3. CASE who = "dec" /\ ~ mode.is_prog
  <2> DEFINE c2 == Attach(c, "vpp")
             c3 == Attach(c2, "dec")
  <2>1. Pipeline(c, who) = c3
    BY <1>3 DEF Pipeline
  <2>2. /\ c2 \in Chain(Frame) /\ c2.cur = "vpp" /\ c2.items = c.items \cup {"vpp"}
    BY <1>1, AttachLinks
  <2>20. \A u \in Task, i \in 1..3 :
           c2.vframe[u][i] = IF u = "vpp" THEN NoFrame ELSE c.vframe[u][i]
    BY <1>1, AttachFacts
  <2> HIDE DEF c2
  <2>3. /\ c3.items = c2.items \cup {"dec"}
        /\ c3.submit = [c2.submit EXCEPT !["dec"] = "vpp"]
        /\ c3.recycle = [c2.recycle EXCEPT !["vpp"] = "dec"]
    <3>1. c2 \in Chain(Frame) /\ "dec" \in Task
      BY <1>1, <2>2
    <3>2. /\ c3.items = c2.items \cup {"dec"}
          /\ c3.submit = [c2.submit EXCEPT !["dec"] = c2.cur]
          /\ c3.recycle = [c2.recycle EXCEPT ![c2.cur] = "dec"]
      BY <3>1, AttachLinks
    <3> QED BY <2>2, <3>2
  <2>30. \A u \in Task, i \in 1..3 :
           c3.vframe[u][i] = IF u = "dec" THEN NoFrame ELSE c2.vframe[u][i]
    <3>1. c2 \in Chain(Frame) /\ "dec" \in Task
      BY <1>1, <2>2
    <3> QED BY <3>1, AttachFacts
  <2> HIDE DEF c3
  <2>4. c2.submit \in [Task -> Task] /\ c2.recycle \in [Task -> Task]
    BY <2>2 DEF Chain
  <2>5. /\ c3.submit["dec"] = "vpp" /\ c3.recycle["vpp"] = "dec"
        /\ {"dec", "vpp"} \subseteq c3.items
    BY <1>1, <2>2, <2>3, <2>4
  <2>6. Linked(c3, "dec", "vpp")
    BY <2>5 DEF Linked, Follows, Precedes
  <2>7. Held(c3, "vpp") = {}
    <3>1. \A i \in 1..3 : c3.vframe["vpp"][i] = NoFrame
      BY <1>1, <2>20, <2>30
    <3> QED BY <3>1 DEF Held
  <2> QED BY <1>3, <2>1, <2>6, <2>7 DEF LastStage
<1>4. CASE who = "vpp"
  <2> DEFINE c1 == Attach(c, "sink")
             c2 == Attach(c1, "vpp")
  <2>1. Pipeline(c, who) = c2
    BY <1>4 DEF Pipeline
  <2>2. c1 \in Chain(Frame) /\ c1.cur = "sink" /\ c1.items = c.items \cup {"sink"}
    BY <1>1, AttachLinks
  <2> HIDE DEF c1
  <2>3. /\ c2.items = c1.items \cup {"vpp"}
        /\ c2.submit = [c1.submit EXCEPT !["vpp"] = "sink"]
        /\ c2.recycle = [c1.recycle EXCEPT !["sink"] = "vpp"]
    <3>1. c1 \in Chain(Frame) /\ "vpp" \in Task
      BY <1>1, <2>2
    <3>2. /\ c2.items = c1.items \cup {"vpp"}
          /\ c2.submit = [c1.submit EXCEPT !["vpp"] = c1.cur]
          /\ c2.recycle = [c1.recycle EXCEPT ![c1.cur] = "vpp"]
      BY <3>1, AttachLinks
    <3> QED BY <2>2, <3>2
  <2>30. \A u \in Task, i \in 1..3 :
           c2.vframe[u][i] = IF u = "vpp" THEN NoFrame ELSE c1.vframe[u][i]
    BY <1>1, <2>2, AttachFacts
  <2> HIDE DEF c2
  <2>4. c1.submit \in [Task -> Task] /\ c1.recycle \in [Task -> Task]
    BY <2>2 DEF Chain
  <2>5. /\ c2.submit["vpp"] = "sink" /\ c2.recycle["sink"] = "vpp"
        /\ {"vpp", "sink"} \subseteq c2.items
    BY <1>1, <2>2, <2>3, <2>4
  <2>6. Linked(c2, "vpp", "sink")
    BY <2>5 DEF Linked, Follows, Precedes
  <2>7. Held(c2, "vpp") = {}
    <3>1. \A i \in 1..3 : c2.vframe["vpp"][i] = NoFrame
      BY <1>1, <2>30
    <3> QED BY <3>1 DEF Held
  <2> QED BY <1>4, <2>1, <2>6, <2>7
<1> QED BY <1>2, <1>3, <1>4 DEF Mode

(* A stage that hands a picture on and gets it back: what it is left with. *)
LEMMA AllocStages ==
  ASSUME mode \in Mode, NEW c \in Chain(Frame), NEW who \in {"dec", "vpp"}
  PROVE  \A i \in 1..3 : Pipeline(c, who).vframe["dec"][i] \in {c.vframe["dec"][i], NoFrame}
<1>1. "dec" \in Task
  BY DEF Task
<1> QED BY <1>1, PipelineFacts

-----------------------------------------------------------------------------
(* The places of a buffer.                                                 *)

LEMMA Types ==
  ASSUME VppInv
  PROVE  /\ ready \in Seq(Buf) /\ output \in Seq(Buf \cup {NoBuf})
         /\ in_done_q \in Seq(Frame) /\ out_done_q \in Seq(Frame)
         /\ reading \in Seq(Frame) /\ filling \in Seq(Frame) /\ emptied \in Seq(Frame)
         /\ putting \in Seq(Frame) /\ capture \in Seq(Frame) /\ posting \in Seq(Frame)
         /\ user \in SUBSET Frame /\ input \in Nat /\ mode \in Mode
         /\ new \subseteq Buf /\ token_table \subseteq Buf
         /\ chain \in [Buf -> Chain(Frame)] /\ pool \in [Buf -> {"m2m", "dec", "vpp"}]
         /\ spec \in [Buf -> {"none", "free", "used", "out", "kept"}]
         /\ vf_ref \in [Buf -> 0..2] /\ more \in Buf \cup {NoBuf} /\ newframe \in Nat
         /\ out_buf \in Buf \cup {NoBuf} /\ done \in Buf \cup {NoBuf}
BY DEF VppInv, TypeOK

(* The places in groups.  Each has a number of the buffer, which is zero   *)
(* when the buffer is not there.                                           *)
DriverHas(b) == Here(b \in new) + Often(b, ready) + Here(b \in token_table)
DecoderHas(b) == Here(spec[b] \in {"used", "kept", "free"})
DiHas(b) == Pictures(b, filling) + Here(done = b)
CaptureHas(b) == Pictures(b, capture) + Pictures(b, posting) + Cardinality(PicturesOf(b, user))
InputHas(b) == IF mode.is_prog THEN Pictures(b, in_done_q) ELSE Here(vf_ref[b] > 0)
OutputHas(b) == IF mode.is_prog THEN 0 ELSE Often(b, output) + Here(out_buf = b)

LEMMA Counts ==
  ASSUME VppInv, NEW b \in Buf
  PROVE  /\ Often(b, ready) \in Nat /\ Often(b, output) \in Nat
         /\ \A q \in {in_done_q, reading, emptied, filling, capture, posting, putting, out_done_q} :
              /\ Pictures(b, q) \in Nat
              /\ Pictures(b, q) = 0 <=> \A f \in Elements(q) : f.fb # b
         /\ Cardinality(PicturesOf(b, user)) \in Nat
         /\ Cardinality(PicturesOf(b, user)) = 0 <=> \A f \in user : f.fb # b
         /\ Cardinality(PicturesOf(b, user)) <= 1 => \A f, g \in user : f.fb = b /\ g.fb = b => f = g
         /\ Here(b \in new) \in {0, 1} /\ Here(b \in token_table) \in {0, 1}
         /\ Here(done = b) \in {0, 1} /\ Here(out_buf = b) \in {0, 1} /\ Here(vf_ref[b] > 0) \in {0, 1}
<1>1. Often(b, ready) \in Nat /\ Often(b, output) \in Nat
  BY Types, OftenFacts
<1>2. \A q \in {in_done_q, reading, emptied, filling, capture, posting, putting, out_done_q} : q \in Seq(Frame)
  BY Types
<1>3. \A q \in Seq(Frame) : /\ Pictures(b, q) \in Nat
                            /\ Pictures(b, q) = 0 <=> \A f \in Elements(q) : f.fb # b
  BY PicturesFacts, PicturesNone
<1>4. /\ Cardinality(PicturesOf(b, user)) \in Nat
      /\ Cardinality(PicturesOf(b, user)) = 0 <=> \A f \in user : f.fb # b
      /\ Cardinality(PicturesOf(b, user)) <= 1 => \A f, g \in user : f.fb = b /\ g.fb = b => f = g
  BY Types, UserFacts
<1>5. /\ Here(b \in new) \in {0, 1} /\ Here(b \in token_table) \in {0, 1}
      /\ Here(done = b) \in {0, 1} /\ Here(out_buf = b) \in {0, 1} /\ Here(vf_ref[b] > 0) \in {0, 1}
  BY DEF Here
<1> QED BY <1>1, <1>2, <1>3, <1>4, <1>5

LEMMA OwnersGroups ==
  ASSUME VppInv, NEW b \in Buf
  PROVE  /\ DriverHas(b) \in Nat /\ DecoderHas(b) \in {0, 1} /\ InputHas(b) \in Nat
         /\ DiHas(b) \in Nat /\ CaptureHas(b) \in Nat /\ OutputHas(b) \in Nat
         /\ Owners(b) = DriverHas(b) + DecoderHas(b) + InputHas(b) + DiHas(b) + CaptureHas(b) + OutputHas(b)
<1> DEFINE n1 == Here(b \in new)
           n2 == Here(b \in token_table)
           n3 == DecoderHas(b)
           n4 == Here(done = b)
           n5 == Here(out_buf = b)
           n6 == Here(vf_ref[b] > 0)
           o1 == Often(b, ready)
           o2 == Often(b, output)
           p1 == Pictures(b, filling)
           p2 == Pictures(b, capture)
           p3 == Pictures(b, posting)
           p4 == Pictures(b, in_done_q)
           u == Cardinality(PicturesOf(b, user))
<1>1. /\ n1 \in {0, 1} /\ n2 \in {0, 1} /\ n4 \in {0, 1} /\ n5 \in {0, 1} /\ n6 \in {0, 1}
      /\ o1 \in Nat /\ o2 \in Nat /\ p1 \in Nat /\ p2 \in Nat /\ p3 \in Nat /\ p4 \in Nat /\ u \in Nat
  BY Counts
<1>2. n3 \in {0, 1}
  BY DEF DecoderHas, Here
<1>3. Owners(b) = n1 + o1 + n2 + n3 + p1 + n4 + p2 + p3 + u
                  + (IF mode.is_prog THEN p4 ELSE n6 + o2 + n5)
  BY DEF Owners, PicturesOf, DecoderHas
<1>4. /\ DriverHas(b) = n1 + o1 + n2 /\ DiHas(b) = p1 + n4 /\ CaptureHas(b) = p2 + p3 + u
      /\ InputHas(b) = IF mode.is_prog THEN p4 ELSE n6
      /\ OutputHas(b) = IF mode.is_prog THEN 0 ELSE o2 + n5
      /\ DecoderHas(b) = n3
  BY DEF DriverHas, DiHas, CaptureHas, InputHas, OutputHas
<1> HIDE DEF n1, n2, n3, n4, n5, n6, o1, o2, p1, p2, p3, p4, u
<1> QED BY <1>1, <1>2, <1>3, <1>4

Grouped ==
  \A b \in Buf :
    /\ DriverHas(b) \in Nat /\ DecoderHas(b) \in {0, 1} /\ InputHas(b) \in Nat
    /\ DiHas(b) \in Nat /\ CaptureHas(b) \in Nat /\ OutputHas(b) \in Nat
    /\ Owners(b) = DriverHas(b) + DecoderHas(b) + InputHas(b) + DiHas(b) + CaptureHas(b) + OutputHas(b)
LEMMA GroupsNow == VppInv => Grouped
BY OwnersGroups DEF Grouped
LEMMA GroupsNext == VppInv' => Grouped'
BY GroupsNow, PTL

(* A buffer that is as often in all places together as before is still in  *)
(* one place.                                                              *)
FieldsOwned == ~ mode.is_prog => \A b \in Buf : vf_ref[b] = Fields(b)
LEMMA StillOneOwner ==
  ASSUME VppInv, VppInv', OneOwner, phase = "on", FieldsOwned',
         \A b \in Buf :
           DriverHas(b)' + DecoderHas(b)' + InputHas(b)' + DiHas(b)' + CaptureHas(b)' + OutputHas(b)'
           = DriverHas(b) + DecoderHas(b) + InputHas(b) + DiHas(b) + CaptureHas(b) + OutputHas(b)
  PROVE  OneOwner'
<1>1. Grouped /\ Grouped'
  BY GroupsNow, GroupsNext
<1>2. \A b \in Buf : Owners(b)' = Owners(b)
  BY <1>1 DEF Grouped
<1>3. \A b \in Buf : Owners(b)' = 1
  BY <1>2 DEF OneOwner
<1> QED BY <1>3 DEF OneOwner, FieldsOwned

(* Where else a buffer is not.                                             *)
LEMMA Apart ==
  ASSUME VppInv, OneOwner, phase = "on", NEW b \in Buf
  PROVE  /\ \A f, g \in user : f.fb = b /\ g.fb = b => f = g
         /\ DecoderHas(b) + InputHas(b) + DiHas(b) + CaptureHas(b) + OutputHas(b) <= 1
         /\ DecoderHas(b) = 1 \/ InputHas(b) # 0 \/ done = b =>
              \A f \in Elements(capture) \cup Elements(posting) \cup user : f.fb # b
         /\ DecoderHas(b) = 1 \/ InputHas(b) # 0 \/ done = b => \A f \in Elements(filling) : f.fb # b
         /\ DecoderHas(b) = 1 \/ InputHas(b) # 0 => done # b
         /\ done = b => DecoderHas(b) = 0 /\ InputHas(b) = 0
         /\ (\E f \in Elements(filling) : f.fb = b) =>
              done # b /\ \A f \in Elements(capture) \cup Elements(posting) \cup user : f.fb # b
         /\ (\E f \in Elements(capture) \cup Elements(posting) : f.fb = b) => \A f \in user : f.fb # b
<1>1. Owners(b) = 1
  BY DEF OneOwner
<1> DEFINE H == DecoderHas(b)
           I == InputHas(b)
           O == OutputHas(b)
           D == Here(done = b)
           F == Pictures(b, filling)
           C == Pictures(b, capture)
           P == Pictures(b, posting)
           U == Cardinality(PicturesOf(b, user))
<1>2. /\ D \in {0, 1} /\ (D = 1 <=> done = b)
      /\ F \in Nat /\ (F = 0 <=> \A f \in Elements(filling) : f.fb # b)
      /\ C \in Nat /\ (C = 0 <=> \A f \in Elements(capture) : f.fb # b)
      /\ P \in Nat /\ (P = 0 <=> \A f \in Elements(posting) : f.fb # b)
      /\ U \in Nat /\ (U = 0 <=> \A f \in user : f.fb # b)
      /\ U <= 1 => \A f, g \in user : f.fb = b /\ g.fb = b => f = g
  BY Counts DEF Here
<1>3. /\ H \in {0, 1} /\ I \in Nat /\ O \in Nat
      /\ H + I + (F + D) + (C + P + U) + O <= 1
  <2> DEFINE N == DriverHas(b)
             X == DiHas(b)
             Y == CaptureHas(b)
  <2>1. N \in Nat /\ H \in {0, 1} /\ I \in Nat /\ O \in Nat /\ 1 = N + H + I + X + Y + O
    BY <1>1, OwnersGroups
  <2>2. X = F + D /\ Y = C + P + U
    BY DEF DiHas, CaptureHas
  <2> HIDE DEF N, X, Y, H, I, O, F, D, C, P, U
  <2> QED BY <1>2, <2>1, <2>2
<1>4. DiHas(b) = F + D /\ CaptureHas(b) = C + P + U
  BY DEF DiHas, CaptureHas
<1>5. H = DecoderHas(b) /\ I = InputHas(b) /\ O = OutputHas(b)
  OBVIOUS
<1> HIDE DEF H, I, O, D, F, C, P, U
<1>6. /\ H \in Nat /\ I \in Nat /\ O \in Nat /\ D \in Nat /\ F \in Nat /\ C \in Nat /\ P \in Nat /\ U \in Nat
      /\ H + I + (F + D) + (C + P + U) + O <= 1
  BY <1>2, <1>3
<1>7. U <= 1 /\ H + I + (F + D) + (C + P + U) + O <= 1
  BY <1>6
<1>8. /\ H = 1 \/ I # 0 \/ D = 1 => C = 0 /\ P = 0 /\ U = 0 /\ F = 0
      /\ H = 1 \/ I # 0 => D = 0
      /\ D = 1 => H = 0 /\ I = 0
      /\ F # 0 => D = 0 /\ C = 0 /\ P = 0 /\ U = 0
      /\ C # 0 \/ P # 0 => U = 0
  BY <1>6
<1>9. /\ \A f, g \in user : f.fb = b /\ g.fb = b => f = g
      /\ DecoderHas(b) + InputHas(b) + DiHas(b) + CaptureHas(b) + OutputHas(b) <= 1
  BY <1>2, <1>4, <1>5, <1>7
<1> QED BY <1>2, <1>5, <1>8, <1>9

(* There are vframes, and input buffers, for two fields of every capture   *)
(* buffer (V4L_CAP_BUFF_MAX is 32, VF_POOL_SIZE and VPP_FRAME_SIZE are     *)
(* 64), and no progressive mode uses the user's memory: in such a one      *)
(* input buffers are lost, which run vpp_reduced shows.                    *)
InputsForAll ==
  /\ InSize >= 2 * NumBuf /\ VfPool >= 2 * NumBuf
  /\ \A m \in Modes : m.is_prog => m.alloc

LEMMA NumBufs ==
  /\ NumBuf \in Nat \ {0} /\ InSize \in Nat /\ VfPool \in Nat
  /\ IsFiniteSet(Buf) /\ Cardinality(Buf) = NumBuf
<1>1. NumBuf \in Nat \ {0} /\ InSize \in Nat /\ VfPool \in Nat
  BY VppAssumption
<1>2. NumBuf \in Int /\ 1 \in Int /\ ~ (1 > NumBuf) /\ NumBuf - 1 + 1 = NumBuf
  BY <1>1
<1>3. IsFiniteSet(1..NumBuf) /\ Cardinality(1..NumBuf) = NumBuf
  BY <1>2, FS_Interval
<1> QED BY <1>1, <1>3 DEF Buf

(* Not all fields are out while one is to come ...                         *)
LEMMA RefsLeft ==
  ASSUME vf_ref \in [Buf -> 0..2], NEW b \in Buf, vf_ref[b] <= 1
  PROVE  Cardinality(Refs) \in Nat /\ Cardinality(Refs) < 2 * NumBuf
<1> DEFINE P == Buf \X (1..2)
           x == <<b, 2>>
<1>1. IsFiniteSet(1..2) /\ Cardinality(1..2) = 2
  <2>1. 1 \in Int /\ 2 \in Int /\ ~ (1 > 2) /\ 2 - 1 + 1 = 2
    OBVIOUS
  <2> QED BY <2>1, FS_Interval
<1>2. IsFiniteSet(P) /\ Cardinality(P) = NumBuf * 2
  BY <1>1, NumBufs, FS_Product
<1>3. x \in P /\ Refs \subseteq P \ {x}
  BY DEF Refs
<1> HIDE DEF P, x
<1>4. IsFiniteSet(P \ {x}) /\ Cardinality(P \ {x}) = Cardinality(P) - 1
  BY <1>2, <1>3, FS_RemoveElement
<1>5. Cardinality(Refs) <= Cardinality(P \ {x})
  BY <1>3, <1>4, FS_Subset
<1>6. Cardinality(Refs) \in Nat
  BY RefsFinite
<1> QED BY <1>2, <1>4, <1>5, <1>6, NumBufs

(* ... so there is a vframe for it, and in interlaced modes an input       *)
(* buffer.                                                                 *)
LEMMA FieldLeft ==
  ASSUME VppInv, InputsForAll, NEW b \in Buf, vf_ref[b] <= 1
  PROVE  /\ newframe > 0
         /\ InputsCount /\ ~ mode.is_prog => input > 0
<1>1. Cardinality(Refs) \in Nat /\ Cardinality(Refs) < 2 * NumBuf
  BY Types, RefsLeft
<1>2. newframe + Cardinality(Refs) = VfPool /\ newframe \in Nat
  BY Types DEF VppInv, FieldsCounted
<1>3. VfPool >= 2 * NumBuf /\ InSize >= 2 * NumBuf /\ NumBuf \in Nat /\ VfPool \in Nat /\ InSize \in Nat
  BY NumBufs DEF InputsForAll
<1>4. ASSUME InputsCount, ~ mode.is_prog PROVE input > 0
  <2> DEFINE i == Len(in_done_q)
             r == Len(reading)
             e == Len(emptied)
  <2>1. i \in Nat /\ r \in Nat /\ e \in Nat /\ input \in Nat
    BY Types
  <2>2. InSize = input + i + (r + e) /\ Cardinality(Refs) = i + r + e
    BY <1>4 DEF InputsCount
  <2> HIDE DEF i, r, e
  <2> QED BY <1>1, <1>3, <2>1, <2>2
<1> QED BY <1>1, <1>2, <1>3, <1>4

(* In progressive modes the pictures the post processor has are in buffers *)
(* of their own, so there is an input buffer for one more.                 *)
LEMMA InputLeft ==
  ASSUME VppInv, OnInv, phase = "on", mode.is_prog, InputsForAll, NEW b \in Buf, DecoderHas(b) = 1
  PROVE  input > 0
<1> DEFINE n == Len(in_done_q)
           m == Len(filling)
           at == [i \in 1..(n + m) |-> IF i <= n THEN in_done_q[i].fb ELSE filling[i - n].fb]
<1>1. /\ in_done_q \in Seq(Frame) /\ filling \in Seq(Frame)
      /\ input \in Nat /\ NumBuf \in Nat /\ InSize \in Nat /\ n \in Nat /\ m \in Nat
  BY Types, NumBufs
<1>2. InSize = input + n + m /\ InSize >= 2 * NumBuf /\ NumBuf > 0
  BY NumBufs DEF OnInv, InputsCount, InputsForAll
<1>5. ASSUME NEW c \in Buf
      PROVE  /\ Pictures(c, in_done_q) \in Nat /\ Pictures(c, filling) \in Nat
             /\ Pictures(c, in_done_q) + Pictures(c, filling) <= 1
             /\ c = b => Pictures(c, in_done_q) = 0 /\ Pictures(c, filling) = 0
  <2> DEFINE I == Pictures(c, in_done_q)
             F == Pictures(c, filling)
             H == DecoderHas(c)
             D == Here(done = c)
             C == CaptureHas(c)
             O == OutputHas(c)
  <2>1. I \in Nat /\ F \in Nat /\ D \in {0, 1}
    BY Counts
  <2>2. H \in {0, 1} /\ C \in Nat /\ O \in Nat /\ I = InputHas(c) /\ DiHas(c) = F + D
    BY OwnersGroups DEF InputHas, DiHas
  <2>3. H + InputHas(c) + DiHas(c) + C + O <= 1
    BY Apart DEF OnInv
  <2>4. c = b => H = 1
    OBVIOUS
  <2> HIDE DEF I, F, H, D, C, O
  <2>5. I + F <= 1 /\ (c = b => I = 0 /\ F = 0)
    BY <2>1, <2>2, <2>3, <2>4
  <2> QED BY <2>1, <2>5 DEF I, F
<1>3. \A i \in 1..n : in_done_q[i].fb \in Buf \ {b}
  <2>1. \A f \in Elements(in_done_q) : f.fb # b
    BY <1>1, <1>5, PicturesNone
  <2> QED BY <1>1, <2>1, FrameFacts DEF Elements
<1>4. \A i \in 1..m : filling[i].fb \in Buf \ {b}
  <2>1. \A f \in Elements(filling) : f.fb # b
    BY <1>1, <1>5, PicturesNone
  <2> QED BY <1>1, <2>1, FrameFacts DEF Elements
<1>6. at \in [1..(n + m) -> Buf \ {b}]
  BY <1>1, <1>3, <1>4
<1>7. \A i, j \in 1..(n + m) : i # j => at[i] # at[j]
  <2> SUFFICES ASSUME NEW i \in 1..(n + m), NEW j \in 1..(n + m), i < j, at[i] = at[j]
               PROVE  FALSE
    <3>1. \A i, j \in 1..(n + m) : i < j => at[i] # at[j]
      OBVIOUS
    <3> HIDE DEF at
    <3> QED BY <1>1, <3>1
  <2> DEFINE c == at[i]
  <2>1. c \in Buf
    BY <1>6
  <2>2. /\ Pictures(c, in_done_q) \in Nat /\ Pictures(c, filling) \in Nat
        /\ Pictures(c, in_done_q) + Pictures(c, filling) <= 1
    BY <1>5, <2>1
  <2>3. CASE j <= n
    <3>1. /\ i \in 1..n /\ j \in 1..n /\ in_done_q[i].fb = c /\ in_done_q[j].fb = c
      BY <1>1, <2>3
    <3> HIDE DEF c
    <3>2. Pictures(c, in_done_q) <= 1
      BY <2>2
    <3>3. i = j
      BY <1>1, <3>1, <3>2, PicturesFacts
    <3> QED BY <3>3
  <2>4. CASE i > n
    <3>1. /\ i - n \in 1..m /\ j - n \in 1..m /\ filling[i - n].fb = c /\ filling[j - n].fb = c
      BY <1>1, <2>4
    <3> HIDE DEF c
    <3>2. Pictures(c, filling) <= 1
      BY <2>2
    <3>3. PICK k \in 1..m : k = i - n
      BY <3>1
    <3>4. PICK l \in 1..m : l = j - n
      BY <3>1
    <3>5. filling[k].fb = c /\ filling[l].fb = c
      BY <3>1, <3>3, <3>4
    <3>6. k = l
      BY <1>1, <3>2, <3>5, PicturesFacts
    <3> QED BY <1>1, <3>3, <3>4, <3>6
  <2>5. CASE i <= n /\ j > n
    <3>1. i \in 1..n /\ in_done_q[i].fb = c /\ j - n \in 1..m /\ filling[j - n].fb = c
      BY <1>1, <2>5
    <3> HIDE DEF c
    <3>2. Pictures(c, in_done_q) # 0 /\ Pictures(c, filling) # 0
      BY <1>1, <3>1, PicturesFacts
    <3> QED BY <2>2, <3>2
  <2> QED BY <1>1, <2>3, <2>4, <2>5
<1> HIDE DEF at
<1>8. IsFiniteSet(Buf \ {b}) /\ Cardinality(Buf \ {b}) = NumBuf - 1
  BY NumBufs, FS_RemoveElement
<1>9. n + m <= NumBuf - 1
  <2> SUFFICES ASSUME n + m > NumBuf - 1 PROVE FALSE
    BY <1>1
  <2> DEFINE S == 1..(n + m)
  <2>1. IsFiniteSet(S) /\ Cardinality(S) = n + m
    BY <1>1, FS_Interval
  <2>2. Cardinality(Buf \ {b}) < Cardinality(S)
    BY <1>1, <1>8, <2>1
  <2>3. \E x, y \in S : x # y /\ at[x] = at[y]
    <3>1. at \in [S -> Buf \ {b}]
      BY <1>6
    <3> HIDE DEF S
    <3> QED BY <1>8, <2>1, <2>2, <3>1, FS_PigeonHole
  <2> QED BY <1>7, <2>3
<1> QED BY <1>1, <1>2, <1>9

-----------------------------------------------------------------------------
(* What the actions share: when each part of OnInv stays as it is.         *)

LEMMA LinksStay ==
  ASSUME VppInv, ChainsLinked, UNCHANGED <<mode, pool>>,
         \A b \in Buf : SameLinks(chain'[b], chain[b]),
         \A f \in Elements(filling)' \cup Shown' : f \in Elements(filling) \cup Shown \/ pool[f.fb] = LastStage,
         done' # NoBuf => done' = done \/ pool[done'] = LastStage,
         ~ mode.is_prog => \A b \in Elements(output)' \cup {out_buf'} :
           b # NoBuf => b \in Elements(output) \cup {out_buf} \/ pool[b] = "vpp"
  PROVE  ChainsLinked'
<1>1. LastStage' = LastStage /\ LastStage \in {"dec", "vpp"}
  BY DEF LastStage
<1>2. \A b \in Buf : \A t, u : Linked(chain'[b], t, u) <=> Linked(chain[b], t, u)
  BY LinksKept
<1>3. \A b \in Buf : /\ pool'[b] = "dec" => Linked(chain'[b], "dec", "vpp")
                     /\ pool'[b] = LastStage' => Linked(chain'[b], "vpp", "sink")
  BY <1>1, <1>2 DEF ChainsLinked
<1>4. \A f \in Elements(filling)' \cup Shown' : pool'[f.fb] = LastStage'
  BY <1>1 DEF ChainsLinked
<1>5. done' # NoBuf => pool'[done'] = LastStage'
  BY <1>1 DEF ChainsLinked
<1>6. ~ mode'.is_prog => \A b \in Elements(output)' \cup {out_buf'} : b # NoBuf => pool'[b] = "vpp"
  BY DEF ChainsLinked
<1> QED BY <1>3, <1>4, <1>5, <1>6 DEF ChainsLinked

(* The pictures whose buffers the decoder's stage remembers in progressive *)
(* modes.                                                                  *)
InHand == Elements(in_done_q) \cup Elements(filling) \cup Elements(out_done_q) \cup Shown
LEMMA StagesStay ==
  ASSUME VppInv, StagesRemember, UNCHANGED <<mode, pool>>,
         Shown' = Shown, mode.is_prog => InHand' \subseteq InHand,
         \A b \in Buf, i \in 1..3 : chain'[b].vframe["vpp"][i] = chain[b].vframe["vpp"][i],
         mode.is_prog =>
           \A b \in Buf, i \in 1..3 : chain'[b].vframe["dec"][i] = chain[b].vframe["dec"][i]
  PROVE  StagesRemember'
<1>1. \A b \in Buf : \A f : /\ Held(chain'[b], "vpp") = Held(chain[b], "vpp")
                            /\ OnlyHolds(chain'[b], "vpp", f) <=> OnlyHolds(chain[b], "vpp", f)
  BY SameStage
<1>2. mode.is_prog => \A b \in Buf : \A f : OnlyHolds(chain'[b], "dec", f) <=> OnlyHolds(chain[b], "dec", f)
  BY SameStage
<1>3. InHand \subseteq Frame /\ Shown \subseteq InHand
  BY Types, ElementsFacts DEF InHand, Shown, OnWayOut
<1>4. \A f \in InHand : f.fb \in Buf
  BY <1>3, FrameFacts
<1>5. ASSUME mode.is_prog PROVE \A f \in InHand' : Remembers("dec", f)'
  BY <1>2, <1>4, <1>5 DEF StagesRemember, Remembers, InHand
<1>6. \A f \in Shown' : Remembers("vpp", f)'
  BY <1>1, <1>3, <1>4 DEF StagesRemember, Remembers
<1>7. \A b \in Buf : pool'[b] # "m2m" /\ Held(chain'[b], "vpp") # {} => \E f \in Shown' : f.fb = b
  BY <1>1 DEF StagesRemember
<1> QED BY <1>5, <1>6, <1>7 DEF StagesRemember, InHand

LEMMA PipeFacts ==
  ASSUME VppInv
  PROVE  /\ Pipe \in Seq(Frame) /\ emptied \o reading \in Seq(Frame)
         /\ Elements(Pipe) = Elements(emptied) \cup Elements(reading) \cup Elements(in_done_q)
         /\ Elements(Pipe) \subseteq Frame
         /\ Live => \A f \in Elements(Pipe) : f.fb \in Buf /\ pool[f.fb] = "dec" /\ f.fb \notin new
<1>1. emptied \in Seq(Frame) /\ reading \in Seq(Frame) /\ in_done_q \in Seq(Frame)
  BY Types
<1>2. emptied \o reading \in Seq(Frame) /\ Elements(emptied \o reading) = Elements(emptied) \cup Elements(reading)
  BY <1>1, ConcatFacts, ElementsConcat
<1>3. Pipe \in Seq(Frame) /\ Elements(Pipe) = Elements(emptied \o reading) \cup Elements(in_done_q)
  <2> DEFINE p == emptied \o reading
  <2>1. p \in Seq(Frame) /\ Pipe = p \o in_done_q
    BY <1>2 DEF Pipe
  <2> HIDE DEF p
  <2>2. Pipe \in Seq(Frame) /\ Elements(Pipe) = Elements(p) \cup Elements(in_done_q)
    BY <1>1, <2>1, ConcatFacts, ElementsConcat
  <2> QED BY <2>2 DEF p
<1>4. Elements(Pipe) \subseteq Frame
  BY <1>3, ElementsFacts
<1>5. Live => \A f \in Elements(Pipe) : pool[f.fb] = "dec"
  <2>1. Live => \A f \in Elements(emptied) \cup Elements(reading) \cup Elements(in_done_q) : pool[f.fb] = "dec"
    BY DEF VppInv, InUse, Elements
  <2> QED BY <1>2, <1>3, <2>1
<1> QED BY <1>2, <1>3, <1>4, <1>5, FrameFacts DEF VppInv, TableApart

LEMMA FieldsStay ==
  ASSUME VppInv, FieldsRemembered, UNCHANGED mode, Pipe' = Pipe, more' \in {more, NoBuf},
         ~ mode.is_prog => \A b \in Buf :
           \/ (b \in new => b \in new') /\ \A k \in 1..3 : Slots(b)'[k] = Slots(b)[k]
           \/ (\A k \in 1..3 : Slots(b)'[k] = NoFrame) /\ \A f \in Elements(Pipe) : f.fb # b
  PROVE  FieldsRemembered'
<1> SUFFICES ASSUME ~ mode.is_prog PROVE FieldsRemembered'
  BY DEF FieldsRemembered
<1>1. Elements(Pipe)' = Elements(Pipe) /\ Elements(Pipe) \subseteq Frame /\ \A f \in Elements(Pipe) : f.fb \in Buf
  BY PipeFacts, FrameFacts DEF Elements
<1>2. \A b \in Buf, k \in 1..3 : /\ k \in Held(chain[b], "dec") <=> Slots(b)[k] # NoFrame
                                 /\ k \in Held(chain'[b], "dec") <=> Slots(b)'[k] # NoFrame
  BY DEF Held, Slots
<1>3. \A b \in Buf : Held(chain[b], "dec") \subseteq 1..3 /\ Held(chain'[b], "dec") \subseteq 1..3
  BY HeldFacts
<1>4. \A f \in Elements(Pipe)' : \E k \in 1..3 : Slots(f.fb)'[k] = f
  BY <1>1 DEF FieldsRemembered
<1>5. \A b \in Buf \ new', k \in 1..3 : Slots(b)'[k] # NoFrame => Slots(b)'[k] \in Elements(Pipe)'
  BY <1>1 DEF FieldsRemembered
<1>6. \A b \in Buf \ new' : \A i, k \in Held(chain'[b], "dec") : i < k => Slots(b)'[i].nth < Slots(b)'[k].nth
  BY SMTT(30), <1>2, <1>3 DEF FieldsRemembered
<1>7. more' # NoBuf => \A k \in Held(chain'[more'], "dec") : k = 1 /\ Slots(more)'[k].nth = 1
  <2> SUFFICES ASSUME more' # NoBuf PROVE \A k \in Held(chain'[more], "dec") : k = 1 /\ Slots(more)'[k].nth = 1
    BY DEF Slots
  <2>1. more' = more /\ more \in Buf
    BY Types
  <2> QED BY <1>2, <1>3, <2>1 DEF FieldsRemembered
<1>8. more' # NoBuf => more' = more
  OBVIOUS
<1>9. \A i, k \in 1..Len(Pipe)' : i < k /\ Pipe'[i].fb = Pipe'[k].fb => Pipe'[i].nth < Pipe'[k].nth
  BY DEF FieldsRemembered
<1> QED BY <1>4, <1>5, <1>6, <1>7, <1>8, <1>9 DEF FieldsRemembered

LEMMA InputsSame ==
  ASSUME InputsCount, UNCHANGED <<mode, input, in_done_q, filling, reading, emptied, vf_ref>>,
         mode.is_prog => pc' \notin {"bind", "alloc"},
         ~ mode.is_prog /\ pc' # "pair" => out_buf' = NoBuf
  PROVE  InputsCount'
BY DEF InputsCount, Refs

LEMMA OwnedSame ==
  ASSUME OneOwner, phase = "on", UNCHANGED <<mode, vf_ref, in_done_q, reading, emptied>>
  PROVE  FieldsOwned'
BY DEF OneOwner, FieldsOwned, Fields

(* A step that moves no picture and allocates no buffer.                   *)
LEMMA Quiet ==
  ASSUME VppInv, VppInv', OnInv, phase = "on",
         UNCHANGED <<mode, new, pool, chain, in_done_q, out_done_q, reading, emptied, filling, done, putting,
                     capture, posting, user, vf_ref, input>>,
         more' \in {more, NoBuf},
         mode.is_prog => pc' \notin {"bind", "alloc"},
         ~ mode.is_prog /\ pc' # "pair" => out_buf' = NoBuf,
         ~ mode.is_prog => \A b \in Elements(output)' \cup {out_buf'} :
           b # NoBuf => b \in Elements(output) \cup {out_buf},
         \A b \in Buf : DriverHas(b)' + DecoderHas(b)' + OutputHas(b)'
                        = DriverHas(b) + DecoderHas(b) + OutputHas(b)
  PROVE  OnInv'
<1>1. /\ OneOwner /\ InputsCount /\ ChainsLinked /\ StagesRemember /\ FieldsRemembered
  BY DEF OnInv
<1>2. OneOwner'
  <2>1. \A b \in Buf : InputHas(b)' = InputHas(b) /\ DiHas(b)' = DiHas(b) /\ CaptureHas(b)' = CaptureHas(b)
    BY DEF InputHas, DiHas, CaptureHas
  <2>2. Grouped /\ Grouped'
    BY GroupsNow, GroupsNext
  <2>3. \A b \in Buf :
          DriverHas(b)' + DecoderHas(b)' + InputHas(b)' + DiHas(b)' + CaptureHas(b)' + OutputHas(b)'
          = DriverHas(b) + DecoderHas(b) + InputHas(b) + DiHas(b) + CaptureHas(b) + OutputHas(b)
    BY <2>1, <2>2 DEF Grouped
  <2>4. FieldsOwned'
    BY <1>1, OwnedSame
  <2> QED BY <1>1, <2>3, <2>4, StillOneOwner
<1>3. InputsCount'
  BY <1>1, InputsSame
<1>4. Shown' = Shown /\ InHand' = InHand /\ Elements(filling)' = Elements(filling)
  BY DEF Shown, OnWayOut, InHand, Elements
<1>5. ChainsLinked'
  BY <1>1, <1>4, LinksStay DEF SameLinks
<1>6. StagesRemember'
  BY <1>1, <1>4, StagesStay
<1>7. FieldsRemembered'
  <2>1. Pipe' = Pipe /\ \A b \in Buf, k \in 1..3 : Slots(b)'[k] = Slots(b)[k]
    BY DEF Pipe, Slots
  <2> QED BY <1>1, <2>1, FieldsStay
<1> QED BY <1>2, <1>3, <1>5, <1>6, <1>7 DEF OnInv

(* A buffer that becomes a token is no longer ready.                       *)
LEMMA QueryMoves ==
  ASSUME VppInv, Running, NEW token \in Buf \cup {NoBuf}, NEW b \in Buf,
         token_table' = Query(token).table, ready' = Query(token).ready, UNCHANGED new
  PROVE  DriverHas(b)' = DriverHas(b)
<1> DEFINE q == Query(token)
<1>1. ready \in Seq(Buf)
  BY Types
<1>2. \/ q.table = token_table /\ q.ready = ready
      \/ /\ ready # <<>> /\ ready[1] \notin token_table
         /\ q.table = token_table \cup {ready[1]} /\ q.ready = Tail(ready)
  BY QueryFacts
<1> HIDE DEF q
<1>3. CASE q.table = token_table /\ q.ready = ready
  BY <1>3 DEF q, DriverHas
<1>4. CASE /\ ready # <<>> /\ ready[1] \notin token_table
           /\ q.table = token_table \cup {ready[1]} /\ q.ready = Tail(ready)
  <2>1. /\ Often(b, Tail(ready)) \in Nat
        /\ Often(b, ready) = Often(b, Tail(ready)) + Here(Head(ready) = b)
    BY <1>1, <1>4, OftenFacts
  <2>2. Head(ready) = ready[1]
    BY <1>1, <1>4, TailFacts
  <2>3. Here(b \in token_table') = Here(b \in token_table) + Here(Head(ready) = b)
    BY <1>4, <2>2 DEF Here, q
  <2> DEFINE h == Here(Head(ready) = b)
             t == Here(b \in token_table)
             n == Here(b \in new)
  <2>4. t \in Nat /\ h \in Nat /\ n \in Nat
    BY DEF Here
  <2>5. DriverHas(b) = n + Often(b, ready) + t /\ DriverHas(b)' = n + Often(b, Tail(ready)) + (t + h)
    BY <1>4, <2>3 DEF q, DriverHas
  <2>6. Often(b, ready) = Often(b, Tail(ready)) + h
    BY <2>1
  <2> HIDE DEF h, t, n
  <2> QED BY <2>1, <2>4, <2>5, <2>6
<1> QED BY <1>2, <1>3, <1>4

(* A buffer that is allocated gets a chain with empty stages.              *)
LEMMA AllocKeeps ==
  ASSUME VppInv, OnInv, phase = "on", NEW token \in token_table, NEW who \in {"dec", "vpp"},
         who = "vpp" => ~ mode.is_prog,
         Alloc(token, who),
         UNCHANGED <<mode, new, more, in_done_q, out_done_q, reading, emptied, filling, done, putting, capture,
                     posting, user, output>>,
         out_buf' = out_buf \/ (out_buf' = token /\ who = "vpp")
  PROVE  ChainsLinked' /\ StagesRemember' /\ FieldsRemembered'
<1>0. Running
  BY DEF Running
<1>1. /\ token \in Buf /\ token # NoBuf /\ pool[token] = "m2m"
  BY <1>0, TokenFacts
<1>2. chain \in [Buf -> Chain(Frame)] /\ pool \in [Buf -> {"m2m", "dec", "vpp"}] /\ mode \in Mode
  BY Types
<1>3. /\ \A b \in Buf : pool'[b] = IF b = token THEN who ELSE pool[b]
      /\ \A b \in Buf : chain'[b] = IF b = token THEN Pipeline(chain[token], who) ELSE chain[b]
  BY <1>1, <1>2 DEF Alloc
<1>4. /\ who = "dec" => Linked(Pipeline(chain[token], who), "dec", "vpp")
      /\ who = LastStage => Linked(Pipeline(chain[token], who), "vpp", "sink")
      /\ Held(Pipeline(chain[token], who), "vpp") = {}
  BY <1>1, <1>2, PipelineLinks
<1>5. /\ LastStage' = LastStage /\ LastStage \in {"dec", "vpp"} /\ Shown' = Shown /\ InHand' = InHand
      /\ Elements(filling)' = Elements(filling) /\ Elements(output)' = Elements(output)
  BY DEF LastStage, Shown, OnWayOut, InHand, Elements
<1>6. ChainsLinked /\ StagesRemember /\ FieldsRemembered
  BY DEF OnInv
<1>7. \A f \in Elements(filling) \cup Shown : f \in Frame /\ f.fb \in Buf /\ f.fb # token
  <2>1. \A f \in Elements(filling) \cup Shown : f \in Frame
    BY Types, ElementsFacts DEF Shown, OnWayOut
  <2>2. \A f \in Elements(filling) \cup Shown : pool[f.fb] # "m2m"
    BY <1>5, <1>6 DEF ChainsLinked
  <2> QED BY <1>1, <2>1, <2>2, FrameFacts
<1>8. \A f \in Elements(Pipe) : f.fb \in Buf /\ f.fb # token
  BY <1>1, PipeFacts
<1>9. \A f \in Elements(out_done_q) : f.fb \in Buf /\ f.fb # token
  <2>1. done # NoBuf => done \in Buf /\ pool[done] # "m2m"
    BY <1>5, <1>6, Types DEF ChainsLinked
  <2>2. \A f \in Elements(out_done_q) : f.fb = done /\ done # NoBuf
    <3>1. CASE done = NoBuf
      BY <3>1, DoneFacts DEF Elements
    <3>2. CASE done # NoBuf
      BY <3>2, DoneFacts DEF Elements
    <3> QED BY <3>1, <3>2
  <2> QED BY <1>1, <2>1, <2>2
<1>10. ChainsLinked'
  <2>1. \A f \in Elements(filling)' \cup Shown' : pool'[f.fb] = LastStage'
    BY <1>3, <1>5, <1>6, <1>7 DEF ChainsLinked
  <2>2. done' # NoBuf => pool'[done'] = LastStage'
    <3>1. done # NoBuf => done \in Buf /\ pool[done] # "m2m"
      BY <1>5, <1>6, Types DEF ChainsLinked
    <3> QED BY <1>1, <1>3, <1>5, <1>6, <3>1 DEF ChainsLinked
  <2>3. ~ mode'.is_prog => \A b \in Elements(output)' \cup {out_buf'} : b # NoBuf => pool'[b] = "vpp"
    <3>1. \A b \in Elements(output) \cup {out_buf} : b \in Buf \cup {NoBuf}
      BY Types, ElementsFacts
    <3>2. ~ mode.is_prog => \A b \in Elements(output) \cup {out_buf} : b # NoBuf => pool[b] = "vpp"
      BY <1>6 DEF ChainsLinked
    <3> QED BY <1>1, <1>3, <1>5, <3>1, <3>2
  <2>4. ASSUME NEW b \in Buf
        PROVE  /\ pool'[b] = "dec" => Linked(chain'[b], "dec", "vpp")
               /\ pool'[b] = LastStage' => Linked(chain'[b], "vpp", "sink")
    BY <1>3, <1>4, <1>5, <1>6 DEF ChainsLinked
  <2> QED BY <2>1, <2>2, <2>3, <2>4 DEF ChainsLinked
<1>11. StagesRemember'
  <2>1. \A t, f : f.fb \in Buf /\ f.fb # token => (Remembers(t, f)' <=> Remembers(t, f))
    BY <1>3 DEF Remembers
  <2>2. mode.is_prog => \A f \in InHand : f.fb \in Buf /\ f.fb # token
    BY <1>7, <1>8, <1>9, PipeFacts DEF InHand
  <2>3. mode'.is_prog => \A f \in InHand' : Remembers("dec", f)'
    BY <1>5, <1>6, <2>1, <2>2 DEF StagesRemember, InHand
  <2>4. \A f \in Shown' : Remembers("vpp", f)'
    BY <1>5, <1>6, <1>7, <2>1 DEF StagesRemember
  <2>5. \A b \in Buf : pool'[b] # "m2m" /\ Held(chain'[b], "vpp") # {} => \E f \in Shown' : f.fb = b
    BY <1>3, <1>4, <1>5, <1>6 DEF StagesRemember
  <2> QED BY <2>3, <2>4, <2>5 DEF StagesRemember, InHand
<1>12. FieldsRemembered'
  <2>1. Pipe' = Pipe
    BY DEF Pipe
  <2>2. ASSUME NEW b \in Buf, b # token, NEW k \in 1..3 PROVE Slots(b)'[k] = Slots(b)[k]
    BY <1>3, <2>2 DEF Slots
  <2>3. ~ mode.is_prog => \A k \in 1..3 : Slots(token)'[k] = NoFrame
    <3> SUFFICES ASSUME ~ mode.is_prog, NEW k \in 1..3 PROVE Slots(token)'[k] = NoFrame
      OBVIOUS
    <3>1. Slots(token)'[k] \in {Slots(token)[k], NoFrame}
      BY <1>1, <1>2, <1>3, AllocStages DEF Slots
    <3>2. token \notin new
      BY <1>0, TokenFacts
    <3>3. Slots(token)[k] # NoFrame => Slots(token)[k] \in Elements(Pipe)
      BY <1>1, <1>6, <3>2 DEF FieldsRemembered
    <3>4. Slots(token)[k] # NoFrame => Slots(token)[k].fb = token
      BY <1>1 DEF VppInv, ChainsFit, Slots, Task
    <3> QED BY <1>8, <3>1, <3>3, <3>4
  <2>4. \A b \in Buf : b \in new => b \in new'
    OBVIOUS
  <2> QED BY <1>1, <1>6, <1>8, <2>1, <2>2, <2>3, <2>4, FieldsStay
<1> QED BY <1>10, <1>11, <1>12

-----------------------------------------------------------------------------
(* The actions, while the stream is on.                                    *)

LEMMA WaitKeeps ==
  ASSUME VppInv, VppInv', OnInv, phase = "on", WaitIn \/ WaitOut
  PROVE  OnInv'
<1>1. /\ UNCHANGED <<mode, new, ready, token_table, spec, output, out_buf, pool, chain, in_done_q, out_done_q,
                     reading, emptied, filling, done, putting, capture, posting, user, vf_ref, input, more>>
      /\ pc \in {"wait_in", "wait_out"} /\ pc' = "retry"
  BY DEF WaitIn, WaitOut, queueVars, decVars, diVars, outVars
<1>2. \A b \in Buf : /\ DriverHas(b)' = DriverHas(b) /\ DecoderHas(b)' = DecoderHas(b)
                     /\ OutputHas(b)' = OutputHas(b)
  BY <1>1 DEF DriverHas, DecoderHas, OutputHas
<1>3. ~ mode.is_prog => out_buf = NoBuf
  BY <1>1 DEF OnInv, InputsCount
<1>4. Elements(output)' = Elements(output)
  BY <1>1 DEF Elements
<1> QED BY <1>1, <1>2, <1>3, <1>4, Quiet

(* The decoder puts a picture back at once, or lets go of one: the buffer  *)
(* stays its own, as there is a vframe for the picture.                    *)
LEMMA UseKeeps ==
  ASSUME VppInv, VppInv', OnInv, phase = "on", InputsForAll, NEW c \in Buf, Hide(c) \/ Unref(c)
  PROVE  OnInv'
<1>1. /\ UNCHANGED <<mode, new, ready, token_table, output, out_buf, pool, chain, in_done_q, out_done_q,
                     reading, emptied, filling, done, putting, capture, posting, user, vf_ref, input, more, pc>>
      /\ spec[c] \in {"used", "kept"}
      /\ \/ Unref(c) /\ spec' = [spec EXCEPT ![c] = "free"]
         \/ Hide(c) /\ spec[c] = "used" /\ spec' = [spec EXCEPT ![c] = IF newframe = 0 THEN "out" ELSE "kept"]
  BY DEF Hide, Unref, queueVars, fifoVars, threadVars, diVars, outVars
<1>2. newframe > 0
  <2>1. vf_ref[c] \in 0..2 /\ spec[c] # "out"
    BY <1>1, Types
  <2>2. vf_ref[c] > 0 => spec[c] = "out"
    BY DEF VppInv, FieldsCounted
  <2>3. vf_ref[c] <= 1
    BY <2>1, <2>2
  <2> QED BY <2>3, FieldLeft
<1>3. \A b \in Buf : spec'[b] \in {"used", "kept", "free"} <=> spec[b] \in {"used", "kept", "free"}
  BY <1>1, <1>2, Types
<1>4. \A b \in Buf : /\ DriverHas(b)' = DriverHas(b) /\ DecoderHas(b)' = DecoderHas(b)
                     /\ OutputHas(b)' = OutputHas(b)
  BY <1>1, <1>3 DEF DriverHas, DecoderHas, OutputHas, Here
<1>5. /\ mode.is_prog => pc \notin {"bind", "alloc"}
      /\ ~ mode.is_prog /\ pc # "pair" => out_buf = NoBuf
  BY <1>1 DEF OnInv, InputsCount
<1>6. Elements(output)' = Elements(output)
  BY <1>1 DEF Elements
<1> QED BY <1>1, <1>4, <1>5, <1>6, Quiet

LEMMA HaveFreeKeeps ==
  ASSUME VppInv, VppInv', OnInv, phase = "on", HaveFree
  PROVE  OnInv'
<1>1. /\ UNCHANGED <<mode, new, output, out_buf, pool, chain, in_done_q, out_done_q, spec, reading, emptied,
                     filling, done, putting, capture, posting, user, vf_ref, input, more, pc>>
      /\ \/ UNCHANGED <<token_table, ready>>
         \/ token_table' = Query(dec_token).table /\ ready' = Query(dec_token).ready
  BY DEF HaveFree, fifoVars, threadVars, diVars, outVars
<1>2. ASSUME NEW b \in Buf PROVE DriverHas(b)' = DriverHas(b)
  <2>1. dec_token \in Buf \cup {NoBuf} /\ Running
    BY DEF VppInv, TypeOK, Running
  <2>2. CASE UNCHANGED <<token_table, ready>>
    BY <1>1, <2>2 DEF DriverHas
  <2>3. CASE token_table' = Query(dec_token).table /\ ready' = Query(dec_token).ready
    <3>1. UNCHANGED new
      BY <1>1
    <3> QED BY <2>1, <2>3, <3>1, QueryMoves
  <2> QED BY <1>1, <2>2, <2>3
<1>3. \A b \in Buf : DecoderHas(b)' = DecoderHas(b) /\ OutputHas(b)' = OutputHas(b)
  BY <1>1 DEF DecoderHas, OutputHas
<1>4. /\ mode.is_prog => pc \notin {"bind", "alloc"}
      /\ ~ mode.is_prog /\ pc # "pair" => out_buf = NoBuf
  BY <1>1 DEF OnInv, InputsCount
<1>5. Elements(output)' = Elements(output)
  BY <1>1 DEF Elements
<1> QED BY <1>1, <1>2, <1>3, <1>4, <1>5, Quiet

(* A token that is allocated: the buffer is with whom it is allocated for. *)
LEMMA TokenMoves ==
  ASSUME VppInv, Running, NEW token \in token_table, NEW who, Alloc(token, who), UNCHANGED <<new, ready>>,
         NEW b \in Buf
  PROVE  DriverHas(b)' = DriverHas(b) - (IF b = token THEN 1 ELSE 0)
<1> DEFINE n == Here(b \in new)
           o == Often(b, ready)
<1>1. n \in Nat /\ o \in Nat
  BY Counts DEF Here
<1>2. token_table' = token_table \ {token}
  BY DEF Alloc
<1>3. DriverHas(b) = n + o + (IF b \in token_table THEN 1 ELSE 0)
  BY DEF DriverHas, Here
<1>4. DriverHas(b)' = n + o + (IF b \in token_table \ {token} THEN 1 ELSE 0)
  BY <1>2 DEF DriverHas, Here
<1> HIDE DEF n, o
<1> QED BY <1>1, <1>3, <1>4

LEMMA GetFreeKeeps ==
  ASSUME VppInv, VppInv', OnInv, phase = "on", GetFree
  PROVE  OnInv'
<1>1. UNCHANGED <<mode, in_done_q, out_done_q, reading, emptied, filling, done, putting, capture, posting, user,
                  new, ready, output, out_buf, input, pc, vf_ref, more>>
  BY DEF GetFree, fifoVars, threadVars, diVars, outVars
<1>2. /\ mode.is_prog => pc \notin {"bind", "alloc"}
      /\ ~ mode.is_prog /\ pc # "pair" => out_buf = NoBuf
  BY DEF OnInv, InputsCount
<1>3. /\ \A b \in Buf : OutputHas(b)' = OutputHas(b)
      /\ Elements(output)' = Elements(output)
  BY <1>1 DEF OutputHas, Elements
<1>4. spec \in [Buf -> {"none", "free", "used", "out", "kept"}]
  BY Types
<1>5. ASSUME UNCHANGED <<token_table, pool, chain>>, \A b \in Buf : DecoderHas(b)' = DecoderHas(b)
      PROVE  OnInv'
  <2>1. \A b \in Buf : DriverHas(b)' = DriverHas(b)
    BY <1>1, <1>5 DEF DriverHas
  <2> QED BY <1>1, <1>2, <1>3, <1>5, <2>1, Quiet
<1>6. ASSUME NEW c \in Buf, IsFree(c), spec' = [spec EXCEPT ![c] = "used"],
             UNCHANGED <<token_table, pool, chain>>
      PROVE  OnInv'
  <2>1. \A b \in Buf : spec'[b] \in {"used", "kept", "free"} <=> spec[b] \in {"used", "kept", "free"}
    BY <1>4, <1>6 DEF IsFree
  <2>2. \A b \in Buf : DecoderHas(b)' = DecoderHas(b)
    BY <2>1 DEF DecoderHas, Here
  <2> QED BY <1>5, <1>6, <2>2
<1>7. ASSUME UNCHANGED <<spec, token_table, pool, chain>> PROVE OnInv'
  <2>1. \A b \in Buf : DecoderHas(b)' = DecoderHas(b)
    BY <1>7 DEF DecoderHas
  <2> QED BY <1>5, <1>7, <2>1
<1>8. ASSUME ~ \E b \in Buf : IsFree(b), Alloc(dec_token, "dec"),
             spec' = [spec EXCEPT ![dec_token] = "used"], dec = "run"
      PROVE  OnInv'
  <2>0. Running
    BY DEF Running
  <2>1. dec_token \in token_table
    BY <1>8 DEF VppInv, Promise
  <2>2. dec_token \in Buf /\ spec[dec_token] = "none"
    BY <2>0, <2>1, TokenFacts
  <2>3. ChainsLinked' /\ StagesRemember' /\ FieldsRemembered'
    <3>1. UNCHANGED <<mode, new, more, in_done_q, out_done_q, reading, emptied, filling, done, putting, capture,
                      posting, user, output, out_buf>>
      BY <1>1
    <3>2. "dec" \in {"dec", "vpp"} /\ "dec" # "vpp"
      OBVIOUS
    <3> QED BY <1>8, <2>1, <3>1, <3>2, AllocKeeps
  <2>4. InputsCount'
    BY <1>1, <1>2, InputsSame DEF OnInv
  <2>5. ASSUME NEW b \in Buf
        PROVE  DriverHas(b)' + DecoderHas(b)' = DriverHas(b) + DecoderHas(b)
    <3>1. DriverHas(b)' = DriverHas(b) - (IF b = dec_token THEN 1 ELSE 0) /\ DriverHas(b) \in Nat
      BY <1>1, <1>8, <2>0, <2>1, TokenMoves, OwnersGroups
    <3>2. DecoderHas(b)' = DecoderHas(b) + (IF b = dec_token THEN 1 ELSE 0) /\ DecoderHas(b) \in Nat
      BY <1>4, <1>8, <2>2 DEF DecoderHas, Here
    <3> QED BY <3>1, <3>2
  <2>6. OneOwner'
    <3>1. \A b \in Buf : InputHas(b)' = InputHas(b) /\ DiHas(b)' = DiHas(b) /\ CaptureHas(b)' = CaptureHas(b)
      BY <1>1 DEF InputHas, DiHas, CaptureHas
    <3>2. FieldsOwned'
      BY <1>1, OwnedSame DEF OnInv
    <3> QED BY <1>3, <2>5, <3>1, <3>2, StillOneOwner DEF OnInv
  <2> QED BY <2>3, <2>4, <2>6 DEF OnInv
<1> QED BY <1>6, <1>7, <1>8 DEF GetFree

LEMMA AskBufferKeeps ==
  ASSUME VppInv, VppInv', OnInv, phase = "on", AskBuffer
  PROVE  OnInv'
<1>1. /\ UNCHANGED <<mode, pool, chain, in_done_q, out_done_q, reading, emptied, filling, done, putting, capture,
                     posting, user, new, spec, input, vf_ref, more>>
      /\ \/ UNCHANGED <<token_table, ready>>
         \/ token_table' = Query(fb_token).table /\ ready' = Query(fb_token).ready
      /\ pc = "bind"
      /\ \/ pc' = "alloc" /\ UNCHANGED <<output, out_buf>>
         \/ pc' = "retry" /\ output' = Append(output, out_buf) /\ out_buf' = NoBuf
  BY DEF AskBuffer, decVars, diVars, outVars
<1>2. ~ mode.is_prog /\ out_buf = NoBuf
  BY <1>1, Types DEF OnInv, InputsCount, Mode
<1>3. output' = output \/ output' = Append(output, NoBuf)
  BY <1>1, <1>2
<1>4. output \in Seq(Buf \cup {NoBuf}) /\ NoBuf \in Buf \cup {NoBuf}
  BY Types
<1>5. Elements(output)' \subseteq Elements(output) \cup {NoBuf}
  <2>1. Elements(Append(output, NoBuf)) = Elements(output) \cup {NoBuf}
    BY <1>4, ElementsFacts
  <2>2. Elements(output)' = Elements(output')
    BY DEF Elements
  <2> QED BY <1>3, <2>1, <2>2
<1>6. ASSUME NEW b \in Buf PROVE DriverHas(b)' = DriverHas(b)
  <2>1. fb_token \in Buf \cup {NoBuf} /\ Running
    BY DEF VppInv, TypeOK, Running
  <2>2. CASE UNCHANGED <<token_table, ready>>
    BY <1>1, <2>2 DEF DriverHas
  <2>3. CASE token_table' = Query(fb_token).table /\ ready' = Query(fb_token).ready
    <3>1. UNCHANGED new
      BY <1>1
    <3> QED BY <2>1, <2>3, <3>1, QueryMoves
  <2> QED BY <1>1, <2>2, <2>3
<1>7. ASSUME NEW b \in Buf PROVE OutputHas(b)' = OutputHas(b)
  <2>1. b # NoBuf
    BY FrameFacts
  <2>2. Often(b, Append(output, NoBuf)) = Often(b, output)
    BY <1>4, <2>1, AfterPut
  <2>3. Often(b, output') = Often(b, output)
    BY <1>3, <2>2
  <2>4. out_buf' = out_buf
    BY <1>1, <1>2
  <2> QED BY <1>1, <2>3, <2>4 DEF OutputHas
<1>8. \A b \in Buf : DecoderHas(b)' = DecoderHas(b)
  BY <1>1 DEF DecoderHas
<1>9. out_buf' = NoBuf
  BY <1>1, <1>2
<1>10. \A b \in Elements(output)' \cup {out_buf'} : b # NoBuf => b \in Elements(output) \cup {out_buf}
  BY <1>5, <1>9
<1>11. \A b \in Buf : DriverHas(b)' + DecoderHas(b)' + OutputHas(b)' = DriverHas(b) + DecoderHas(b) + OutputHas(b)
  BY <1>6, <1>7, <1>8
<1> QED BY <1>1, <1>2, <1>9, <1>10, <1>11, Quiet

LEMMA TakeOutKeeps ==
  ASSUME VppInv, VppInv', OnInv, phase = "on", TakeOut
  PROVE  OnInv'
<1>1. /\ UNCHANGED <<mode, pool, chain, in_done_q, out_done_q, reading, emptied, filling, done, putting, capture,
                     posting, user, new, ready, token_table, spec, input, vf_ref, more>>
      /\ pc = "retry"
      /\ \/ pc' = "wait_out" /\ UNCHANGED <<output, out_buf>>
         \/ /\ output # <<>> /\ output' = Tail(output) /\ out_buf' = Head(output)
            /\ pc' = IF ~ mode.is_prog /\ Head(output) = NoBuf THEN "bind" ELSE "pair"
  BY DEF TakeOut, queueVars, decVars, diVars, outVars
<1>2. output \in Seq(Buf \cup {NoBuf}) /\ NoBuf \in Buf \cup {NoBuf}
  BY Types
<1>3. ~ mode.is_prog => out_buf = NoBuf
  BY <1>1 DEF OnInv, InputsCount
<1>4. Elements(output)' \cup {out_buf'} \subseteq Elements(output) \cup {out_buf}
  <2>1. output # <<>> => Elements(output) = Elements(Tail(output)) \cup {Head(output)}
    BY <1>2, AfterPut
  <2>2. Elements(output)' = Elements(output')
    BY DEF Elements
  <2> QED BY <1>1, <2>1, <2>2
<1>5. ASSUME NEW b \in Buf PROVE OutputHas(b)' = OutputHas(b)
  <2>1. b # NoBuf
    BY FrameFacts
  <2>2. CASE UNCHANGED <<output, out_buf>>
    BY <1>1, <2>2 DEF OutputHas
  <2>3. CASE mode.is_prog
    BY <1>1, <2>3 DEF OutputHas
  <2>4. CASE ~ mode.is_prog /\ output # <<>> /\ output' = Tail(output) /\ out_buf' = Head(output)
    <3>1. /\ Often(b, Tail(output)) \in Nat
          /\ Often(b, output) = Often(b, Tail(output)) + (IF Head(output) = b THEN 1 ELSE 0)
      BY <1>2, <2>4, AfterPut
    <3>2. OutputHas(b) = Often(b, output) + 0
      BY <1>3, <2>1, <2>4 DEF OutputHas, Here
    <3>3. OutputHas(b)' = Often(b, Tail(output)) + (IF Head(output) = b THEN 1 ELSE 0)
      BY <1>1, <2>4 DEF OutputHas, Here
    <3> QED BY <3>1, <3>2, <3>3
  <2> QED BY <1>1, <2>2, <2>3, <2>4
<1>6. \A b \in Buf : DriverHas(b)' = DriverHas(b) /\ DecoderHas(b)' = DecoderHas(b)
  BY <1>1 DEF DriverHas, DecoderHas
<1>7. /\ mode.is_prog => pc' \notin {"bind", "alloc"}
      /\ ~ mode.is_prog /\ pc' # "pair" => out_buf' = NoBuf
  BY <1>1, <1>3
<1>8. /\ \A b \in Elements(output)' \cup {out_buf'} : b # NoBuf => b \in Elements(output) \cup {out_buf}
      /\ \A b \in Buf : DriverHas(b)' + DecoderHas(b)' + OutputHas(b)' = DriverHas(b) + DecoderHas(b) + OutputHas(b)
  BY <1>4, <1>5, <1>6
<1> QED BY <1>1, <1>7, <1>8, Quiet

LEMMA BindKeeps ==
  ASSUME VppInv, VppInv', OnInv, phase = "on", Bind
  PROVE  OnInv'
<1>0. Running
  BY DEF Running
<1>1. pc = "alloc" /\ fb_token \in token_table
  BY DEF Bind, VppInv, TokensApart
<1>2. fb_token \in Buf /\ fb_token # NoBuf
  BY <1>0, <1>1, TokenFacts
<1>3. /\ Alloc(fb_token, "vpp") /\ out_buf' = fb_token /\ pc' = "pair"
      /\ UNCHANGED <<mode, in_done_q, out_done_q, reading, emptied, filling, done, putting, capture, posting,
                     user, new, ready, spec, input, output, vf_ref, more>>
  BY <1>2 DEF Bind, MayAlloc, decVars, diVars, outVars
<1>4. ~ mode.is_prog /\ out_buf = NoBuf
  BY <1>1, Types DEF OnInv, InputsCount, Mode
<1>5. InputsCount'
  BY <1>3, <1>4, InputsSame DEF OnInv
<1>6. ChainsLinked' /\ StagesRemember' /\ FieldsRemembered'
  <2>1. "vpp" \in {"dec", "vpp"}
    OBVIOUS
  <2> QED BY <1>1, <1>3, <1>4, <2>1, AllocKeeps
<1>7. ASSUME NEW b \in Buf
      PROVE  DriverHas(b)' + OutputHas(b)' = DriverHas(b) + OutputHas(b)
  <2>1. DriverHas(b)' = DriverHas(b) - (IF b = fb_token THEN 1 ELSE 0) /\ DriverHas(b) \in Nat
    BY <1>0, <1>1, <1>3, TokenMoves, OwnersGroups
  <2>2. OutputHas(b)' = OutputHas(b) + (IF b = fb_token THEN 1 ELSE 0) /\ OutputHas(b) \in Nat
    <3>1. b # NoBuf /\ Often(b, output) \in Nat
      BY FrameFacts, Counts
    <3> QED BY <1>3, <1>4, <3>1 DEF OutputHas, Here
  <2> QED BY <2>1, <2>2
<1>8. \A b \in Buf : /\ DecoderHas(b)' = DecoderHas(b) /\ DiHas(b)' = DiHas(b)
                     /\ InputHas(b)' = InputHas(b) /\ CaptureHas(b)' = CaptureHas(b)
  BY <1>3 DEF DecoderHas, DiHas, InputHas, CaptureHas
<1>9. OneOwner'
  <2>1. FieldsOwned'
    BY <1>3, OwnedSame DEF OnInv
  <2>2. Grouped /\ Grouped'
    BY GroupsNow, GroupsNext
  <2>3. \A b \in Buf :
          DriverHas(b)' + DecoderHas(b)' + InputHas(b)' + DiHas(b)' + CaptureHas(b)' + OutputHas(b)'
          = DriverHas(b) + DecoderHas(b) + InputHas(b) + DiHas(b) + CaptureHas(b) + OutputHas(b)
    BY <1>7, <1>8, <2>2 DEF Grouped
  <2> QED BY <2>1, <2>3, StillOneOwner DEF OnInv
<1> QED BY <1>5, <1>6, <1>9 DEF OnInv

(* A field, or a progressive picture, is handed over: the first one of a   *)
(* buffer that the decoder has used, or the second one.                    *)
FieldOut(f) ==
  /\ HandOver(f) /\ f.nth = vf_ref[f.fb] + 1
  /\ \/ vf_ref[f.fb] = 0 /\ spec[f.fb] = "used"
     \/ vf_ref[f.fb] = 1 /\ spec[f.fb] = "out" /\ ~ mode.is_prog /\ more = f.fb
  /\ spec' = [spec EXCEPT ![f.fb] = "out"]
  /\ vf_ref' = [vf_ref EXCEPT ![f.fb] = vf_ref[f.fb] + 1]
  /\ more' = NoBuf \/ (more' = f.fb /\ vf_ref[f.fb] = 0)
  /\ UNCHANGED <<phase, mode, new, ready, token_table, pool, pc, output, out_buf, out_done_q, reading, emptied,
                 filling, done, putting, capture, posting, user>>

(* It finds an input buffer, and a free slot of its stage: the first one   *)
(* for the first field.                                                    *)
LEMMA FieldOutFacts ==
  ASSUME VppInv, OnInv, phase = "on", InputsForAll, NEW f \in Frame, FieldOut(f)
  PROVE  /\ f.fb \in Buf /\ f.fb # NoBuf /\ f.fb \notin new /\ pool[f.fb] = "dec"
         /\ input > 0 /\ input' = input - 1 /\ in_done_q' = Append(in_done_q, f)
         /\ \A b \in Buf : b # f.fb => chain'[b] = chain[b]
         /\ SameLinks(chain'[f.fb], chain[f.fb])
         /\ \A i \in 1..3 : chain'[f.fb].vframe["vpp"][i] = chain[f.fb].vframe["vpp"][i]
         /\ \E k \in 1..3 \ Held(chain[f.fb], "dec") :
              /\ \A j \in 1..3 \ Held(chain[f.fb], "dec") : k <= j
              /\ Held(chain'[f.fb], "dec") = Held(chain[f.fb], "dec") \cup {k}
              /\ \A i \in 1..3 : chain'[f.fb].vframe["dec"][i]
                                 = IF i = k THEN f ELSE chain[f.fb].vframe["dec"][i]
         /\ vf_ref[f.fb] = 0 => Held(chain[f.fb], "dec") = {} /\ DecoderHas(f.fb) = 1
         /\ vf_ref[f.fb] = 1 => /\ Held(chain[f.fb], "dec") = {1} /\ Slots(f.fb)[1].nth = 1 /\ f.nth = 2
                                /\ DecoderHas(f.fb) = 0
<1> DEFINE b == f.fb
           c == Push(chain[b], "dec", f)
<1>1. b \in Buf /\ b # NoBuf
  BY FrameFacts
<1>2. pool[b] = "dec" /\ b \notin new
  BY <1>1 DEF FieldOut, VppInv, InUse, TableApart
<1>3. /\ ChainsLinked /\ InputsCount /\ OneOwner /\ FieldsRemembered
      /\ chain \in [Buf -> Chain(Frame)] /\ vf_ref \in [Buf -> 0..2] /\ "dec" \in Task /\ "vpp" \in Task \ {"dec"}
  BY Types DEF OnInv, Task
<1>4. "vpp" \in Follows(chain[b], "dec")
  BY <1>1, <1>2, <1>3 DEF ChainsLinked, Linked
<1>5. /\ vf_ref[b] = 0 => DecoderHas(b) = 1
      /\ vf_ref[b] = 1 => DecoderHas(b) = 0
  BY DEF FieldOut, DecoderHas, Here
<1>6. input > 0
  <2>1. vf_ref[b] <= 1
    BY DEF FieldOut
  <2>2. CASE mode.is_prog
    <3>1. DecoderHas(b) = 1
      BY <1>5, <2>2 DEF FieldOut
    <3> QED BY <1>1, <2>2, <3>1, InputLeft
  <2>3. CASE ~ mode.is_prog
    BY <1>1, <1>3, <2>1, <2>3, FieldLeft
  <2> QED BY <2>2, <2>3
<1>7. /\ input' = input - 1 /\ in_done_q' = Append(in_done_q, f)
      /\ chain' = [chain EXCEPT ![b] = c]
  BY <1>4, <1>6 DEF FieldOut, HandOver, PushVframe
<1>8. \A x \in Buf : chain'[x] = IF x = b THEN c ELSE chain[x]
  BY <1>3, <1>7
<1>9. Cardinality(Held(chain[b], "dec")) = vf_ref[b]
  BY <1>1, <1>2 DEF VppInv, FieldsCounted
<1>10. vf_ref[b] \in 0..1
  BY DEF FieldOut
<1>11. /\ SameLinks(c, chain[b])
       /\ \A i \in 1..3 : c.vframe["vpp"][i] = chain[b].vframe["vpp"][i]
       /\ \E k \in 1..3 \ Held(chain[b], "dec") :
            /\ \A j \in 1..3 \ Held(chain[b], "dec") : k <= j
            /\ Held(c, "dec") = Held(chain[b], "dec") \cup {k}
            /\ \A i \in 1..3 : c.vframe["dec"][i] = IF i = k THEN f ELSE chain[b].vframe["dec"][i]
  <2>1. chain[b] \in Chain(Frame) /\ Cardinality(Held(chain[b], "dec")) < 3
    BY <1>1, <1>3, <1>9, <1>10
  <2>2. SameLinks(c, chain[b])
    BY <1>3, <2>1, PushLinks
  <2>3. \A i \in 1..3 : c.vframe["vpp"][i] = chain[b].vframe["vpp"][i]
    BY <1>3, <2>1, PushFacts
  <2>4. \E k \in 1..3 \ Held(chain[b], "dec") :
          /\ \A j \in 1..3 \ Held(chain[b], "dec") : k <= j
          /\ \A i \in 1..3 : c.vframe["dec"][i] = IF i = k THEN f ELSE chain[b].vframe["dec"][i]
          /\ Held(c, "dec") = Held(chain[b], "dec") \cup {k}
          /\ Cardinality(Held(c, "dec")) = Cardinality(Held(chain[b], "dec")) + 1
    BY <1>3, <2>1, PushFacts
  <2> HIDE DEF b, c
  <2> QED BY <2>2, <2>3, <2>4
<1>12. vf_ref[b] = 0 => Held(chain[b], "dec") = {}
  BY <1>9, HeldFacts
<1>13. vf_ref[b] = 1 => Held(chain[b], "dec") = {1} /\ Slots(b)[1].nth = 1 /\ f.nth = 2
  <2> SUFFICES ASSUME vf_ref[b] = 1 PROVE Held(chain[b], "dec") = {1} /\ Slots(b)[1].nth = 1 /\ f.nth = 2
    OBVIOUS
  <2>1. ~ mode.is_prog /\ more = b /\ f.nth = 2
    BY DEF FieldOut
  <2>2. \A k \in Held(chain[b], "dec") : k = 1 /\ Slots(b)[k].nth = 1
    BY <1>1, <1>3, <2>1 DEF FieldsRemembered
  <2>3. Held(chain[b], "dec") # {}
    BY <1>9, HeldFacts
  <2> QED BY <2>1, <2>2, <2>3
<1> HIDE DEF b, c
<1> QED BY <1>1, <1>2, <1>5, <1>6, <1>7, <1>8, <1>11, <1>12, <1>13 DEF b

LEMMA FieldOutCounts ==
  ASSUME VppInv, VppInv', OnInv, phase = "on", InputsForAll, NEW f \in Frame, FieldOut(f)
  PROVE  OneOwner' /\ InputsCount'
<1>1. /\ f.fb \in Buf /\ input > 0 /\ input' = input - 1 /\ in_done_q' = Append(in_done_q, f)
      /\ vf_ref[f.fb] = 0 => DecoderHas(f.fb) = 1
      /\ vf_ref[f.fb] = 1 => DecoderHas(f.fb) = 0
  BY FieldOutFacts
<1>2. /\ spec' = [spec EXCEPT ![f.fb] = "out"] /\ vf_ref' = [vf_ref EXCEPT ![f.fb] = vf_ref[f.fb] + 1]
      /\ vf_ref[f.fb] \in 0..1 /\ (vf_ref[f.fb] = 1 => ~ mode.is_prog)
      /\ UNCHANGED <<mode, new, ready, token_table, pc, output, out_buf, reading, emptied, filling, done, capture,
                     posting, user>>
  BY DEF FieldOut
<1>3. /\ Len(in_done_q') = Len(in_done_q) + 1 /\ Len(in_done_q) \in Nat /\ input \in Nat
      /\ spec \in [Buf -> {"none", "free", "used", "out", "kept"}] /\ vf_ref \in [Buf -> 0..2]
      /\ \A b : /\ Pictures(b, in_done_q) \in Nat
                /\ Pictures(b, in_done_q') = Pictures(b, in_done_q) + (IF f.fb = b THEN 1 ELSE 0)
  BY <1>1, Types, AfterAppend
<1>4. InputsCount'
  <2> DEFINE i == Len(in_done_q)
             l == Len(filling)
             r == Len(reading)
             e == Len(emptied)
             n == Cardinality(Refs)
  <2>1. i \in Nat /\ l \in Nat /\ r \in Nat /\ e \in Nat /\ n \in Nat
    BY Types, RefsFinite
  <2>2. /\ InSize = input + i + (IF mode.is_prog THEN l ELSE r + e)
        /\ ~ mode.is_prog => n = i + r + e
        /\ mode.is_prog => mode.alloc /\ pc \notin {"bind", "alloc"}
        /\ ~ mode.is_prog /\ pc # "pair" => out_buf = NoBuf
    BY DEF OnInv, InputsCount
  <2>3. Cardinality(Refs') = n + 1
    <3>1. vf_ref[f.fb] <= 1
      BY <1>2
    <3> QED BY <1>1, <1>2, <1>3, <3>1, RefUp
  <2>4. Len(in_done_q') = i + 1 /\ Len(filling') = l /\ Len(reading') = r /\ Len(emptied') = e
    BY <1>2, <1>3
  <2> HIDE DEF i, l, r, e, n
  <2>5. /\ InSize = input' + (i + 1) + (IF mode.is_prog THEN l ELSE r + e)
        /\ ~ mode.is_prog => Cardinality(Refs') = (i + 1) + r + e
    BY <1>1, <1>3, <2>1, <2>2, <2>3
  <2> QED BY <1>2, <2>2, <2>4, <2>5 DEF InputsCount
<1>5. OneOwner'
  <2>1. ASSUME NEW b \in Buf
        PROVE  DecoderHas(b)' + InputHas(b)' = DecoderHas(b) + InputHas(b)
    <3>1. InputHas(b) = IF mode.is_prog THEN Pictures(b, in_done_q) ELSE IF vf_ref[b] > 0 THEN 1 ELSE 0
      BY DEF InputHas, Here
    <3>2. InputHas(b)' = IF mode.is_prog THEN Pictures(b, in_done_q') ELSE IF vf_ref'[b] > 0 THEN 1 ELSE 0
      BY <1>2 DEF InputHas, Here
    <3>3. CASE b # f.fb
      <4>1. spec'[b] = spec[b] /\ vf_ref'[b] = vf_ref[b]
        BY <1>2, <1>3, <3>3
      <4>2. DecoderHas(b)' = DecoderHas(b)
        BY <4>1 DEF DecoderHas
      <4>3. InputHas(b)' = InputHas(b)
        BY <1>3, <3>1, <3>2, <3>3, <4>1
      <4> QED BY <4>2, <4>3
    <3>4. CASE b = f.fb
      <4>1. DecoderHas(b)' = 0
        BY <1>2, <1>3, <3>4 DEF DecoderHas, Here
      <4>2. vf_ref'[b] = vf_ref[b] + 1 /\ Pictures(b, in_done_q') = Pictures(b, in_done_q) + 1
        BY <1>2, <1>3, <3>4
      <4>3. CASE vf_ref[b] = 0
        <5>1. InputHas(b)' = InputHas(b) + 1 /\ InputHas(b) \in Nat
          BY <1>3, <3>1, <3>2, <4>2, <4>3
        <5> QED BY <1>1, <3>4, <4>1, <4>3, <5>1
      <4>4. CASE vf_ref[b] = 1
        <5>1. InputHas(b)' = InputHas(b)
          BY <1>2, <3>1, <3>2, <3>4, <4>2, <4>4
        <5> QED BY <1>1, <3>4, <4>1, <4>4, <5>1
      <4> QED BY <1>2, <3>4, <4>3, <4>4
    <3> QED BY <3>3, <3>4
  <2>2. \A b \in Buf : /\ DriverHas(b)' = DriverHas(b) /\ DiHas(b)' = DiHas(b)
                       /\ CaptureHas(b)' = CaptureHas(b) /\ OutputHas(b)' = OutputHas(b)
    BY <1>2 DEF DriverHas, DiHas, CaptureHas, OutputHas
  <2>3. FieldsOwned'
    <3>1. ASSUME ~ mode.is_prog, NEW b \in Buf PROVE vf_ref'[b] = Fields(b)'
      <4>1. vf_ref[b] = Pictures(b, in_done_q) + Pictures(b, reading) + Pictures(b, emptied)
        BY <3>1 DEF OnInv, OneOwner, Fields
      <4>2. Fields(b)' = Pictures(b, in_done_q') + Pictures(b, reading) + Pictures(b, emptied)
        BY <1>2 DEF Fields
      <4>3. Pictures(b, reading) \in Nat /\ Pictures(b, emptied) \in Nat
        BY Counts
      <4>4. vf_ref'[b] = vf_ref[b] + (IF f.fb = b THEN 1 ELSE 0)
        BY <1>1, <1>2, <1>3
      <4> QED BY <1>3, <4>1, <4>2, <4>3, <4>4
    <3> QED BY <1>2, <3>1 DEF FieldsOwned
  <2>4. Grouped /\ Grouped'
    BY GroupsNow, GroupsNext
  <2>5. \A b \in Buf :
          DriverHas(b)' + DecoderHas(b)' + InputHas(b)' + DiHas(b)' + CaptureHas(b)' + OutputHas(b)'
          = DriverHas(b) + DecoderHas(b) + InputHas(b) + DiHas(b) + CaptureHas(b) + OutputHas(b)
    BY <2>1, <2>2, <2>4 DEF Grouped
  <2> QED BY <2>3, <2>5, StillOneOwner DEF OnInv
<1> QED BY <1>4, <1>5

LEMMA FieldOutStages ==
  ASSUME VppInv, OnInv, phase = "on", InputsForAll, NEW f \in Frame, FieldOut(f)
  PROVE  ChainsLinked' /\ StagesRemember'
<1>1. /\ f.fb \in Buf /\ in_done_q' = Append(in_done_q, f)
      /\ \A b \in Buf : b # f.fb => chain'[b] = chain[b]
      /\ SameLinks(chain'[f.fb], chain[f.fb])
      /\ \A i \in 1..3 : chain'[f.fb].vframe["vpp"][i] = chain[f.fb].vframe["vpp"][i]
  BY FieldOutFacts
<1>2. UNCHANGED <<mode, pool, output, out_buf, out_done_q, filling, done, putting, capture, posting, user>>
  BY DEF FieldOut
<1>3. /\ Elements(filling)' = Elements(filling) /\ Elements(output)' = Elements(output) /\ Shown' = Shown
      /\ Elements(out_done_q)' = Elements(out_done_q) /\ LastStage' = LastStage
  BY <1>2 DEF Elements, Shown, OnWayOut, LastStage
<1>4. \A b \in Buf : SameLinks(chain'[b], chain[b])
  BY <1>1 DEF SameLinks
<1>5. ChainsLinked /\ StagesRemember /\ OneOwner
  BY DEF OnInv
<1>6. ChainsLinked'
  BY <1>2, <1>3, <1>4, <1>5, LinksStay
<1>7. \A b \in Buf, i \in 1..3 : chain'[b].vframe["vpp"][i] = chain[b].vframe["vpp"][i]
  BY <1>1
<1>8. StagesRemember'
  <2>1. CASE ~ mode.is_prog
    BY <1>2, <1>3, <1>5, <1>7, <2>1, StagesStay
  <2>2. CASE mode.is_prog
    <3>1. vf_ref[f.fb] = 0
      BY <2>2 DEF FieldOut
    <3>2. /\ Held(chain[f.fb], "dec") = {} /\ DecoderHas(f.fb) = 1
      BY <3>1, FieldOutFacts
    <3>3. OnlyHolds(chain'[f.fb], "dec", f)
      <4>1. PICK k \in 1..3 : /\ Held(chain'[f.fb], "dec") = Held(chain[f.fb], "dec") \cup {k}
                              /\ \A i \in 1..3 : chain'[f.fb].vframe["dec"][i]
                                                 = IF i = k THEN f ELSE chain[f.fb].vframe["dec"][i]
        BY FieldOutFacts
      <4> QED BY <3>2, <4>1 DEF OnlyHolds
    <3>4. \A g \in InHand : g.fb \in Buf /\ g.fb # f.fb
      <4>1. /\ \A g \in Elements(capture) \cup Elements(posting) \cup user \cup Elements(filling) : g.fb # f.fb
            /\ done # f.fb
        BY <1>1, <1>5, <3>2, Apart
      <4>2. \A g \in Elements(in_done_q) : g.fb # f.fb
        <5> DEFINE b == f.fb
        <5>1. DecoderHas(b) + InputHas(b) + DiHas(b) + CaptureHas(b) + OutputHas(b) <= 1
          BY <1>1, <1>5, Apart
        <5>2. /\ DecoderHas(b) = 1 /\ InputHas(b) \in Nat /\ DiHas(b) \in Nat /\ CaptureHas(b) \in Nat
              /\ OutputHas(b) \in Nat
          BY <1>1, <3>2, OwnersGroups
        <5>3. InputHas(b) = Pictures(b, in_done_q)
          BY <2>2 DEF InputHas
        <5> HIDE DEF b
        <5>4. Pictures(b, in_done_q) = 0
          BY <5>1, <5>2, <5>3
        <5> QED BY <1>1, <5>4, Counts DEF b
      <4>3. \A g \in Elements(out_done_q) \cup Elements(putting) : g.fb = done
        BY DoneFacts DEF Elements
      <4>4. InHand \subseteq Frame
        BY Types, ElementsFacts DEF InHand, Shown, OnWayOut
      <4> QED BY <4>1, <4>2, <4>3, <4>4, FrameFacts DEF InHand, Shown, OnWayOut
    <3>5. \A g \in InHand : Remembers("dec", g)'
      BY <1>1, <1>5, <2>2, <3>4 DEF StagesRemember, InHand, Remembers
    <3>6. InHand' \subseteq InHand \cup {f}
      <4>1. Elements(in_done_q)' = Elements(in_done_q')
        BY DEF Elements
      <4>2. Elements(Append(in_done_q, f)) = Elements(in_done_q) \cup {f}
        BY Types, AfterAppend
      <4> QED BY <1>1, <1>3, <4>1, <4>2 DEF InHand
    <3>7. mode'.is_prog => \A g \in InHand' : Remembers("dec", g)'
      BY <3>3, <3>5, <3>6 DEF Remembers
    <3>8. \A b \in Buf : \A g : /\ Held(chain'[b], "vpp") = Held(chain[b], "vpp")
                                /\ OnlyHolds(chain'[b], "vpp", g) <=> OnlyHolds(chain[b], "vpp", g)
      BY <1>7, SameStage
    <3>9. \A g \in Shown' : Remembers("vpp", g)'
      <4>1. \A g \in Shown : g.fb \in Buf
        BY <3>4 DEF InHand
      <4> QED BY <1>3, <1>5, <3>8, <4>1 DEF StagesRemember, Remembers
    <3>10. \A b \in Buf : pool'[b] # "m2m" /\ Held(chain'[b], "vpp") # {} => \E g \in Shown' : g.fb = b
      BY <1>2, <1>3, <1>5, <3>8 DEF StagesRemember
    <3> QED BY <3>7, <3>9, <3>10 DEF StagesRemember, InHand
  <2> QED BY <2>1, <2>2
<1> QED BY <1>6, <1>8

(* In interlaced modes the new field is the last of those that are out.    *)
LEMMA FieldOutFields ==
  ASSUME VppInv, OnInv, phase = "on", InputsForAll, NEW f \in Frame, FieldOut(f)
  PROVE  FieldsRemembered'
<1> SUFFICES ASSUME ~ mode.is_prog PROVE FieldsRemembered'
  BY DEF FieldsRemembered, FieldOut
<1> DEFINE b == f.fb
<1>1. /\ b \in Buf /\ b # NoBuf /\ b \notin new /\ in_done_q' = Append(in_done_q, f)
      /\ \A c \in Buf : c # b => chain'[c] = chain[c]
      /\ vf_ref[b] = 0 => Held(chain[b], "dec") = {}
      /\ vf_ref[b] = 1 => Held(chain[b], "dec") = {1} /\ Slots(b)[1].nth = 1 /\ f.nth = 2
  BY FieldOutFacts
<1>2. PICK k \in 1..3 \ Held(chain[b], "dec") :
              /\ \A j \in 1..3 \ Held(chain[b], "dec") : k <= j
              /\ Held(chain'[b], "dec") = Held(chain[b], "dec") \cup {k}
              /\ \A i \in 1..3 : chain'[b].vframe["dec"][i]
                                 = IF i = k THEN f ELSE chain[b].vframe["dec"][i]
  BY FieldOutFacts
<1>3. /\ vf_ref[b] \in {0, 1} /\ f.nth = vf_ref[b] + 1
      /\ more' = NoBuf \/ (more' = b /\ vf_ref[b] = 0)
      /\ new' = new /\ emptied' = emptied /\ reading' = reading
  BY DEF FieldOut
<1>4. /\ \A g \in Elements(Pipe) : \E i \in 1..3 : Slots(g.fb)[i] = g
      /\ \A c \in Buf \ new, i \in 1..3 : Slots(c)[i] # NoFrame => Slots(c)[i] \in Elements(Pipe)
      /\ \A c \in Buf \ new : \A i, j \in Held(chain[c], "dec") : i < j => Slots(c)[i].nth < Slots(c)[j].nth
      /\ \A i, j \in 1..Len(Pipe) : i < j /\ Pipe[i].fb = Pipe[j].fb => Pipe[i].nth < Pipe[j].nth
  BY DEF OnInv, FieldsRemembered
<1>5. /\ Pipe \in Seq(Frame) /\ Elements(Pipe) \subseteq Frame
      /\ \A g \in Elements(Pipe) : g.fb \in Buf /\ g # NoFrame
  BY PipeFacts, FrameFacts
<1>6. Pipe' = Append(Pipe, f)
  <2>1. Pipe' = (emptied \o reading) \o Append(in_done_q, f)
    BY <1>1, <1>3 DEF Pipe
  <2>2. emptied \o reading \in Seq(Frame) /\ in_done_q \in Seq(Frame)
    BY PipeFacts, Types
  <2>3. (emptied \o reading) \o Append(in_done_q, f) = Append((emptied \o reading) \o in_done_q, f)
    BY <2>2, AppendConcat
  <2> QED BY <2>1, <2>3 DEF Pipe
<1>7. /\ Len(Pipe) \in Nat /\ Len(Pipe') = Len(Pipe) + 1
      /\ \A i \in 1..Len(Pipe) : Pipe'[i] = Pipe[i]
      /\ Pipe'[Len(Pipe) + 1] = f
      /\ Elements(Pipe') = Elements(Pipe) \cup {f}
  BY <1>5, <1>6, AfterAppend
<1>8. /\ \A c \in Buf, i \in 1..3 : c # b => Slots(c)'[i] = Slots(c)[i]
      /\ \A i \in 1..3 : Slots(b)'[i] = IF i = k THEN f ELSE Slots(b)[i]
      /\ \A c \in Buf, i \in 1..3 : i \in Held(chain[c], "dec") <=> Slots(c)[i] # NoFrame
      /\ \A c \in Buf : Held(chain[c], "dec") \subseteq 1..3
      /\ \A c \in Buf : c # b => Held(chain'[c], "dec") = Held(chain[c], "dec")
  BY <1>1, <1>2 DEF Slots, Held
<1> HIDE DEF b
<1>9. ASSUME NEW g \in Elements(Pipe') PROVE \E i \in 1..3 : Slots(g.fb)'[i] = g
  <2>1. CASE g = f
    BY <1>2, <1>8, <2>1 DEF b
  <2>2. CASE g \in Elements(Pipe)
    <3>1. PICK i \in 1..3 : Slots(g.fb)[i] = g
      BY <1>4, <2>2
    <3>2. g.fb \in Buf /\ i \in Held(chain[g.fb], "dec")
      BY <1>5, <1>8, <2>2, <3>1
    <3> QED BY <1>2, <1>8, <3>1, <3>2
  <2> QED BY <1>7, <2>1, <2>2
<1>10. ASSUME NEW c \in Buf \ new', NEW i \in 1..3, Slots(c)'[i] # NoFrame
       PROVE  Slots(c)'[i] \in Elements(Pipe')
  BY <1>3, <1>4, <1>7, <1>8, <1>10
<1>11. ASSUME NEW c \in Buf \ new', NEW i \in Held(chain'[c], "dec"), NEW j \in Held(chain'[c], "dec"), i < j
       PROVE  Slots(c)'[i].nth < Slots(c)'[j].nth
  <2>1. CASE c # b
    <3>1. i \in 1..3 /\ j \in 1..3 /\ i \in Held(chain[c], "dec") /\ j \in Held(chain[c], "dec")
      BY <1>8, <2>1
    <3> QED BY <1>3, <1>4, <1>8, <1>11, <2>1, <3>1
  <2>2. CASE c = b
    <3>1. i \in Held(chain[b], "dec") \cup {k} /\ j \in Held(chain[b], "dec") \cup {k}
      BY <1>2, <2>2 DEF b
    <3>2. vf_ref[b] = 1 /\ i = 1 /\ j = k
      BY <1>1, <1>2, <1>3, <1>11, <3>1 DEF b
    <3>3. Slots(c)'[i] = Slots(b)[1] /\ Slots(c)'[j] = f
      BY <1>2, <1>8, <1>11, <2>2, <3>2
    <3> QED BY <1>1, <3>2, <3>3
  <2> QED BY <2>1, <2>2
<1>12. ASSUME NEW i \in 1..Len(Pipe'), NEW j \in 1..Len(Pipe'), i < j, Pipe'[i].fb = Pipe'[j].fb
       PROVE  Pipe'[i].nth < Pipe'[j].nth
  <2>1. CASE j \in 1..Len(Pipe)
    <3>1. i \in 1..Len(Pipe)
      BY <1>7, <1>12, <2>1
    <3> QED BY <1>4, <1>7, <1>12, <2>1, <3>1
  <2>2. CASE j = Len(Pipe) + 1
    <3>1. i \in 1..Len(Pipe) /\ Pipe'[i] = Pipe[i] /\ Pipe'[j] = f
      BY <1>7, <1>12, <2>2
    <3>2. Pipe[i] \in Elements(Pipe) /\ Pipe[i].fb = b
      BY <1>12, <3>1 DEF Elements, b
    <3>3. PICK m \in 1..3 : Slots(b)[m] = Pipe[i]
      BY <1>4, <3>2
    <3>4. m \in Held(chain[b], "dec")
      BY <1>1, <1>5, <1>8, <3>2, <3>3
    <3>5. vf_ref[b] = 1 /\ m = 1
      BY <1>1, <1>3, <3>4
    <3> QED BY <1>1, <3>1, <3>3, <3>5
  <2> QED BY <1>7, <2>1, <2>2
<1>13. more' # NoBuf => \A i \in Held(chain'[more'], "dec") : i = 1 /\ Slots(more)'[i].nth = 1
  <2> SUFFICES ASSUME more' # NoBuf PROVE \A i \in Held(chain'[b], "dec") : i = 1 /\ Slots(b)'[i].nth = 1
    BY <1>3 DEF Slots
  <2>1. vf_ref[b] = 0 /\ Held(chain[b], "dec") = {}
    BY <1>1, <1>3
  <2>2. Held(chain'[b], "dec") = {k} /\ k = 1 /\ f.nth = 1
    BY <1>2, <1>3, <2>1 DEF b
  <2> QED BY <1>8, <2>2
<1>14. Elements(Pipe)' = Elements(Pipe')
  BY DEF Elements
<1> QED BY <1>9, <1>10, <1>11, <1>12, <1>13, <1>14 DEF FieldsRemembered

LEMMA FieldOutKeeps ==
  ASSUME VppInv, VppInv', OnInv, phase = "on", InputsForAll, NEW f \in Frame, FieldOut(f)
  PROVE  OnInv'
BY FieldOutCounts, FieldOutStages, FieldOutFields DEF OnInv

LEMMA FirstGoesOut ==
  ASSUME VppInv, NEW b \in Buf, Output(b)
  PROVE  \E f \in Frame : FieldOut(f) /\ f.ts = clock
<1> DEFINE f == [fb |-> b, ts |-> clock, nth |-> 1]
<1>1. f \in Frame /\ f.fb = b /\ f.nth = 1 /\ f.ts = clock
  BY DEF VppInv, TypeOK, Frame
<1>2. /\ spec[b] = "used" /\ HandOver(f) /\ spec' = [spec EXCEPT ![b] = "out"]
      /\ vf_ref' = [vf_ref EXCEPT ![b] = 1] /\ more' \in {NoBuf, b}
      /\ UNCHANGED <<phase, mode, new, ready, token_table, pool, pc, output, out_buf, out_done_q, reading, emptied,
                     filling, done, putting, capture, posting, user>>
  BY DEF Output, queueVars, threadVars, diVars, outVars
<1>3. vf_ref[b] = 0
  <2>1. vf_ref[b] \in 0..2
    BY Types
  <2>2. vf_ref[b] > 0 => spec[b] = "out"
    BY DEF VppInv, FieldsCounted
  <2> QED BY <1>2, <2>1, <2>2
<1> HIDE DEF f
<1>4. FieldOut(f)
  BY <1>1, <1>2, <1>3 DEF FieldOut
<1> QED BY <1>1, <1>4

LEMMA OutputKeeps ==
  ASSUME VppInv, VppInv', OnInv, phase = "on", InputsForAll, NEW b \in Buf, Output(b)
  PROVE  OnInv'
BY FirstGoesOut, FieldOutKeeps

(* A buffer whose second field is still to come is with the decoder, or    *)
(* its first field is out.                                                 *)
LEMMA FirstIsOut ==
  ASSUME VppInv, OnInv, phase = "on", more # NoBuf, spec[more] = "out"
  PROVE  vf_ref[more] = 1 /\ ~ mode.is_prog
<1> DEFINE b == more
<1>1. b \in Buf /\ b # NoBuf /\ ~ mode.is_prog /\ vf_ref[b] \in 0..1
  BY Types DEF VppInv, FieldsCounted
<1>2. OneOwner /\ ChainsLinked
  BY DEF OnInv
<1>3. pool[b] = "dec"
  BY <1>1 DEF VppInv, InUse
<1>4. SUFFICES ASSUME vf_ref[b] = 0 PROVE FALSE
  BY <1>1
<1>5. DriverHas(b) = 0
  <2>1. b \notin new /\ b \notin token_table
    BY <1>3 DEF VppInv, TableApart
  <2>2. Often(b, ready) = 0
    <3>1. \A i \in 1..Len(ready) : ready[i] # b
      BY <1>3 DEF VppInv, ReadyApart
    <3>2. ready \in Seq(Buf)
      BY Types
    <3> QED BY <3>1, <3>2, OftenFacts
  <2> QED BY <2>1, <2>2 DEF DriverHas, Here
<1>6. DecoderHas(b) = 0 /\ InputHas(b) = 0
  BY <1>1, <1>4 DEF DecoderHas, InputHas, Here
<1>7. DiHas(b) = 0 /\ CaptureHas(b) = 0
  <2>1. /\ \A f \in Elements(filling) \cup Elements(capture) \cup Elements(posting) \cup user : f.fb # b
        /\ done # b
    BY <1>1, <1>2, <1>3 DEF ChainsLinked, Shown, OnWayOut, LastStage
  <2>2. /\ Pictures(b, filling) = 0 /\ Pictures(b, capture) = 0 /\ Pictures(b, posting) = 0
        /\ Cardinality(PicturesOf(b, user)) = 0
    BY <1>1, <2>1, Counts
  <2> QED BY <2>1, <2>2 DEF DiHas, CaptureHas, Here
<1>8. OutputHas(b) = 0
  <2>1. /\ \A x \in Elements(output) : x # b
        /\ out_buf # b
    BY <1>1, <1>2, <1>3 DEF ChainsLinked
  <2>2. Often(b, output) = 0
    <3>1. \A i \in 1..Len(output) : output[i] # b
      BY <2>1 DEF Elements
    <3>2. output \in Seq(Buf \cup {NoBuf})
      BY Types
    <3> QED BY <3>1, <3>2, OftenFacts
  <2> QED BY <1>1, <2>1, <2>2 DEF OutputHas, Here
<1>9. Owners(b) = 0
  BY <1>1, <1>5, <1>6, <1>7, <1>8, OwnersGroups
<1> QED BY <1>1, <1>2, <1>9 DEF OneOwner

LEMMA SecondGoesOut ==
  ASSUME VppInv, OnInv, phase = "on", InputsForAll, SecondField, spec[more] = "out"
  PROVE  \E f \in Frame : FieldOut(f) /\ f.ts = clock
<1>1. /\ more # NoBuf /\ more' = NoBuf /\ more \in Buf /\ vf_ref[more] <= 1 /\ vf_ref \in [Buf -> 0..2]
      /\ UNCHANGED <<phase, mode, new, ready, token_table, pool, spec, pc, output, out_buf, out_done_q, reading,
                     emptied, filling, done, putting, capture, posting, user>>
  BY Types DEF SecondField, queueVars, threadVars, diVars, outVars, VppInv, FieldsCounted
<1>2. newframe > 0
  BY <1>1, FieldLeft
<1> DEFINE f == [fb |-> more, ts |-> clock, nth |-> 2]
<1>3. f \in Frame /\ f.fb = more /\ f.nth = 2 /\ f.ts = clock
  BY <1>1 DEF VppInv, TypeOK, Frame
<1>4. vf_ref[more] = 1 /\ ~ mode.is_prog
  BY <1>1, FirstIsOut
<1>5. HandOver(f) /\ vf_ref' = [vf_ref EXCEPT ![more] = vf_ref[more] + 1]
  BY <1>1, <1>2 DEF SecondField
<1> HIDE DEF f
<1>6. spec' = [spec EXCEPT ![f.fb] = "out"]
  BY <1>1, <1>3, Types
<1>7. /\ f.nth = vf_ref[f.fb] + 1 /\ vf_ref[f.fb] = 1 /\ spec[f.fb] = "out" /\ more = f.fb
      /\ vf_ref' = [vf_ref EXCEPT ![f.fb] = vf_ref[f.fb] + 1]
  BY <1>3, <1>4, <1>5
<1>8. FieldOut(f)
  BY <1>1, <1>4, <1>5, <1>6, <1>7 DEF FieldOut
<1> QED BY <1>3, <1>8

LEMMA SecondFieldKeeps ==
  ASSUME VppInv, VppInv', OnInv, phase = "on", InputsForAll, SecondField
  PROVE  OnInv'
<1>1. /\ more # NoBuf /\ more' = NoBuf
      /\ UNCHANGED <<phase, mode, new, ready, token_table, pool, spec, pc, output, out_buf, out_done_q, reading,
                     emptied, filling, done, putting, capture, posting, user>>
  BY DEF SecondField, queueVars, threadVars, diVars, outVars
<1>3. CASE spec[more] = "out"
  BY <1>3, SecondGoesOut, FieldOutKeeps
<1>4. CASE spec[more] # "out"
  <2>1. UNCHANGED <<vf_ref, chain, input, in_done_q>>
    BY <1>4 DEF SecondField
  <2>2. \A b \in Buf : /\ DriverHas(b)' = DriverHas(b) /\ DecoderHas(b)' = DecoderHas(b)
                       /\ OutputHas(b)' = OutputHas(b)
    BY <1>1 DEF DriverHas, DecoderHas, OutputHas
  <2>3. /\ mode.is_prog => pc \notin {"bind", "alloc"}
        /\ ~ mode.is_prog /\ pc # "pair" => out_buf = NoBuf
    BY DEF OnInv, InputsCount
  <2>4. Elements(output)' = Elements(output)
    BY <1>1 DEF Elements
  <2> QED BY <1>1, <2>1, <2>2, <2>3, <2>4, Quiet
<1> QED BY <1>3, <1>4

LEMMA PairKeeps ==
  ASSUME VppInv, VppInv', OnInv, phase = "on", Pair
  PROVE  OnInv'
<1> DEFINE f == Head(in_done_q)
           g == [f EXCEPT !.fb = IF mode.is_prog THEN f.fb ELSE out_buf]
<1>1. in_done_q \in Seq(Frame) /\ in_done_q # <<>> /\ frame > 0 /\ pc = "pair"
  <2>1. in_done_q \in Seq(Frame) /\ sem_in \in Nat /\ output \in Seq(Buf \cup {NoBuf})
    BY DEF VppInv, TypeOK
  <2>2. pc = "pair"
    BY DEF Pair
  <2>3. Len(in_done_q) = sem_in + 1 /\ frame = Len(output) + 1 /\ Len(output) \in Nat
    BY <2>1, <2>2 DEF VppInv, Accounts, Working, Here
  <2>4. Len(in_done_q) # 0
    BY <2>1, <2>3
  <2>5. in_done_q # <<>>
    BY <2>4
  <2> QED BY <2>1, <2>2, <2>3, <2>5
<1>2. /\ reading' = IF mode.is_prog THEN reading ELSE Append(reading, f)
      /\ filling' = Append(filling, g)
      /\ in_done_q' = Tail(in_done_q) /\ out_buf' = NoBuf /\ pc' = "wait_in"
      /\ UNCHANGED <<phase, mode, pool, chain, out_done_q, done, putting, emptied, capture, posting, user,
                     new, ready, token_table, spec, vf_ref, more, input, output>>
  BY <1>1 DEF Pair, queueVars, decVars, fieldVars, outVars
<1>3. /\ f \in Frame /\ f.fb \in Buf /\ f \in Elements(in_done_q)
      /\ Len(Tail(in_done_q)) \in Nat /\ Len(in_done_q) = Len(Tail(in_done_q)) + 1
      /\ Elements(in_done_q) = Elements(Tail(in_done_q)) \cup {f}
      /\ \A b : /\ Pictures(b, Tail(in_done_q)) \in Nat
                /\ Pictures(b, in_done_q) = Pictures(b, Tail(in_done_q)) + (IF f.fb = b THEN 1 ELSE 0)
  BY <1>1, AfterTake, FrameFacts
<1>4. pool[f.fb] = "dec"
  BY <1>3 DEF VppInv, InUse, Elements
<1>5. /\ mode.is_prog => g = f
      /\ ~ mode.is_prog => out_buf \in Buf /\ out_buf # NoBuf /\ g.fb = out_buf
      /\ g \in Frame
  <2>1. mode.is_prog => g = f
    BY <1>3 DEF Frame
  <2>2. ~ mode.is_prog => out_buf \in Buf /\ out_buf # NoBuf
    BY <1>1, Types DEF VppInv, InUse
  <2>3. ~ mode.is_prog => g \in Frame /\ g.fb = out_buf
    BY <1>3, <2>2 DEF Frame
  <2> QED BY <1>3, <2>1, <2>2, <2>3
<1> HIDE DEF f, g
<1>6. /\ Len(filling) \in Nat /\ Len(Append(filling, g)) = Len(filling) + 1
      /\ Elements(Append(filling, g)) = Elements(filling) \cup {g}
      /\ \A b : /\ Pictures(b, filling) \in Nat
                /\ Pictures(b, Append(filling, g)) = Pictures(b, filling) + (IF g.fb = b THEN 1 ELSE 0)
  BY <1>5, Types, AfterAppend
<1>7. /\ Len(reading) \in Nat /\ Len(Append(reading, f)) = Len(reading) + 1
      /\ \A b : /\ Pictures(b, reading) \in Nat
                /\ Pictures(b, Append(reading, f)) = Pictures(b, reading) + (IF f.fb = b THEN 1 ELSE 0)
  BY <1>3, Types, AfterAppend
<1>8. /\ Elements(in_done_q)' \subseteq Elements(in_done_q)
      /\ Elements(filling)' = Elements(filling) \cup {g}
      /\ Elements(out_done_q)' = Elements(out_done_q) /\ Elements(output)' = Elements(output)
      /\ Shown' = Shown /\ LastStage' = LastStage
  <2>1. /\ Elements(in_done_q)' = Elements(in_done_q') /\ Elements(filling)' = Elements(filling')
    BY DEF Elements
  <2>2. /\ Elements(out_done_q)' = Elements(out_done_q) /\ Elements(output)' = Elements(output)
        /\ Shown' = Shown /\ LastStage' = LastStage
    BY <1>2 DEF Elements, Shown, OnWayOut, LastStage
  <2> QED BY <1>2, <1>3, <1>6, <2>1, <2>2
<1>9. ChainsLinked /\ StagesRemember /\ OneOwner /\ InputsCount /\ FieldsRemembered
  BY DEF OnInv
<1>10. InputsCount'
  <2> DEFINE i0 == Len(in_done_q)
             i1 == Len(Tail(in_done_q))
             f0 == Len(filling)
             r0 == Len(reading)
             e0 == Len(emptied)
             n == Cardinality(Refs)
  <2>1. i1 \in Nat /\ i0 = i1 + 1 /\ f0 \in Nat /\ r0 \in Nat /\ e0 \in Nat /\ input \in Nat /\ n \in Nat
    BY <1>3, <1>6, <1>7, Types, RefsFinite
  <2>2. /\ Len(in_done_q') = i1 /\ Len(filling') = f0 + 1 /\ Len(emptied') = e0
        /\ Len(reading') = IF mode.is_prog THEN r0 ELSE r0 + 1
        /\ Cardinality(Refs') = n
    BY <1>2, <1>6, <1>7 DEF Refs
  <2>3. /\ mode.is_prog => mode.alloc
        /\ InSize = input + i0 + (IF mode.is_prog THEN f0 ELSE r0 + e0)
        /\ ~ mode.is_prog => n = i0 + r0 + e0
    BY <1>9 DEF InputsCount
  <2> HIDE DEF i0, i1, f0, r0, e0, n
  <2>4. /\ InSize = input + i1 + (IF mode.is_prog THEN f0 + 1 ELSE (r0 + 1) + e0)
        /\ ~ mode.is_prog => n = i1 + (r0 + 1) + e0
    BY <2>1, <2>3
  <2> QED BY <1>2, <2>2, <2>3, <2>4 DEF InputsCount
<1>11. ChainsLinked'
  <2>1. pool[g.fb] = LastStage
    BY <1>4, <1>5, <1>9 DEF ChainsLinked, LastStage
  <2> QED BY <1>2, <1>8, <1>9, <2>1, LinksStay DEF SameLinks
<1>12. StagesRemember'
  <2>1. mode.is_prog => InHand' \subseteq InHand
    BY <1>3, <1>5, <1>8 DEF InHand
  <2> QED BY <1>2, <1>8, <1>9, <2>1, StagesStay
<1>13. FieldsRemembered'
  <2> SUFFICES ASSUME ~ mode.is_prog PROVE FieldsRemembered'
    BY <1>2 DEF FieldsRemembered
  <2>1. Pipe' = Pipe
    <3> DEFINE p == emptied \o reading
    <3>1. emptied \in Seq(Frame) /\ reading \in Seq(Frame) /\ p \in Seq(Frame)
      BY Types, PipeFacts
    <3>2. emptied \o Append(reading, f) = Append(p, f)
      BY <1>3, <3>1, AppendConcat
    <3>3. Pipe = p \o in_done_q /\ Pipe' = (emptied \o Append(reading, f)) \o Tail(in_done_q)
      BY <1>2 DEF Pipe
    <3> HIDE DEF p
    <3>4. Append(p, f) \o Tail(in_done_q) = p \o in_done_q
      BY <1>1, <3>1, MoveOver DEF f
    <3> QED BY <3>2, <3>3, <3>4
  <2>2. \A b \in Buf, k \in 1..3 : Slots(b)'[k] = Slots(b)[k]
    BY <1>2 DEF Slots
  <2> QED BY <1>2, <1>9, <2>1, <2>2, FieldsStay
<1>14. OneOwner'
  <2>1. ASSUME NEW b \in Buf
        PROVE  InputHas(b)' + DiHas(b)' + OutputHas(b)' = InputHas(b) + DiHas(b) + OutputHas(b)
    <3>1. b # NoBuf
      BY FrameFacts
    <3> DEFINE d == Here(done = b)
               o == Often(b, output)
               v == Here(vf_ref[b] > 0)
    <3>2. d \in Nat /\ o \in Nat /\ v \in Nat
      BY Counts
    <3>3. /\ DiHas(b) = Pictures(b, filling) + d
          /\ DiHas(b)' = Pictures(b, Append(filling, g)) + d
          /\ InputHas(b) = IF mode.is_prog THEN Pictures(b, in_done_q) ELSE v
          /\ InputHas(b)' = IF mode.is_prog THEN Pictures(b, Tail(in_done_q)) ELSE v
      BY <1>2 DEF DiHas, InputHas
    <3>4. /\ OutputHas(b) = IF mode.is_prog THEN 0 ELSE o + (IF out_buf = b THEN 1 ELSE 0)
          /\ OutputHas(b)' = IF mode.is_prog THEN 0 ELSE o + 0
      BY <1>2, <3>1 DEF OutputHas, Here
    <3>5. /\ Pictures(b, Tail(in_done_q)) \in Nat
          /\ Pictures(b, in_done_q) = Pictures(b, Tail(in_done_q)) + (IF f.fb = b THEN 1 ELSE 0)
          /\ Pictures(b, filling) \in Nat
          /\ Pictures(b, Append(filling, g)) = Pictures(b, filling) + (IF g.fb = b THEN 1 ELSE 0)
      BY <1>3, <1>6
    <3> HIDE DEF d, o, v
    <3> QED BY <1>5, <3>2, <3>3, <3>4, <3>5
  <2>2. \A b \in Buf : /\ DriverHas(b)' = DriverHas(b) /\ DecoderHas(b)' = DecoderHas(b)
                       /\ CaptureHas(b)' = CaptureHas(b)
    BY <1>2 DEF DriverHas, DecoderHas, CaptureHas
  <2>3. FieldsOwned'
    <3>1. ASSUME ~ mode.is_prog, NEW b \in Buf PROVE vf_ref'[b] = Fields(b)'
      <4>1. vf_ref[b] = Pictures(b, in_done_q) + Pictures(b, reading) + Pictures(b, emptied)
        BY <1>9, <3>1 DEF OneOwner, Fields
      <4>2. Fields(b)' = Pictures(b, Tail(in_done_q)) + Pictures(b, Append(reading, f)) + Pictures(b, emptied)
        BY <1>2, <3>1 DEF Fields
      <4>3. Pictures(b, emptied) \in Nat
        BY Counts
      <4> QED BY <1>2, <1>3, <1>7, <4>1, <4>2, <4>3
    <3> QED BY <1>2, <3>1 DEF FieldsOwned
  <2>4. Grouped /\ Grouped'
    BY GroupsNow, GroupsNext
  <2>5. \A b \in Buf :
          DriverHas(b)' + DecoderHas(b)' + InputHas(b)' + DiHas(b)' + CaptureHas(b)' + OutputHas(b)'
          = DriverHas(b) + DecoderHas(b) + InputHas(b) + DiHas(b) + CaptureHas(b) + OutputHas(b)
    BY <2>1, <2>2, <2>4 DEF Grouped
  <2> QED BY <1>9, <2>3, <2>5, StillOneOwner
<1> QED BY <1>10, <1>11, <1>12, <1>13, <1>14 DEF OnInv

LEMMA FillDoneKeeps ==
  ASSUME VppInv, VppInv', OnInv, phase = "on", FillDone
  PROVE  OnInv'
<1> DEFINE f == Head(filling)
<1>1. /\ filling # <<>> /\ done = NoBuf /\ filling' = Tail(filling)
      /\ out_done_q' = Append(out_done_q, f) /\ done' = f.fb
      /\ input' = IF mode.alloc /\ mode.is_prog THEN input + 1 ELSE input
      /\ UNCHANGED <<phase, mode, pool, chain, in_done_q, reading, emptied, putting, capture, posting, user,
                     new, ready, token_table, spec, vf_ref, more, output, out_buf, pc>>
  BY DEF FillDone, queueVars, decVars, fieldVars, threadVars, outVars
<1>2. filling \in Seq(Frame) /\ input \in Nat /\ out_done_q = <<>> /\ out_done_q \in Seq(Frame)
  BY <1>1, Types, DoneFacts
<1>3. f \in Frame
  BY <1>1, <1>2, AfterTake
<1>4. /\ f.fb \in Buf /\ f.fb # NoBuf /\ f \in Elements(filling)
      /\ Len(Tail(filling)) \in Nat /\ Len(filling) = Len(Tail(filling)) + 1
      /\ Elements(filling) = Elements(Tail(filling)) \cup {f}
      /\ \A b : /\ Pictures(b, Tail(filling)) \in Nat
                /\ Pictures(b, filling) = Pictures(b, Tail(filling)) + (IF f.fb = b THEN 1 ELSE 0)
  BY <1>1, <1>2, <1>3, AfterTake, FrameFacts
<1> HIDE DEF f
<1>5. /\ Elements(filling)' \subseteq Elements(filling)
      /\ \A x \in Elements(out_done_q)' : x = f
      /\ Elements(in_done_q)' = Elements(in_done_q)
      /\ Elements(output)' = Elements(output) /\ Shown' = Shown /\ LastStage' = LastStage
  <2>1. Elements(Append(out_done_q, f)) = Elements(out_done_q) \cup {f}
    BY <1>2, <1>3, AfterAppend
  <2>2. Elements(out_done_q) = {}
    BY <1>2 DEF Elements
  <2>3. Elements(out_done_q)' = Elements(out_done_q') /\ Elements(filling)' = Elements(filling')
    BY DEF Elements
  <2>4. /\ Elements(in_done_q)' = Elements(in_done_q)
        /\ Elements(output)' = Elements(output) /\ Shown' = Shown /\ LastStage' = LastStage
    BY <1>1 DEF Shown, OnWayOut, LastStage, Elements
  <2> QED BY <1>1, <1>4, <2>1, <2>2, <2>3, <2>4
<1>6. ChainsLinked /\ StagesRemember /\ OneOwner /\ InputsCount /\ FieldsRemembered
  BY DEF OnInv
<1>7. InputsCount'
  <2> DEFINE n == Len(in_done_q)
             l == Len(filling)
             k == Len(Tail(filling))
  <2>1. n \in Nat /\ k \in Nat /\ l = k + 1
    BY <1>4, Types
  <2>2. mode.is_prog => mode.alloc /\ InSize = input + n + l
    BY <1>6 DEF InputsCount
  <2> HIDE DEF n, l, k
  <2>3. mode.is_prog => InSize = (input + 1) + n + k
    BY <1>2, <2>1, <2>2
  <2>4. mode.is_prog => InSize = input' + Len(in_done_q') + Len(filling')
    BY <1>1, <2>2, <2>3 DEF n, k
  <2>5. ~ mode.is_prog => InSize = input' + Len(in_done_q') + (Len(reading') + Len(emptied'))
    BY <1>1, <1>6 DEF InputsCount
  <2>6. Refs' = Refs
    BY <1>1 DEF Refs
  <2> QED BY <1>1, <1>6, <2>4, <2>5, <2>6 DEF InputsCount
<1>8. ChainsLinked'
  <2>1. pool[f.fb] = LastStage
    BY <1>4, <1>6 DEF ChainsLinked
  <2> QED BY <1>1, <1>5, <1>6, <2>1, LinksStay DEF SameLinks
<1>9. StagesRemember'
  <2>1. InHand' \subseteq InHand
    BY <1>4, <1>5 DEF InHand
  <2> QED BY <1>1, <1>5, <1>6, <2>1, StagesStay
<1>10. FieldsRemembered'
  BY <1>1, <1>6, FieldsStay DEF Pipe, Slots
<1>11. OneOwner'
  <2>1. ASSUME NEW b \in Buf PROVE DiHas(b)' = DiHas(b)
    <3>1. b # NoBuf
      BY FrameFacts
    <3>2. /\ DiHas(b) = Pictures(b, filling) + 0
          /\ DiHas(b)' = Pictures(b, Tail(filling)) + (IF f.fb = b THEN 1 ELSE 0)
      BY <1>1, <3>1 DEF DiHas, Here
    <3> QED BY <1>4, <3>2
  <2>2. \A b \in Buf : /\ DriverHas(b)' = DriverHas(b) /\ DecoderHas(b)' = DecoderHas(b)
                       /\ InputHas(b)' = InputHas(b)
                       /\ CaptureHas(b)' = CaptureHas(b) /\ OutputHas(b)' = OutputHas(b)
    BY <1>1 DEF DriverHas, DecoderHas, InputHas, CaptureHas, OutputHas
  <2>3. FieldsOwned'
    BY <1>1, <1>6, OwnedSame
  <2>4. \A b \in Buf :
          DriverHas(b)' + DecoderHas(b)' + InputHas(b)' + DiHas(b)' + CaptureHas(b)' + OutputHas(b)'
          = DriverHas(b) + DecoderHas(b) + InputHas(b) + DiHas(b) + CaptureHas(b) + OutputHas(b)
    BY <2>1, <2>2
  <2> QED BY <1>6, <2>3, <2>4, StillOneOwner
<1> QED BY <1>7, <1>8, <1>9, <1>10, <1>11 DEF OnInv

(* The chain of an output that is done goes on to the capture thread, and  *)
(* its stage has room for the picture: no one else has the buffer.         *)
LEMMA SubmitKeeps ==
  ASSUME VppInv, VppInv', OnInv, phase = "on", Submit
  PROVE  OnInv'
<1>1. PICK d : d = done
  OBVIOUS
<1>2. d # NoBuf /\ putting = <<>>
  BY <1>1 DEF Submit
<1>3. PICK f \in Frame : f.fb = d /\ out_done_q = <<f>>
  <2>1. \E f \in Frame : f.fb = done /\ ((out_done_q = <<f>> /\ putting = <<>>)
                                         \/ (out_done_q = <<>> /\ putting = <<f>>))
    BY <1>1, <1>2, DoneFacts
  <2>2. PICK f \in Frame : f.fb = done /\ ((out_done_q = <<f>> /\ putting = <<>>)
                                         \/ (out_done_q = <<>> /\ putting = <<f>>))
    BY <2>1
  <2>3. <<f>> # <<>>
    OBVIOUS
  <2> QED BY <1>1, <1>2, <2>2, <2>3
<1>4. Head(out_done_q) = f /\ Tail(out_done_q) = <<>> /\ Elements(out_done_q) = {f}
  <2>1. Head(<<f>>) = f /\ Tail(<<f>>) = <<>> /\ Elements(<<f>>) = {f}
    BY DEF Elements
  <2> QED BY <1>3, <2>1
<1>5. /\ d \in Buf /\ chain \in [Buf -> Chain(Frame)] /\ {"dec", "vpp"} \subseteq Task
      /\ "vpp" \in Task /\ "dec" \in Task \ {"vpp"}
  BY <1>1, <1>2, Types DEF Task
<1>6. ChainsLinked /\ StagesRemember /\ OneOwner /\ InputsCount /\ FieldsRemembered
  BY DEF OnInv
<1>7. /\ pool[d] = LastStage /\ pool[d] # "m2m" /\ Linked(chain[d], "vpp", "sink")
      /\ \A x \in Elements(capture) \cup Elements(posting) \cup user : x.fb # d
  <2>1. pool[d] = LastStage
    BY <1>1, <1>2, <1>6 DEF ChainsLinked
  <2>2. Linked(chain[d], "vpp", "sink") /\ pool[d] # "m2m"
    BY <1>5, <1>6, <2>1 DEF ChainsLinked, LastStage
  <2>3. \A x \in Elements(capture) \cup Elements(posting) \cup user : x.fb # d
    BY <1>1, <1>5, <1>6, Apart
  <2> QED BY <2>1, <2>2, <2>3
<1>8. /\ out_done_q' = <<>> /\ putting' = <<f>> /\ done' = done
      /\ chain' = [chain EXCEPT ![d] = Push(chain[d], "vpp", f)]
      /\ UNCHANGED <<phase, mode, pool, in_done_q, reading, emptied, filling, capture, posting, user,
                     new, ready, token_table, spec, vf_ref, more, output, out_buf, pc, input>>
  BY <1>1, <1>4, <1>7 DEF Submit, Linked, queueVars, decVars, fieldVars, threadVars, outVars
<1> DEFINE c == Push(chain[d], "vpp", f)
<1>9. OnlyHolds(c, "vpp", f)
  <2>1. \A x \in Elements(putting) : FALSE
    BY <1>2 DEF Elements
  <2>2. \A x \in Shown : x.fb # d
    BY <1>7, <2>1 DEF Shown, OnWayOut
  <2>3. Held(chain[d], "vpp") = {}
    BY <1>5, <1>6, <1>7, <2>2 DEF StagesRemember
  <2> QED BY <1>3, <1>5, <2>3, PushRemembers
<1>10. SameLinks(c, chain[d]) /\ \A i \in 1..3 : c.vframe["dec"][i] = chain[d].vframe["dec"][i]
  BY <1>3, <1>5, PushLinks, PushFacts
<1>11. \A x : OnlyHolds(c, "dec", x) <=> OnlyHolds(chain[d], "dec", x)
  BY <1>10, SameStage
<1> HIDE DEF c
<1>12. chain'[d] = c /\ \A x \in Buf : x # d => chain'[x] = chain[x]
  BY <1>5, <1>8 DEF c
<1>13. /\ Elements(in_done_q)' = Elements(in_done_q) /\ Elements(filling)' = Elements(filling)
       /\ Elements(output)' = Elements(output) /\ Elements(out_done_q)' = {}
       /\ LastStage' = LastStage /\ Shown' = Shown \cup {f}
  <2>1. Elements(putting) = {} /\ Elements(putting)' = {f}
    BY <1>2, <1>8 DEF Elements
  <2>2. /\ Elements(in_done_q)' = Elements(in_done_q) /\ Elements(filling)' = Elements(filling)
        /\ Elements(output)' = Elements(output) /\ LastStage' = LastStage
        /\ Elements(capture)' = Elements(capture) /\ Elements(posting)' = Elements(posting)
        /\ Elements(out_done_q)' = {}
    BY <1>8 DEF Elements, LastStage
  <2> QED BY <1>8, <2>1, <2>2 DEF Shown, OnWayOut
<1>14. InputsCount'
  BY <1>6, <1>8, InputsSame DEF InputsCount
<1>15. ChainsLinked'
  <2>1. \A x \in Buf : SameLinks(chain'[x], chain[x])
    BY <1>10, <1>12 DEF SameLinks
  <2> QED BY <1>3, <1>6, <1>7, <1>8, <1>13, <2>1, LinksStay
<1>16. StagesRemember'
  <2>1. \A x : x.fb \in Buf => (Remembers("dec", x)' <=> Remembers("dec", x))
    <3>1. \A x : x.fb \in Buf /\ x.fb # d => (Remembers("dec", x)' <=> Remembers("dec", x))
      BY <1>12 DEF Remembers
    <3>2. \A x : x.fb = d => (Remembers("dec", x)' <=> Remembers("dec", x))
      BY <1>11, <1>12 DEF Remembers
    <3> QED BY <3>1, <3>2
  <2>2. \A x : x.fb \in Buf /\ x.fb # d => (Remembers("vpp", x)' <=> Remembers("vpp", x))
    BY <1>12 DEF Remembers
  <2>3. Remembers("vpp", f)'
    BY <1>3, <1>9, <1>12 DEF Remembers
  <2>4. \A x \in InHand : x.fb \in Buf
    <3>1. InHand \subseteq Frame
      BY Types, ElementsFacts DEF InHand, Shown, OnWayOut
    <3> QED BY <3>1, FrameFacts
  <2>5. InHand' \subseteq InHand
    BY <1>4, <1>13 DEF InHand
  <2>6. mode.is_prog => \A x \in InHand' : Remembers("dec", x)'
    BY <1>6, <2>1, <2>4, <2>5 DEF StagesRemember, InHand
  <2>7. \A x \in Shown' : Remembers("vpp", x)'
    <3> SUFFICES ASSUME NEW x \in Shown' PROVE Remembers("vpp", x)'
      OBVIOUS
    <3>1. CASE x = f
      BY <2>3, <3>1
    <3>2. CASE x \in Shown /\ x # f
      <4>1. x.fb \in Buf
        BY <2>4, <3>2 DEF InHand
      <4>2. x.fb # d
        <5>1. Elements(putting) = {}
          BY <1>2 DEF Elements
        <5> QED BY <1>7, <3>2, <5>1 DEF Shown, OnWayOut
      <4> QED BY <1>6, <2>2, <3>2, <4>1, <4>2 DEF StagesRemember
    <3> QED BY <1>13, <3>1, <3>2
  <2>8. \A x \in Buf : pool'[x] # "m2m" /\ Held(chain'[x], "vpp") # {} => \E g \in Shown' : g.fb = x
    BY <1>3, <1>6, <1>8, <1>12, <1>13 DEF StagesRemember
  <2> QED BY <1>8, <2>6, <2>7, <2>8 DEF StagesRemember, InHand
<1>17. FieldsRemembered'
  <2>1. \A x \in Buf, k \in 1..3 : Slots(x)'[k] = Slots(x)[k]
    BY <1>10, <1>12 DEF Slots
  <2> QED BY <1>6, <1>8, <2>1, FieldsStay DEF Pipe
<1>18. OneOwner'
  <2>1. \A b \in Buf : /\ DriverHas(b)' = DriverHas(b) /\ DecoderHas(b)' = DecoderHas(b)
                       /\ InputHas(b)' = InputHas(b) /\ DiHas(b)' = DiHas(b)
                       /\ CaptureHas(b)' = CaptureHas(b) /\ OutputHas(b)' = OutputHas(b)
    BY <1>8 DEF DriverHas, DecoderHas, InputHas, DiHas, CaptureHas, OutputHas
  <2>2. FieldsOwned'
    BY <1>6, <1>8, OwnedSame
  <2> QED BY <1>6, <2>1, <2>2, StillOneOwner
<1> QED BY <1>14, <1>15, <1>16, <1>17, <1>18 DEF OnInv

LEMMA PutCaptureKeeps ==
  ASSUME VppInv, VppInv', OnInv, phase = "on", PutCapture
  PROVE  OnInv'
<1>1. /\ putting # <<>> /\ capture' = capture \o putting /\ putting' = <<>> /\ done' = NoBuf
      /\ UNCHANGED <<phase, mode, pool, chain, in_done_q, out_done_q, reading, emptied, filling, posting, user,
                     new, ready, token_table, spec, vf_ref, more, output, out_buf, pc, input>>
  BY DEF PutCapture, queueVars, decVars, fieldVars, fifoVars, threadVars
<1>2. PICK f \in Frame : f.fb = done /\ putting = <<f>> /\ out_done_q = <<>>
  BY <1>1, DoneFacts
<1>3. done # NoBuf
  BY <1>1, DoneFacts
<1>4. /\ capture' = Append(capture, f)
      /\ Elements(capture') = Elements(capture) \cup {f}
      /\ \A b : /\ Pictures(b, capture) \in Nat
                /\ Pictures(b, capture') = Pictures(b, capture) + (IF f.fb = b THEN 1 ELSE 0)
  <2>1. capture \in Seq(Frame)
    BY Types
  <2>2. capture' = Append(capture, f)
    BY <1>1, <1>2, <2>1, SingleFacts
  <2> QED BY <2>1, <2>2, AfterAppend
<1>5. /\ Elements(in_done_q)' = Elements(in_done_q) /\ Elements(filling)' = Elements(filling)
      /\ Elements(out_done_q)' = Elements(out_done_q) /\ Elements(output)' = Elements(output)
      /\ LastStage' = LastStage /\ Shown' = Shown
  <2>1. Elements(putting) = {f} /\ Elements(putting)' = {}
    BY <1>1, <1>2 DEF Elements
  <2>2. /\ Elements(in_done_q)' = Elements(in_done_q) /\ Elements(filling)' = Elements(filling)
        /\ Elements(out_done_q)' = Elements(out_done_q) /\ Elements(output)' = Elements(output)
        /\ LastStage' = LastStage /\ Elements(posting)' = Elements(posting)
        /\ Elements(capture)' = Elements(capture')
    BY <1>1 DEF Elements, LastStage
  <2> QED BY <1>1, <1>4, <2>1, <2>2 DEF Shown, OnWayOut
<1>6. ChainsLinked /\ StagesRemember /\ OneOwner /\ InputsCount /\ FieldsRemembered
  BY DEF OnInv
<1>7. InputsCount'
  BY <1>1, <1>6, InputsSame DEF InputsCount
<1>8. ChainsLinked'
  BY <1>1, <1>5, <1>6, LinksStay DEF SameLinks
<1>9. StagesRemember'
  BY <1>1, <1>5, <1>6, StagesStay DEF InHand
<1>10. FieldsRemembered'
  BY <1>1, <1>6, FieldsStay DEF Pipe, Slots
<1>11. OneOwner'
  <2>1. ASSUME NEW b \in Buf
        PROVE  DiHas(b)' + CaptureHas(b)' = DiHas(b) + CaptureHas(b)
    <3>1. b # NoBuf
      BY FrameFacts
    <3> DEFINE p == Pictures(b, filling)
               q == Pictures(b, posting)
               u == Cardinality(PicturesOf(b, user))
    <3>2. p \in Nat /\ q \in Nat /\ u \in Nat /\ Pictures(b, capture) \in Nat
      BY Counts
    <3>3. DiHas(b) = p + (IF done = b THEN 1 ELSE 0) /\ DiHas(b)' = p + 0
      BY <1>1, <3>1 DEF DiHas, Here
    <3>4. /\ CaptureHas(b) = Pictures(b, capture) + q + u
          /\ CaptureHas(b)' = Pictures(b, capture') + q + u
      BY <1>1 DEF CaptureHas
    <3> HIDE DEF p, q, u
    <3> QED BY <1>2, <1>4, <3>2, <3>3, <3>4
  <2>2. \A b \in Buf : /\ DriverHas(b)' = DriverHas(b) /\ DecoderHas(b)' = DecoderHas(b)
                       /\ InputHas(b)' = InputHas(b) /\ OutputHas(b)' = OutputHas(b)
    BY <1>1 DEF DriverHas, DecoderHas, InputHas, OutputHas
  <2>3. FieldsOwned'
    BY <1>1, <1>6, OwnedSame
  <2>4. Grouped /\ Grouped'
    BY GroupsNow, GroupsNext
  <2>5. \A b \in Buf :
          DriverHas(b)' + DecoderHas(b)' + InputHas(b)' + DiHas(b)' + CaptureHas(b)' + OutputHas(b)'
          = DriverHas(b) + DecoderHas(b) + InputHas(b) + DiHas(b) + CaptureHas(b) + OutputHas(b)
    BY <2>1, <2>2, <2>4 DEF Grouped
  <2> QED BY <1>6, <2>3, <2>5, StillOneOwner
<1> QED BY <1>7, <1>8, <1>9, <1>10, <1>11 DEF OnInv

LEMMA EmptyDoneKeeps ==
  ASSUME VppInv, VppInv', OnInv, phase = "on", EmptyDone
  PROVE  OnInv'
<1> DEFINE f == Head(reading)
<1>1. /\ reading # <<>> /\ emptied = <<>> /\ reading' = Tail(reading) /\ emptied' = <<f>>
      /\ UNCHANGED <<phase, mode, pool, chain, in_done_q, out_done_q, filling, done, putting, capture, posting,
                     user, new, ready, token_table, spec, vf_ref, more, output, out_buf, pc, input>>
  BY DEF EmptyDone, queueVars, decVars, fieldVars, fifoVars, threadVars, outVars
<1>2. ~ mode.is_prog
  BY <1>1 DEF VppInv, ChainsFit
<1>3. /\ f \in Frame /\ Len(Tail(reading)) \in Nat /\ Len(reading) = Len(Tail(reading)) + 1
      /\ Tail(reading) \in Seq(Frame) /\ reading \in Seq(Frame)
      /\ \A b : /\ Pictures(b, Tail(reading)) \in Nat
                /\ Pictures(b, reading) = Pictures(b, Tail(reading)) + (IF f.fb = b THEN 1 ELSE 0)
  BY <1>1, Types, AfterTake
<1>4. <<f>> \o Tail(reading) = reading /\ <<>> \o reading = reading
  BY <1>1, <1>3
<1> HIDE DEF f
<1>5. /\ Len(emptied) = 0 /\ Len(emptied') = 1
      /\ \A b : /\ Pictures(b, emptied) = 0
                /\ Pictures(b, emptied') = IF f.fb = b THEN 1 ELSE 0
  <2>1. <<>> \in Seq(Frame) /\ Append(<<>>, f) = <<f>>
    OBVIOUS
  <2>2. \A b : Pictures(b, <<>>) = 0
    <3> TAKE b
    <3>1. \A g \in Elements(<<>>) : FALSE
      BY DEF Elements
    <3> QED BY <2>1, <3>1, PicturesNone
  <2>3. \A b : Pictures(b, <<f>>) = 0 + (IF f.fb = b THEN 1 ELSE 0)
    <3> TAKE b
    <3>1. PICK q : q = <<>>
      OBVIOUS
    <3>2. q \in Seq(Frame) /\ Append(q, f) = <<f>> /\ Pictures(b, q) = 0
      BY <2>1, <2>2, <3>1
    <3>3. Pictures(b, Append(q, f)) = Pictures(b, q) + (IF f.fb = b THEN 1 ELSE 0)
      BY <1>3, <3>2, AfterAppend, ZenonT(30)
    <3> QED BY <3>2, <3>3
  <2> QED BY <1>1, <2>2, <2>3
<1>6. ChainsLinked /\ StagesRemember /\ OneOwner /\ InputsCount /\ FieldsRemembered
  BY DEF OnInv
<1>7. InputsCount'
  <2> DEFINE r0 == Len(reading)
             r1 == Len(Tail(reading))
             i == Len(in_done_q)
  <2>1. r1 \in Nat /\ r0 = r1 + 1 /\ i \in Nat
    BY <1>3, Types
  <2>2. InSize = input + i + (r0 + 0) /\ Cardinality(Refs) = i + r0 + 0
    BY <1>2, <1>5, <1>6 DEF InputsCount
  <2> HIDE DEF r0, r1, i
  <2>3. InSize = input + i + (r1 + 1) /\ Cardinality(Refs) = i + r1 + 1
    BY <2>1, <2>2
  <2>4. Refs' = Refs
    BY <1>1 DEF Refs
  <2> QED BY <1>1, <1>2, <1>5, <1>6, <2>3, <2>4 DEF InputsCount, r1, i
<1>8. /\ Elements(filling)' = Elements(filling) /\ Elements(output)' = Elements(output)
      /\ LastStage' = LastStage /\ Shown' = Shown
  BY <1>1 DEF Elements, LastStage, Shown, OnWayOut
<1>9. ChainsLinked'
  BY <1>1, <1>6, <1>8, LinksStay DEF SameLinks
<1>10. StagesRemember'
  BY <1>1, <1>2, <1>6, <1>8, StagesStay
<1>11. FieldsRemembered'
  <2>1. Pipe' = Pipe
    BY <1>1, <1>4 DEF Pipe
  <2> QED BY <1>1, <1>6, <2>1, FieldsStay DEF Slots
<1>12. OneOwner'
  <2>1. \A b \in Buf : /\ DriverHas(b)' = DriverHas(b) /\ DecoderHas(b)' = DecoderHas(b)
                       /\ InputHas(b)' = InputHas(b) /\ DiHas(b)' = DiHas(b)
                       /\ CaptureHas(b)' = CaptureHas(b) /\ OutputHas(b)' = OutputHas(b)
    BY <1>1 DEF DriverHas, DecoderHas, InputHas, DiHas, CaptureHas, OutputHas
  <2>2. FieldsOwned'
    <3>1. ASSUME NEW b \in Buf PROVE vf_ref'[b] = Fields(b)'
      <4>1. vf_ref[b] = Pictures(b, in_done_q) + Pictures(b, reading) + Pictures(b, emptied)
        BY <1>2, <1>6 DEF OneOwner, Fields
      <4>2. Fields(b)' = Pictures(b, in_done_q) + Pictures(b, Tail(reading)) + Pictures(b, emptied')
        BY <1>1 DEF Fields
      <4>3. Pictures(b, in_done_q) \in Nat
        BY Counts
      <4> QED BY <1>1, <1>3, <1>5, <4>1, <4>2, <4>3
    <3> QED BY <3>1 DEF FieldsOwned
  <2> QED BY <1>6, <2>1, <2>2, StillOneOwner
<1> QED BY <1>7, <1>9, <1>10, <1>11, <1>12 DEF OnInv

LEMMA OnlyOne ==
  ASSUME NEW q \in Seq(Frame), q # <<>>, Len(q) <= 1
  PROVE  \E f \in Frame : q = <<f>>
<1>1. Len(q) = 1 /\ q[1] \in Frame
  <2>1. Len(q) = Len(Tail(q)) + 1 /\ Len(Tail(q)) \in Nat
    BY AfterTake
  <2>2. Len(q) = 1
    BY <2>1
  <2> QED BY <2>2
<1>2. <<q[1]>> \in Seq(Frame) /\ Len(<<q[1]>>) = 1 /\ <<q[1]>>[1] = q[1]
  BY <1>1
<1>3. q = <<q[1]>>
  <2>1. \A i \in 1..Len(q) : q[i] = <<q[1]>>[i]
    BY <1>1, <1>2
  <2> QED BY <1>1, <1>2, <2>1, SameElements
<1> QED BY <1>1, <1>3

(* The field that comes back is the first one that is out, and the first   *)
(* one the decoder's stage remembers.                                      *)
LEMMA EmptiedFacts ==
  ASSUME VppInv, FieldsRemembered, ChainsLinked, phase = "on", NEW f \in Frame, emptied = <<f>>
  PROVE  /\ ~ mode.is_prog /\ f.fb \in Buf \ new /\ pool[f.fb] = "dec"
         /\ Linked(chain[f.fb], "dec", "vpp")
         /\ Held(chain[f.fb], "dec") # {} /\ Slots(f.fb)[First(chain[f.fb], "dec")] = f
         /\ Top(chain[f.fb], "dec") = f /\ f # NoFrame
         /\ Len(Pipe) \in Nat \ {0} /\ Pipe[1] = f
         /\ vf_ref[f.fb] \in 1..2 /\ vf_ref[f.fb] = Cardinality(Held(chain[f.fb], "dec"))
         /\ spec[f.fb] = "out"
<1> DEFINE b == f.fb
           c == chain[b]
<1>1. ~ mode.is_prog
  <2>1. <<f>> # <<>>
    OBVIOUS
  <2> QED BY <2>1 DEF VppInv, ChainsFit
<1>2. b \in Buf /\ f # NoFrame
  BY FrameFacts
<1>3. f \in Elements(Pipe)
  <2>1. f \in Elements(emptied)
    BY DEF Elements
  <2> QED BY <2>1, PipeFacts
<1>4. pool[b] = "dec" /\ b \notin new
  BY <1>3, PipeFacts, LiveFacts
<1>5. Len(Pipe) \in Nat \ {0} /\ Pipe[1] = f
  <2> DEFINE r == reading
             q == in_done_q
             p == <<f>> \o r
  <2>1. r \in Seq(Frame) /\ q \in Seq(Frame) /\ <<f>> \in Seq(Frame)
    BY Types
  <2>2. p \in Seq(Frame) /\ Len(p) = Len(r) + 1 /\ p[1] = f /\ Len(p) \in Nat
    BY <2>1, SingleFacts, ConcatFacts
  <2>3. Pipe = p \o q
    BY DEF Pipe
  <2> HIDE DEF p
  <2>4. Len(Pipe) = Len(p) + Len(q) /\ Len(q) \in Nat /\ \A i \in 1..Len(Pipe) : i <= Len(p) => Pipe[i] = p[i]
    BY <2>1, <2>2, <2>3, ConcatFacts
  <2>5. Len(r) \in Nat
    BY <2>1
  <2> QED BY <2>2, <2>4, <2>5
<1>6. PICK k \in 1..3 : Slots(b)[k] = f
  BY <1>1, <1>3 DEF FieldsRemembered
<1>7. Held(c, "dec") # {} /\ k \in Held(c, "dec")
  BY <1>2, <1>6 DEF Held, Slots
<1>8. First(c, "dec") = k
  <2> DEFINE m == First(c, "dec")
  <2>1. m \in Held(c, "dec") /\ m \in 1..3 /\ m <= k
    BY <1>7, FirstFacts
  <2>2. SUFFICES ASSUME m < k PROVE FALSE
    BY <2>1
  <2>3. Slots(b)[m].nth < f.nth
    BY <1>1, <1>2, <1>4, <1>6, <1>7, <2>1, <2>2 DEF FieldsRemembered
  <2>4. Slots(b)[m] # NoFrame /\ Slots(b)[m].fb = b
    BY <1>2, <2>1 DEF Held, Slots, VppInv, ChainsFit, Task
  <2>5. PICK j \in 1..Len(Pipe) : Pipe[j] = Slots(b)[m]
    BY <1>1, <1>2, <1>4, <2>1, <2>4 DEF FieldsRemembered, Elements
  <2>6. f.nth \in Nat /\ Slots(b)[m].nth \in Nat
    <3>1. Pipe[j] \in Frame
      BY <2>5, PipeFacts DEF Elements
    <3> QED BY <2>5, <3>1, FrameFacts
  <2>7. j = 1 \/ 1 < j
    BY <1>5
  <2>8. j # 1
    BY <1>5, <2>3, <2>5, <2>6
  <2>9. f.nth < Slots(b)[m].nth
    BY <1>1, <1>5, <2>4, <2>5, <2>7, <2>8 DEF FieldsRemembered
  <2> QED BY <2>3, <2>6, <2>9
<1>9. Top(c, "dec") = f
  BY <1>6, <1>7, <1>8 DEF Top, Slots
<1>10. vf_ref[b] = Cardinality(Held(c, "dec"))
  BY <1>2, <1>4 DEF VppInv, FieldsCounted
<1>11. vf_ref[b] \in 1..2 /\ spec[b] = "out"
  <2>1. vf_ref[b] \in 0..2 /\ vf_ref[b] # 0
    BY <1>2, <1>7, <1>10, Types, HeldFacts
  <2> QED BY <1>2, <2>1 DEF VppInv, FieldsCounted
<1>12. Linked(c, "dec", "vpp")
  BY <1>2, <1>4 DEF ChainsLinked
<1> QED BY <1>1, <1>2, <1>4, <1>5, <1>6, <1>7, <1>8, <1>9, <1>10, <1>11, <1>12

(* The first of the fields that are out leaves them.                       *)
LEMMA FieldBack ==
  ASSUME VppInv, FieldsRemembered, ChainsLinked, phase = "on", NEW f \in Frame, emptied = <<f>>, emptied' = <<>>,
         UNCHANGED <<mode, new, reading, in_done_q, more>>,
         chain' = [chain EXCEPT ![f.fb] = Pop(chain[f.fb], "dec")]
  PROVE  FieldsRemembered'
<1> DEFINE b == f.fb
           m == First(chain[b], "dec")
<1>1. /\ ~ mode.is_prog /\ b \in Buf \ new /\ Held(chain[b], "dec") # {} /\ Slots(b)[m] = f
      /\ Len(Pipe) \in Nat \ {0} /\ Pipe[1] = f
  BY EmptiedFacts
<1>2. m \in Held(chain[b], "dec") /\ m \in 1..3 /\ \A i \in Held(chain[b], "dec") : m <= i
  BY <1>1, FirstFacts
<1>3. chain \in [Buf -> Chain(Frame)] /\ "dec" \in Task
  BY Types DEF Task
<1>4. /\ \A c \in Buf, i \in 1..3 : c # b => Slots(c)'[i] = Slots(c)[i]
      /\ \A i \in 1..3 : Slots(b)'[i] = IF i = m THEN NoFrame ELSE Slots(b)[i]
  <2>1. \A i \in 1..3 : Pop(chain[b], "dec").vframe["dec"][i] = IF i = m THEN NoFrame ELSE chain[b].vframe["dec"][i]
    BY <1>1, <1>3, PopFacts
  <2>2. chain'[b] = Pop(chain[b], "dec") /\ \A c \in Buf : c # b => chain'[c] = chain[c]
    BY <1>1, <1>3
  <2> QED BY <2>1, <2>2 DEF Slots
<1>5. /\ \A g \in Elements(Pipe) : \E i \in 1..3 : Slots(g.fb)[i] = g
      /\ \A c \in Buf \ new, i \in 1..3 : Slots(c)[i] # NoFrame => Slots(c)[i] \in Elements(Pipe)
      /\ \A c \in Buf \ new : \A i, j \in Held(chain[c], "dec") : i < j => Slots(c)[i].nth < Slots(c)[j].nth
      /\ \A i, j \in 1..Len(Pipe) : i < j /\ Pipe[i].fb = Pipe[j].fb => Pipe[i].nth < Pipe[j].nth
      /\ more # NoBuf => \A i \in Held(chain[more], "dec") : i = 1 /\ Slots(more)[i].nth = 1
  BY <1>1 DEF FieldsRemembered
<1>6. /\ Pipe \in Seq(Frame) /\ Elements(Pipe) \subseteq Frame
      /\ \A g \in Elements(Pipe) : g.fb \in Buf /\ g.nth \in Nat
      /\ f.nth \in Nat
  BY PipeFacts, FrameFacts
<1>7. Pipe # <<>> /\ Pipe' = Tail(Pipe)
  <2> DEFINE r == reading
             q == in_done_q
  <2>1. r \in Seq(Frame) /\ q \in Seq(Frame) /\ <<f>> \in Seq(Frame)
    BY Types
  <2>2. r \o q \in Seq(Frame)
    BY <2>1, ConcatFacts
  <2>3. Pipe = <<f>> \o (r \o q)
    BY <2>1 DEF Pipe
  <2>4. Pipe' = r \o q
    BY <2>1 DEF Pipe
  <2> DEFINE t == r \o q
  <2> HIDE DEF t
  <2>5. <<f>> \o t # <<>> /\ Tail(<<f>>) \o t = Tail(<<f>> \o t) /\ Tail(<<f>>) = <<>> /\ <<>> \o t = t
    <3>1. t \in Seq(Frame) /\ <<f>> # <<>>
      BY <2>2 DEF t
    <3>2. PICK s : s = <<f>>
      OBVIOUS
    <3>3. s \in Seq(Frame) /\ s # <<>> /\ Tail(s) = <<>>
      BY <2>1, <3>1, <3>2, SingleFacts
    <3>4. s \o t # <<>> /\ Tail(s) \o t = Tail(s \o t)
      BY <3>1, <3>3, TailConcat
    <3>5. <<>> \o t = t
      BY <3>1, SingleFacts
    <3> QED BY <3>2, <3>3, <3>4, <3>5
  <2> QED BY <2>3, <2>4, <2>5 DEF t
<1>8. /\ Len(Pipe') \in Nat /\ Len(Pipe) = Len(Pipe') + 1
      /\ \A i \in 1..Len(Pipe') : Pipe'[i] = Pipe[i + 1]
      /\ Elements(Pipe) = Elements(Pipe') \cup {f}
  <2>1. Head(Pipe) = f
    BY <1>1
  <2>2. Elements(Pipe) = Elements(Tail(Pipe)) \cup {Head(Pipe)}
    BY <1>6, <1>7, ElementsFacts
  <2> QED BY <1>6, <1>7, <2>1, <2>2
<1>9. \A g \in Elements(Pipe') : g.fb = b => f.nth < g.nth
  <2> SUFFICES ASSUME NEW i \in 1..Len(Pipe'), Pipe'[i].fb = b PROVE f.nth < Pipe'[i].nth
    BY DEF Elements
  <2>1. i + 1 \in 1..Len(Pipe) /\ 1 \in 1..Len(Pipe) /\ 1 < i + 1 /\ Pipe[i + 1] = Pipe'[i]
    BY <1>8
  <2>2. Pipe[1].fb = Pipe[i + 1].fb
    BY <1>1, <2>1
  <2>3. Pipe[1].nth < Pipe[i + 1].nth
    BY <1>5, <2>1, <2>2
  <2> QED BY <1>1, <2>1, <2>3
<1>10. /\ \A c \in Buf, i \in 1..3 : i \in Held(chain[c], "dec") <=> Slots(c)[i] # NoFrame
       /\ \A c \in Buf, i \in 1..3 : i \in Held(chain'[c], "dec") <=> Slots(c)'[i] # NoFrame
       /\ \A c \in Buf : Held(chain[c], "dec") \subseteq 1..3 /\ Held(chain'[c], "dec") \subseteq 1..3
  BY DEF Held, Slots
<1> HIDE DEF b, m
<1>11. \A c \in Buf : \A i \in Held(chain'[c], "dec") : i \in Held(chain[c], "dec") /\ Slots(c)'[i] = Slots(c)[i]
  BY <1>4, <1>10
<1>12. ASSUME NEW g \in Elements(Pipe') PROVE \E i \in 1..3 : Slots(g.fb)'[i] = g
  <2>1. g \in Elements(Pipe) /\ g.fb \in Buf /\ g.nth \in Nat
    BY <1>6, <1>8
  <2>2. PICK i \in 1..3 : Slots(g.fb)[i] = g
    BY <1>5, <2>1
  <2>3. CASE g.fb = b
    <3>1. g # f
      BY <1>6, <1>9, <2>1, <2>3
    <3> QED BY <1>1, <1>4, <2>2, <2>3, <3>1
  <2>4. CASE g.fb # b
    BY <1>4, <2>1, <2>2, <2>4
  <2> QED BY <2>3, <2>4
<1>13. ASSUME NEW c \in Buf \ new, NEW i \in 1..3, Slots(c)'[i] # NoFrame
       PROVE  Slots(c)'[i] \in Elements(Pipe')
  <2>1. i \in Held(chain[c], "dec") /\ Slots(c)'[i] = Slots(c)[i] /\ Slots(c)[i] # NoFrame
    BY <1>10, <1>11, <1>13
  <2>2. Slots(c)[i] \in Elements(Pipe)
    BY <1>5, <2>1
  <2>3. Slots(c)[i] # f
    <3> SUFFICES ASSUME Slots(c)[i] = f PROVE FALSE
      OBVIOUS
    <3>1. c = b
      BY <2>1 DEF b, Slots, VppInv, ChainsFit, Task
    <3>2. i # m
      BY <1>4, <1>13, <3>1
    <3>3. m < i
      BY <1>2, <2>1, <3>1, <3>2 DEF b
    <3>4. f.nth < f.nth
      BY <1>1, <1>2, <1>5, <2>1, <3>1, <3>3 DEF b
    <3> QED BY <1>6, <3>4
  <2> QED BY <1>8, <2>1, <2>2, <2>3
<1>14. ASSUME NEW c \in Buf \ new, NEW i \in Held(chain'[c], "dec"), NEW j \in Held(chain'[c], "dec"), i < j
       PROVE  Slots(c)'[i].nth < Slots(c)'[j].nth
  BY <1>5, <1>11, <1>14
<1>15. ASSUME NEW i \in 1..Len(Pipe'), NEW j \in 1..Len(Pipe'), i < j, Pipe'[i].fb = Pipe'[j].fb
       PROVE  Pipe'[i].nth < Pipe'[j].nth
  <2>1. i + 1 \in 1..Len(Pipe) /\ j + 1 \in 1..Len(Pipe) /\ i + 1 < j + 1
    BY <1>8, <1>15
  <2> QED BY <1>5, <1>8, <1>15, <2>1
<1>16. more' # NoBuf => \A i \in Held(chain'[more'], "dec") : i = 1 /\ Slots(more)'[i].nth = 1
  <2> SUFFICES ASSUME more # NoBuf, NEW i \in Held(chain'[more], "dec") PROVE i = 1 /\ Slots(more)'[i].nth = 1
    BY DEF Slots
  <2>1. more \in Buf
    BY Types
  <2>2. i \in Held(chain[more], "dec") /\ chain'[more].vframe["dec"][i] = chain[more].vframe["dec"][i]
    BY <1>11, <2>1 DEF Slots
  <2> QED BY <1>5, <2>2 DEF Slots
<1>17. Elements(Pipe)' = Elements(Pipe')
  BY DEF Elements
<1> QED BY <1>12, <1>13, <1>14, <1>15, <1>16, <1>17 DEF FieldsRemembered

(* With the first field that comes back one of the counted ones goes, with *)
(* the last one the buffer is the decoder's.                               *)
LEMMA RecycleKeeps ==
  ASSUME VppInv, VppInv', OnInv, phase = "on", Recycle
  PROVE  OnInv'
<1>1. emptied # <<>> /\ emptied' = <<>> /\ Len(emptied) <= 1 /\ emptied \in Seq(Frame)
  BY Types DEF Recycle, VppInv, ChainsFit
<1>2. PICK f \in Frame : emptied = <<f>>
  BY <1>1, OnlyOne
<1>3. PICK b : b = f.fb
  OBVIOUS
<1>4. ChainsLinked /\ StagesRemember /\ OneOwner /\ InputsCount /\ FieldsRemembered
  BY DEF OnInv
<1>5. /\ ~ mode.is_prog /\ b \in Buf \ new /\ pool[b] = "dec" /\ Linked(chain[b], "dec", "vpp")
      /\ Top(chain[b], "dec") = f /\ f # NoFrame /\ vf_ref[b] \in 1..2 /\ spec[b] = "out"
  BY <1>2, <1>3, <1>4, EmptiedFacts
<1>6. /\ chain' = [chain EXCEPT ![b] = Pop(chain[b], "dec")]
      /\ vf_ref' = [vf_ref EXCEPT ![b] = vf_ref[b] - 1]
      /\ spec' = IF vf_ref[b] <= 1 THEN [spec EXCEPT ![b] = "kept"] ELSE spec
      /\ input' = input + 1
      /\ UNCHANGED <<phase, mode, pool, in_done_q, out_done_q, reading, filling, done, putting, capture, posting,
                     user, new, ready, token_table, more, output, out_buf, pc>>
  <2>1. Head(emptied) = f
    BY <1>2
  <2>2. RecycleToDec(chain, b) /\ "dec" \in Precedes(chain[b], "vpp")
    BY <1>3, <1>5, <2>1 DEF Recycle, Linked
  <2>3. PutVframe(b) /\ chain' = [chain EXCEPT ![b] = Pop(chain[b], "dec")]
    BY <1>3, <1>5, <2>2 DEF RecycleToDec
  <2> QED BY <2>3 DEF PutVframe, Recycle, queueVars, threadVars, outVars
<1>7. /\ chain \in [Buf -> Chain(Frame)] /\ "dec" \in Task /\ "vpp" \in Task \ {"dec"}
      /\ vf_ref \in [Buf -> 0..2] /\ spec \in [Buf -> {"none", "free", "used", "out", "kept"}]
      /\ in_done_q \in Seq(Frame) /\ reading \in Seq(Frame) /\ filling \in Seq(Frame) /\ input \in Nat
  BY Types DEF Task
<1>8. \A x \in Buf : /\ SameLinks(chain'[x], chain[x])
                     /\ \A i \in 1..3 : chain'[x].vframe["vpp"][i] = chain[x].vframe["vpp"][i]
  <2>1. chain'[b] = Pop(chain[b], "dec") /\ \A x \in Buf : x # b => chain'[x] = chain[x]
    BY <1>5, <1>6, <1>7
  <2>2. /\ SameLinks(chain'[b], chain[b])
        /\ \A i \in 1..3 : chain'[b].vframe["vpp"][i] = chain[b].vframe["vpp"][i]
    BY <1>5, <1>7, <2>1, PopLinks, PopFacts
  <2> QED BY <2>1, <2>2 DEF SameLinks
<1>9. /\ Elements(filling)' = Elements(filling) /\ Elements(output)' = Elements(output)
      /\ LastStage' = LastStage /\ Shown' = Shown
  BY <1>6 DEF Elements, LastStage, Shown, OnWayOut
<1>10. InputsCount'
  <2> DEFINE i == Len(in_done_q)
             r == Len(reading)
             n == Cardinality(Refs)
  <2>1. i \in Nat /\ r \in Nat /\ n \in Nat
    BY <1>7, RefsFinite
  <2>2. Cardinality(Refs') = n - 1
    <3>1. b \in Buf /\ vf_ref[b] >= 1
      BY <1>5
    <3> QED BY <1>6, <1>7, <3>1, RefDown
  <2>3. Len(emptied) = 1 /\ Len(emptied') = 0
    BY <1>1, <1>2
  <2>4. InSize = input + i + (r + 1) /\ n = i + r + 1
    BY <1>4, <1>5, <2>3 DEF InputsCount
  <2>5. ~ mode.is_prog /\ pc # "pair" => out_buf = NoBuf
    BY <1>4 DEF InputsCount
  <2> HIDE DEF i, r, n
  <2>6. InSize = input' + i + (r + 0) /\ Cardinality(Refs') = i + r + 0
    BY <1>6, <1>7, <2>1, <2>2, <2>4
  <2> QED BY <1>5, <1>6, <2>3, <2>5, <2>6 DEF InputsCount, i, r
<1>11. ChainsLinked'
  BY <1>4, <1>6, <1>8, <1>9, LinksStay
<1>12. StagesRemember'
  BY <1>4, <1>5, <1>6, <1>8, <1>9, StagesStay
<1>13. FieldsRemembered'
  BY <1>1, <1>2, <1>3, <1>4, <1>6, FieldBack
<1>14. OneOwner'
  <2>1. ASSUME NEW x \in Buf
        PROVE  DecoderHas(x)' + InputHas(x)' = DecoderHas(x) + InputHas(x)
    <3>1. /\ InputHas(x) = IF vf_ref[x] > 0 THEN 1 ELSE 0
          /\ InputHas(x)' = IF vf_ref'[x] > 0 THEN 1 ELSE 0
          /\ DecoderHas(x) = IF spec[x] \in {"used", "kept", "free"} THEN 1 ELSE 0
          /\ DecoderHas(x)' = IF spec'[x] \in {"used", "kept", "free"} THEN 1 ELSE 0
      BY <1>5, <1>6 DEF InputHas, DecoderHas, Here
    <3>2. CASE x # b
      <4>1. vf_ref'[x] = vf_ref[x] /\ spec'[x] = spec[x]
        BY <1>6, <1>7, <3>2
      <4> QED BY <3>1, <4>1
    <3>3. CASE x = b
      <4>1. vf_ref'[x] = vf_ref[b] - 1 /\ spec'[x] = IF vf_ref[b] <= 1 THEN "kept" ELSE spec[b]
        BY <1>5, <1>6, <1>7, <3>3
      <4>2. CASE vf_ref[b] = 1
        BY <1>5, <3>1, <3>3, <4>1, <4>2
      <4>3. CASE vf_ref[b] = 2
        BY <1>5, <3>1, <3>3, <4>1, <4>3
      <4> QED BY <1>5, <4>2, <4>3
    <3> QED BY <3>2, <3>3
  <2>2. \A x \in Buf : /\ DriverHas(x)' = DriverHas(x) /\ DiHas(x)' = DiHas(x)
                       /\ CaptureHas(x)' = CaptureHas(x) /\ OutputHas(x)' = OutputHas(x)
    BY <1>6 DEF DriverHas, DiHas, CaptureHas, OutputHas
  <2>3. FieldsOwned'
    <3>1. \A x : Pictures(x, emptied) = IF f.fb = x THEN 1 ELSE 0
      <4> TAKE x
      <4>1. Tail(emptied) = <<>> /\ Head(emptied) = f
        BY <1>2
      <4>2. Pictures(x, Tail(emptied)) = 0
        <5>1. <<>> \in Seq(Frame) /\ \A g \in Elements(<<>>) : FALSE
          BY DEF Elements
        <5> QED BY <4>1, <5>1, PicturesNone
      <4>3. Pictures(x, emptied) = Pictures(x, Tail(emptied)) + (IF Head(emptied).fb = x THEN 1 ELSE 0)
        BY <1>1, AfterTake
      <4> QED BY <4>1, <4>2, <4>3
    <3>2. \A x : Pictures(x, emptied') = 0
      <4>1. emptied' \in Seq(Frame) /\ \A g \in Elements(emptied') : FALSE
        BY <1>1 DEF Elements
      <4> QED BY <4>1, PicturesNone
    <3>3. ASSUME NEW x \in Buf PROVE vf_ref'[x] = Fields(x)'
      <4>1. vf_ref[x] = Pictures(x, in_done_q) + Pictures(x, reading) + (IF f.fb = x THEN 1 ELSE 0)
        BY <1>4, <1>5, <3>1 DEF OneOwner, Fields
      <4>2. Fields(x)' = Pictures(x, in_done_q) + Pictures(x, reading) + 0
        BY <1>6, <3>2 DEF Fields
      <4>3. Pictures(x, in_done_q) \in Nat /\ Pictures(x, reading) \in Nat
        BY Counts
      <4>4. vf_ref'[x] = IF x = b THEN vf_ref[x] - 1 ELSE vf_ref[x]
        BY <1>5, <1>6, <1>7
      <4> QED BY <1>3, <4>1, <4>2, <4>3, <4>4
    <3> QED BY <3>3 DEF FieldsOwned
  <2>4. Grouped /\ Grouped'
    BY GroupsNow, GroupsNext
  <2>5. \A x \in Buf :
          DriverHas(x)' + DecoderHas(x)' + InputHas(x)' + DiHas(x)' + CaptureHas(x)' + OutputHas(x)'
          = DriverHas(x) + DecoderHas(x) + InputHas(x) + DiHas(x) + CaptureHas(x) + OutputHas(x)
    BY <2>1, <2>2, <2>4 DEF Grouped
  <2> QED BY <1>4, <2>3, <2>5, StillOneOwner
<1> QED BY <1>10, <1>11, <1>12, <1>13, <1>14 DEF OnInv

LEMMA WorkerGetKeeps ==
  ASSUME VppInv, VppInv', OnInv, phase = "on", WorkerGet
  PROVE  OnInv'
<1> DEFINE f == Head(capture)
<1>1. /\ capture # <<>> /\ posting = <<>> /\ capture' = Tail(capture) /\ posting' = <<f>>
      /\ UNCHANGED <<phase, mode, pool, chain, in_done_q, out_done_q, reading, emptied, filling, done, putting,
                     user, new, ready, token_table, spec, vf_ref, more, output, out_buf, pc, input>>
  BY DEF WorkerGet, queueVars, decVars, fieldVars, fifoVars, threadVars, diVars
<1>2. /\ f \in Frame /\ Elements(capture) = Elements(Tail(capture)) \cup {f}
      /\ \A b : /\ Pictures(b, Tail(capture)) \in Nat
                /\ Pictures(b, capture) = Pictures(b, Tail(capture)) + (IF f.fb = b THEN 1 ELSE 0)
  BY <1>1, Types, AfterTake
<1> HIDE DEF f
<1>3. \A b : Pictures(b, posting) = 0 /\ Pictures(b, posting') = IF f.fb = b THEN 1 ELSE 0
  <2> TAKE b
  <2>1. posting \in Seq(Frame) /\ posting' = Append(posting, f) /\ \A g \in Elements(posting) : FALSE
    BY <1>1, Types DEF Elements
  <2>2. Pictures(b, posting) = 0
    BY <2>1, PicturesNone
  <2>3. Pictures(b, Append(posting, f)) = Pictures(b, posting) + (IF f.fb = b THEN 1 ELSE 0)
    BY <1>2, <2>1, AfterAppend
  <2> QED BY <2>1, <2>2, <2>3
<1>4. /\ Elements(in_done_q)' = Elements(in_done_q) /\ Elements(filling)' = Elements(filling)
      /\ Elements(out_done_q)' = Elements(out_done_q) /\ Elements(output)' = Elements(output)
      /\ LastStage' = LastStage /\ Shown' = Shown
  <2>1. /\ Elements(posting) = {} /\ Elements(posting)' = {f} /\ Elements(capture)' = Elements(Tail(capture))
        /\ Elements(putting)' = Elements(putting)
    BY <1>1 DEF Elements
  <2>2. /\ Elements(in_done_q)' = Elements(in_done_q) /\ Elements(filling)' = Elements(filling)
        /\ Elements(out_done_q)' = Elements(out_done_q) /\ Elements(output)' = Elements(output)
        /\ LastStage' = LastStage
    BY <1>1 DEF Elements, LastStage
  <2> QED BY <1>1, <1>2, <2>1, <2>2 DEF Shown, OnWayOut
<1>5. ChainsLinked /\ StagesRemember /\ OneOwner /\ InputsCount /\ FieldsRemembered
  BY DEF OnInv
<1>6. InputsCount'
  BY <1>1, <1>5, InputsSame DEF InputsCount
<1>7. ChainsLinked'
  BY <1>1, <1>4, <1>5, LinksStay DEF SameLinks
<1>8. StagesRemember'
  BY <1>1, <1>4, <1>5, StagesStay DEF InHand
<1>9. FieldsRemembered'
  BY <1>1, <1>5, FieldsStay DEF Pipe, Slots
<1>10. OneOwner'
  <2>1. ASSUME NEW b \in Buf PROVE CaptureHas(b)' = CaptureHas(b)
    <3> DEFINE u == Cardinality(PicturesOf(b, user))
    <3>1. u \in Nat
      BY Counts
    <3>2. /\ CaptureHas(b) = Pictures(b, capture) + Pictures(b, posting) + u
          /\ CaptureHas(b)' = Pictures(b, Tail(capture)) + Pictures(b, posting') + u
      BY <1>1 DEF CaptureHas
    <3> HIDE DEF u
    <3> QED BY <1>2, <1>3, <3>1, <3>2
  <2>2. \A b \in Buf : /\ DriverHas(b)' = DriverHas(b) /\ DecoderHas(b)' = DecoderHas(b)
                       /\ InputHas(b)' = InputHas(b) /\ DiHas(b)' = DiHas(b) /\ OutputHas(b)' = OutputHas(b)
    BY <1>1 DEF DriverHas, DecoderHas, InputHas, DiHas, OutputHas
  <2>3. FieldsOwned'
    BY <1>1, <1>5, OwnedSame
  <2> QED BY <1>5, <2>1, <2>2, <2>3, StillOneOwner
<1> QED BY <1>6, <1>7, <1>8, <1>9, <1>10 DEF OnInv

LEMMA PostKeeps ==
  ASSUME VppInv, VppInv', OnInv, phase = "on", Post
  PROVE  OnInv'
<1>1. /\ posting # <<>> /\ posting' = <<>> /\ user' = user \cup {Head(posting)}
      /\ UNCHANGED <<phase, mode, pool, chain, in_done_q, out_done_q, reading, emptied, filling, done, putting,
                     capture, new, ready, token_table, spec, vf_ref, more, output, out_buf, pc, input>>
  BY DEF Post, queueVars, decVars, fieldVars, fifoVars, threadVars, diVars
<1>2. PICK f \in Frame : posting = <<f>>
  <2>1. Len(posting) <= 1 /\ posting \in Seq(Frame)
    BY Types DEF VppInv, ChainsFit
  <2> QED BY <1>1, <2>1, OnlyOne
<1>3. Head(posting) = f /\ Tail(posting) = <<>> /\ user' = user \cup {f} /\ posting \in Seq(Frame)
  BY <1>1, <1>2, Types
<1>4. \A b : Pictures(b, posting) = (IF f.fb = b THEN 1 ELSE 0) /\ Pictures(b, posting') = 0
  <2> TAKE b
  <2>1. <<>> \in Seq(Frame) /\ \A g \in Elements(<<>>) : FALSE
    BY DEF Elements
  <2>2. Pictures(b, <<>>) = 0
    BY <2>1, PicturesNone
  <2>3. Pictures(b, posting) = Pictures(b, Tail(posting)) + (IF Head(posting).fb = b THEN 1 ELSE 0)
    BY <1>1, <1>3, AfterTake
  <2>4. Pictures(b, Tail(posting)) = 0 /\ Pictures(b, posting') = 0
    BY <1>1, <1>3, <2>2
  <2> QED BY <1>3, <2>3, <2>4
<1>5. /\ Elements(in_done_q)' = Elements(in_done_q) /\ Elements(filling)' = Elements(filling)
      /\ Elements(out_done_q)' = Elements(out_done_q) /\ Elements(output)' = Elements(output)
      /\ LastStage' = LastStage /\ Shown' = Shown
  <2>1. /\ Elements(posting) = {f} /\ Elements(posting)' = {} /\ Elements(capture)' = Elements(capture)
        /\ Elements(putting)' = Elements(putting)
    BY <1>1, <1>2 DEF Elements
  <2>2. /\ Elements(in_done_q)' = Elements(in_done_q) /\ Elements(filling)' = Elements(filling)
        /\ Elements(out_done_q)' = Elements(out_done_q) /\ Elements(output)' = Elements(output)
        /\ LastStage' = LastStage
    BY <1>1 DEF Elements, LastStage
  <2> QED BY <1>3, <2>1, <2>2 DEF Shown, OnWayOut
<1>6. ChainsLinked /\ StagesRemember /\ OneOwner /\ InputsCount /\ FieldsRemembered
  BY DEF OnInv
<1>7. InputsCount'
  BY <1>1, <1>6, InputsSame DEF InputsCount
<1>8. ChainsLinked'
  BY <1>1, <1>5, <1>6, LinksStay DEF SameLinks
<1>9. StagesRemember'
  BY <1>1, <1>5, <1>6, StagesStay DEF InHand
<1>10. FieldsRemembered'
  BY <1>1, <1>6, FieldsStay DEF Pipe, Slots
<1>11. OneOwner'
  <2>1. f \notin user
    <3>1. f \in Elements(posting) /\ f.fb \in Buf
      BY <1>2, FrameFacts DEF Elements
    <3> QED BY <1>6, <3>1, Apart
  <2>2. ASSUME NEW b \in Buf PROVE CaptureHas(b)' = CaptureHas(b)
    <3> DEFINE u == Cardinality(PicturesOf(b, user))
               v == Cardinality(PicturesOf(b, user'))
               k == Pictures(b, capture)
    <3>1. u \in Nat /\ k \in Nat
      BY Counts
    <3>2. v = u + (IF f.fb = b THEN 1 ELSE 0)
      <4>1. user \in SUBSET Frame
        BY Types
      <4>2. Cardinality(PicturesOf(b, user \cup {f})) = Cardinality(PicturesOf(b, user)) + Here(f.fb = b)
        BY <2>1, <4>1, UserFacts
      <4> QED BY <1>3, <4>2 DEF Here
    <3>3. /\ CaptureHas(b) = k + Pictures(b, posting) + u
          /\ CaptureHas(b)' = k + Pictures(b, posting') + v
      BY <1>1 DEF CaptureHas, PicturesOf
    <3> HIDE DEF u, v, k
    <3> QED BY <1>4, <3>1, <3>2, <3>3
  <2>3. \A b \in Buf : /\ DriverHas(b)' = DriverHas(b) /\ DecoderHas(b)' = DecoderHas(b)
                       /\ InputHas(b)' = InputHas(b) /\ DiHas(b)' = DiHas(b) /\ OutputHas(b)' = OutputHas(b)
    BY <1>1 DEF DriverHas, DecoderHas, InputHas, DiHas, OutputHas
  <2>4. FieldsOwned'
    BY <1>1, <1>6, OwnedSame
  <2> QED BY <1>6, <2>2, <2>3, <2>4, StillOneOwner
<1> QED BY <1>7, <1>8, <1>9, <1>10, <1>11 DEF OnInv

(* A buffer nobody has allocated has no picture in it.                     *)
LEMMA NoPictures ==
  ASSUME VppInv, OnInv, phase = "on", NEW b \in Buf, pool[b] = "m2m"
  PROVE  \A x \in InHand \cup Elements(Pipe) : x.fb \in Buf /\ x.fb # b
<1>1. ChainsLinked /\ LastStage # "m2m"
  BY DEF OnInv, LastStage
<1>2. \A x \in Elements(filling) \cup Shown : pool[x.fb] # "m2m"
  BY <1>1 DEF ChainsLinked
<1>3. \A x \in Elements(in_done_q) : pool[x.fb] = "dec"
  BY DEF VppInv, InUse, Elements
<1>4. \A x \in Elements(out_done_q) : x.fb = done /\ pool[done] # "m2m"
  <2>1. \A x \in Elements(out_done_q) : x.fb = done /\ done # NoBuf
    BY DoneFacts DEF Elements
  <2> QED BY <1>1, <2>1 DEF ChainsLinked
<1>5. \A x \in InHand : x \in Frame
  BY Types, ElementsFacts DEF InHand, Shown, OnWayOut
<1>6. \A x \in Elements(Pipe) : x.fb \in Buf /\ pool[x.fb] = "dec"
  BY PipeFacts
<1>7. \A x \in InHand : x.fb # b
  BY <1>2, <1>3, <1>4 DEF InHand
<1> QED BY <1>5, <1>6, <1>7, FrameFacts

LEMMA QueueNewKeeps ==
  ASSUME VppInv, VppInv', OnInv, phase = "on", NEW b \in Buf, QueueNew(b)
  PROVE  OnInv'
<1>1. /\ b \in new /\ new' = new \ {b} /\ ready' = Append(ready, b)
      /\ chain' = [chain EXCEPT ![b] = Clean(chain[b])]
      /\ UNCHANGED <<phase, mode, pool, in_done_q, out_done_q, reading, emptied, filling, done, putting, capture,
                     posting, user, token_table, spec, vf_ref, more, output, out_buf, pc, input>>
  BY DEF QueueNew, decVars, fieldVars, fifoVars, threadVars, diVars, outVars
<1>2. pool[b] = "m2m" /\ LastStage # "m2m"
  BY <1>1 DEF VppInv, TableApart, LastStage
<1>3. chain \in [Buf -> Chain(Frame)] /\ ready \in Seq(Buf)
  BY Types
<1>4. \A x \in Buf : x # b => chain'[x] = chain[x]
  BY <1>1, <1>3
<1>5. /\ Elements(in_done_q)' = Elements(in_done_q)
      /\ Elements(filling)' = Elements(filling) /\ Elements(output)' = Elements(output)
      /\ Elements(out_done_q)' = Elements(out_done_q) /\ LastStage' = LastStage /\ Shown' = Shown
  BY <1>1 DEF Elements, LastStage, Shown, OnWayOut
<1>6. ChainsLinked /\ StagesRemember /\ OneOwner /\ InputsCount /\ FieldsRemembered
  BY DEF OnInv
<1>7. InputsCount'
  BY <1>1, <1>6, InputsSame DEF InputsCount
<1>8. ChainsLinked'
  <2>1. \A x \in Buf : /\ pool'[x] = "dec" => Linked(chain'[x], "dec", "vpp")
                       /\ pool'[x] = LastStage' => Linked(chain'[x], "vpp", "sink")
    BY <1>1, <1>2, <1>4, <1>5, <1>6 DEF ChainsLinked
  <2> QED BY <1>1, <1>5, <1>6, <2>1 DEF ChainsLinked
<1>9. StagesRemember'
  <2>1. \A t, x : x.fb \in Buf /\ x.fb # b => (Remembers(t, x)' <=> Remembers(t, x))
    BY <1>4 DEF Remembers
  <2>2. \A x \in InHand : x.fb \in Buf /\ x.fb # b
    BY <1>2, NoPictures
  <2>3. InHand' = InHand
    BY <1>5 DEF InHand
  <2>4. mode'.is_prog => \A x \in InHand' : Remembers("dec", x)'
    BY <1>1, <1>6, <2>1, <2>2, <2>3 DEF StagesRemember, InHand
  <2>5. \A x \in Shown' : Remembers("vpp", x)'
    BY <1>5, <1>6, <2>1, <2>2 DEF StagesRemember, InHand
  <2>6. \A x \in Buf : pool'[x] # "m2m" /\ Held(chain'[x], "vpp") # {} => \E f \in Shown' : f.fb = x
    BY <1>1, <1>2, <1>4, <1>5, <1>6 DEF StagesRemember
  <2> QED BY <2>4, <2>5, <2>6 DEF StagesRemember, InHand
<1>10. FieldsRemembered'
  <2>1. \A k \in 1..3 : Slots(b)'[k] = NoFrame
    BY <1>1, <1>3 DEF Slots, Clean, NewChain, Task
  <2>2. \A f \in Elements(Pipe) : f.fb # b
    BY <1>2, NoPictures
  <2>3. \A x \in Buf : x # b => (x \in new => x \in new') /\ \A k \in 1..3 : Slots(x)'[k] = Slots(x)[k]
    BY <1>1, <1>4 DEF Slots
  <2>4. Pipe' = Pipe
    BY <1>1 DEF Pipe
  <2> QED BY <1>1, <1>6, <2>1, <2>2, <2>3, <2>4, FieldsStay
<1>11. OneOwner'
  <2>1. ASSUME NEW x \in Buf PROVE DriverHas(x)' = DriverHas(x)
    <3> DEFINE t == Here(x \in token_table)
    <3>1. t \in Nat /\ Often(x, ready) \in Nat
      BY Counts
    <3>2. Often(x, Append(ready, b)) = Often(x, ready) + (IF b = x THEN 1 ELSE 0)
      BY <1>3, OftenAppend, Zenon
    <3>3. /\ DriverHas(x) = (IF x \in new THEN 1 ELSE 0) + Often(x, ready) + t
          /\ DriverHas(x)' = (IF x \in new' THEN 1 ELSE 0) + Often(x, Append(ready, b)) + t
      BY <1>1 DEF DriverHas, Here
    <3> HIDE DEF t
    <3>4. (IF x \in new THEN 1 ELSE 0) = (IF x \in new' THEN 1 ELSE 0) + (IF b = x THEN 1 ELSE 0)
      BY <1>1
    <3> QED BY <3>1, <3>2, <3>3, <3>4
  <2>2. \A x \in Buf : /\ DecoderHas(x)' = DecoderHas(x) /\ DiHas(x)' = DiHas(x)
                       /\ InputHas(x)' = InputHas(x)
                       /\ CaptureHas(x)' = CaptureHas(x) /\ OutputHas(x)' = OutputHas(x)
    BY <1>1 DEF DecoderHas, InputHas, DiHas, CaptureHas, OutputHas
  <2>3. FieldsOwned'
    BY <1>1, <1>6, OwnedSame
  <2> QED BY <1>6, <2>1, <2>2, <2>3, StillOneOwner
<1> QED BY <1>7, <1>8, <1>9, <1>10, <1>11 DEF OnInv

LEMMA QueueAgainKeeps ==
  ASSUME VppInv, VppInv', OnInv, phase = "on", NEW b \in Buf, QueueAgain(b)
  PROVE  OnInv'
<1>1. PICK g \in user : g.fb = b /\ user' = user \ {g}
  BY DEF QueueAgain
<1>2. PICK f : f = Top(chain[b], "vpp")
  OBVIOUS
<1>3. PICK c : c = [chain EXCEPT ![b] = Pop(chain[b], "vpp")]
  OBVIOUS
<1>4. /\ IF mode.is_prog THEN RecycleToDec(c, f.fb) ELSE chain' = c /\ UNCHANGED <<spec, vf_ref>>
      /\ output' = Append(output, f.fb)
      /\ UNCHANGED <<phase, mode, pool, in_done_q, out_done_q, reading, emptied, filling, done, putting, capture,
                     posting, new, ready, token_table, more, out_buf, pc, input>>
  BY <1>2, <1>3 DEF QueueAgain, queueVars, threadVars, diVars
<1>5. /\ chain \in [Buf -> Chain(Frame)] /\ user \in SUBSET Frame /\ g \in Frame /\ g \in Shown
      /\ spec \in [Buf -> {"none", "free", "used", "out", "kept"}] /\ vf_ref \in [Buf -> 0..2]
      /\ output \in Seq(Buf \cup {NoBuf}) /\ b \in Buf \cup {NoBuf}
  BY Types DEF Shown
<1>6. {"dec", "vpp"} \subseteq Task /\ "vpp" \in Task /\ "dec" \in Task \ {"vpp"} /\ "vpp" \in Task \ {"dec"}
  BY DEF Task
<1>7. ChainsLinked /\ StagesRemember /\ OneOwner /\ InputsCount /\ FieldsRemembered
  BY DEF OnInv
<1>8. pool[b] = LastStage /\ LastStage \in {"dec", "vpp"} /\ b \notin new
  BY <1>1, <1>5, <1>7 DEF ChainsLinked, LastStage, VppInv, TableApart
<1>9. OnlyHolds(chain[b], "vpp", g) /\ f = g /\ f.fb = b
  <2>1. OnlyHolds(chain[b], "vpp", g)
    BY <1>1, <1>5, <1>7 DEF StagesRemember, Remembers
  <2>2. Top(chain[b], "vpp") = g
    BY <1>5, <2>1, HoldsTop
  <2> QED BY <1>1, <1>2, <2>1, <2>2
<1>10. PICK p : p = Pop(chain[b], "vpp")
  OBVIOUS
<1>11. /\ p \in Chain(Frame) /\ Held(p, "vpp") = {} /\ SameLinks(p, chain[b])
       /\ \A i \in 1..3 : p.vframe["dec"][i] = chain[b].vframe["dec"][i]
       /\ Held(p, "dec") = Held(chain[b], "dec")
       /\ \A x : OnlyHolds(p, "dec", x) <=> OnlyHolds(chain[b], "dec", x)
  BY <1>5, <1>6, <1>9, <1>10, HoldsPop, PopFacts, PopLinks, PopOthers
<1>12. c[b] = p /\ \A x \in Buf : x # b => c[x] = chain[x]
  BY <1>3, <1>5, <1>10
<1>13. mode.is_prog =>
         /\ chain' = [c EXCEPT ![b] = Pop(p, "dec")] /\ spec' = [spec EXCEPT ![b] = "kept"]
         /\ spec[b] = "out"
  <2> SUFFICES ASSUME mode.is_prog
               PROVE  /\ chain' = [c EXCEPT ![b] = Pop(p, "dec")] /\ spec' = [spec EXCEPT ![b] = "kept"]
                      /\ spec[b] = "out"
    OBVIOUS
  <2>1. OnlyHolds(chain[b], "dec", g)
    BY <1>1, <1>5, <1>7 DEF StagesRemember, Remembers
  <2>2. Top(p, "dec") = g /\ g # NoFrame /\ Cardinality(Held(p, "dec")) = 1
    BY <1>5, <1>11, <2>1, HoldsTop, FrameFacts
  <2>3. pool[b] = "dec"
    BY <1>8 DEF LastStage
  <2>4. Linked(chain[b], "dec", "vpp")
    BY <1>7, <2>3 DEF ChainsLinked
  <2>5. "dec" \in Precedes(p, "vpp")
    BY <1>11, <2>4, LinksKept DEF Linked
  <2>6. vf_ref[b] = 1 /\ spec[b] = "out"
    <3>1. vf_ref[b] = Cardinality(Held(chain[b], "dec"))
      BY <1>8 DEF VppInv, FieldsCounted
    <3> QED BY <1>11, <2>2, <3>1 DEF VppInv, FieldsCounted
  <2>7. RecycleToDec(c, b)
    BY <1>4, <1>9
  <2>8. PutVframe(b) /\ chain' = [c EXCEPT ![b] = Pop(p, "dec")]
    BY <1>1, <1>12, <2>2, <2>5, <2>7 DEF RecycleToDec
  <2> QED BY <2>6, <2>8 DEF PutVframe
<1>14. /\ Held(chain'[b], "vpp") = {} /\ SameLinks(chain'[b], chain[b])
       /\ \A x \in Buf : x # b => chain'[x] = chain[x]
  <2>1. CASE mode.is_prog
    <3>1. chain'[b] = Pop(p, "dec") /\ \A x \in Buf : x # b => chain'[x] = chain[x]
      BY <1>3, <1>5, <1>12, <1>13, <2>1
    <3>2. Held(Pop(p, "dec"), "vpp") = {} /\ SameLinks(Pop(p, "dec"), p)
      BY <1>6, <1>11, PopOthers, PopLinks
    <3> QED BY <1>11, <3>1, <3>2 DEF SameLinks
  <2>2. CASE ~ mode.is_prog
    BY <1>4, <1>11, <1>12, <2>2
  <2> QED BY <2>1, <2>2
<1>15. \A x \in Elements(in_done_q) \cup Elements(filling) \cup Elements(out_done_q) \cup OnWayOut \cup (user \ {g}) :
         x.fb \in Buf /\ x.fb # b
  <2>1. /\ done # b
        /\ \A x \in Elements(filling) \cup Elements(capture) \cup Elements(posting) : x.fb # b
        /\ mode.is_prog => \A x \in Elements(in_done_q) : x.fb # b
    <3>1. \E x \in user : x.fb = b
      BY <1>1
    <3>2. done # b /\ InputHas(b) = 0
      <4>1. done = b \/ InputHas(b) # 0 => \A x \in user : x.fb # b
        BY <1>7, Apart
      <4>2. InputHas(b) \in Nat
        BY OwnersGroups
      <4> QED BY <3>1, <4>1, <4>2
    <3>3. \A x \in Elements(filling) \cup Elements(capture) \cup Elements(posting) : x.fb # b
      BY <1>7, <3>1, Apart
    <3>4. mode.is_prog => Pictures(b, in_done_q) = 0
      BY <3>2 DEF InputHas
    <3> QED BY <3>2, <3>3, <3>4, Counts
  <2>2. \A x \in user \ {g} : x.fb # b
    <3>1. \A x, y \in user : x.fb = b /\ y.fb = b => x = y
      BY <1>7, Apart
    <3> QED BY <1>1, <3>1
  <2>3. ~ mode.is_prog => \A x \in Elements(in_done_q) : x.fb # b
    <3>1. ~ mode.is_prog => pool[b] = "vpp"
      BY <1>8 DEF LastStage
    <3>2. \A x \in Elements(in_done_q) : pool[x.fb] = "dec"
      BY DEF VppInv, InUse, Elements
    <3> QED BY <3>1, <3>2
  <2>4. \A x \in Elements(out_done_q) \cup Elements(putting) : x.fb = done
    <3>1. CASE done = NoBuf
      <4>1. out_done_q = <<>> /\ putting = <<>>
        BY <3>1, DoneFacts
      <4> QED BY <4>1 DEF Elements
    <3>2. CASE done # NoBuf
      <4>1. PICK y \in Frame : y.fb = done /\ {out_done_q, putting} \subseteq {<<>>, <<y>>}
        BY <3>2, DoneFacts
      <4>2. Elements(<<>>) = {} /\ Elements(<<y>>) = {y}
        BY DEF Elements
      <4>3. Elements(out_done_q) \subseteq {y} /\ Elements(putting) \subseteq {y}
        BY <4>1, <4>2
      <4> QED BY <4>1, <4>3
    <3> QED BY <3>1, <3>2
  <2>5. \A x \in Elements(in_done_q) \cup Elements(filling) \cup Elements(out_done_q) \cup OnWayOut \cup user :
          x \in Frame
    BY Types, ElementsFacts DEF OnWayOut
  <2> QED BY <2>1, <2>2, <2>3, <2>4, <2>5, FrameFacts DEF OnWayOut
<1>16. /\ Elements(in_done_q)' = Elements(in_done_q)
       /\ Elements(filling)' = Elements(filling) /\ Elements(out_done_q)' = Elements(out_done_q)
       /\ LastStage' = LastStage /\ Shown' = OnWayOut \cup (user \ {g})
       /\ Shown = OnWayOut \cup user
       /\ Elements(output)' = Elements(output) \cup {b}
  <2>1. Elements(Append(output, b)) = Elements(output) \cup {b}
    BY <1>5, ElementsFacts
  <2>2. Elements(output)' = Elements(output')
    BY DEF Elements
  <2>3. Elements(output)' = Elements(output) \cup {b}
    BY <1>4, <1>9, <2>1, <2>2
  <2>4. /\ Elements(in_done_q)' = Elements(in_done_q)
        /\ Elements(filling)' = Elements(filling) /\ Elements(out_done_q)' = Elements(out_done_q)
        /\ LastStage' = LastStage /\ OnWayOut' = OnWayOut
    BY <1>4 DEF Elements, LastStage, OnWayOut
  <2>5. Shown' = OnWayOut \cup (user \ {g}) /\ Shown = OnWayOut \cup user
    BY <1>1, <2>4 DEF Shown
  <2> QED BY <2>3, <2>4, <2>5
<1>17. InputsCount'
  <2>1. mode.is_prog => InputsCount'
    BY <1>4, <1>7 DEF InputsCount
  <2>2. ~ mode.is_prog => InputsCount'
    <3> SUFFICES ASSUME ~ mode.is_prog PROVE InputsCount'
      OBVIOUS
    <3>1. vf_ref' = vf_ref
      BY <1>4
    <3> QED BY <1>4, <1>7, <3>1, InputsSame DEF InputsCount
  <2> QED BY <2>1, <2>2
<1>18. ChainsLinked'
  <2>1. \A x \in Buf : SameLinks(chain'[x], chain[x])
    BY <1>14 DEF SameLinks
  <2>2. ~ mode.is_prog => \A x \in Elements(output)' \cup {out_buf'} :
          x # NoBuf => x \in Elements(output) \cup {out_buf} \/ pool[x] = "vpp"
    BY <1>4, <1>8, <1>16 DEF LastStage
  <2> QED BY <1>4, <1>7, <1>16, <2>1, <2>2, LinksStay
<1>19. StagesRemember'
  <2>1. \A t, x : x.fb \in Buf /\ x.fb # b => (Remembers(t, x)' <=> Remembers(t, x))
    BY <1>14 DEF Remembers
  <2>2. mode'.is_prog => \A x \in InHand' : Remembers("dec", x)'
    BY <1>4, <1>7, <1>15, <1>16, <2>1 DEF StagesRemember, InHand
  <2>3. \A x \in Shown' : Remembers("vpp", x)'
    BY <1>7, <1>15, <1>16, <2>1 DEF StagesRemember
  <2>4. ASSUME NEW x \in Buf, pool'[x] # "m2m", Held(chain'[x], "vpp") # {}
        PROVE  \E y \in Shown' : y.fb = x
    <3>1. x # b
      BY <1>14, <2>4
    <3>2. \E y \in Shown : y.fb = x
      BY <1>4, <1>7, <1>14, <2>4, <3>1 DEF StagesRemember
    <3> QED BY <1>1, <1>16, <3>1, <3>2
  <2> QED BY <2>2, <2>3, <2>4 DEF StagesRemember, InHand
<1>20. FieldsRemembered'
  <2>1. CASE mode.is_prog
    BY <1>4, <2>1 DEF FieldsRemembered
  <2>2. CASE ~ mode.is_prog
    <3>1. \A x \in Buf, i \in 1..3 : Slots(x)'[i] = Slots(x)[i]
      <4>1. chain' = c
        BY <1>4, <2>2
      <4> QED BY <1>11, <1>12, <4>1 DEF Slots
    <3>2. Pipe' = Pipe
      BY <1>4 DEF Pipe
    <3> QED BY <1>4, <1>7, <3>1, <3>2, FieldsStay
  <2> QED BY <2>1, <2>2
<1>21. OneOwner'
  <2>1. ASSUME NEW x \in Buf
        PROVE  DecoderHas(x)' + CaptureHas(x)' + OutputHas(x)' = DecoderHas(x) + CaptureHas(x) + OutputHas(x)
    <3> DEFINE u == Cardinality(PicturesOf(x, user))
               v == Cardinality(PicturesOf(x, user \ {g}))
               o == Often(x, output)
               k == Pictures(x, capture) + Pictures(x, posting)
    <3>1. v \in Nat /\ u = v + (IF b = x THEN 1 ELSE 0)
      <4>1. v \in Nat /\ u = v + Here(g.fb = x)
        <5>1. user \in SUBSET Frame /\ g \in user
          BY <1>1, <1>5
        <5>2. \A y \in user : Cardinality(PicturesOf(x, user))
                              = Cardinality(PicturesOf(x, user \ {y})) + Here(y.fb = x)
          BY <5>1, UserFacts
        <5>3. \A y \in user : Cardinality(PicturesOf(x, user \ {y})) \in Nat
          BY <5>1, UserFacts
        <5> QED BY <5>1, <5>2, <5>3
      <4>2. Here(g.fb = x) = IF b = x THEN 1 ELSE 0
        BY <1>1 DEF Here
      <4> HIDE DEF u, v
      <4> QED BY <4>1, <4>2
    <3>2. o \in Nat /\ k \in Nat
      BY Counts
    <3>3. Often(x, Append(output, b)) = o + (IF b = x THEN 1 ELSE 0)
      BY <1>5, OftenAppend, Zenon
    <3>4. CaptureHas(x) = k + u /\ CaptureHas(x)' = k + v
      BY <1>1, <1>4 DEF CaptureHas
    <3>5. CASE mode.is_prog
      <4>1. OutputHas(x) = 0 /\ OutputHas(x)' = 0
        BY <1>4, <3>5 DEF OutputHas
      <4>2. /\ x = b => DecoderHas(x) = 0 /\ DecoderHas(x)' = 1
            /\ x # b => DecoderHas(x)' = DecoderHas(x)
        BY <1>5, <1>13, <3>5 DEF DecoderHas, Here
      <4>3. DecoderHas(x) \in Nat
        BY OwnersGroups
      <4> HIDE DEF u, v, k
      <4> QED BY <3>1, <3>2, <3>4, <4>1, <4>2, <4>3
    <3>6. CASE ~ mode.is_prog
      <4>1. DecoderHas(x)' = DecoderHas(x) /\ DecoderHas(x) \in Nat
        <5>1. spec' = spec
          BY <1>4, <3>6
        <5> QED BY <5>1, OwnersGroups DEF DecoderHas
      <4> DEFINE h == Here(out_buf = x)
                 o1 == Often(x, Append(output, b))
      <4>2. OutputHas(x) = o + h /\ OutputHas(x)' = o1 + h
        BY <1>4, <1>9, <3>6 DEF OutputHas
      <4>3. h \in Nat
        BY Counts
      <4>4. o1 = o + (IF b = x THEN 1 ELSE 0)
        BY <3>3
      <4> HIDE DEF h, u, v, k, o, o1
      <4> QED BY <3>1, <3>2, <3>4, <4>1, <4>2, <4>3, <4>4
    <3> QED BY <3>5, <3>6
  <2>2. \A x \in Buf : DriverHas(x)' = DriverHas(x) /\ DiHas(x)' = DiHas(x)
    BY <1>4 DEF DriverHas, DiHas
  <2>3. \A x \in Buf : InputHas(x)' = InputHas(x)
    BY <1>4 DEF InputHas
  <2>4. FieldsOwned'
    <3>1. CASE mode.is_prog
      BY <1>4, <3>1 DEF FieldsOwned
    <3>2. CASE ~ mode.is_prog
      BY <1>4, <1>7, <3>2, OwnedSame
    <3> QED BY <3>1, <3>2
  <2>5. Grouped /\ Grouped'
    BY GroupsNow, GroupsNext
  <2>6. \A x \in Buf :
          DriverHas(x)' + DecoderHas(x)' + InputHas(x)' + DiHas(x)' + CaptureHas(x)' + OutputHas(x)'
          = DriverHas(x) + DecoderHas(x) + InputHas(x) + DiHas(x) + CaptureHas(x) + OutputHas(x)
    <3> TAKE x \in Buf
    <3> DEFINE d == DecoderHas(x)
               c0 == CaptureHas(x)
               o == OutputHas(x)
               d1 == DecoderHas(x)'
               c1 == CaptureHas(x)'
               o1 == OutputHas(x)'
               e == DriverHas(x)
               i == InputHas(x)
               j == DiHas(x)
    <3>1. d1 + c1 + o1 = d + c0 + o
      BY <2>1
    <3>2. DriverHas(x)' = e /\ InputHas(x)' = i /\ DiHas(x)' = j
      BY <2>2, <2>3
    <3>3. d \in Nat /\ c0 \in Nat /\ o \in Nat /\ e \in Nat /\ i \in Nat /\ j \in Nat
      BY <2>5 DEF Grouped
    <3>4. d1 \in Nat /\ c1 \in Nat /\ o1 \in Nat
      BY <2>5 DEF Grouped
    <3> HIDE DEF d, c0, o, d1, c1, o1, e, i, j
    <3>5. e + d1 + i + j + c1 + o1 = e + d + i + j + c0 + o
      BY <3>1, <3>3, <3>4
    <3> QED BY <3>2, <3>5 DEF d, c0, o, d1, c1, o1, e, i, j
  <2> QED BY <1>7, <2>4, <2>6, StillOneOwner
<1> QED BY <1>17, <1>18, <1>19, <1>20, <1>21 DEF OnInv

-----------------------------------------------------------------------------
(* The end of the stream and its start.                                    *)

(* What is empty is in nobody's way.                                       *)
LEMMA NothingHere ==
  ASSUME NEW b \in Buf
  PROVE  LET q == [i \in 1..OutSize |-> NoBuf]
         IN  /\ Often(b, <<>>) = 0 /\ Often(b, q) = 0 /\ Pictures(b, <<>>) = 0
             /\ Cardinality(PicturesOf(b, {})) = 0
             /\ Elements(<<>>) = {} /\ \A x \in Elements(q) : x = NoBuf
<1> DEFINE q == [i \in 1..OutSize |-> NoBuf]
<1>1. q \in Seq(Buf \cup {NoBuf}) /\ \A i \in 1..Len(q) : q[i] = NoBuf
  BY FreshFifos
<1> HIDE DEF q
<1>2. b # NoBuf
  BY FrameFacts
<1>3. Often(b, q) = 0
  <2>1. {i \in 1..Len(q) : q[i] = b} = {}
    BY <1>1, <1>2
  <2> QED BY <2>1, FS_EmptySet DEF Often
<1>4. Often(b, <<>>) = 0 /\ Pictures(b, <<>>) = 0
  <2>1. /\ {i \in 1..Len(<<>>) : <<>>[i] = b} = {}
        /\ {i \in 1..Len(<<>>) : <<>>[i].fb = b} = {}
    OBVIOUS
  <2> QED BY <2>1, FS_EmptySet DEF Often, Pictures
<1>5. Cardinality(PicturesOf(b, {})) = 0
  BY FS_EmptySet DEF PicturesOf
<1>6. Elements(<<>>) = {} /\ \A x \in Elements(q) : x = NoBuf
  BY <1>1 DEF Elements
<1> QED BY <1>3, <1>4, <1>5, <1>6 DEF q

(* When the stream begins every buffer is with the user, and all fifos are *)
(* empty.                                                                  *)
Fresh ==
  /\ mode \in Modes /\ new = Buf /\ ready = <<>> /\ token_table = {}
  /\ \A b \in Buf : pool[b] = "m2m" /\ spec[b] = "none" /\ vf_ref[b] = 0
  /\ capture = <<>> /\ posting = <<>> /\ putting = <<>> /\ user = {} /\ more = NoBuf
  /\ input = InSize /\ output = [i \in 1..OutSize |-> NoBuf] /\ in_done_q = <<>> /\ out_done_q = <<>>
  /\ reading = <<>> /\ emptied = <<>> /\ filling = <<>> /\ done = NoBuf
  /\ pc = "wait_in" /\ out_buf = NoBuf

LEMMA FreshOn == InputsForAll /\ Fresh => OnInv
<1> SUFFICES ASSUME InputsForAll, Fresh PROVE OnInv
  OBVIOUS
<1> DEFINE q == [i \in 1..OutSize |-> NoBuf]
<1>1. /\ mode \in Modes /\ new = Buf /\ ready = <<>> /\ token_table = {}
      /\ \A b \in Buf : pool[b] = "m2m" /\ spec[b] = "none" /\ vf_ref[b] = 0
      /\ capture = <<>> /\ posting = <<>> /\ putting = <<>> /\ user = {} /\ more = NoBuf
      /\ input = InSize /\ output = q /\ in_done_q = <<>> /\ out_done_q = <<>>
      /\ pc = "wait_in" /\ out_buf = NoBuf /\ reading = <<>> /\ emptied = <<>> /\ filling = <<>> /\ done = NoBuf
  BY DEF Fresh
<1>2. InSize \in Nat
  BY FreshFifos
<1>3. OneOwner
  <2>1. ASSUME NEW b \in Buf PROVE Owners(b) = 1 /\ Fields(b) = 0
    <3>1. /\ Often(b, <<>>) = 0 /\ Often(b, q) = 0 /\ Pictures(b, <<>>) = 0
          /\ Cardinality(PicturesOf(b, {})) = 0
      BY NothingHere
    <3>2. b # NoBuf
      BY FrameFacts
    <3> HIDE DEF q
    <3>3. Fields(b) = 0
      BY <1>1, <3>1 DEF Fields
    <3> QED BY <1>1, <3>1, <3>2, <3>3 DEF Owners, PicturesOf, Here
  <2> QED BY <1>1, <2>1 DEF OneOwner
<1>4. InputsCount
  <2>1. Len(<<>>) = 0
    OBVIOUS
  <2>2. mode.is_prog => mode.alloc
    BY <1>1 DEF InputsForAll
  <2>3. Cardinality(Refs) = 0
    BY <1>1, NoRefs DEF Refs
  <2> HIDE DEF q
  <2>4. Len(in_done_q) = 0 /\ Len(filling) = 0 /\ Len(reading) = 0 /\ Len(emptied) = 0
    BY <1>1, <2>1
  <2> QED BY <1>1, <1>2, <2>2, <2>3, <2>4 DEF InputsCount
<1>5. /\ Elements(<<>>) = {} /\ \A x \in Elements(q) : x = NoBuf
  <2>1. NumBuf \in Nat \ {0}
    BY VppAssumption
  <2>2. 1 \in Buf
    BY <2>1 DEF Buf
  <2> QED BY <2>2, NothingHere
<1> HIDE DEF q
<1>6. Shown = {}
  BY <1>1, <1>5 DEF Shown, OnWayOut
<1>7. ChainsLinked /\ StagesRemember
  BY <1>1, <1>5, <1>6 DEF ChainsLinked, StagesRemember, LastStage
<1>8. FieldsRemembered
  <2>1. Len(Pipe) = 0 /\ Elements(Pipe) = {}
    <3>1. <<>> \o <<>> = <<>> /\ Pipe = (<<>> \o <<>>) \o <<>>
      <4>1. <<>> \o <<>> = <<>>
        OBVIOUS
      <4> QED BY <1>1, <4>1 DEF Pipe
    <3>2. Pipe = <<>>
      BY <3>1
    <3> QED BY <1>5, <3>2
  <2> QED BY <1>1, <2>1 DEF FieldsRemembered
<1> QED BY <1>3, <1>4, <1>7, <1>8 DEF OnInv

LEMMA FreshNext == InputsForAll => (Fresh' => OnInv')
<1> SUFFICES ASSUME InputsForAll PROVE Fresh' => OnInv'
  OBVIOUS
<1>1. Fresh => OnInv
  BY FreshOn
<1> QED BY <1>1, PTL

LEMMA InitOn == InputsForAll /\ Init => OnInv
BY FreshOn DEF Init, Fresh

LEMMA StreamOnKeeps ==
  ASSUME InputsForAll, VppInv, StreamOn, phase' = "on"
  PROVE  OnInv'
<1>1. /\ ready = <<>> /\ token_table = {} /\ new = Buf /\ user = {} /\ more = NoBuf
      /\ \A b \in Buf : pool[b] = "m2m" /\ spec[b] = "none"
  BY DEF StreamOn, VppInv, TableApart, InUse, Promise
<1>2. \A b \in Buf : vf_ref[b] = 0
  <2> TAKE b \in Buf
  <2>1. vf_ref[b] \in 0..2 /\ (vf_ref[b] > 0 => spec[b] = "out")
    BY Types DEF VppInv, FieldsCounted
  <2> QED BY <1>1, <2>1
<1>3. done = NoBuf /\ putting = <<>> /\ capture = <<>> /\ posting = <<>>
  BY DoneFacts DEF StreamOn
<1>4. /\ ready' = <<>> /\ token_table' = {} /\ new' = Buf /\ user' = {} /\ more' = NoBuf
      /\ pool' = pool /\ spec' = spec /\ vf_ref' = vf_ref
      /\ putting' = <<>> /\ capture' = <<>> /\ posting' = <<>>
  BY <1>1, <1>3 DEF StreamOn, queueVars, decVars, fieldVars, outVars
<1>5. Fresh'
  <2>1. /\ mode' \in Modes /\ input' = InSize /\ output' = [i \in 1..OutSize |-> NoBuf]
        /\ in_done_q' = <<>> /\ out_done_q' = <<>> /\ pc' = "wait_in" /\ out_buf' = NoBuf
        /\ reading' = <<>> /\ emptied' = <<>> /\ filling' = <<>> /\ done' = NoBuf
    BY DEF StreamOn
  <2> QED BY <1>1, <1>2, <1>4, <2>1 DEF Fresh
<1> QED BY <1>5, FreshNext

LEMMA StutterKeeps ==
  ASSUME VppInv, VppInv', OnInv, phase = "on", UNCHANGED vars
  PROVE  OnInv'
<1>1. UNCHANGED <<mode, new, ready, token_table, pool, chain, in_done_q, out_done_q, reading, emptied, filling,
                  done, putting, capture, posting, user, vf_ref, input, more, pc, output, out_buf, spec>>
  BY DEF vars, queueVars, decVars, fieldVars, fifoVars, threadVars, diVars, outVars
<1>2. \A b \in Buf : /\ DriverHas(b)' = DriverHas(b) /\ DecoderHas(b)' = DecoderHas(b)
                     /\ OutputHas(b)' = OutputHas(b)
  BY <1>1 DEF DriverHas, DecoderHas, OutputHas
<1>3. /\ mode.is_prog => pc' \notin {"bind", "alloc"}
      /\ ~ mode.is_prog /\ pc' # "pair" => out_buf' = NoBuf
  BY <1>1 DEF OnInv, InputsCount
<1>4. Elements(output)' = Elements(output) /\ out_buf' = out_buf
  BY <1>1 DEF Elements
<1> QED BY <1>1, <1>2, <1>3, <1>4, Quiet

LEMMA OnNext ==
  ASSUME InputsForAll, VppInv, VppInv', OnInv, [Next]_vars
  PROVE  OnInv'
<1>1. CASE phase = "on" /\ phase' = "on"
  <2>1. CASE Queue
    BY <1>1, <2>1, QueueNewKeeps, QueueAgainKeeps DEF Queue
  <2>2. CASE Stream
    BY <1>1, <2>2 DEF Stream, StreamOff, StopDecoder, Drain, StreamOn
  <2>3. CASE Decoder
    <3>1. CASE \E b \in Buf : Output(b)
      BY <1>1, <3>1, OutputKeeps
    <3>2. CASE \E b \in Buf : Hide(b) \/ Unref(b)
      BY <1>1, <3>2, UseKeeps
    <3>3. CASE HaveFree \/ GetFree \/ SecondField
      BY <1>1, <3>3, HaveFreeKeeps, GetFreeKeeps, SecondFieldKeeps
    <3>4. CASE CountRaces
      BY <1>1, <3>4 DEF CountRaces
    <3> QED BY <2>3, <3>1, <3>2, <3>3, <3>4 DEF Decoder
  <2>4. CASE Thread
    BY <1>1, <2>4, WaitKeeps, TakeOutKeeps, AskBufferKeeps, BindKeeps, PairKeeps DEF Thread
  <2>5. CASE Di
    BY <1>1, <2>5, FillDoneKeeps, SubmitKeeps, PutCaptureKeeps, EmptyDoneKeeps, RecycleKeeps DEF Di
  <2>6. CASE Worker
    BY <1>1, <2>6, WorkerGetKeeps, PostKeeps DEF Worker
  <2>7. CASE UNCHANGED vars
    BY <1>1, <2>7, StutterKeeps
  <2> QED BY <2>1, <2>2, <2>3, <2>4, <2>5, <2>6, <2>7 DEF Next
<1>2. CASE phase' # "on"
  BY <1>2 DEF OnInv, OneOwner
<1>3. CASE phase # "on" /\ phase' = "on"
  <2>1. StreamOn
    <3>1. CASE Stream
      BY <1>3, <3>1 DEF Stream, StreamOff, StopDecoder, Drain
    <3>2. CASE Queue
      BY <1>3, <3>2 DEF Queue, QueueNew, QueueAgain
    <3>3. CASE Decoder
      BY <1>3, <3>3 DEF Decoder, HaveFree, GetFree, Output, Hide, SecondField, CountRaces, Unref
    <3>4. CASE Thread
      BY <1>3, <3>4 DEF Thread, WaitIn, WaitOut, TakeOut, AskBuffer, Bind, Pair
    <3>5. CASE Di
      BY <1>3, <3>5 DEF Di, FillDone, Submit, PutCapture, EmptyDone, Recycle
    <3>6. CASE Worker
      BY <1>3, <3>6 DEF Worker, WorkerGet, Post
    <3>7. CASE UNCHANGED vars
      BY <1>3, <3>7 DEF vars
    <3> QED BY <3>1, <3>2, <3>3, <3>4, <3>5, <3>6, <3>7 DEF Next
  <2> QED BY <1>3, <2>1, StreamOnKeeps
<1> QED BY <1>1, <1>2, <1>3

(* The stream ends: what the stages remember while it is on is what they   *)
(* still hold for the user.                                                *)
LEMMA StreamOffLeaves ==
  ASSUME VppInv, OnInv, phase = "on", UNCHANGED <<mode, chain, done>>,
         Left' \subseteq user \cup Elements(posting)
  PROVE  LeftWithUser'
<1>1. ChainsLinked /\ StagesRemember /\ user \in SUBSET Frame /\ Elements(posting) \subseteq Frame
  BY Types, ElementsFacts DEF OnInv
<1>2. ASSUME NEW f \in user \cup Elements(posting)
      PROVE  /\ done # f.fb
             /\ Remembers("vpp", f) /\ Linked(chain[f.fb], "vpp", "sink")
             /\ mode.is_prog => Remembers("dec", f) /\ Linked(chain[f.fb], "dec", "vpp")
  <2>1. f \in Shown /\ f.fb \in Buf
    BY <1>1, <1>2, FrameFacts DEF Shown, OnWayOut
  <2>2. done # f.fb
    BY <1>2, <2>1, Apart DEF OnInv
  <2>3. pool[f.fb] = LastStage
    BY <1>1, <2>1 DEF ChainsLinked
  <2>4. mode.is_prog => pool[f.fb] = "dec"
    BY <2>3 DEF LastStage
  <2> QED BY <1>1, <2>1, <2>2, <2>3, <2>4 DEF ChainsLinked, StagesRemember
<1>3. \A t, x : Remembers(t, x)' <=> Remembers(t, x)
  BY DEF Remembers
<1> QED BY <1>2, <1>3 DEF LeftWithUser

(* While it is off no step touches these stages.                           *)
LEMMA Untouched ==
  ASSUME VppInv, LeftWithUser, phase # "on", UNCHANGED mode, Left' \subseteq Left,
         done' \in {done, NoBuf},
         \A f \in Left, t \in {"vpp", "dec"} : t = "vpp" \/ mode.is_prog =>
           (OnlyHolds(chain[f.fb], t, f) => OnlyHolds(chain'[f.fb], t, f)),
         \A b \in Buf : SameLinks(chain'[b], chain[b])
  PROVE  LeftWithUser'
<1>1. \A f \in Left : f.fb \in Buf /\ f.fb # NoBuf
  <2>1. user \cup Elements(posting) \subseteq Frame
    BY Types, ElementsFacts
  <2> QED BY <2>1, FrameFacts DEF Left
<1>2. \A b \in Buf : \A t, u : Linked(chain'[b], t, u) <=> Linked(chain[b], t, u)
  BY LinksKept
<1>3. \A t, f : /\ Remembers(t, f)' <=> OnlyHolds(chain'[f.fb], t, f)
                /\ Remembers(t, f) <=> OnlyHolds(chain[f.fb], t, f)
  BY DEF Remembers
<1> HIDE DEF Left
<1> QED BY <1>1, <1>2, <1>3 DEF LeftWithUser

LEMMA SubmitLeaves ==
  ASSUME VppInv, LeftWithUser, phase # "on", Submit
  PROVE  LeftWithUser'
<1>1. PICK g : g = Head(out_done_q)
  OBVIOUS
<1>2. PICK d : d = done
  OBVIOUS
<1>3. /\ d # NoBuf /\ chain' = [chain EXCEPT ![d] = Push(chain[d], "vpp", g)]
      /\ UNCHANGED <<mode, user, posting, phase>> /\ done' = NoBuf /\ putting = <<>>
  BY <1>1, <1>2 DEF Submit, outVars
<1>4. chain \in [Buf -> Chain(Frame)] /\ d \in Buf /\ g \in Frame /\ "vpp" \in Task
  <2>1. chain \in [Buf -> Chain(Frame)] /\ d \in Buf /\ out_done_q \in Seq(Frame)
    BY <1>2, <1>3, Types
  <2>2. out_done_q # <<>>
    BY <1>2, <1>3, DoneFacts
  <2> QED BY <1>1, <2>1, <2>2, TailFacts DEF Task
<1>5. SameLinks(Push(chain[d], "vpp", g), chain[d])
  BY <1>4, PushLinks
<1>6. \A x \in Buf : chain'[x] = IF x = d THEN Push(chain[d], "vpp", g) ELSE chain[x]
  BY <1>3, <1>4
<1>7. Left' = Left
  BY <1>3 DEF Left
<1>8. \A f \in Left : f.fb \in Buf /\ f.fb # d
  <2>1. user \cup Elements(posting) \subseteq Frame
    BY Types, ElementsFacts
  <2> QED BY <1>2, <2>1, FrameFacts DEF LeftWithUser, Left
<1>9. \A f \in Left : chain'[f.fb] = chain[f.fb]
  BY <1>6, <1>8
<1>10. \A x \in Buf : SameLinks(chain'[x], chain[x])
  BY <1>5, <1>6 DEF SameLinks
<1> QED BY <1>3, <1>7, <1>9, <1>10, Untouched

(* An interlaced picture that still comes back leaves the last stage as it *)
(* is.                                                                     *)
LEMMA RecycleLeaves ==
  ASSUME VppInv, LeftWithUser, phase # "on", Recycle
  PROVE  LeftWithUser'
<1>1. PICK b : b = Head(emptied).fb
  OBVIOUS
<1>2. /\ emptied # <<>> /\ UNCHANGED <<mode, done, phase, user, posting>>
      /\ chain' = [chain EXCEPT ![b] = IF "dec" \in Precedes(chain[b], "vpp") THEN Pop(chain[b], "dec")
                                                                             ELSE chain[b]]
  BY <1>1 DEF Recycle, RecycleToDec, outVars
<1>3. ~ mode.is_prog /\ chain \in [Buf -> Chain(Frame)] /\ "dec" \in Task /\ "vpp" \in Task \ {"dec"}
  BY <1>2, Types DEF VppInv, ChainsFit, Task
<1>4. \A x \in Buf : chain'[x] \in {chain[x], Pop(chain[x], "dec")}
  BY <1>2, <1>3
<1>5. \A x \in Buf : SameLinks(chain'[x], chain[x])
  BY <1>3, <1>4, PopLinks DEF SameLinks
<1>6. Left' = Left
  BY <1>2 DEF Left
<1>7. \A f \in Left : f.fb \in Buf
  <2>1. user \cup Elements(posting) \subseteq Frame
    BY Types, ElementsFacts
  <2> QED BY <2>1, FrameFacts DEF Left
<1>8. \A f \in Left : OnlyHolds(chain[f.fb], "vpp", f) => OnlyHolds(chain'[f.fb], "vpp", f)
  BY <1>3, <1>4, <1>7, PopOthers
<1> QED BY <1>2, <1>3, <1>5, <1>6, <1>8, Untouched

LEMMA LeavesNext ==
  ASSUME VppInv, OnInv, LeftWithUser, [Next]_vars
  PROVE  LeftWithUser'
<1>1. CASE phase' = "on"
  BY <1>1 DEF LeftWithUser
<1>2. CASE phase = "on" /\ phase' # "on"
  <2>1. StreamOff \/ CountRaces
    <3>1. CASE Stream
      BY <1>2, <3>1 DEF Stream, StopDecoder, Drain, StreamOn
    <3>2. CASE Queue
      BY <1>2, <3>2 DEF Queue, QueueNew, QueueAgain
    <3>3. CASE Decoder
      BY <1>2, <3>3 DEF Decoder, HaveFree, GetFree, Output, Hide, SecondField, Unref
    <3>4. CASE Thread
      BY <1>2, <3>4 DEF Thread, WaitIn, WaitOut, TakeOut, AskBuffer, Bind, Pair
    <3>5. CASE Di
      BY <1>2, <3>5 DEF Di, FillDone, Submit, PutCapture, EmptyDone, Recycle
    <3>6. CASE Worker
      BY <1>2, <3>6 DEF Worker, WorkerGet, Post
    <3>7. CASE UNCHANGED vars
      BY <1>2, <3>7 DEF vars
    <3> QED BY <3>1, <3>2, <3>3, <3>4, <3>5, <3>6, <3>7 DEF Next
  <2>2. UNCHANGED <<mode, chain, done, user, posting>>
    BY <2>1 DEF StreamOff, CountRaces, diVars, outVars
  <2>3. Left' \subseteq user \cup Elements(posting)
    BY <2>2 DEF Left
  <2> QED BY <1>2, <2>2, <2>3, StreamOffLeaves
<1>3. CASE phase # "on" /\ phase' # "on"
  <2>1. ASSUME UNCHANGED <<mode, done, chain>>, Left' \subseteq Left
        PROVE  LeftWithUser'
    BY <1>3, <2>1, Untouched DEF SameLinks
  <2>2. ASSUME UNCHANGED <<mode, done, chain, user, posting, phase>>
        PROVE  LeftWithUser'
    <3>1. Left' = Left
      BY <2>2 DEF Left
    <3> QED BY <2>1, <2>2, <3>1
  <2>3. CASE Stream
    <3>1. CASE StopDecoder
      <4>1. UNCHANGED <<mode, done, chain, user, posting>> /\ Live
        BY <3>1 DEF StopDecoder, diVars, outVars
      <4>2. Left' \subseteq Left
        BY <4>1 DEF Left
      <4> QED BY <2>1, <4>1, <4>2
    <3>2. CASE Drain
      <4>1. Left' = {}
        BY <3>2 DEF Drain, Left
      <4> QED BY <4>1 DEF LeftWithUser
    <3>3. CASE StreamOff
      BY <1>3, <3>3 DEF StreamOff
    <3>4. CASE StreamOn
      <4>1. Left' = {}
        <5>1. user = {} /\ user' = user /\ phase' \in {"on", "broken"}
          BY <3>4 DEF StreamOn, outVars, VppInv, InUse
        <5> QED BY <1>3, <5>1 DEF Left
      <4> QED BY <4>1 DEF LeftWithUser
    <3> QED BY <2>3, <3>1, <3>2, <3>3, <3>4 DEF Stream
  <2>4. CASE Queue
    BY <1>3, <2>4 DEF Queue, QueueNew, QueueAgain
  <2>5. CASE Decoder
    <3>1. CASE HaveFree \/ GetFree
      BY <1>3, <2>2, <3>1 DEF HaveFree, GetFree, MayAlloc, diVars, outVars
    <3>2. CASE SecondField
      BY <1>3, <2>2, <3>2 DEF SecondField, diVars, outVars
    <3>3. CASE CountRaces
      <4>1. UNCHANGED <<mode, done, chain, user, posting>> /\ phase' = "broken"
        BY <3>3 DEF CountRaces, diVars, outVars
      <4>2. Left' \subseteq Left
        BY <4>1 DEF Left
      <4> QED BY <2>1, <4>1, <4>2
    <3>4. CASE \E b \in Buf : Output(b) \/ Hide(b) \/ Unref(b)
      BY <1>3, <2>2, <3>4 DEF Output, Hide, Unref, diVars, outVars
    <3> QED BY <2>5, <3>1, <3>2, <3>3, <3>4 DEF Decoder
  <2>6. CASE Thread
    <3>1. UNCHANGED <<mode, done, chain, user, posting, phase>>
      BY <1>3, <2>6 DEF Thread, WaitIn, WaitOut, TakeOut, AskBuffer, Bind, Pair, MayAlloc, diVars, outVars
    <3> QED BY <2>2, <3>1
  <2>7. CASE FillDone \/ EmptyDone
    BY <1>3, <2>2, <2>7 DEF FillDone, EmptyDone, outVars
  <2>8. CASE PutCapture
    <3>1. UNCHANGED <<mode, chain, user, posting, phase>> /\ done' = NoBuf
      BY <2>8 DEF PutCapture
    <3>2. Left' = Left
      BY <3>1 DEF Left
    <3> QED BY <1>3, <3>1, <3>2, Untouched DEF SameLinks
  <2>9. CASE Submit \/ Recycle
    BY <1>3, <2>9, SubmitLeaves, RecycleLeaves
  <2>10. CASE WorkerGet
    <3>1. UNCHANGED <<mode, done, chain, user, phase>> /\ posting' = <<>>
      BY <1>3, <2>10 DEF WorkerGet, diVars
    <3>2. Left' \subseteq Left
      BY <3>1 DEF Left, Elements
    <3> QED BY <2>1, <3>1, <3>2
  <2>11. CASE Running /\ Post
    <3>1. UNCHANGED <<mode, done, chain>>
      BY <2>11 DEF Post, diVars
    <3>2. Left' \subseteq Left
      <4>1. CASE phase = "off"
        BY <2>11, <4>1 DEF Post, Left
      <4>2. CASE phase # "off"
        <5>1. posting # <<>> /\ posting' = <<>> /\ user' = user \cup {Head(posting)} /\ phase' = phase
          BY <2>11, <4>2 DEF Post
        <5>2. Head(posting) \in Elements(posting)
          BY <5>1, Types, ElementsFacts
        <5>3. Elements(<<>>) = {}
          BY DEF Elements
        <5>4. Live
          BY <1>3, <2>11, <4>2 DEF Running, VppInv, TypeOK
        <5> QED BY <5>1, <5>2, <5>3, <5>4 DEF Left
      <4> QED BY <4>1, <4>2
    <3> QED BY <2>1, <3>1, <3>2
  <2>12. CASE UNCHANGED vars
    BY <2>2, <2>12 DEF vars, diVars, outVars
  <2> QED BY <2>3, <2>4, <2>5, <2>6, <2>7, <2>8, <2>9, <2>10, <2>11, <2>12 DEF Next, Di, Worker
<1> QED BY <1>1, <1>2, <1>3

-----------------------------------------------------------------------------
(* The theorems.                                                           *)

(* Places, chains, stages and the fields that are out fit each other       *)
(* through every seek: the invariant that is inductive together with       *)
(* VppInv, for every number of buffers with two input buffers and two      *)
(* vframes for each, of frames with one field and with two.                *)
THEOREM PicturesFit == InputsForAll => (Spec => []PictureInv)
<1> SUFFICES ASSUME InputsForAll PROVE Spec => []PictureInv
  OBVIOUS
<1>1. Init => PictureInv
  BY InitOn DEF Init, PictureInv, LeftWithUser
<1>2. VppInv /\ VppInv' /\ PictureInv /\ [Next]_vars => PictureInv'
  BY OnNext, LeavesNext DEF PictureInv
<1> QED BY <1>1, <1>2, Fits, PTL DEF Spec

(* A capture buffer is in exactly one place, and the decoder counts the    *)
(* fields of it that are out: none is lost on its way through the decoder, *)
(* the post processor, the DI and the user, none is used for two pictures  *)
(* at a time, and none is the decoder's again under its second field       *)
(* (fb_buff_from_queue, post_video_frame, vh264_vf_put, vpp_vf_put).       *)
THEOREM OwnedOnce == InputsForAll => (Spec => []OneOwner)
<1> SUFFICES ASSUME InputsForAll PROVE Spec => []OneOwner
  OBVIOUS
<1>1. PictureInv => OneOwner
  BY DEF PictureInv, OnInv
<1> QED BY <1>1, PicturesFit, PTL

(* A picture that is given back is the one its stage pops, of two fields   *)
(* the one that went first, and the chain leads it back: the slots of      *)
(* task_item_vframe_push never run out, and task_item_vframe_pop finds     *)
(* what it has left.                                                       *)
THEOREM FindsItsPicture == InputsForAll => (Spec => []RecycleFindsPicture)
<1> SUFFICES ASSUME InputsForAll PROVE Spec => []RecycleFindsPicture
  OBVIOUS
<1>1. ASSUME VppInv, PictureInv
      PROVE  RecycleFindsPicture
  <2>1. user \in SUBSET Frame /\ emptied \in Seq(Frame)
    BY <1>1, Types
  <2>2. ASSUME NEW f \in user
        PROVE  /\ Remembers("vpp", f) /\ Linked(chain[f.fb], "vpp", "sink")
               /\ mode.is_prog => Remembers("dec", f) /\ Linked(chain[f.fb], "dec", "vpp")
    <3>1. CASE phase # "on"
      BY <1>1, <2>2, <3>1 DEF PictureInv, LeftWithUser, Left
    <3>2. CASE phase = "on"
      <4>1. f \in Shown /\ f.fb \in Buf
        BY <2>1, <2>2, FrameFacts DEF Shown
      <4>2. ChainsLinked /\ StagesRemember
        BY <1>1, <3>2 DEF PictureInv, OnInv
      <4>3. pool[f.fb] = LastStage
        BY <4>1, <4>2 DEF ChainsLinked
      <4>4. mode.is_prog => pool[f.fb] = "dec"
        BY <4>3 DEF LastStage
      <4> QED BY <4>1, <4>2, <4>3, <4>4 DEF ChainsLinked, StagesRemember
    <3> QED BY <3>1, <3>2
  <2>3. \A f \in user :
          /\ Top(chain[f.fb], "vpp") = f /\ Cardinality(Held(chain[f.fb], "vpp")) = 1
          /\ mode.is_prog => Top(chain[f.fb], "dec") = f /\ Cardinality(Held(chain[f.fb], "dec")) = 1
    BY <2>1, <2>2, HoldsTop DEF Remembers
  <2>4. \A f \in user :
          /\ "vpp" \in Precedes(chain[f.fb], "sink")
          /\ mode.is_prog => "dec" \in Precedes(chain[f.fb], "vpp")
    BY <2>2 DEF Linked
  <2>5. ASSUME phase = "on", NEW f \in Elements(emptied)
        PROVE  /\ Top(chain[f.fb], "dec") = f /\ Cardinality(Held(chain[f.fb], "dec")) <= 2
               /\ "dec" \in Precedes(chain[f.fb], "vpp")
    <3>1. PICK x \in Frame : emptied = <<x>>
      <4>1. emptied # <<>> /\ Len(emptied) <= 1
        BY <1>1, <2>5 DEF Elements, VppInv, ChainsFit
      <4> QED BY <2>1, <4>1, OnlyOne
    <3>2. f = x
      BY <2>5, <3>1 DEF Elements
    <3>3. FieldsRemembered /\ ChainsLinked
      BY <1>1, <2>5 DEF PictureInv, OnInv
    <3>4. /\ Top(chain[x.fb], "dec") = x /\ Linked(chain[x.fb], "dec", "vpp")
          /\ vf_ref[x.fb] \in 1..2 /\ vf_ref[x.fb] = Cardinality(Held(chain[x.fb], "dec"))
      BY <1>1, <2>5, <3>1, <3>3, EmptiedFacts
    <3> QED BY <3>2, <3>4 DEF Linked
  <2> QED BY <2>3, <2>4, <2>5 DEF RecycleFindsPicture
<1> QED BY <1>1, PicturesFit, Fits, PTL

=============================================================================
