--------------------------- MODULE VdecInputProofs ---------------------------
(***************************************************************************)
(* Proofs about VdecInput: InputInv is inductive when one thread at a time *)
(* releases frames, hence frames are never overwritten, the books are      *)
(* exact, the level is exact while it fits its type, and VdecInput         *)
(* implements InputFifo.  First come lemmas about the arithmetic of sizes  *)
(* and about sets of bytes, then one lemma per action, with one step per   *)
(* conjunct of InputInv; the theorems are at the end.                      *)
(***************************************************************************)
EXTENDS VdecInput, FiniteSetTheorems, SequenceTheorems, TLAPS

-----------------------------------------------------------------------------
(* Arithmetic.                                                             *)

LEMMA ModRange == ASSUME NEW n \in Int, NEW a \in Nat \ {0} PROVE n % a \in 0..(a - 1)
  OBVIOUS

LEMMA DivMod ==
  ASSUME NEW n \in Int, NEW a \in Nat \ {0}
  PROVE  \E q \in Int : n = q * a + (n % a)
<1> WITNESS n \div a \in Int
<1> QED OBVIOUS

(* The remainder is the only number of its range with the same residue.    *)
LEMMA ModUnique ==
  ASSUME NEW k \in Int, NEW a \in Nat \ {0}, NEW r \in 0..(a - 1)
  PROVE  (r + k * a) % a = r
<1> DEFINE n == r + k * a
           m == n % a
<1>1. n \in Int
  OBVIOUS
<1>2. PICK q \in Int : n = q * a + m
  BY <1>1, DivMod
<1>3. m \in 0..(a - 1)
  BY <1>1, ModRange
<1>4. r - m = (q - k) * a
  BY <1>2, <1>3
<1> HIDE DEF n, m
<1>5. CASE q - k >= 1
  <2>1. (q - k) * a >= a
    BY <1>5
  <2> QED BY <2>1, <1>3, <1>4
<1>6. CASE q - k <= -1
  <2>1. (q - k) * a <= -a
    BY <1>6
  <2> QED BY <2>1, <1>3, <1>4
<1>7. CASE q = k
  BY <1>3, <1>4, <1>7 DEF n, m
<1> QED BY <1>5, <1>6, <1>7

(* Two numbers are congruent if and only if they differ by a multiple.     *)
LEMMA ModZero ==
  ASSUME NEW n \in Int, NEW a \in Nat \ {0}
  PROVE  n % a = 0 <=> \E q \in Int : n = q * a
<1>1. ASSUME n % a = 0 PROVE \E q \in Int : n = q * a
  <2>1. PICK q \in Int : n = q * a + (n % a)
    BY DivMod
  <2> QED BY <1>1, <2>1
<1>2. ASSUME NEW q \in Int, n = q * a PROVE n % a = 0
  <2>1. 0 \in 0..(a - 1)
    OBVIOUS
  <2>2. (0 + q * a) % a = 0
    BY <2>1, ModUnique
  <2> QED BY <1>2, <2>2
<1> QED BY <1>1, <1>2

(* A counter that wraps stays congruent to the one that does not.          *)
LEMMA ModSum ==
  ASSUME NEW n \in Int, NEW e \in Int, NEW a \in Nat \ {0}
  PROVE  \E p \in Int : n + e = p * a + ((n + e) % a)
<1> DEFINE m == n + e
<1>1. m \in Int
  OBVIOUS
<1> HIDE DEF m
<1>2. \E p \in Int : m = p * a + (m % a)
  BY <1>1, DivMod
<1> QED BY <1>2 DEF m

LEMMA ModAdd ==
  ASSUME NEW n \in Int, NEW e \in Int, NEW d \in Int, NEW a \in Nat \ {0}
  PROVE  /\ (n - d) % a = 0 => (((n + e) % a) - (d + e)) % a = 0
         /\ (d - n) % a = 0 => ((d + e) - ((n + e) % a)) % a = 0
<1> DEFINE m == (n + e) % a
<1>1. PICK p \in Int : n + e = p * a + m
  BY ModSum
<1>2. m \in Int
  BY ModRange
<1> HIDE DEF m
<1>3. ASSUME (n - d) % a = 0 PROVE (m - (d + e)) % a = 0
  <2>1. PICK q \in Int : n - d = q * a
    BY <1>3, ModZero
  <2>2. m - (d + e) = (q - p) * a
    BY <1>1, <1>2, <2>1
  <2>3. m - (d + e) \in Int /\ q - p \in Int
    BY <1>2
  <2> QED BY <2>2, <2>3, ModZero
<1>4. ASSUME (d - n) % a = 0 PROVE ((d + e) - m) % a = 0
  <2>1. PICK q \in Int : d - n = q * a
    BY <1>4, ModZero
  <2>2. (d + e) - m = (q + p) * a
    BY <1>1, <1>2, <2>1
  <2>3. (d + e) - m \in Int /\ q + p \in Int
    BY <1>2
  <2> QED BY <2>2, <2>3, ModZero
<1> QED BY <1>3, <1>4 DEF m

LEMMA AlignUpFacts ==
  ASSUME NEW n \in Nat, NEW a \in Nat \ {0}
  PROVE  /\ AlignUp(n, a) \in Nat
         /\ n <= AlignUp(n, a) /\ AlignUp(n, a) < n + a
         /\ \E q \in Int : AlignUp(n, a) = q * a
<1> DEFINE m == n % a
           p == (a - m) % a
<1>1. m \in 0..(a - 1)
  BY ModRange
<1>2. p \in 0..(a - 1)
  BY <1>1, ModRange
<1>3. \E q \in Int : n = q * a + (n % a)
  <2>1. n \in Int
    OBVIOUS
  <2> QED BY <2>1, DivMod
<1>4. \E k \in Int : a - m = k * a + ((a - m) % a)
  <2>1. a - m \in Int
    BY <1>1
  <2> HIDE DEF m
  <2> QED BY <2>1, DivMod
<1>6. AlignUp(n, a) = n + p
  BY DEF AlignUp
<1>7. (\E q \in Int : n = q * a + m) /\ (\E k \in Int : a - m = k * a + p)
  BY <1>3, <1>4
<1> HIDE DEF m, p
<1>8. PICK q \in Int, k \in Int : n = q * a + m /\ a - m = k * a + p
  BY <1>7
<1>9. n + p = (q + 1 - k) * a
  BY <1>1, <1>2, <1>8
<1>10. q + 1 - k \in Int
  OBVIOUS
<1> QED BY <1>2, <1>6, <1>9, <1>10

LEMMA AlignUpMonotone ==
  ASSUME NEW m \in Nat, NEW n \in Nat, NEW a \in Nat \ {0}, m <= n
  PROVE  AlignUp(m, a) <= AlignUp(n, a)
<1>1. PICK p \in Int : AlignUp(m, a) = p * a
  BY AlignUpFacts
<1>2. PICK q \in Int : AlignUp(n, a) = q * a
  BY AlignUpFacts
<1>3. AlignUp(m, a) < m + a /\ n <= AlignUp(n, a)
  BY AlignUpFacts
<1>4. p * a < q * a + a
  BY <1>1, <1>2, <1>3
<1>5. CASE p <= q
  <2>1. p * a <= q * a
    BY <1>5
  <2> QED BY <2>1, <1>1, <1>2
<1>6. CASE p >= q + 1
  <2>1. p * a >= (q + 1) * a
    BY <1>6
  <2> QED BY <2>1, <1>4
<1> QED BY <1>5, <1>6

LEMMA PageAlignFacts ==
  ASSUME NEW n \in Nat, NEW k \in Nat
  PROVE  PageAlign(n + k) \in Nat /\ n + k <= PageAlign(n + k)
<1> DEFINE m == n + k
<1>1. m \in Nat /\ PageSize \in Nat \ {0}
  BY InputAssumption
<1> HIDE DEF m
<1>2. PageAlign(m) \in Nat /\ m <= PageAlign(m)
  BY <1>1, AlignUpFacts DEF PageAlign
<1> QED BY <1>2 DEF m

(* A frame takes more than its own bytes.                                  *)
LEMMA NeedFacts ==
  ASSUME NEW n \in Nat
  PROVE  Need(n) \in Nat /\ Need(n) > n
<1>1. CacheLine \in Nat \ {0} /\ PageSize \in Nat \ {0}
  BY InputAssumption
<1>2. PageAlign(n + CacheLine) \in Nat /\ n + CacheLine <= PageAlign(n + CacheLine)
  BY <1>1, PageAlignFacts
<1>3. AlignUp(n, CacheLine) \in Nat /\ n <= AlignUp(n, CacheLine)
  BY <1>1, AlignUpFacts
<1> QED BY <1>1, <1>2, <1>3 DEF Need, Padding

(* A grown default holds the frame it was grown for.                       *)
LEMMA GrownFacts ==
  ASSUME NEW n \in Nat, default_size \in Nat, default_size >= BlockSize
  PROVE  Grown(n) \in Nat /\ Grown(n) >= n /\ Grown(n) >= BlockSize
<1> DEFINE doubled == {k * default_size : k \in {2, 4, 8, 16}}
           stop == {d \in doubled : d > 2 * n \/ d > BlockSizeMax}
           d == CHOOSE d \in stop : \A e \in stop : d <= e
<1>1. BlockSize \in Nat \ {0} /\ BlockSizeMax \in Nat /\ BlockSizeMax < 16 * BlockSize
      /\ CacheLine \in Nat /\ BlockAlign \in Nat \ {0}
  BY InputAssumption
<1>2. \A e \in stop : e \in Nat /\ e >= 2 * default_size
  BY <1>1
<1>3. \E e \in stop : \A f \in stop : e <= f
  <2>1. 16 * default_size \in stop
    BY <1>1
  <2>2. \A e \in stop : e \in {2 * default_size, 4 * default_size, 8 * default_size, 16 * default_size}
    OBVIOUS
  <2>3. CASE 2 * default_size \in stop
    BY <2>2, <2>3
  <2>4. CASE 2 * default_size \notin stop /\ 4 * default_size \in stop
    BY <2>2, <2>4
  <2>5. CASE 2 * default_size \notin stop /\ 4 * default_size \notin stop /\ 8 * default_size \in stop
    BY <2>2, <2>5
  <2>6. CASE 2 * default_size \notin stop /\ 4 * default_size \notin stop /\ 8 * default_size \notin stop
    BY <2>1, <2>2, <2>6
  <2> QED BY <2>3, <2>4, <2>5, <2>6
<1>4. d \in stop
  BY <1>3
<1>5. d \in Nat /\ d >= default_size
  <2> HIDE DEF d, stop
  <2> QED BY <1>2, <1>4
<1>6. AlignUp(n + CacheLine, BlockAlign) \in Nat /\ n + CacheLine <= AlignUp(n + CacheLine, BlockAlign)
  <2> DEFINE m == n + CacheLine
  <2>1. m \in Nat
    BY <1>1
  <2> HIDE DEF m
  <2>2. AlignUp(m, BlockAlign) \in Nat /\ m <= AlignUp(m, BlockAlign)
    BY <1>1, <2>1, AlignUpFacts
  <2> QED BY <2>2 DEF m
<1>7. Grown(n) = IF default_size > 2 * n THEN default_size
                 ELSE IF d < n THEN AlignUp(n + CacheLine, BlockAlign) ELSE d
  BY DEF Grown
<1> HIDE DEF d, stop
<1> QED BY <1>1, <1>5, <1>6, <1>7

-----------------------------------------------------------------------------
(* Sequences: the head goes, an element is added, the first one changes.   *)

LEMMA SeqFacts ==
  ASSUME NEW S, NEW s \in Seq(S)
  PROVE  /\ Len(s) \in Nat /\ (s = <<>> <=> Len(s) = 0)
         /\ \A i \in 1..Len(s) : s[i] \in S
         /\ s # <<>> => 1 \in 1..Len(s)
  OBVIOUS

LEMMA ElementsFacts ==
  ASSUME NEW S, NEW s \in Seq(S)
  PROVE  /\ Elements(s) \subseteq S /\ IsFiniteSet(Elements(s))
         /\ Elements(<<>>) = {}
<1>1. s \in Surjection(1..Len(s), Elements(s))
  BY DEF Surjection, Elements
<1>2. Len(s) \in Nat /\ IsFiniteSet(1..Len(s))
  BY FS_Interval
<1>3. IsFiniteSet(Elements(s))
  BY <1>1, <1>2, FS_Surjection
<1> QED BY <1>3 DEF Elements

LEMMA AppendElements ==
  ASSUME NEW S, NEW s \in Seq(S), NEW e \in S
  PROVE  /\ Append(s, e) \in Seq(S)
         /\ Len(Append(s, e)) = Len(s) + 1
         /\ \A i \in 1..Len(s) : Append(s, e)[i] = s[i]
         /\ Append(s, e)[Len(s) + 1] = e
         /\ Elements(Append(s, e)) = Elements(s) \cup {e}
<1>1. /\ Append(s, e) \in Seq(S) /\ Len(s) \in Nat
      /\ Len(Append(s, e)) = Len(s) + 1
      /\ \A i \in 1..Len(s) : Append(s, e)[i] = s[i]
      /\ Append(s, e)[Len(s) + 1] = e
  OBVIOUS
<1>2. 1..(Len(s) + 1) = 1..Len(s) \cup {Len(s) + 1}
  BY <1>1
<1>3. Elements(Append(s, e)) = Elements(s) \cup {e}
  BY <1>1, <1>2 DEF Elements
<1> QED BY <1>1, <1>3

(* Without(s, 1) is the tail.                                              *)
LEMMA TailElements ==
  ASSUME NEW S, NEW s \in Seq(S), s # <<>>,
         \A i, j \in 1..Len(s) : i # j => s[i] # s[j]
  PROVE  /\ Tail(s) \in Seq(S) /\ Without(s, 1) = Tail(s)
         /\ Len(Tail(s)) = Len(s) - 1
         /\ \A i \in 1..Len(Tail(s)) : i + 1 \in 1..Len(s) /\ Tail(s)[i] = s[i + 1]
         /\ Head(s) = s[1] /\ s[1] \in Elements(s)
         /\ Elements(Tail(s)) = Elements(s) \ {s[1]}
<1>1. /\ Tail(s) \in Seq(S) /\ Len(s) \in Nat \ {0}
      /\ Len(Tail(s)) = Len(s) - 1 /\ Head(s) = s[1]
      /\ \A i \in 1..Len(Tail(s)) : i + 1 \in 1..Len(s) /\ Tail(s)[i] = s[i + 1]
  OBVIOUS
<1>2. Without(s, 1) = Tail(s)
  <2>1. Without(s, 1) = [j \in 1..(Len(s) - 1) |-> s[j + 1]]
    BY <1>1 DEF Without
  <2>2. Tail(s) = [j \in 1..(Len(s) - 1) |-> s[j + 1]]
    <3>1. Tail(s) \in [1..Len(Tail(s)) -> S]
      BY <1>1, LenProperties
    <3> QED BY <1>1, <3>1
  <2> QED BY <2>1, <2>2
<1>3. ASSUME NEW x \in Elements(s), x # s[1] PROVE x \in Elements(Tail(s))
  <2>1. PICK i \in 1..Len(s) : x = s[i]
    BY DEF Elements
  <2>2. i - 1 \in 1..Len(Tail(s)) /\ Tail(s)[i - 1] = x
    BY <1>1, <1>3, <2>1
  <2> QED BY <2>2 DEF Elements
<1>4. ASSUME NEW x \in Elements(Tail(s)) PROVE x \in Elements(s) /\ x # s[1]
  <2>1. PICK i \in 1..Len(Tail(s)) : x = Tail(s)[i]
    BY DEF Elements
  <2>2. i + 1 \in 1..Len(s) /\ x = s[i + 1] /\ i + 1 # 1 /\ 1 \in 1..Len(s)
    BY <1>1, <2>1
  <2> QED BY <2>2 DEF Elements
<1>5. s[1] \in Elements(s)
  BY <1>1 DEF Elements
<1> QED BY <1>1, <1>2, <1>3, <1>4, <1>5

-----------------------------------------------------------------------------
(* Sets of bytes.                                                          *)

LEMMA BytesFacts ==
  ASSUME NEW b, NEW lo \in Int, NEW hi \in Int, lo <= hi
  PROVE  /\ IsFiniteSet(Bytes(b, lo, hi))
         /\ Cardinality(Bytes(b, lo, hi)) = hi - lo
<1>1. IsFiniteSet(lo..(hi - 1)) /\ Cardinality(lo..(hi - 1)) = hi - lo
  <2> DEFINE h == hi - 1
  <2>1. h \in Int /\ lo <= h + 1 /\ h - lo + 1 = hi - lo
    OBVIOUS
  <2> HIDE DEF h
  <2>2. IsFiniteSet(lo..h) /\ Cardinality(lo..h) = hi - lo
    BY <2>1, FS_Interval
  <2> QED BY <2>2 DEF h
<1>2. IsFiniteSet({b}) /\ Cardinality({b}) = 1
  BY FS_Singleton
<1>3. Cardinality({b} \X (lo..(hi - 1))) = 1 * (hi - lo)
  BY <1>1, <1>2, FS_Product
<1> QED BY <1>1, <1>2, <1>3, FS_Product DEF Bytes

LEMMA BytesMember ==
  ASSUME NEW b, NEW lo \in Int, NEW hi \in Int, NEW x \in Bytes(b, lo, hi)
  PROVE  x[1] = b /\ x[2] \in Int /\ lo <= x[2] /\ x[2] < hi
BY DEF Bytes

LEMMA DisjointUnion ==
  ASSUME NEW S, NEW T, IsFiniteSet(S), IsFiniteSet(T), S \cap T = {}
  PROVE  /\ IsFiniteSet(S \cup T)
         /\ Cardinality(S \cup T) = Cardinality(S) + Cardinality(T)
<1>1. Cardinality(S \cap T) = 0
  BY FS_EmptySet
<1>2. Cardinality(S) \in Nat /\ Cardinality(T) \in Nat
  BY FS_CardinalityType
<1>3. /\ IsFiniteSet(S \cup T)
      /\ Cardinality(S \cup T) = Cardinality(S) + Cardinality(T) - Cardinality(S \cap T)
  BY FS_Union
<1> QED BY <1>1, <1>2, <1>3

(* The memory of blocks H with sizes f.                                    *)
MemoryOf(H, f) == UNION {Bytes(b, 0, f[b]) : b \in H}

LEMMA MemoryFinite ==
  ASSUME NEW H, NEW f, IsFiniteSet(H), \A b \in H : f[b] \in Nat
  PROVE  IsFiniteSet(MemoryOf(H, f)) /\ Cardinality(MemoryOf(H, f)) \in Nat
<1> DEFINE B == [b \in H |-> Bytes(b, 0, f[b])]
           T == {Bytes(b, 0, f[b]) : b \in H}
<1>1. B \in Surjection(H, T)
  BY DEF Surjection
<1>2. IsFiniteSet(T)
  BY <1>1, FS_Surjection
<1>3. \A b \in H : IsFiniteSet(Bytes(b, 0, f[b]))
  <2> TAKE b \in H
  <2>1. f[b] \in Nat
    OBVIOUS
  <2> QED BY <2>1, BytesFacts
<1>4. IsFiniteSet(MemoryOf(H, f))
  BY <1>2, <1>3, FS_UNION DEF MemoryOf
<1> QED BY <1>4, FS_CardinalityType

LEMMA MemoryAdd ==
  ASSUME NEW H, NEW f, NEW b, IsFiniteSet(H), b \notin H, \A x \in H \cup {b} : f[x] \in Nat
  PROVE  Cardinality(MemoryOf(H \cup {b}, f)) = Cardinality(MemoryOf(H, f)) + f[b]
<1> DEFINE new == Bytes(b, 0, f[b])
<1>1. MemoryOf(H \cup {b}, f) = MemoryOf(H, f) \cup new
  BY DEF MemoryOf
<1>2. MemoryOf(H, f) \cap new = {}
  BY DEF MemoryOf, Bytes
<1>3. IsFiniteSet(new) /\ Cardinality(new) = f[b]
  <2>1. f[b] \in Nat
    OBVIOUS
  <2> QED BY <2>1, BytesFacts
<1>4. IsFiniteSet(MemoryOf(H, f))
  BY MemoryFinite
<1> HIDE DEF new
<1> QED BY <1>1, <1>2, <1>3, <1>4, DisjointUnion

LEMMA MemorySame ==
  ASSUME NEW H, NEW f, NEW g, \A b \in H : f[b] = g[b]
  PROVE  MemoryOf(H, f) = MemoryOf(H, g)
BY DEF MemoryOf

(* The bytes of frames Q.                                                  *)
Fills(Q) == UNION {FrameBytes(c) : c \in Q}

LEMMA FrameBytesFacts ==
  ASSUME NEW c \in ChunkStruct
  PROVE  IsFiniteSet(FrameBytes(c)) /\ Cardinality(FrameBytes(c)) = c.extent
<1>1. c.offset \in Nat /\ c.extent \in Nat
  BY DEF ChunkStruct
<1> QED BY <1>1, BytesFacts DEF FrameBytes

LEMMA FillsFinite ==
  ASSUME NEW Q, IsFiniteSet(Q), Q \subseteq ChunkStruct
  PROVE  IsFiniteSet(Fills(Q)) /\ Cardinality(Fills(Q)) \in Nat
<1> DEFINE B == [c \in Q |-> FrameBytes(c)]
           T == {FrameBytes(c) : c \in Q}
<1>1. B \in Surjection(Q, T)
  BY DEF Surjection
<1>2. IsFiniteSet(T)
  BY <1>1, FS_Surjection
<1>3. \A c \in Q : IsFiniteSet(FrameBytes(c))
  BY FrameBytesFacts
<1>4. IsFiniteSet(Fills(Q))
  BY <1>2, <1>3, FS_UNION DEF Fills
<1> QED BY <1>4, FS_CardinalityType

LEMMA FillsAdd ==
  ASSUME NEW Q, NEW c \in ChunkStruct, IsFiniteSet(Q), Q \subseteq ChunkStruct,
         \A d \in Q : Disjoint(d, c)
  PROVE  Cardinality(Fills(Q \cup {c})) = Cardinality(Fills(Q)) + c.extent
<1>1. Fills(Q \cup {c}) = Fills(Q) \cup FrameBytes(c)
  BY DEF Fills
<1>2. Fills(Q) \cap FrameBytes(c) = {}
  <2>1. ASSUME NEW d \in Q, NEW x \in FrameBytes(d), x \in FrameBytes(c)
        PROVE  FALSE
    <3>1. /\ d.offset \in Nat /\ d.extent \in Nat /\ c.offset \in Nat /\ c.extent \in Nat
      BY DEF ChunkStruct
    <3>2. x[1] = d.block /\ x[2] \in Int /\ d.offset <= x[2] /\ x[2] < d.offset + d.extent
      BY <2>1, <3>1, BytesMember DEF FrameBytes
    <3>3. x[1] = c.block /\ c.offset <= x[2] /\ x[2] < c.offset + c.extent
      BY <2>1, <3>1, BytesMember DEF FrameBytes
    <3>4. d.offset + d.extent <= c.offset \/ c.offset + c.extent <= d.offset
      BY <3>2, <3>3 DEF Disjoint
    <3> QED BY <3>1, <3>2, <3>3, <3>4
  <2> QED BY <2>1 DEF Fills
<1>3. IsFiniteSet(FrameBytes(c)) /\ Cardinality(FrameBytes(c)) = c.extent
  BY FrameBytesFacts
<1> QED BY <1>1, <1>2, <1>3, FillsFinite, DisjointUnion

-----------------------------------------------------------------------------
(* What the invariant says about the current state.                        *)

LEMMA MemoryIs == Memory = MemoryOf(Held, bsize) /\ Memory' = MemoryOf(Held', bsize')
BY DEF Memory, MemoryOf

LEMMA FilledIs == Filled = Fills(Queued) /\ Filled' = Fills(Queued')
BY DEF Filled, Fills

LEMMA QueueFacts ==
  ASSUME TypeOK
  PROVE  /\ Len(queue) \in Nat /\ (queue = <<>> <=> Len(queue) = 0)
         /\ \A i \in 1..Len(queue) : queue[i] \in ChunkStruct /\ queue[i] \in Queued
         /\ Queued \subseteq ChunkStruct /\ IsFiniteSet(Queued)
         /\ \A c \in Queued : \E i \in 1..Len(queue) : c = queue[i]
         /\ \A c \in Queued : c.offset \in Nat /\ c.extent \in Nat /\ c.block \in Block
<1>1. queue \in Seq(ChunkStruct)
  BY DEF TypeOK
<1>2. Queued \subseteq ChunkStruct /\ IsFiniteSet(Queued)
  BY <1>1, ElementsFacts DEF Queued
<1>3. /\ Len(queue) \in Nat /\ (queue = <<>> <=> Len(queue) = 0)
      /\ \A i \in 1..Len(queue) : queue[i] \in ChunkStruct
  BY <1>1
<1> QED BY <1>2, <1>3 DEF Queued, Elements, ChunkStruct

LEMMA FreeFacts ==
  ASSUME TypeOK
  PROVE  /\ Len(free_list) \in Nat /\ (free_list = <<>> <=> Len(free_list) = 0)
         /\ Elements(free_list) \subseteq Block /\ Held \subseteq Block
         /\ \A i \in 1..Len(free_list) : free_list[i] \in Elements(free_list)
<1>1. free_list \in Seq(Block) /\ block_list \subseteq Block
  BY DEF TypeOK
<1> QED BY <1>1, ElementsFacts DEF Elements, Held

LEMMA HeldMemory ==
  ASSUME InputInv
  PROVE  /\ IsFiniteSet(Held) /\ \A b \in Held : bsize[b] \in Nat
         /\ Cardinality(Memory) \in Nat /\ Cardinality(Filled) \in Nat
<1>1. /\ TypeOK /\ IsFiniteSet(Held) /\ \A b \in Held : bsize[b] \in Nat
  BY FreeFacts DEF InputInv, ListsInv, TypeOK
<1> QED BY <1>1, MemoryIs, MemoryFinite, FilledIs, FillsFinite, QueueFacts

(* Counts of the frames of a block.                                        *)
LEMMA CountFacts ==
  ASSUME TypeOK, NEW b
  PROVE  /\ IsFiniteSet(QueuedIn(b)) /\ Cardinality(QueuedIn(b)) \in Nat
         /\ Cardinality(QueuedIn(b)) = 0 <=> QueuedIn(b) = {}
<1>1. QueuedIn(b) \subseteq Queued /\ IsFiniteSet(Queued)
  BY QueueFacts DEF QueuedIn
<1>2. IsFiniteSet(QueuedIn(b))
  BY <1>1, FS_Subset
<1> QED BY <1>2, FS_CardinalityType, FS_EmptySet

LEMMA Extents ==
  ASSUME TypeOK, wcnt \in Count
  PROVE  /\ wcnt \in Nat \ {0} /\ Need(wcnt) \in Nat /\ Need(wcnt) > wcnt
         /\ Extent \in Nat /\ Extent > wcnt
<1>1. wcnt \in Nat \ {0} /\ CacheLine \in Nat \ {0}
  BY InputAssumption
<1>2. Need(wcnt) \in Nat /\ Need(wcnt) > wcnt
  BY <1>1, NeedFacts
<1>3. PageAlign(wcnt + CacheLine) \in Nat /\ wcnt + CacheLine <= PageAlign(wcnt + CacheLine)
  BY <1>1, PageAlignFacts
<1> QED BY <1>1, <1>2, <1>3 DEF Extent

-----------------------------------------------------------------------------
(* Steps that leave the lists as they are.                                 *)

LEMMA ListsKept ==
  ASSUME InputInv,
         UNCHANGED <<secure, listVars, wr_count, rd_count, bsize, wp, chunk_count, rpc, rchunk, rblock>>,
         wpc' \notin {"drain", "drained", "prepare", "stale", "freed"}
  PROVE  ListsInv' /\ FramesInv' /\ CountsInv' /\ ReleaserInv'
<1>1. /\ Held' = Held /\ Queued' = Queued /\ Elements(free_list)' = Elements(free_list)
      /\ Elements(queue)' = Elements(queue)
      /\ \A b : QueuedIn(b)' = QueuedIn(b)
  BY DEF Held, Queued, QueuedIn, Elements, listVars
<1>2. Memory' = Memory /\ Filled' = Filled
  BY <1>1 DEF Memory, Filled
<1>3. ListsInv'
  BY <1>1 DEF InputInv, ListsInv, listVars
<1>4. FramesInv'
  BY <1>1 DEF InputInv, FramesInv, listVars
<1>5. CountsInv'
  BY <1>1, <1>2 DEF InputInv, CountsInv, listVars
<1>6. ReleaserInv'
  BY DEF InputInv, ReleaserInv, listVars
<1> QED BY <1>3, <1>4, <1>5, <1>6

LEMMA SameLists ==
  ASSUME InputInv, UNCHANGED <<secure, listVars, countVars, blockVars, userVars>>
  PROVE  ListsInv' /\ FramesInv' /\ CountsInv' /\ WriterInv'
<1>1. /\ Held' = Held /\ Queued' = Queued /\ Elements(free_list)' = Elements(free_list)
      /\ Elements(queue)' = Elements(queue)
      /\ \A b : QueuedIn(b)' = QueuedIn(b)
  BY DEF Held, Queued, QueuedIn, Elements, listVars
<1>2. Memory' = Memory /\ Filled' = Filled
  BY <1>1 DEF Memory, Filled, blockVars
<1>3. ListsInv'
  BY <1>1 DEF InputInv, ListsInv, listVars, blockVars, userVars
<1>4. FramesInv'
  BY <1>1 DEF InputInv, FramesInv, listVars, blockVars, userVars
<1>5. CountsInv'
  BY <1>1, <1>2 DEF InputInv, CountsInv, listVars, countVars, blockVars
<1>6. WriterInv'
  BY <1>1 DEF InputInv, WriterInv, Fits, Extent, listVars, countVars, blockVars, userVars
<1> QED BY <1>3, <1>4, <1>5, <1>6

LEMMA WriteStep ==
  ASSUME InputInv, UNCHANGED secure, NEW n \in Count, Write(n)
  PROVE  InputInv'
<1>1. /\ wpc = "idle" /\ ~ secure /\ wcnt' = n /\ wblk' = wr_block
      /\ wpc' = IF wr_block = NoBlock THEN "get" ELSE IF Fits(wr_block, n) THEN "fill" ELSE "recycle"
      /\ UNCHANGED <<listVars, countVars, blockVars, relVars>>
  BY DEF Write
<1>2. ListsInv' /\ FramesInv' /\ CountsInv' /\ ReleaserInv'
  BY <1>1, ListsKept DEF countVars, blockVars, relVars
<1>3. TypeOK'
  BY <1>1 DEF InputInv, TypeOK, listVars, countVars, blockVars, relVars
<1>4. WriterInv'
  BY <1>1 DEF InputInv, WriterInv, Fits, listVars, countVars, blockVars
<1> QED BY <1>2, <1>3, <1>4 DEF InputInv

LEMMA GetNoneStep ==
  ASSUME InputInv, UNCHANGED secure, GetNone
  PROVE  InputInv'
<1>1. /\ wpc = "get" /\ wpc' = "enough"
      /\ UNCHANGED <<listVars, countVars, blockVars, wblk, wcnt, relVars>>
  BY DEF GetNone
<1>2. ListsInv' /\ FramesInv' /\ CountsInv' /\ ReleaserInv'
  BY <1>1, ListsKept DEF countVars, blockVars, relVars
<1>3. TypeOK'
  BY <1>1 DEF InputInv, TypeOK, listVars, countVars, blockVars, relVars
<1>4. WriterInv'
  BY <1>1 DEF InputInv, WriterInv, listVars, countVars, blockVars
<1> QED BY <1>2, <1>3, <1>4 DEF InputInv

LEMMA EnoughStep ==
  ASSUME InputInv, UNCHANGED secure, NEW long \in BOOLEAN, Enough(long)
  PROVE  InputInv'
<1>1. /\ wpc = "enough"
      /\ \/ Return /\ UNCHANGED default_size
         \/ /\ wpc' = "alloc" /\ UNCHANGED <<wblk, wcnt>>
            /\ default_size' = Grown(Need(wcnt) + ExtraPad)
      /\ UNCHANGED <<listVars, wr_count, rd_count, no_mem_err, blockVars, relVars>>
  BY DEF Enough
<1>2. ListsInv' /\ FramesInv' /\ CountsInv' /\ ReleaserInv'
  BY <1>1, ListsKept DEF Return, blockVars, relVars
<1>3. TypeOK /\ ~ secure /\ wcnt \in Count /\ default_size \in Nat /\ default_size >= BlockSize
  BY <1>1 DEF InputInv, WriterInv, TypeOK
<1>4. CASE Return /\ UNCHANGED default_size
  <2>1. TypeOK'
    BY <1>1, <1>4 DEF InputInv, TypeOK, Return, listVars, blockVars, relVars
  <2>2. WriterInv'
    BY <1>1, <1>4 DEF InputInv, WriterInv, Return, listVars
  <2> QED BY <1>2, <2>1, <2>2 DEF InputInv
<1>5. CASE /\ wpc' = "alloc" /\ UNCHANGED <<wblk, wcnt>>
           /\ default_size' = Grown(Need(wcnt) + ExtraPad)
  <2> DEFINE n == Need(wcnt) + ExtraPad
  <2>1. n \in Nat /\ n > Need(wcnt) /\ Need(wcnt) \in Nat
    BY <1>3, Extents, InputAssumption
  <2>2. default_size' = Grown(n)
    BY <1>5
  <2> HIDE DEF n
  <2>3. default_size' \in Nat /\ default_size' >= n /\ default_size' >= BlockSize
    BY <1>3, <2>1, <2>2, GrownFacts
  <2>4. default_size' > Need(wcnt)
    BY <2>1, <2>3
  <2>5. TypeOK'
    BY <1>1, <1>5, <2>3 DEF InputInv, TypeOK, listVars, blockVars, relVars
  <2>6. Need(wcnt)' = Need(wcnt)
    BY <1>5
  <2>7. WriterInv'
    BY <1>1, <1>3, <1>5, <2>3, <2>4, <2>6 DEF InputInv, WriterInv, listVars
  <2> QED BY <1>2, <2>5, <2>7 DEF InputInv
<1> QED BY <1>1, <1>4, <1>5

LEMMA FailStep ==
  ASSUME InputInv, Fail
  PROVE  InputInv'
<1>1. /\ UNCHANGED secure /\ Return /\ no_mem_err' \in 0..4
      /\ UNCHANGED <<listVars, default_size, wr_count, rd_count, blockVars, relVars>>
  <2>1. no_mem_err \in 0..4
    BY DEF InputInv, TypeOK
  <2> QED BY <2>1 DEF Fail, AllocFail, ChunkFail, Failed, countVars
<1>2. ListsInv' /\ FramesInv' /\ CountsInv' /\ ReleaserInv'
  BY <1>1, ListsKept DEF Return, blockVars, relVars
<1>3. TypeOK'
  BY <1>1 DEF InputInv, TypeOK, Return, listVars, blockVars, relVars
<1>4. WriterInv'
  <2>1. ~ secure => wr_block \in block_list \cup {NoBlock}
    <3>1. wpc \in {"alloc", "fill"}
      BY DEF Fail, AllocFail, ChunkFail
    <3> QED BY <3>1 DEF InputInv, WriterInv
  <2> QED BY <1>1, <2>1 DEF InputInv, WriterInv, Return, listVars
<1> QED BY <1>2, <1>3, <1>4 DEF InputInv

(* Releasing threads look at the first chunk.                              *)
LEMMA PeekStep ==
  ASSUME InputInv, UNCHANGED secure, NEW r \in Releaser, Peek(r)
  PROVE  InputInv'
<1>1. /\ rpc[r] = "idle" /\ queue # <<>> /\ wpc \notin {"drain", "drained", "prepare"}
      /\ rchunk' = [rchunk EXCEPT ![r] = queue[1].id]
      /\ rpc' = [rpc EXCEPT ![r] = "check"]
      /\ UNCHANGED <<listVars, countVars, blockVars, userVars, rblock>>
  BY DEF Peek
<1>2. TypeOK
  BY DEF InputInv
<1>3. queue[1].id \in Chunk
  BY <1>1, <1>2, QueueFacts DEF ChunkStruct
<1>4. TypeOK'
  BY <1>1, <1>3 DEF InputInv, TypeOK, listVars, countVars, blockVars, userVars
<1>5. ListsInv' /\ FramesInv' /\ CountsInv' /\ WriterInv'
  BY <1>1, SameLists
<1>6. ReleaserInv'
  BY <1>1, <1>2 DEF InputInv, TypeOK, ReleaserInv, listVars, userVars
<1> QED BY <1>4, <1>5, <1>6 DEF InputInv

LEMMA CheckStep ==
  ASSUME InputInv, UNCHANGED secure, NEW r \in Releaser, Check(r)
  PROVE  InputInv'
<1>1. /\ rpc[r] = "check"
      /\ UNCHANGED <<listVars, countVars, blockVars, userVars>>
  BY DEF Check
<1>2. TypeOK
  BY DEF InputInv
<1>3. ListsInv' /\ FramesInv' /\ CountsInv' /\ WriterInv'
  BY <1>1, SameLists
<1>4. queue # <<>> /\ 1 \in 1..Len(queue) /\ rchunk[r] = queue[1].id
      /\ wpc \notin {"drain", "drained", "prepare"}
  BY <1>1, <1>2, QueueFacts DEF InputInv, ReleaserInv
<1>5. CASE /\ rpc' = [rpc EXCEPT ![r] = "del"] /\ UNCHANGED rchunk
           /\ queue[1].consumed /\ rblock' = [rblock EXCEPT ![r] = queue[1].block]
  <2>1. TypeOK'
    <3>1. queue[1].block \in Block
      BY <1>2, <1>4, QueueFacts
    <3> QED BY <1>1, <1>5, <3>1 DEF InputInv, TypeOK, listVars, countVars, blockVars, userVars
  <2>2. ReleaserInv'
    BY <1>1, <1>2, <1>4, <1>5 DEF InputInv, TypeOK, ReleaserInv, listVars, userVars
  <2> QED BY <1>3, <2>1, <2>2 DEF InputInv
<1>6. CASE /\ rpc' = [rpc EXCEPT ![r] = "idle"] /\ UNCHANGED rblock
           /\ rchunk' = [rchunk EXCEPT ![r] = NoBlock]
  <2>1. TypeOK'
    BY <1>1, <1>6 DEF InputInv, TypeOK, listVars, countVars, blockVars, userVars
  <2>2. ReleaserInv'
    BY <1>1, <1>2, <1>6 DEF InputInv, TypeOK, ReleaserInv, listVars, userVars
  <2> QED BY <1>3, <2>1, <2>2 DEF InputInv
<1> QED BY <1>4, <1>5, <1>6 DEF Check

(* The decoder flags the first chunk.                                      *)
LEMMA ConsumeStep ==
  ASSUME InputInv, UNCHANGED secure, Consume
  PROVE  InputInv'
<1> DEFINE c == queue[1]
           d == [c EXCEPT !.consumed = TRUE]
<1>1. /\ queue # <<>> /\ wpc \notin {"drain", "drained", "prepare"} /\ ~ c.consumed
      /\ queue' = [queue EXCEPT ![1].consumed = TRUE]
      /\ UNCHANGED <<block_list, free_list, wr_block, size, countVars, blockVars, userVars, relVars>>
  BY DEF Consume
<1>2. TypeOK /\ Len(queue) \in Nat /\ 1 \in 1..Len(queue) /\ c \in ChunkStruct /\ c \in Queued
  BY <1>1, QueueFacts DEF InputInv
<1>3. /\ d \in ChunkStruct /\ d.consumed /\ d.id = c.id /\ d.block = c.block
      /\ d.offset = c.offset /\ d.extent = c.extent
  BY <1>2 DEF ChunkStruct
<1>4. /\ queue' \in Seq(ChunkStruct) /\ Len(queue') = Len(queue) /\ queue'[1] = d
      /\ \A i \in 1..Len(queue) : i # 1 => queue'[i] = queue[i]
  <2>1. queue \in Seq(ChunkStruct)
    BY <1>2 DEF TypeOK
  <2>2. queue' = [queue EXCEPT ![1] = d]
    BY <1>1, <1>2
  <2> HIDE DEF c, d
  <2> QED BY <1>2, <1>3, <2>1, <2>2
<1> HIDE DEF c, d
<1>5. \A i \in 1..Len(queue) :
        /\ queue'[i].id = queue[i].id /\ queue'[i].block = queue[i].block
        /\ queue'[i].offset = queue[i].offset /\ queue'[i].extent = queue[i].extent
  BY <1>3, <1>4 DEF c
<1>6. Queued' = (Queued \ {c}) \cup {d} /\ c \in Queued
  <2>1. \A i, j \in 1..Len(queue) : i # j => queue[i] # queue[j]
    BY DEF InputInv, FramesInv
  <2>2. \A e \in Queued : e # c => e \in Queued'
    BY <1>4 DEF Queued, Elements, c
  <2>3. d \in Queued'
    BY <1>2, <1>4 DEF Queued, Elements
  <2>4. \A e \in Queued' : e = d \/ (e \in Queued /\ e # c)
    BY <1>2, <1>4, <2>1 DEF Queued, Elements, c
  <2> QED BY <1>2, <1>3, <2>2, <2>3, <2>4
<1>7. Held' = Held /\ Memory' = Memory
  BY <1>1 DEF Held, Memory, Elements, blockVars
<1>8. Filled' = Filled
  <2>1. FrameBytes(d) = FrameBytes(c)
    BY <1>3 DEF FrameBytes
  <2> QED BY <1>6, <2>1 DEF Filled, FrameBytes
<1>9. \A b \in Block : Cardinality(QueuedIn(b)') = Cardinality(QueuedIn(b)) /\ (QueuedIn(b) = {} => QueuedIn(b)' = {})
  <2> TAKE b \in Block
  <2>1. CASE c.block # b
    BY <1>3, <1>6, <2>1 DEF QueuedIn
  <2>2. CASE c.block = b
    <3>1. QueuedIn(b)' = (QueuedIn(b) \ {c}) \cup {d}
      BY <1>3, <1>6, <2>2 DEF QueuedIn
    <3>2. c \in QueuedIn(b)
      BY <1>6, <2>2 DEF QueuedIn
    <3>3. d \notin QueuedIn(b)
      <4>1. \A e \in Queued : e.id = c.id => e = c
        BY <1>2, QueueFacts DEF InputInv, FramesInv, c
      <4>2. d # c
        BY <1>1, <1>3
      <4> QED BY <1>3, <4>1, <4>2 DEF QueuedIn
    <3>4. /\ IsFiniteSet(QueuedIn(b)) /\ Cardinality(QueuedIn(b)) \in Nat
      BY <1>2, CountFacts
    <3>5. /\ IsFiniteSet(QueuedIn(b) \ {c})
          /\ Cardinality(QueuedIn(b) \ {c}) = Cardinality(QueuedIn(b)) - 1
      BY <3>2, <3>4, FS_RemoveElement
    <3>6. Cardinality((QueuedIn(b) \ {c}) \cup {d}) = Cardinality(QueuedIn(b) \ {c}) + 1
      BY <3>3, <3>5, FS_AddElement
    <3> QED BY <3>1, <3>2, <3>4, <3>5, <3>6
  <2> QED BY <2>1, <2>2
<1>10. TypeOK'
  BY <1>1, <1>4 DEF InputInv, TypeOK, countVars, blockVars, userVars, relVars
<1>11. ListsInv'
  BY <1>1, <1>7 DEF InputInv, ListsInv, Elements, blockVars, userVars
<1>12. FramesInv'
  <2>1. \A e \in Queued' :
          /\ e.block \in block_list
          /\ e.extent > 0 /\ e.offset + e.extent <= bsize[e.block]
          /\ secure \/ e.offset + e.extent <= wp[e.block]
    BY <1>3, <1>6 DEF InputInv, FramesInv
  <2>2. \A i, j \in 1..Len(queue') : i # j =>
          /\ queue'[i].id # queue'[j].id
          /\ Disjoint(queue'[i], queue'[j])
          /\ secure => queue'[i].block # queue'[j].block
    BY <1>4, <1>5 DEF InputInv, FramesInv, Disjoint
  <2>3. wpc' \notin {"drained", "prepare", "stale", "freed"}
    BY <1>1 DEF InputInv, FramesInv, userVars
  <2> QED BY <1>1, <2>1, <2>2, <2>3 DEF FramesInv, Disjoint, blockVars, userVars
<1>13. CountsInv'
  BY <1>1, <1>7, <1>8, <1>9 DEF InputInv, CountsInv, countVars, blockVars
<1>14. WriterInv'
  <2>1. wpc = "fill" => wblk \in Block
    BY <1>2 DEF InputInv, WriterInv, TypeOK
  <2>2. Extent' = Extent /\ (wcnt \in Nat => Need(wcnt)' = Need(wcnt)) /\ Fits(wblk, wcnt)' = Fits(wblk, wcnt)
    BY <1>1 DEF Extent, Need, Padding, Fits, countVars, blockVars, userVars
  <2> QED BY <1>1, <1>9, <2>1, <2>2 DEF InputInv, WriterInv, Need, Padding, countVars, blockVars, userVars
<1>15. ReleaserInv'
  <2>1. queue' # <<>>
    BY <1>2, <1>4
  <2> QED BY <1>1, <1>3, <1>4, <2>1 DEF InputInv, ReleaserInv, userVars, relVars, c
<1> QED BY <1>10, <1>11, <1>12, <1>13, <1>14, <1>15 DEF InputInv

-----------------------------------------------------------------------------
(* Steps that move, add or free a block.                                   *)

(* The first free block is freed.                                          *)
LEMMA DropHead ==
  ASSUME InputInv, free_list # <<>>, free_list' = Tail(free_list), FreeBlock(Head(free_list)),
         UNCHANGED <<secure, block_list, queue, wr_count, rd_count, wp, chunk_count>>,
         wpc' \notin {"prepare", "drained", "stale", "freed"}
  PROVE  /\ ListsInv' /\ FramesInv' /\ CountsInv'
         /\ free_list' \in Seq(Block) /\ size' \in Nat /\ bsize' \in [Block -> Nat]
         /\ \A b \in block_list : bsize'[b] = bsize[b]
<1> DEFINE b == Head(free_list)
<1>1. /\ TypeOK /\ free_list \in Seq(Block) /\ bsize \in [Block -> Nat] /\ size \in Nat
      /\ \A i, j \in 1..Len(free_list) : i # j => free_list[i] # free_list[j]
  BY DEF InputInv, TypeOK, ListsInv
<1>2. /\ free_list' \in Seq(Block) /\ b = free_list[1] /\ b \in Elements(free_list)
      /\ Elements(free_list') = Elements(free_list) \ {b}
      /\ Len(free_list') = Len(free_list) - 1 /\ Len(free_list) \in Nat
      /\ \A i \in 1..Len(free_list') : i + 1 \in 1..Len(free_list) /\ free_list'[i] = free_list[i + 1]
  BY <1>1, TailElements
<1>3. size' = size - bsize[b] /\ bsize' = [bsize EXCEPT ![b] = 0]
  BY DEF FreeBlock
<1>4. b \in Block /\ b \notin block_list /\ \A x \in block_list : x # b
  BY <1>1, <1>2, FreeFacts DEF InputInv, ListsInv
<1> HIDE DEF b
<1>5. /\ Held = Held' \cup {b} /\ b \notin Held' /\ Held' \subseteq Block
      /\ Elements(free_list)' = Elements(free_list) \ {b} /\ Held' = Held \ {b}
  BY <1>1, <1>2, <1>4, FreeFacts DEF Held, Elements
<1>6. bsize' \in [Block -> Nat] /\ \A x \in Block : x # b => bsize'[x] = bsize[x]
  BY <1>1, <1>3
<1>7. IsFiniteSet(Held')
  <2>1. IsFiniteSet(Held)
    BY DEF InputInv, ListsInv
  <2>2. IsFiniteSet(Held \ {b})
    BY <2>1, FS_RemoveElement
  <2> QED BY <1>5, <2>2
<1>8. Cardinality(Memory) = Cardinality(Memory') + bsize[b] /\ Cardinality(Memory') \in Nat
  <2>1. MemoryOf(Held', bsize) = MemoryOf(Held', bsize')
    BY <1>5, <1>6, MemorySame
  <2>2. \A x \in Held' \cup {b} : bsize[x] \in Nat
    BY <1>1, <1>4, <1>5
  <2>3. Cardinality(MemoryOf(Held' \cup {b}, bsize)) = Cardinality(MemoryOf(Held', bsize)) + bsize[b]
    BY <1>5, <1>7, <2>2, MemoryAdd
  <2>4. Cardinality(MemoryOf(Held', bsize)) \in Nat
    BY <1>7, <2>2, MemoryFinite
  <2> QED BY <1>5, <2>1, <2>3, <2>4, MemoryIs
<1>9. size' = Cardinality(Memory')
  BY <1>1, <1>3, <1>4, <1>8 DEF InputInv, CountsInv
<1>10. Queued' = Queued /\ (\A x : QueuedIn(x)' = QueuedIn(x)) /\ Filled' = Filled
  BY DEF Queued, QueuedIn, Filled, Elements
<1>11. ListsInv'
  <2>1. \A i, j \in 1..Len(free_list') : i # j => free_list'[i] # free_list'[j]
    BY <1>1, <1>2
  <2> QED BY <1>5, <1>7, <2>1 DEF InputInv, ListsInv
<1>12. FramesInv'
  <2>1. \A c \in Queued : c.block \in block_list /\ bsize'[c.block] = bsize[c.block]
    BY <1>1, <1>4, <1>6, QueueFacts DEF InputInv, FramesInv
  <2> QED BY <1>10, <2>1 DEF InputInv, FramesInv
<1>13. CountsInv'
  BY <1>9, <1>10 DEF InputInv, CountsInv
<1> QED BY <1>1, <1>2, <1>4, <1>6, <1>8, <1>9, <1>11, <1>12, <1>13 DEF TypeOK

LEMMA GetFreedHandleStep ==
  ASSUME InputInv, UNCHANGED secure, GetFreedHandle
  PROVE  InputInv'
<1>1. /\ wpc \in {"idle", "fill"} /\ secure /\ free_list # <<>>
      /\ free_list' = Tail(free_list) /\ FreeBlock(Head(free_list))
      /\ UNCHANGED <<block_list, queue, wr_block, countVars, wp, chunk_count, callback, userVars, relVars>>
  BY DEF GetFreedHandle
<1>2. /\ ListsInv' /\ FramesInv' /\ CountsInv'
      /\ free_list' \in Seq(Block) /\ size' \in Nat /\ bsize' \in [Block -> Nat]
      /\ \A b \in block_list : bsize'[b] = bsize[b]
  BY <1>1, DropHead DEF countVars, userVars
<1>3. TypeOK'
  BY <1>1, <1>2 DEF InputInv, TypeOK, countVars, userVars, relVars
<1>4. WriterInv'
  <2>1. QueuedIn(wblk)' = QueuedIn(wblk) /\ Extent' = Extent
    BY <1>1 DEF QueuedIn, Queued, Elements, Extent, userVars
  <2> QED BY <1>1, <1>2, <2>1 DEF InputInv, WriterInv, countVars, userVars
<1>5. ReleaserInv'
  BY <1>1 DEF InputInv, ReleaserInv, userVars, relVars
<1> QED BY <1>2, <1>3, <1>4, <1>5 DEF InputInv

LEMMA GetFreeStep ==
  ASSUME InputInv, UNCHANGED secure, GetFree
  PROVE  InputInv'
<1> DEFINE b == Head(free_list)
<1>1. /\ wpc = "get" /\ free_list # <<>> /\ free_list' = Tail(free_list)
      /\ UNCHANGED <<queue, countVars, wp, chunk_count, callback, wcnt, relVars>>
  BY DEF GetFree
<1>2. /\ TypeOK /\ ~ secure /\ wcnt \in Count /\ free_list \in Seq(Block)
      /\ \A i, j \in 1..Len(free_list) : i # j => free_list[i] # free_list[j]
  BY <1>1 DEF InputInv, TypeOK, ListsInv, WriterInv
<1>3. CASE /\ FreeBlock(b) /\ wpc' = "enough" /\ UNCHANGED <<block_list, wr_block, wblk>>
  <2>1. /\ ListsInv' /\ FramesInv' /\ CountsInv'
        /\ free_list' \in Seq(Block) /\ size' \in Nat /\ bsize' \in [Block -> Nat]
    BY <1>1, <1>3, DropHead DEF countVars
  <2>2. TypeOK'
    BY <1>1, <1>3, <2>1 DEF InputInv, TypeOK, countVars, relVars
  <2>3. WriterInv'
    BY <1>1, <1>3 DEF InputInv, WriterInv, countVars
  <2>4. ReleaserInv'
    BY <1>1, <1>3 DEF InputInv, ReleaserInv, relVars
  <2> QED BY <2>1, <2>2, <2>3, <2>4 DEF InputInv
<1>4. CASE /\ ~ (bsize[b] < Need(wcnt) + ExtraPad)
           /\ block_list' = block_list \cup {b} /\ wr_block' = b /\ wblk' = b /\ wpc' = "fill"
           /\ UNCHANGED <<size, bsize>>
  <2>1. /\ free_list' \in Seq(Block) /\ b = free_list[1] /\ b \in Elements(free_list)
        /\ Elements(free_list') = Elements(free_list) \ {b}
        /\ Len(free_list') = Len(free_list) - 1 /\ Len(free_list) \in Nat
        /\ \A i \in 1..Len(free_list') : i + 1 \in 1..Len(free_list) /\ free_list'[i] = free_list[i + 1]
    BY <1>1, <1>2, TailElements
  <2>2. b \in Block /\ b \notin block_list /\ wp[b] = 0 /\ b # NoBlock
    BY <1>2, <2>1, FreeFacts, InputAssumption DEF InputInv, ListsInv
  <2> HIDE DEF b
  <2>3. Held' = Held /\ Memory' = Memory /\ Elements(free_list)' = Elements(free_list) \ {b}
    <3>1. Elements(free_list)' = Elements(free_list) \ {b}
      BY <2>1 DEF Elements
    <3>2. Held' = Held
      BY <1>4, <2>1, <3>1 DEF Held
    <3> QED BY <1>4, <3>1, <3>2 DEF Memory
  <2>4. Queued' = Queued /\ (\A x : QueuedIn(x)' = QueuedIn(x)) /\ Filled' = Filled
    BY <1>1 DEF Queued, QueuedIn, Filled, Elements
  <2>5. TypeOK'
    BY <1>1, <1>2, <1>4, <2>1, <2>2 DEF InputInv, TypeOK, countVars, relVars
  <2>6. ListsInv'
    <3>1. \A i, j \in 1..Len(free_list') : i # j => free_list'[i] # free_list'[j]
      BY <1>2, <2>1
    <3> QED BY <1>1, <1>4, <2>3, <3>1 DEF InputInv, ListsInv
  <2>7. FramesInv'
    BY <1>1, <1>4, <2>4 DEF InputInv, FramesInv
  <2>8. CountsInv'
    BY <1>1, <1>4, <2>3, <2>4 DEF InputInv, CountsInv, countVars
  <2>9. Fits(wblk, wcnt)'
    <3>1. Need(wcnt) \in Nat /\ ExtraPad \in Nat \ {0} /\ bsize[b] \in Nat
      BY <1>2, <2>2, Extents, InputAssumption DEF TypeOK
    <3>2. Need(wcnt)' = Need(wcnt)
      BY <1>1
    <3> QED BY <1>1, <1>4, <2>2, <3>1, <3>2 DEF Fits
  <2>10. WriterInv'
    BY <1>1, <1>2, <1>4, <2>9 DEF InputInv, WriterInv, countVars
  <2>11. ReleaserInv'
    BY <1>1, <1>4 DEF InputInv, ReleaserInv, relVars
  <2> QED BY <2>5, <2>6, <2>7, <2>8, <2>10, <2>11 DEF InputInv
<1> QED BY <1>3, <1>4 DEF GetFree

(* A block that is too full goes to the free list if it holds no frame.    *)
LEMMA RecycleStep ==
  ASSUME InputInv, UNCHANGED secure, Recycle
  PROVE  InputInv'
<1>1. /\ wpc = "recycle" /\ wblk' = NoBlock /\ wpc' = "get"
      /\ UNCHANGED <<queue, size, countVars, bsize, chunk_count, callback, wcnt, relVars>>
  BY DEF Recycle
<1>2. /\ TypeOK /\ ~ secure /\ wcnt \in Count /\ wblk = wr_block /\ wblk # NoBlock
      /\ wblk \in block_list /\ wblk \in Block
  BY <1>1 DEF InputInv, WriterInv, TypeOK
<1>3. CASE UNCHANGED <<wp, block_list, free_list, wr_block>>
  <2>1. ListsInv' /\ FramesInv' /\ CountsInv' /\ ReleaserInv'
    BY <1>1, <1>3, ListsKept DEF countVars, relVars, listVars
  <2>2. TypeOK'
    BY <1>1, <1>3 DEF InputInv, TypeOK, countVars, relVars
  <2>3. WriterInv'
    BY <1>1, <1>2, <1>3 DEF InputInv, WriterInv, countVars
  <2> QED BY <2>1, <2>2, <2>3 DEF InputInv
<1>4. CASE /\ chunk_count[wblk] = 0
           /\ wp' = [wp EXCEPT ![wblk] = 0]
           /\ block_list' = block_list \ {wblk}
           /\ free_list' = Append(free_list, wblk)
           /\ wr_block' = NoBlock
  <2>1. QueuedIn(wblk) = {}
    BY <1>2, <1>4, CountFacts DEF InputInv, CountsInv
  <2>2. wblk \notin Elements(free_list) /\ free_list \in Seq(Block)
    BY <1>2 DEF InputInv, ListsInv, TypeOK
  <2>3. /\ free_list' \in Seq(Block) /\ Len(free_list) \in Nat
        /\ Len(free_list') = Len(free_list) + 1
        /\ \A i \in 1..Len(free_list) : free_list'[i] = free_list[i]
        /\ free_list'[Len(free_list) + 1] = wblk
        /\ Elements(free_list') = Elements(free_list) \cup {wblk}
    BY <1>2, <1>4, <2>2, AppendElements
  <2>4. Held' = Held /\ Memory' = Memory /\ Elements(free_list)' = Elements(free_list) \cup {wblk}
    BY <1>1, <1>2, <1>4, <2>3 DEF Held, Memory, Elements
  <2>5. Queued' = Queued /\ (\A x : QueuedIn(x)' = QueuedIn(x)) /\ Filled' = Filled
    BY <1>1 DEF Queued, QueuedIn, Filled, Elements
  <2>6. wp' \in [Block -> Nat] /\ wp'[wblk] = 0 /\ \A x \in Block : x # wblk => wp'[x] = wp[x]
    BY <1>2, <1>4 DEF TypeOK
  <2>7. TypeOK'
    BY <1>1, <1>2, <1>4, <2>3, <2>6 DEF InputInv, TypeOK, countVars, relVars
  <2>8. ListsInv'
    <3>1. \A i \in 1..Len(free_list) : free_list[i] # wblk
      BY <2>2 DEF Elements
    <3>2. \A i, j \in 1..Len(free_list') : i # j => free_list'[i] # free_list'[j]
      BY <2>3, <3>1 DEF InputInv, ListsInv
    <3>3. Elements(free_list) \subseteq Block
      BY <1>2, FreeFacts
    <3>4. \A b \in Elements(free_list)' : b \notin block_list' /\ (secure \/ wp'[b] = 0)
      BY <1>4, <2>2, <2>4, <2>6, <3>3 DEF InputInv, ListsInv
    <3> QED BY <1>1, <2>4, <3>2, <3>4 DEF InputInv, ListsInv
  <2>9. FramesInv'
    <3>1. \A c \in Queued : c.block # wblk /\ c.block \in Block
      BY <1>2, <2>1, QueueFacts DEF QueuedIn
    <3> QED BY <1>1, <1>4, <2>5, <2>6, <3>1 DEF InputInv, FramesInv
  <2>10. CountsInv'
    BY <1>1, <2>4, <2>5 DEF InputInv, CountsInv, countVars
  <2>11. WriterInv'
    BY <1>1, <1>2, <1>4 DEF InputInv, WriterInv, countVars
  <2>12. ReleaserInv'
    BY <1>1 DEF InputInv, ReleaserInv, relVars
  <2> QED BY <2>7, <2>8, <2>9, <2>10, <2>11, <2>12 DEF InputInv
<1> QED BY <1>3, <1>4 DEF Recycle

(* A new block becomes the one to write to.                                *)
LEMMA NewBlockStep ==
  ASSUME InputInv, NEW b \in Block, NEW bytes \in Nat, NewBlock(b, bytes),
         UNCHANGED <<secure, free_list, queue, wr_count, rd_count, relVars>>,
         wpc \in {"idle", "alloc"}
  PROVE  /\ ListsInv' /\ FramesInv' /\ CountsInv' /\ ReleaserInv'
         /\ block_list' \in SUBSET Block /\ size' \in Nat /\ wr_block' = b /\ wblk' = b /\ wpc' = "fill"
         /\ bsize' \in [Block -> Nat] /\ wp' \in [Block -> Nat] /\ chunk_count' \in [Block -> Nat]
         /\ b \in block_list' /\ bsize'[b] = bytes /\ wp'[b] = 0 /\ QueuedIn(b)' = {}
<1>1. /\ TypeOK /\ block_list \subseteq Block /\ free_list \in Seq(Block) /\ size \in Nat
      /\ bsize \in [Block -> Nat] /\ wp \in [Block -> Nat] /\ chunk_count \in [Block -> Nat]
  BY DEF InputInv, TypeOK
<1>2. /\ b \notin Held /\ block_list' = block_list \cup {b}
      /\ bsize' = [bsize EXCEPT ![b] = bytes] /\ wp' = [wp EXCEPT ![b] = 0]
      /\ chunk_count' = [chunk_count EXCEPT ![b] = 0]
      /\ size' = size + bytes /\ wr_block' = b /\ wblk' = b /\ wpc' = "fill"
  BY DEF NewBlock
<1>3. /\ bsize' \in [Block -> Nat] /\ wp' \in [Block -> Nat] /\ chunk_count' \in [Block -> Nat]
      /\ bsize'[b] = bytes /\ wp'[b] = 0 /\ chunk_count'[b] = 0
      /\ \A x \in Block : x # b => bsize'[x] = bsize[x] /\ wp'[x] = wp[x] /\ chunk_count'[x] = chunk_count[x]
  BY <1>1, <1>2
<1>4. b \notin block_list /\ b \notin Elements(free_list) /\ Elements(free_list) \subseteq Block
      /\ Held \subseteq Block
  BY <1>1, <1>2, FreeFacts DEF Held
<1>5. Elements(free_list)' = Elements(free_list) /\ Held' = Held \cup {b}
  BY <1>2 DEF Held, Elements
<1>6. Queued' = Queued /\ (\A x : QueuedIn(x)' = QueuedIn(x)) /\ Filled' = Filled
  BY DEF Queued, QueuedIn, Filled, Elements
<1>7. \A c \in Queued : c.block \in block_list /\ c.block \in Block /\ c.block # b
  BY <1>1, <1>4, QueueFacts DEF InputInv, FramesInv
<1>8. QueuedIn(b) = {}
  BY <1>7 DEF QueuedIn
<1>9. IsFiniteSet(Held) /\ IsFiniteSet(Held') /\ \A x \in Held \cup {b} : bsize'[x] \in Nat
  BY <1>3, <1>4, <1>5, HeldMemory, FS_AddElement
<1>10. Cardinality(Memory') = Cardinality(Memory) + bytes
  <2>1. MemoryOf(Held, bsize') = MemoryOf(Held, bsize)
    <3> DEFINE f == bsize'
    <3>1. \A x \in Held : f[x] = bsize[x]
      BY <1>2, <1>3, <1>4
    <3> HIDE DEF f
    <3>2. MemoryOf(Held, f) = MemoryOf(Held, bsize)
      BY <3>1, MemorySame
    <3> QED BY <3>2 DEF f
  <2>2. Cardinality(MemoryOf(Held \cup {b}, bsize')) = Cardinality(MemoryOf(Held, bsize')) + bsize'[b]
    BY <1>2, <1>9, MemoryAdd
  <2> QED BY <1>3, <1>5, <2>1, <2>2, MemoryIs
<1>11. ListsInv'
  BY <1>2, <1>3, <1>4, <1>5, <1>9 DEF InputInv, ListsInv
<1>12. FramesInv'
  BY <1>2, <1>3, <1>6, <1>7 DEF InputInv, FramesInv
<1>13. CountsInv'
  <2>1. size' = Cardinality(Memory')
    BY <1>2, <1>10 DEF InputInv, CountsInv
  <2>2. \A x \in Block : chunk_count'[x] = Cardinality(QueuedIn(x)')
    BY <1>3, <1>6, <1>8, FS_EmptySet DEF InputInv, CountsInv
  <2> QED BY <1>6, <2>1, <2>2 DEF InputInv, CountsInv
<1>14. ReleaserInv'
  BY <1>2 DEF InputInv, ReleaserInv, relVars
<1> QED BY <1>1, <1>2, <1>3, <1>6, <1>8, <1>11, <1>12, <1>13, <1>14

LEMMA AllocStep ==
  ASSUME InputInv, UNCHANGED secure, NEW b \in Block, Alloc(b)
  PROVE  InputInv'
<1> DEFINE bytes == PageAlign(default_size)
<1>1. /\ wpc = "alloc" /\ NewBlock(b, bytes) /\ no_mem_err' = 0
      /\ UNCHANGED <<free_list, queue, default_size, wr_count, rd_count, callback, wcnt, relVars>>
  BY DEF Alloc
<1>2. /\ TypeOK /\ ~ secure /\ wcnt \in Count /\ default_size \in Nat /\ default_size > Need(wcnt)
  BY <1>1 DEF InputInv, WriterInv, TypeOK
<1>3. bytes \in Nat /\ default_size <= bytes
  BY <1>2, AlignUpFacts, InputAssumption DEF PageAlign
<1> HIDE DEF bytes
<1>4. /\ ListsInv' /\ FramesInv' /\ CountsInv' /\ ReleaserInv'
      /\ block_list' \in SUBSET Block /\ size' \in Nat /\ wr_block' = b /\ wblk' = b /\ wpc' = "fill"
      /\ bsize' \in [Block -> Nat] /\ wp' \in [Block -> Nat] /\ chunk_count' \in [Block -> Nat]
      /\ b \in block_list' /\ bsize'[b] = bytes /\ wp'[b] = 0
  BY <1>1, <1>3, NewBlockStep
<1>5. TypeOK'
  <2>1. no_mem_err' \in 0..4 /\ UNCHANGED <<wcnt, default_size, rpc, rchunk, rblock>>
    BY <1>1 DEF relVars
  <2>2. UNCHANGED <<free_list, queue, wr_count, rd_count, callback>>
    BY <1>1
  <2> QED BY <1>2, <1>4, <2>1, <2>2 DEF TypeOK
<1>6. Fits(wblk, wcnt)'
  <2>1. Need(wcnt) \in Nat /\ Need(wcnt)' = Need(wcnt)
    BY <1>1, <1>2, Extents
  <2> QED BY <1>1, <1>2, <1>3, <1>4, <2>1 DEF Fits
<1>7. WriterInv'
  BY <1>1, <1>2, <1>4, <1>6 DEF InputInv, WriterInv
<1> QED BY <1>4, <1>5, <1>7 DEF InputInv

LEMMA WriteSecureStep ==
  ASSUME InputInv, UNCHANGED secure, NEW n \in Count, NEW b \in Block, NEW cb \in BOOLEAN,
         WriteSecure(n, b, cb)
  PROVE  InputInv'
<1> DEFINE bytes == PageAlign(n + ExtraPad + 1)
<1>1. /\ wpc = "idle" /\ secure /\ wcnt' = n /\ NewBlock(b, bytes)
      /\ callback' = IF cb THEN callback \cup {b} ELSE callback \ {b}
      /\ UNCHANGED <<free_list, queue, countVars, relVars>>
  BY DEF WriteSecure
<1>2. bytes \in Nat /\ PageAlign(n + CacheLine) <= bytes
  <2> DEFINE m == n + CacheLine
             k == n + ExtraPad + 1
  <2>1. m \in Nat /\ k \in Nat /\ m <= k /\ PageSize \in Nat \ {0}
    BY InputAssumption
  <2> HIDE DEF m, k
  <2>2. PageAlign(m) <= PageAlign(k) /\ PageAlign(k) \in Nat
    BY <2>1, AlignUpMonotone, AlignUpFacts DEF PageAlign
  <2> QED BY <2>2 DEF m, k
<1> HIDE DEF bytes
<1>3. /\ ListsInv' /\ FramesInv' /\ CountsInv' /\ ReleaserInv'
      /\ block_list' \in SUBSET Block /\ size' \in Nat /\ wr_block' = b /\ wblk' = b /\ wpc' = "fill"
      /\ bsize' \in [Block -> Nat] /\ wp' \in [Block -> Nat] /\ chunk_count' \in [Block -> Nat]
      /\ b \in block_list' /\ bsize'[b] = bytes /\ wp'[b] = 0 /\ QueuedIn(b)' = {}
  BY <1>1, <1>2, NewBlockStep DEF countVars
<1>4. TypeOK'
  BY <1>1, <1>3 DEF InputInv, TypeOK, countVars, relVars
<1>5. Extent' = PageAlign(n + CacheLine)
  BY <1>1 DEF Extent
<1>6. QueuedIn(wblk)' = {}
  BY <1>3 DEF QueuedIn
<1>7. WriterInv'
  BY <1>1, <1>2, <1>3, <1>5, <1>6 DEF InputInv, WriterInv, countVars
<1> QED BY <1>3, <1>4, <1>7 DEF InputInv

(* The frame that has been copied is queued.                               *)
LEMMA CommitStep ==
  ASSUME InputInv, UNCHANGED secure, NEW c \in Chunk, Commit(c)
  PROVE  InputInv'
<1> DEFINE x == [id |-> c, block |-> wblk, offset |-> IF secure THEN 0 ELSE wp[wblk],
                 extent |-> Extent, consumed |-> FALSE]
           end == wp[wblk] + Extent
<1>1. /\ wpc = "fill" /\ c \notin Addresses(queue) /\ queue' = Append(queue, x)
      /\ wp' = [wp EXCEPT ![wblk] = IF end >= bsize[wblk] THEN end - bsize[wblk] ELSE end]
      /\ chunk_count' = [chunk_count EXCEPT ![wblk] = @ + 1]
      /\ wr_block' = wblk
      /\ wr_count' = (wr_count + (IF secure THEN wcnt + CacheLine ELSE Extent)) % Wrap
      /\ wpc' = "idle" /\ wblk' = NoBlock /\ wcnt' = 0
      /\ UNCHANGED <<block_list, free_list, size, default_size, rd_count, no_mem_err, bsize, callback, relVars>>
  BY DEF Commit, Return
<1>2. /\ TypeOK /\ queue \in Seq(ChunkStruct) /\ wblk \in block_list /\ wblk \in Block /\ wcnt \in Count
      /\ bsize \in [Block -> Nat] /\ wp \in [Block -> Nat] /\ chunk_count \in [Block -> Nat]
      /\ wr_count \in Int /\ rd_count \in Int
  BY <1>1 DEF InputInv, TypeOK, WriterInv
<1>3. wcnt \in Nat \ {0} /\ Extent \in Nat /\ Extent > 0 /\ Need(wcnt) \in Nat
  BY <1>2, Extents
<1>4. /\ ~ secure => wr_block = wblk /\ end < bsize[wblk] /\ end = wp[wblk] + Need(wcnt)
      /\ secure => wp[wblk] = 0 /\ Extent <= bsize[wblk] /\ QueuedIn(wblk) = {}
  BY <1>1, <1>2, <1>3 DEF InputInv, WriterInv, Fits, Extent
<1>5. x \in ChunkStruct /\ x.id = c /\ x.block = wblk /\ x.extent = Extent
      /\ x.offset = (IF secure THEN 0 ELSE wp[wblk]) /\ x.consumed = FALSE
  BY <1>2, <1>3 DEF ChunkStruct
<1>6. wp' \in [Block -> Nat] /\ (~ secure => wp'[wblk] = end)
      /\ \A b \in Block : b # wblk => wp'[b] = wp[b]
  BY SMTT(30), <1>1, <1>2, <1>3, <1>4
<1> HIDE DEF x
<1>7. /\ queue' \in Seq(ChunkStruct) /\ Len(queue) \in Nat
      /\ Len(queue') = Len(queue) + 1
      /\ \A i \in 1..Len(queue) : queue'[i] = queue[i]
      /\ queue'[Len(queue) + 1] = x
      /\ Elements(queue') = Elements(queue) \cup {x}
  BY <1>1, <1>2, <1>5, AppendElements
<1>8. Queued' = Queued \cup {x}
  BY <1>7 DEF Queued, Elements
<1>9. Held' = Held /\ Memory' = Memory /\ Elements(free_list)' = Elements(free_list)
  BY <1>1 DEF Held, Memory, Elements
<1>10. \A d \in Queued : d.id # c /\ Disjoint(d, x) /\ (secure => d.block # wblk)
  <2> TAKE d \in Queued
  <2>1. d.id # c
    BY <1>1 DEF Addresses, Queued, Elements
  <2>2. secure => d.block # wblk
    BY <1>4 DEF QueuedIn
  <2>3. ~ secure => d.offset + d.extent <= wp[d.block]
    BY DEF InputInv, FramesInv
  <2> QED BY <1>5, <2>1, <2>2, <2>3 DEF Disjoint
<1>11. /\ Cardinality(Filled') = Cardinality(Filled) + Extent
       /\ Cardinality(Filled) \in Nat
  BY <1>2, <1>5, <1>8, <1>10, QueueFacts, FillsAdd, FilledIs, HeldMemory
<1>12. TypeOK'
  <2>1. wr_count' \in 0..(Wrap - 1)
    <3>1. Wrap \in Nat \ {0} /\ CacheLine \in Nat
      BY InputAssumption
    <3>2. wr_count + (IF secure THEN wcnt + CacheLine ELSE Extent) \in Int
      BY <1>2, <1>3, <3>1
    <3> QED BY <1>1, <3>1, <3>2, ModRange
  <2>2. chunk_count' \in [Block -> Nat]
    BY <1>1, <1>2
  <2> QED BY <1>1, <1>2, <1>6, <1>7, <2>1, <2>2 DEF InputInv, TypeOK, relVars
<1>13. ListsInv'
  <2>1. \A b \in Elements(free_list) : b # wblk /\ b \in Block
    BY <1>2, FreeFacts DEF InputInv, ListsInv
  <2> QED BY <1>1, <1>6, <1>9, <2>1 DEF InputInv, ListsInv
<1>14. FramesInv'
  <2>1. ASSUME NEW d \in Queued'
        PROVE  /\ d.block \in block_list
               /\ d.extent > 0 /\ d.offset + d.extent <= bsize[d.block]
               /\ secure \/ d.offset + d.extent <= wp'[d.block]
    <3>1. CASE d = x
      BY <1>2, <1>3, <1>4, <1>5, <1>6, <3>1
    <3>2. CASE d \in Queued
      <4>1. /\ d.block \in block_list /\ d.block \in Block /\ d.offset \in Nat /\ d.extent \in Nat
            /\ d.extent > 0 /\ d.offset + d.extent <= bsize[d.block]
            /\ secure \/ d.offset + d.extent <= wp[d.block]
        BY <1>2, <3>2, QueueFacts DEF InputInv, FramesInv
      <4>2. CASE d.block = wblk
        BY <1>2, <1>3, <1>6, <4>1, <4>2
      <4>3. CASE d.block # wblk
        BY <1>6, <4>1, <4>3
      <4> QED BY <4>2, <4>3
    <3> QED BY <1>8, <3>1, <3>2
  <2>2. ASSUME NEW i \in 1..Len(queue'), NEW j \in 1..Len(queue'), i # j
        PROVE  /\ queue'[i].id # queue'[j].id
               /\ Disjoint(queue'[i], queue'[j])
               /\ secure => queue'[i].block # queue'[j].block
    <3>1. CASE i \in 1..Len(queue) /\ j \in 1..Len(queue)
      BY <1>7, <2>2, <3>1 DEF InputInv, FramesInv
    <3>2. CASE i = Len(queue) + 1 /\ j \in 1..Len(queue)
      <4>1. queue[j] \in Queued
        BY <3>2 DEF Queued, Elements
      <4> QED BY <1>5, <1>7, <1>10, <3>2, <4>1 DEF Disjoint
    <3>3. CASE j = Len(queue) + 1 /\ i \in 1..Len(queue)
      <4>1. queue[i] \in Queued
        BY <3>3 DEF Queued, Elements
      <4> QED BY <1>5, <1>7, <1>10, <3>3, <4>1 DEF Disjoint
    <3> QED BY <1>7, <2>2, <3>1, <3>2, <3>3
  <2> QED BY <1>1, <2>1, <2>2 DEF FramesInv, Disjoint
<1>15. CountsInv'
  <2>1. size' = Cardinality(Memory')
    BY <1>1, <1>9 DEF InputInv, CountsInv
  <2>2. ASSUME NEW b \in Block PROVE chunk_count'[b] = Cardinality(QueuedIn(b)')
    <3>1. chunk_count[b] = Cardinality(QueuedIn(b))
      BY DEF InputInv, CountsInv
    <3>2. CASE b = wblk
      <4>1. QueuedIn(b)' = QueuedIn(b) \cup {x}
        BY <1>5, <1>8, <3>2 DEF QueuedIn
      <4>2. x \notin QueuedIn(b)
        BY <1>5, <1>10 DEF QueuedIn
      <4>3. Cardinality(QueuedIn(b) \cup {x}) = Cardinality(QueuedIn(b)) + 1
        BY <1>2, <4>2, CountFacts, FS_AddElement
      <4> QED BY <1>1, <1>2, <3>1, <3>2, <4>1, <4>3
    <3>3. CASE b # wblk
      <4>1. QueuedIn(b)' = QueuedIn(b)
        BY <1>5, <1>8, <3>3 DEF QueuedIn
      <4> QED BY <1>1, <1>2, <3>1, <3>3, <4>1
    <3> QED BY <3>2, <3>3
  <2>3. ASSUME ~ secure PROVE (wr_count' - rd_count' - Cardinality(Filled')) % Wrap = 0
    <3> DEFINE d == rd_count + Cardinality(Filled)
    <3>1. (wr_count - d) % Wrap = 0
      <4>1. wr_count - rd_count - Cardinality(Filled) = wr_count - d
        BY <1>2, <1>11
      <4> QED BY <2>3, <4>1 DEF InputInv, CountsInv
    <3>2. d \in Int /\ Wrap \in Nat \ {0}
      BY <1>2, <1>11, InputAssumption
    <3> HIDE DEF d
    <3>3. (((wr_count + Extent) % Wrap) - (d + Extent)) % Wrap = 0
      <4> DEFINE e == Extent
      <4>1. e \in Int /\ wr_count \in Int
        BY <1>2, <1>3
      <4> HIDE DEF e
      <4>2. (wr_count - d) % Wrap = 0 => (((wr_count + e) % Wrap) - (d + e)) % Wrap = 0
        BY <4>1, <3>2, ModAdd
      <4>3. (((wr_count + e) % Wrap) - (d + e)) % Wrap = 0
        BY <3>1, <4>2
      <4> QED BY <4>3 DEF e
    <3>4. wr_count' = (wr_count + Extent) % Wrap /\ wr_count' \in Int
      BY <1>1, <1>12, <2>3 DEF TypeOK
    <3>5. wr_count' - (d + Extent) = wr_count' - rd_count' - Cardinality(Filled')
      BY <1>1, <1>2, <1>3, <1>11, <3>4 DEF d
    <3> QED BY <3>3, <3>4, <3>5
  <2> QED BY <1>1, <2>1, <2>2, <2>3 DEF CountsInv
<1>16. WriterInv'
  BY <1>1, <1>2 DEF InputInv, WriterInv
<1>17. ReleaserInv'
  <2>1. queue # <<>> => queue' # <<>> /\ queue'[1] = queue[1]
    BY <1>2, <1>7, QueueFacts
  <2> QED BY <1>1, <2>1 DEF InputInv, ReleaserInv, relVars
<1> QED BY <1>12, <1>13, <1>14, <1>15, <1>16, <1>17 DEF InputInv

-----------------------------------------------------------------------------
(* The first chunk is released.                                            *)

(* The block b that held the released chunk leaves the list when its last  *)
(* frame has gone and nobody writes to it.                                 *)
Leaves(b) == secure \/ (chunk_count[b] = 1 /\ wr_block # b)

(* What becomes of the queue and of the counts.                            *)
LEMMA ReleaseQueue ==
  ASSUME InputInv, queue # <<>>, NEW b, b = queue[1].block, UNCHANGED <<secure, wr_count>>,
         queue' = Without(queue, 1),
         rd_count' = (rd_count + queue[1].extent) % Wrap,
         chunk_count' = [chunk_count EXCEPT ![b] = @ - 1]
  PROVE  /\ queue' \in Seq(ChunkStruct) /\ queue' = Tail(queue) /\ Len(queue) \in Nat
         /\ Len(queue') = Len(queue) - 1
         /\ \A i \in 1..Len(queue') : i + 1 \in 1..Len(queue) /\ queue'[i] = queue[i + 1]
         /\ b \in block_list /\ b \in Block /\ QueuedIn(b) # {}
         /\ Queued' \subseteq Queued
         /\ rd_count' \in 0..(Wrap - 1) /\ chunk_count' \in [Block -> Nat]
         /\ \A y \in Block : chunk_count'[y] = Cardinality(QueuedIn(y)') /\ QueuedIn(y)' \subseteq QueuedIn(y)
         /\ Leaves(b) => QueuedIn(b)' = {}
         /\ ~ secure => (wr_count' - rd_count' - Cardinality(Filled')) % Wrap = 0
<1> DEFINE x == queue[1]
<1>1. /\ TypeOK /\ queue \in Seq(ChunkStruct) /\ chunk_count \in [Block -> Nat]
      /\ wr_count \in Int /\ rd_count \in Int
      /\ 1 \in 1..Len(queue) /\ x \in ChunkStruct /\ x \in Queued
  <2>1. TypeOK
    BY DEF InputInv
  <2>2. /\ queue \in Seq(ChunkStruct) /\ chunk_count \in [Block -> Nat]
        /\ wr_count \in 0..(Wrap - 1) /\ rd_count \in 0..(Wrap - 1)
    BY <2>1 DEF TypeOK
  <2>3. 1 \in 1..Len(queue)
    <3>1. Len(queue) \in Nat /\ Len(queue) # 0
      BY <2>1, QueueFacts
    <3> QED BY <3>1
  <2>4. x \in ChunkStruct /\ x \in Queued
    BY <2>1, <2>3, QueueFacts
  <2> QED BY <2>1, <2>2, <2>3, <2>4
<1>2. /\ x.block = b /\ b \in Block /\ b \in block_list /\ x.extent \in Nat
  BY <1>1, QueueFacts DEF InputInv, FramesInv
<1>3. \A i, j \in 1..Len(queue) : i # j => queue[i] # queue[j]
  BY DEF InputInv, FramesInv
<1>4. /\ queue' \in Seq(ChunkStruct) /\ queue' = Tail(queue) /\ Len(queue) \in Nat
      /\ Len(queue') = Len(queue) - 1
      /\ \A i \in 1..Len(queue') : i + 1 \in 1..Len(queue) /\ queue'[i] = queue[i + 1]
      /\ Elements(queue') = Elements(queue) \ {x}
  <2>1. queue' = Tail(queue)
    BY <1>1, <1>3, TailElements
  <2>2. /\ Tail(queue) \in Seq(ChunkStruct) /\ Len(queue) \in Nat
        /\ Len(Tail(queue)) = Len(queue) - 1
        /\ \A i \in 1..Len(Tail(queue)) : i + 1 \in 1..Len(queue) /\ Tail(queue)[i] = queue[i + 1]
        /\ Elements(Tail(queue)) = Elements(queue) \ {queue[1]}
    BY <1>1, <1>3, TailElements
  <2> QED BY <2>1, <2>2
<1> HIDE DEF x
<1>5. Queued' = Queued \ {x} /\ Queued = Queued' \cup {x} /\ x \notin Queued'
  BY <1>1, <1>4 DEF Queued, Elements
<1>6. \A d \in Queued' : Disjoint(d, x) /\ (secure => d.block # b)
  <2> TAKE d \in Queued'
  <2>1. PICK i \in 1..Len(queue) : d = queue[i] /\ i # 1
    BY <1>1, <1>5, QueueFacts DEF x
  <2> QED BY <1>1, <1>2, <2>1 DEF InputInv, FramesInv, x
<1>7. \A y : QueuedIn(y)' = QueuedIn(y) \ {x} /\ (y # b => QueuedIn(y)' = QueuedIn(y))
  BY <1>2, <1>5 DEF QueuedIn
<1>8. x \in QueuedIn(b)
  BY <1>1, <1>2 DEF QueuedIn
<1>9. chunk_count[b] = Cardinality(QueuedIn(b)) /\ chunk_count[b] \in Nat
  BY <1>1, <1>2 DEF InputInv, CountsInv
<1>10. /\ IsFiniteSet(QueuedIn(b)') /\ Cardinality(QueuedIn(b)') = chunk_count[b] - 1
       /\ Cardinality(QueuedIn(b)') \in Nat
  <2>1. IsFiniteSet(QueuedIn(b))
    BY <1>1, CountFacts
  <2>2. /\ IsFiniteSet(QueuedIn(b) \ {x})
        /\ Cardinality(QueuedIn(b) \ {x}) = Cardinality(QueuedIn(b)) - 1
    BY <1>8, <2>1, FS_RemoveElement
  <2>3. Cardinality(QueuedIn(b) \ {x}) \in Nat
    BY <2>2, FS_CardinalityType
  <2> QED BY <1>7, <1>9, <2>2, <2>3
<1>11. chunk_count' \in [Block -> Nat]
  BY <1>1, <1>2, <1>10
<1>12. \A y \in Block : chunk_count'[y] = Cardinality(QueuedIn(y)')
  <2> TAKE y \in Block
  <2>1. CASE y = b
    BY <1>1, <1>2, <1>10, <2>1
  <2>2. CASE y # b
    BY <1>1, <1>7, <2>2 DEF InputInv, CountsInv
  <2> QED BY <2>1, <2>2
<1>13. Leaves(b) => QueuedIn(b)' = {}
  <2>1. CASE secure
    BY <1>6, <2>1 DEF QueuedIn
  <2>2. CASE chunk_count[b] = 1
    <3>1. Cardinality(QueuedIn(b)') = 0
      BY <1>10, <2>2
    <3> QED BY <1>10, <3>1, FS_EmptySet
  <2> QED BY <2>1, <2>2 DEF Leaves
<1>14. Wrap \in Nat \ {0}
  BY InputAssumption
<1>15. rd_count' \in 0..(Wrap - 1)
  <2> DEFINE n == rd_count + x.extent
  <2>1. n \in Int
    BY <1>1, <1>2
  <2>2. rd_count' = n % Wrap
    BY DEF x
  <2> HIDE DEF n
  <2> QED BY <1>14, <2>1, <2>2, ModRange
<1>16. ASSUME ~ secure PROVE (wr_count' - rd_count' - Cardinality(Filled')) % Wrap = 0
  <2> DEFINE e == x.extent
             f == Cardinality(Filled')
             d == wr_count - e - f
             n == rd_count
  <2>1. Cardinality(Fills(Queued' \cup {x})) = Cardinality(Fills(Queued')) + e
        /\ Cardinality(Fills(Queued')) \in Nat
    <3> DEFINE Q == Queued'
    <3>1. Q \subseteq ChunkStruct /\ IsFiniteSet(Q) /\ x \in ChunkStruct /\ \A c \in Q : Disjoint(c, x)
      BY <1>1, <1>5, <1>6, QueueFacts, FS_RemoveElement
    <3> HIDE DEF Q
    <3>2. Cardinality(Fills(Q \cup {x})) = Cardinality(Fills(Q)) + x.extent /\ Cardinality(Fills(Q)) \in Nat
      BY <3>1, FillsAdd, FillsFinite
    <3> QED BY <3>2 DEF Q
  <2>2. Cardinality(Filled) = f + e /\ f \in Nat
    BY <1>5, <2>1, FilledIs
  <2>3. (wr_count - rd_count - Cardinality(Filled)) % Wrap = 0
    BY <1>16 DEF InputInv, CountsInv
  <2>4. e \in Nat /\ n \in Int /\ d \in Int /\ rd_count' = (n + e) % Wrap /\ rd_count' \in Int
    BY <1>1, <1>2, <1>15, <2>2 DEF x
  <2>5. wr_count - rd_count - Cardinality(Filled) = d - n
    BY <1>1, <1>2, <2>2
  <2>6. wr_count' - rd_count' - f = (d + e) - rd_count'
    <3>1. wr_count' = wr_count /\ wr_count \in Int /\ f \in Int /\ e \in Int /\ rd_count' \in Int
      BY <1>1, <2>2, <2>4
    <3> HIDE DEF e, f
    <3>2. d = wr_count - e - f
      OBVIOUS
    <3> HIDE DEF d
    <3> QED BY <3>1, <3>2
  <2> HIDE DEF e, f, d, n
  <2>7. (d - n) % Wrap = 0 => ((d + e) - ((n + e) % Wrap)) % Wrap = 0
    BY <1>14, <2>4, ModAdd
  <2>8. ((d + e) - rd_count') % Wrap = 0
    BY <2>3, <2>4, <2>5, <2>7
  <2> QED BY <2>6, <2>8 DEF f
<1> QED BY <1>2, <1>4, <1>5, <1>7, <1>8, <1>11, <1>12, <1>13, <1>15, <1>16

(* The released block is the only one that changes, and only if it leaves. *)
LEMMA ReleaseLists ==
  ASSUME InputInv, NEW b \in Block, b \in block_list, UNCHANGED secure,
         wpc' \notin {"prepare", "stale", "freed"},
         IF Leaves(b)
         THEN /\ block_list' = block_list \ {b}
              /\ wp' = [wp EXCEPT ![b] = 0]
              /\ \/ FreeBlock(b) /\ UNCHANGED free_list
                 \/ free_list' = Append(free_list, b) /\ UNCHANGED <<size, bsize>>
         ELSE UNCHANGED <<block_list, free_list, size, bsize, wp>>
  PROVE  /\ ListsInv' /\ size' = Cardinality(Memory')
         /\ block_list' \in SUBSET Block /\ free_list' \in Seq(Block) /\ size' \in Nat
         /\ bsize' \in [Block -> Nat] /\ wp' \in [Block -> Nat]
         /\ block_list' = IF Leaves(b) THEN block_list \ {b} ELSE block_list
         /\ \A y \in block_list' : bsize'[y] = bsize[y] /\ wp'[y] = wp[y]
<1>1. /\ TypeOK /\ block_list \subseteq Block /\ free_list \in Seq(Block) /\ size \in Nat
      /\ bsize \in [Block -> Nat] /\ wp \in [Block -> Nat]
      /\ size = Cardinality(Memory) /\ ListsInv /\ IsFiniteSet(Held)
  BY DEF InputInv, TypeOK, CountsInv, ListsInv
<1>2. Elements(free_list) \subseteq Block /\ b \notin Elements(free_list) /\ b \in Held
  BY <1>1, FreeFacts DEF ListsInv, Held
<1>3. CASE ~ Leaves(b)
  <2>1. Held' = Held /\ Memory' = Memory /\ Elements(free_list)' = Elements(free_list)
    BY <1>3 DEF Held, Memory, Elements
  <2> QED BY <1>1, <1>3, <2>1 DEF ListsInv
<1>4. CASE Leaves(b) /\ FreeBlock(b) /\ UNCHANGED free_list
  <2>1. /\ block_list' = block_list \ {b} /\ wp' = [wp EXCEPT ![b] = 0]
        /\ size' = size - bsize[b] /\ bsize' = [bsize EXCEPT ![b] = 0]
        /\ free_list' = free_list
    BY <1>4 DEF FreeBlock
  <2>2. /\ bsize' \in [Block -> Nat] /\ wp' \in [Block -> Nat] /\ wp'[b] = 0
        /\ \A x \in Block : x # b => bsize'[x] = bsize[x] /\ wp'[x] = wp[x]
    BY <1>1, <2>1
  <2>3. /\ Elements(free_list)' = Elements(free_list)
        /\ Held = Held' \cup {b} /\ b \notin Held' /\ Held' = Held \ {b} /\ Held' \subseteq Block
    <3>1. Elements(free_list)' = Elements(free_list)
      BY <2>1 DEF Elements
    <3>2. Held' = (block_list \ {b}) \cup Elements(free_list)
      BY <2>1, <3>1 DEF Held
    <3>3. Held' = Held \ {b}
      BY <1>2, <3>2 DEF Held
    <3>4. Held \subseteq Block
      BY <1>1, <1>2 DEF Held
    <3> QED BY <1>2, <3>1, <3>3, <3>4
  <2>4. IsFiniteSet(Held')
    <3>1. IsFiniteSet(Held \ {b})
      BY <1>1, <1>2, FS_RemoveElement
    <3> QED BY <2>3, <3>1
  <2>5. Cardinality(Memory) = Cardinality(Memory') + bsize[b] /\ Cardinality(Memory') \in Nat
    <3> DEFINE f == bsize'
               H == Held'
    <3>1. \A x \in H : bsize[x] = f[x]
      BY <2>2, <2>3
    <3>2. (\A x \in H \cup {b} : bsize[x] \in Nat) /\ IsFiniteSet(H) /\ b \notin H
      BY <1>1, <2>3, <2>4
    <3> HIDE DEF f, H
    <3>3. MemoryOf(H, bsize) = MemoryOf(H, f)
      BY <3>1, MemorySame
    <3>4. Cardinality(MemoryOf(H \cup {b}, bsize)) = Cardinality(MemoryOf(H, bsize)) + bsize[b]
          /\ Cardinality(MemoryOf(H, bsize)) \in Nat
      BY <3>2, MemoryAdd, MemoryFinite
    <3>5. Held = H \cup {b}
      BY <2>3 DEF H
    <3> QED BY <3>3, <3>4, <3>5, MemoryIs DEF f, H
  <2>6. size' = Cardinality(Memory')
    BY <1>1, <2>1, <2>5
  <2>7. ListsInv'
    <3>1. \A x \in Elements(free_list)' : x \notin block_list' /\ (secure \/ wp'[x] = 0)
      BY <1>1, <1>2, <2>1, <2>2, <2>3 DEF ListsInv
    <3>2. \A i, j \in 1..Len(free_list') : i # j => free_list'[i] # free_list'[j]
      BY <1>1, <2>1 DEF ListsInv
    <3> QED BY <2>4, <3>1, <3>2 DEF ListsInv
  <2> QED BY <1>1, <1>4, <2>1, <2>2, <2>5, <2>6, <2>7
<1>5. CASE Leaves(b) /\ free_list' = Append(free_list, b) /\ UNCHANGED <<size, bsize>>
  <2>1. /\ block_list' = block_list \ {b} /\ wp' = [wp EXCEPT ![b] = 0]
        /\ free_list' = Append(free_list, b) /\ size' = size /\ bsize' = bsize
    BY <1>5
  <2>2. /\ wp' \in [Block -> Nat] /\ wp'[b] = 0
        /\ \A x \in Block : x # b => wp'[x] = wp[x]
    BY <1>1, <2>1
  <2>3. /\ free_list' \in Seq(Block) /\ Len(free_list) \in Nat
        /\ Len(free_list') = Len(free_list) + 1
        /\ \A i \in 1..Len(free_list) : free_list'[i] = free_list[i]
        /\ free_list'[Len(free_list) + 1] = b
        /\ Elements(free_list') = Elements(free_list) \cup {b}
    BY <1>1, <2>1, AppendElements
  <2>4. /\ Elements(free_list)' = Elements(free_list) \cup {b} /\ Held' = Held
        /\ Memory' = Memory
    BY <1>1, <1>2, <2>1, <2>3 DEF Held, Memory, Elements
  <2>5. ListsInv'
    <3>1. \A i \in 1..Len(free_list) : free_list[i] # b
      BY <1>2 DEF Elements
    <3>2. \A i, j \in 1..Len(free_list') : i # j => free_list'[i] # free_list'[j]
      <4>1. \A i, j \in 1..Len(free_list) : i # j => free_list[i] # free_list[j]
        BY <1>1 DEF ListsInv
      <4> QED BY <2>3, <3>1, <4>1
    <3>3. \A x \in Elements(free_list)' : x \notin block_list' /\ (secure \/ wp'[x] = 0)
      BY <1>1, <1>2, <2>1, <2>2, <2>4 DEF ListsInv
    <3> QED BY <1>1, <2>4, <3>2, <3>3 DEF ListsInv
  <2> QED BY <1>1, <1>5, <2>1, <2>2, <2>3, <2>4, <2>5
<1> QED BY <1>3, <1>4, <1>5

LEMMA ReleaseFirst ==
  ASSUME InputInv, queue # <<>>, NEW b, b = queue[1].block, ReleaseChunk(1, b),
         UNCHANGED <<secure, wr_block, default_size, wr_count, userVars>>
  PROVE  /\ ListsInv' /\ FramesInv' /\ CountsInv' /\ WriterInv'
         /\ queue' \in Seq(ChunkStruct) /\ queue' = Tail(queue)
         /\ block_list' \in SUBSET Block /\ free_list' \in Seq(Block) /\ size' \in Nat
         /\ bsize' \in [Block -> Nat] /\ wp' \in [Block -> Nat] /\ chunk_count' \in [Block -> Nat]
         /\ rd_count' \in 0..(Wrap - 1)
<1>1. /\ queue' = Without(queue, 1)
      /\ rd_count' = (rd_count + queue[1].extent) % Wrap
      /\ chunk_count' = [chunk_count EXCEPT ![b] = @ - 1]
  BY DEF ReleaseChunk
<1>2. /\ queue' \in Seq(ChunkStruct) /\ queue' = Tail(queue) /\ Len(queue) \in Nat
      /\ Len(queue') = Len(queue) - 1
      /\ \A i \in 1..Len(queue') : i + 1 \in 1..Len(queue) /\ queue'[i] = queue[i + 1]
      /\ b \in block_list /\ b \in Block /\ QueuedIn(b) # {}
      /\ Queued' \subseteq Queued
      /\ rd_count' \in 0..(Wrap - 1) /\ chunk_count' \in [Block -> Nat]
      /\ \A y \in Block : chunk_count'[y] = Cardinality(QueuedIn(y)') /\ QueuedIn(y)' \subseteq QueuedIn(y)
      /\ Leaves(b) => QueuedIn(b)' = {}
      /\ ~ secure => (wr_count' - rd_count' - Cardinality(Filled')) % Wrap = 0
  BY <1>1, ReleaseQueue
<1>3. wpc \notin {"drained", "prepare", "stale", "freed"} /\ wpc' = wpc
  BY DEF InputInv, FramesInv, userVars
<1>4. /\ ListsInv' /\ size' = Cardinality(Memory')
      /\ block_list' \in SUBSET Block /\ free_list' \in Seq(Block) /\ size' \in Nat
      /\ bsize' \in [Block -> Nat] /\ wp' \in [Block -> Nat]
      /\ block_list' = IF Leaves(b) THEN block_list \ {b} ELSE block_list
      /\ \A y \in block_list' : bsize'[y] = bsize[y] /\ wp'[y] = wp[y]
  <2>1. IF Leaves(b)
        THEN /\ block_list' = block_list \ {b}
             /\ wp' = [wp EXCEPT ![b] = 0]
             /\ \/ FreeBlock(b) /\ UNCHANGED free_list
                \/ free_list' = Append(free_list, b) /\ UNCHANGED <<size, bsize>>
        ELSE UNCHANGED <<block_list, free_list, size, bsize, wp>>
    BY DEF ReleaseChunk, Leaves
  <2> QED BY <1>2, <1>3, <2>1, ReleaseLists
<1>5. TypeOK
  BY DEF InputInv
<1>6. \A c \in Queued' : c \in Queued /\ c.block \in Block /\ c.block \in block_list'
  <2> TAKE c \in Queued'
  <2>1. c \in Queued /\ c.block \in Block /\ c.block \in block_list
    BY <1>2, <1>5, QueueFacts DEF InputInv, FramesInv
  <2>2. Leaves(b) => c.block # b
    BY <1>2 DEF QueuedIn
  <2> QED BY <1>4, <2>1, <2>2
<1>7. FramesInv'
  <2>1. \A c \in Queued' :
          /\ c.block \in block_list'
          /\ c.extent > 0 /\ c.offset + c.extent <= bsize'[c.block]
          /\ secure \/ c.offset + c.extent <= wp'[c.block]
    BY <1>4, <1>6 DEF InputInv, FramesInv
  <2>2. \A i, j \in 1..Len(queue') : i # j =>
          /\ queue'[i].id # queue'[j].id
          /\ Disjoint(queue'[i], queue'[j])
          /\ secure => queue'[i].block # queue'[j].block
    BY <1>2 DEF InputInv, FramesInv
  <2> QED BY <1>3, <2>1, <2>2 DEF FramesInv, Disjoint
<1>8. CountsInv'
  BY <1>2, <1>4 DEF CountsInv
<1>9. WriterInv'
  <2>1. ~ secure /\ wpc # "drain" => wr_block' \in block_list' \cup {NoBlock}
    BY <1>3, <1>4 DEF InputInv, WriterInv, Leaves
  <2>2. ASSUME wpc = "fill"
        PROVE  /\ wblk \in block_list'
               /\ ~ secure => wr_block = wblk /\ Fits(wblk, wcnt)'
               /\ secure => wp'[wblk] = 0 /\ Extent' <= bsize'[wblk] /\ QueuedIn(wblk)' = {}
    <3>1. /\ wblk \in block_list /\ wblk \in Block
          /\ ~ secure => wr_block = wblk /\ Fits(wblk, wcnt)
          /\ secure => wp[wblk] = 0 /\ Extent <= bsize[wblk] /\ QueuedIn(wblk) = {}
      BY <1>5, <2>2 DEF InputInv, WriterInv, TypeOK
    <3>2. wblk \in block_list'
      BY <1>2, <1>4, <3>1 DEF Leaves
    <3>3. bsize'[wblk] = bsize[wblk] /\ wp'[wblk] = wp[wblk] /\ UNCHANGED <<wblk, wcnt>>
      BY <1>4, <3>2 DEF userVars
    <3>4. Fits(wblk, wcnt)' = Fits(wblk, wcnt)
      BY <3>3 DEF Fits
    <3>5. Extent' = Extent
      BY <3>3 DEF Extent
    <3>6. secure => QueuedIn(wblk)' = {}
      BY <1>2, <3>1, <3>3
    <3> QED BY <3>1, <3>2, <3>3, <3>4, <3>5, <3>6
  <2>3. Need(wcnt)' = Need(wcnt) /\ UNCHANGED <<wpc, wblk, wcnt>>
    BY DEF userVars
  <2> QED BY <1>3, <2>1, <2>2, <2>3 DEF InputInv, WriterInv
<1> QED BY <1>2, <1>4, <1>7, <1>8, <1>9

(* The chunk to delete is the first one, and no other thread waits for it. *)
LEMMA DeleteStep ==
  ASSUME InputInv, \A r, s \in Releaser : r = s, UNCHANGED secure, NEW r \in Releaser, Delete(r)
  PROVE  InputInv' /\ queue' = Tail(queue) /\ queue # <<>> /\ queue[1].consumed
<1>1. /\ rpc[r] = "del"
      /\ rpc' = [rpc EXCEPT ![r] = "idle"]
      /\ rchunk' = [rchunk EXCEPT ![r] = NoBlock]
      /\ rblock' = [rblock EXCEPT ![r] = NoBlock]
      /\ UNCHANGED <<wr_block, default_size, wr_count, no_mem_err, callback, userVars>>
  BY DEF Delete
<1>2. TypeOK
  BY DEF InputInv
<1>3. queue # <<>> /\ rchunk[r] = queue[1].id /\ queue[1].consumed /\ rblock[r] = queue[1].block
      /\ wpc \notin {"drain", "drained", "prepare"}
  BY <1>1 DEF InputInv, ReleaserInv
<1>4. 1 \in 1..Len(queue) /\ rchunk[r] \in Addresses(queue)
  BY <1>2, <1>3, QueueFacts DEF Addresses
<1>5. PICK i \in 1..Len(queue) : queue[i].id = rchunk[r] /\ ReleaseChunk(i, rblock[r])
  BY <1>4 DEF Delete
<1>6. i = 1
  BY <1>3, <1>4, <1>5 DEF InputInv, FramesInv
<1>7. /\ ListsInv' /\ FramesInv' /\ CountsInv' /\ WriterInv'
      /\ queue' \in Seq(ChunkStruct) /\ queue' = Tail(queue)
      /\ block_list' \in SUBSET Block /\ free_list' \in Seq(Block) /\ size' \in Nat
      /\ bsize' \in [Block -> Nat] /\ wp' \in [Block -> Nat] /\ chunk_count' \in [Block -> Nat]
      /\ rd_count' \in 0..(Wrap - 1)
  <2> DEFINE b == rblock[r]
  <2>1. b = queue[1].block /\ ReleaseChunk(1, b)
    BY <1>3, <1>5, <1>6
  <2> HIDE DEF b
  <2> QED BY <1>1, <1>3, <2>1, ReleaseFirst
<1>8. TypeOK'
  BY <1>1, <1>2, <1>7 DEF TypeOK, userVars
<1>9. ReleaserInv'
  <2>1. \A s \in Releaser : rpc'[s] = "idle"
    BY <1>1, <1>2 DEF TypeOK
  <2> QED BY <2>1 DEF ReleaserInv
<1> QED BY <1>3, <1>7, <1>8, <1>9 DEF InputInv

LEMMA DrainStep ==
  ASSUME InputInv, UNCHANGED secure, Drain
  PROVE  InputInv' /\ queue' = Tail(queue)
<1> DEFINE b == queue[1].block
<1>1. /\ wpc = "drain" /\ queue # <<>> /\ ReleaseChunk(1, b)
      /\ UNCHANGED <<wr_block, default_size, wr_count, no_mem_err, callback, userVars, relVars>>
  BY DEF Drain
<1>2. b = queue[1].block
  OBVIOUS
<1> HIDE DEF b
<1>3. /\ ListsInv' /\ FramesInv' /\ CountsInv' /\ WriterInv'
      /\ queue' \in Seq(ChunkStruct) /\ queue' = Tail(queue)
      /\ block_list' \in SUBSET Block /\ free_list' \in Seq(Block) /\ size' \in Nat
      /\ bsize' \in [Block -> Nat] /\ wp' \in [Block -> Nat] /\ chunk_count' \in [Block -> Nat]
      /\ rd_count' \in 0..(Wrap - 1)
  BY <1>1, <1>2, ReleaseFirst
<1>4. TypeOK'
  BY <1>1, <1>3 DEF InputInv, TypeOK, userVars, relVars
<1>5. ReleaserInv'
  BY <1>1 DEF InputInv, ReleaserInv, relVars
<1> QED BY <1>3, <1>4, <1>5 DEF InputInv

-----------------------------------------------------------------------------
(* A reset.                                                                *)

LEMMA ResetStep ==
  ASSUME InputInv, UNCHANGED secure, Reset \/ Drained
  PROVE  InputInv'
<1>1. /\ \/ wpc \in {"idle", "stale"} /\ wpc' = "drain"
         \/ wpc = "drain" /\ wpc' = "drained" /\ queue = <<>>
      /\ \A r \in Releaser : rpc[r] \notin {"check", "del"}
      /\ UNCHANGED <<listVars, countVars, blockVars, wblk, wcnt, relVars>>
  <2>1. CASE Reset
    <3>1. /\ wpc \in {"idle", "stale"} /\ wpc' = "drain" /\ \A r \in Releaser : rpc[r] = "idle"
          /\ UNCHANGED <<listVars, countVars, blockVars, wblk, wcnt, relVars>>
      BY <2>1 DEF Reset
    <3> QED BY <3>1
  <2>2. CASE Drained
    BY <2>2 DEF Drained, InputInv, ReleaserInv
  <2> QED BY <2>1, <2>2
<1>2. /\ Held' = Held /\ Queued' = Queued /\ Elements(free_list)' = Elements(free_list)
      /\ \A b : QueuedIn(b)' = QueuedIn(b)
  BY <1>1 DEF Held, Queued, QueuedIn, Elements, listVars
<1>3. Memory' = Memory /\ Filled' = Filled
  BY <1>1, <1>2 DEF Memory, Filled, blockVars
<1>4. TypeOK'
  BY <1>1 DEF InputInv, TypeOK, listVars, countVars, blockVars, relVars
<1>5. ListsInv'
  BY <1>1, <1>2 DEF InputInv, ListsInv, listVars, blockVars
<1>6. FramesInv'
  BY <1>1, <1>2 DEF InputInv, FramesInv, listVars, blockVars
<1>7. CountsInv'
  BY <1>1, <1>2, <1>3 DEF InputInv, CountsInv, listVars, countVars, blockVars
<1>8. WriterInv'
  BY <1>1 DEF InputInv, WriterInv, listVars, countVars
<1>9. ReleaserInv'
  BY <1>1 DEF ReleaserInv, relVars
<1> QED BY <1>4, <1>5, <1>6, <1>7, <1>8, <1>9 DEF InputInv

(* Nothing is in an input without blocks and frames.                       *)
LEMMA EmptyInput ==
  ASSUME block_list' = {}, free_list' = <<>>, queue' = <<>>
  PROVE  /\ Held' = {} /\ Queued' = {} /\ Elements(free_list)' = {}
         /\ IsFiniteSet(Held')
         /\ Cardinality(Memory') = 0 /\ Cardinality(Filled') = 0
         /\ \A b : Cardinality(QueuedIn(b)') = 0
<1>1. Held' = {} /\ Queued' = {} /\ Elements(free_list)' = {}
  BY DEF Held, Queued, Elements
<1>2. Memory' = {} /\ Filled' = {} /\ \A b : QueuedIn(b)' = {}
  BY <1>1 DEF Memory, Filled, QueuedIn
<1> QED BY <1>1, <1>2, FS_EmptySet

LEMMA ZeroMod == ASSUME NEW a \in Nat \ {0} PROVE 0 % a = 0
<1>1. 0 \in Int /\ 0 = 0 * a
  OBVIOUS
<1> QED BY <1>1, ModZero

LEMMA FreeBlocksStep ==
  ASSUME InputInv, UNCHANGED secure, FreeBlocks
  PROVE  InputInv'
<1>1. /\ wpc = "drained" /\ wpc' = "prepare"
      /\ block_list' = {} /\ free_list' = <<>> /\ size' = 0
      /\ bsize' = [b \in Block |-> 0] /\ wp' = [b \in Block |-> 0]
      /\ default_size' = BlockSize /\ wr_count' = 0 /\ rd_count' = 0
      /\ UNCHANGED <<queue, wr_block, no_mem_err, chunk_count, callback, wblk, wcnt, relVars>>
  BY DEF FreeBlocks
<1>2. /\ TypeOK /\ queue = <<>> /\ BlockSize \in Nat \ {0} /\ Wrap \in Nat \ {0}
      /\ \A r \in Releaser : rpc[r] \notin {"check", "del"}
  BY <1>1, InputAssumption DEF InputInv, FramesInv, ReleaserInv
<1>3. /\ Held' = {} /\ Queued' = {} /\ Elements(free_list)' = {} /\ IsFiniteSet(Held')
      /\ Cardinality(Memory') = 0 /\ Cardinality(Filled') = 0
      /\ \A b : Cardinality(QueuedIn(b)') = 0
  BY <1>1, <1>2, EmptyInput
<1>4. TypeOK'
  BY <1>1, <1>2 DEF TypeOK, relVars
<1>5. ListsInv'
  BY <1>1, <1>3 DEF ListsInv
<1>6. FramesInv'
  BY <1>1, <1>2, <1>3 DEF FramesInv
<1>7. CountsInv'
  <2>1. \A b \in Block : chunk_count[b] = 0
    <3>1. Queued = {}
      BY <1>2 DEF Queued, Elements
    <3>2. \A b \in Block : QueuedIn(b) = {}
      BY <3>1 DEF QueuedIn
    <3> QED BY <3>2, FS_EmptySet DEF InputInv, CountsInv
  <2>2. (wr_count' - rd_count' - Cardinality(Filled')) % Wrap = 0
    <3>1. wr_count' - rd_count' - Cardinality(Filled') = 0
      BY <1>1, <1>3
    <3> QED BY <1>2, <3>1, ZeroMod
  <2> QED BY <1>1, <1>3, <2>1, <2>2 DEF CountsInv
<1>8. WriterInv'
  BY <1>1, <1>2 DEF WriterInv
<1>9. ReleaserInv'
  BY <1>1, <1>2 DEF ReleaserInv, relVars
<1> QED BY <1>4, <1>5, <1>6, <1>7, <1>8, <1>9 DEF InputInv

LEMMA PrepareStep ==
  ASSUME InputInv, UNCHANGED secure, NEW k \in 0..Prepared, NEW s \in [1..k -> Block],
         \A i, j \in 1..k : i # j => s[i] # s[j], Prepare(s)
  PROVE  InputInv'
<1> DEFINE z == PageAlign(default_size)
           H == Elements(s)
<1>1. /\ wpc = "prepare" /\ wpc' = IF Stale(s) THEN "stale" ELSE "idle"
      /\ secure => s = <<>>
      /\ free_list' = s
      /\ bsize' = [b \in Block |-> IF b \in H THEN z ELSE bsize[b]]
      /\ size' = Len(s) * z
      /\ wr_block' = IF s = <<>> THEN wr_block ELSE NoBlock
      /\ no_mem_err' \in {no_mem_err, Failed(1)}
      /\ UNCHANGED <<block_list, queue, default_size, wr_count, rd_count, wp, chunk_count, callback, wblk,
                     wcnt, relVars>>
  BY DEF Prepare
<1>2. /\ TypeOK /\ Held = {} /\ wp = [b \in Block |-> 0] /\ queue = <<>>
      /\ default_size \in Nat /\ default_size >= BlockSize
      /\ \A r \in Releaser : rpc[r] \notin {"check", "del"}
  BY <1>1 DEF InputInv, TypeOK, ListsInv, FramesInv, WriterInv, ReleaserInv
<1>3. k \in Nat /\ s \in Seq(Block) /\ Len(s) = k
  BY InputAssumption
<1>4. z \in Nat
  BY <1>2, AlignUpFacts, InputAssumption DEF PageAlign
<1>5. H \subseteq Block /\ IsFiniteSet(H)
  BY <1>3, ElementsFacts
<1>6. Held' = H /\ Elements(free_list)' = H /\ block_list' = {}
  BY <1>1, <1>2 DEF Held, Elements
<1>7. Cardinality(H) = k
  <2>1. s \in Bijection(1..k, H)
    <3>1. s \in Injection(1..k, H)
      BY <1>3 DEF Elements, Injection, IsInjective
    <3>2. s \in Surjection(1..k, H)
      BY <1>3 DEF Elements, Surjection
    <3> QED BY <3>1, <3>2 DEF Bijection
  <2> HIDE DEF H
  <2> QED BY <1>3, <2>1, FS_CountingElements DEF ExistsBijection
<1>8. Queued' = Queued /\ (\A b : QueuedIn(b)' = QueuedIn(b)) /\ Filled' = Filled
  BY <1>1 DEF Queued, QueuedIn, Filled, Elements
<1> HIDE DEF z, H
<1>9. Cardinality(Memory') = k * z
  <2>1. \A b \in H : bsize'[b] = z
    BY <1>1, <1>5
  <2>2. Memory' = H \X (0..(z - 1))
    BY <1>6, <2>1 DEF Memory, Bytes
  <2>3. IsFiniteSet(0..(z - 1)) /\ Cardinality(0..(z - 1)) = z
    <3> DEFINE h == z - 1
    <3>1. h \in Int /\ 0 <= h + 1 /\ h - 0 + 1 = z
      BY <1>4
    <3> HIDE DEF h
    <3>2. IsFiniteSet(0..h) /\ Cardinality(0..h) = z
      BY <3>1, FS_Interval
    <3> QED BY <3>2 DEF h
  <2> QED BY <1>5, <1>7, <2>2, <2>3, FS_Product
<1>10. TypeOK'
  <2>1. no_mem_err' \in 0..4
    BY <1>1, <1>2 DEF Failed, TypeOK
  <2>2. size' \in Nat
    BY <1>1, <1>3, <1>4
  <2>3. bsize' \in [Block -> Nat]
    BY <1>1, <1>2, <1>4 DEF TypeOK
  <2> QED BY <1>1, <1>2, <1>3, <2>1, <2>2, <2>3 DEF TypeOK, relVars
<1>11. ListsInv'
  <2>1. \A b \in Block : wp'[b] = 0
    BY <1>1, <1>2
  <2>2. \A i, j \in 1..Len(free_list') : i # j => free_list'[i] # free_list'[j]
    BY <1>1, <1>3
  <2>3. Stale(s) => Held' = {} /\ wp' = [b \in Block |-> 0]
    BY <1>1, <1>2, <1>6 DEF Stale, H, Elements
  <2>4. wpc' \in {"prepare", "stale", "freed"} => Stale(s)
    BY <1>1
  <2> QED BY <1>1, <1>5, <1>6, <2>1, <2>2, <2>3, <2>4 DEF ListsInv
<1>12. FramesInv'
  BY <1>1, <1>2, <1>8 DEF FramesInv, Queued, Elements
<1>13. CountsInv'
  BY <1>1, <1>3, <1>8, <1>9 DEF InputInv, CountsInv
<1>14. WriterInv'
  BY <1>1, <1>2 DEF InputInv, WriterInv, Stale
<1>15. ReleaserInv'
  BY <1>1, <1>2 DEF ReleaserInv, relVars
<1> QED BY <1>10, <1>11, <1>12, <1>13, <1>14, <1>15 DEF InputInv

-----------------------------------------------------------------------------
(* The invariant.                                                          *)

(* A write that goes to a freed block leaves the model as it is.           *)
LEMMA WriteFreedStep ==
  ASSUME InputInv, UNCHANGED secure, WriteFreed
  PROVE  InputInv'
<1>1. /\ wpc \in {"stale", "freed"} /\ wpc' = "freed"
      /\ UNCHANGED <<listVars, countVars, blockVars, wblk, wcnt, relVars>>
  BY DEF WriteFreed
<1>2. /\ Held' = Held /\ Queued' = Queued /\ Elements(free_list)' = Elements(free_list)
      /\ \A b : QueuedIn(b)' = QueuedIn(b)
  BY <1>1 DEF Held, Queued, QueuedIn, Elements, listVars
<1>3. Memory' = Memory /\ Filled' = Filled
  BY <1>1, <1>2 DEF Memory, Filled, blockVars
<1>4. TypeOK'
  BY <1>1 DEF InputInv, TypeOK, listVars, countVars, blockVars, relVars
<1>5. ListsInv'
  BY <1>1, <1>2 DEF InputInv, ListsInv, listVars, blockVars
<1>6. FramesInv'
  BY <1>1, <1>2 DEF InputInv, FramesInv, listVars, blockVars
<1>7. CountsInv'
  BY <1>1, <1>2, <1>3 DEF InputInv, CountsInv, listVars, countVars, blockVars
<1>8. WriterInv'
  BY <1>1 DEF InputInv, WriterInv, listVars, countVars
<1>9. ReleaserInv'
  BY <1>1 DEF InputInv, ReleaserInv, listVars, relVars
<1> QED BY <1>4, <1>5, <1>6, <1>7, <1>8, <1>9 DEF InputInv

LEMMA InitInv == Init => InputInv
<1> SUFFICES ASSUME Init PROVE InputInv
  OBVIOUS
<1>1. /\ secure \in BOOLEAN /\ BlockSize \in Nat \ {0} /\ Wrap \in Nat \ {0}
      /\ block_list = {} /\ free_list = <<>> /\ queue = <<>>
  BY InputAssumption DEF Init
<1>2. /\ Held = {} /\ Queued = {} /\ Elements(free_list) = {}
      /\ Memory = {} /\ Filled = {} /\ \A b : QueuedIn(b) = {}
  <2>1. Held = {} /\ Queued = {} /\ Elements(free_list) = {}
    BY <1>1 DEF Held, Queued, Elements
  <2> QED BY <2>1 DEF Memory, Filled, QueuedIn
<1>3. IsFiniteSet({}) /\ Cardinality({}) = 0
  BY FS_EmptySet
<1>4. TypeOK
  BY <1>1 DEF Init, TypeOK
<1>5. ListsInv
  BY <1>1, <1>2, <1>3 DEF Init, ListsInv
<1>6. FramesInv
  BY <1>1, <1>2 DEF FramesInv
<1>7. CountsInv
  <2>1. (wr_count - rd_count - Cardinality(Filled)) % Wrap = 0
    <3>1. wr_count - rd_count - Cardinality(Filled) = 0
      BY <1>2, <1>3 DEF Init
    <3> QED BY <1>1, <3>1, ZeroMod
  <2> QED BY <1>2, <1>3, <2>1 DEF Init, CountsInv
<1>8. WriterInv
  BY <1>1 DEF Init, WriterInv
<1>9. ReleaserInv
  BY DEF Init, ReleaserInv
<1> QED BY <1>4, <1>5, <1>6, <1>7, <1>8, <1>9 DEF InputInv

LEMMA StutterStep ==
  ASSUME InputInv, UNCHANGED vars
  PROVE  InputInv'
<1>1. ListsInv' /\ FramesInv' /\ CountsInv' /\ WriterInv'
  BY SameLists DEF vars
<1>2. TypeOK'
  BY DEF InputInv, TypeOK, vars, listVars, countVars, blockVars, userVars, relVars
<1>3. ReleaserInv'
  BY DEF InputInv, ReleaserInv, vars, listVars, userVars, relVars
<1> QED BY <1>1, <1>2, <1>3 DEF InputInv

LEMMA NextInv ==
  ASSUME \A r, s \in Releaser : r = s, InputInv, [Next]_vars
  PROVE  InputInv'
<1>1. CASE User
  <2>1. UNCHANGED secure
    BY <1>1 DEF User
  <2>2. CASE \E n \in Count : Write(n)
    BY <2>1, <2>2, WriteStep
  <2>3. CASE \E n \in Count, b \in Block, cb \in BOOLEAN : WriteSecure(n, b, cb)
    BY <2>1, <2>3, WriteSecureStep
  <2>4. CASE Recycle
    BY <2>1, <2>4, RecycleStep
  <2>5. CASE GetFree
    BY <2>1, <2>5, GetFreeStep
  <2>6. CASE GetNone
    BY <2>1, <2>6, GetNoneStep
  <2>7. CASE \E long \in BOOLEAN : Enough(long)
    BY <2>1, <2>7, EnoughStep
  <2>8. CASE \E b \in Block : Alloc(b)
    BY <2>1, <2>8, AllocStep
  <2>9. CASE \E c \in Chunk : Commit(c)
    BY <2>1, <2>9, CommitStep
  <2>10. CASE WriteFreed
    BY <2>1, <2>10, WriteFreedStep
  <2> QED BY <1>1, <2>2, <2>3, <2>4, <2>5, <2>6, <2>7, <2>8, <2>9, <2>10 DEF User, Start
<1>2. CASE Fail
  BY <1>2, FailStep
<1>3. CASE Port
  <2>1. UNCHANGED secure
    BY <1>3 DEF Port
  <2>2. CASE Reset \/ Drained
    BY <2>1, <2>2, ResetStep
  <2>3. CASE Drain
    BY <2>1, <2>3, DrainStep
  <2>4. CASE FreeBlocks
    BY <2>1, <2>4, FreeBlocksStep
  <2>5. CASE \E k \in 0..Prepared : \E s \in [1..k -> Block] :
               (\A i, j \in 1..k : i # j => s[i] # s[j]) /\ Prepare(s)
    BY <2>1, <2>5, PrepareStep
  <2> QED BY <1>3, <2>2, <2>3, <2>4, <2>5 DEF Port
<1>4. CASE GetHandle
  BY <1>4, GetFreedHandleStep DEF GetHandle
<1>5. CASE Decoder
  BY <1>5, ConsumeStep DEF Decoder
<1>6. CASE \E r \in Releaser : Release(r)
  <2>1. PICK r \in Releaser : Release(r)
    BY <1>6
  <2>2. UNCHANGED secure
    BY <2>1 DEF Release
  <2>3. CASE Peek(r)
    BY <2>2, <2>3, PeekStep
  <2>4. CASE Check(r)
    BY <2>2, <2>4, CheckStep
  <2>5. CASE Delete(r)
    BY <2>2, <2>5, DeleteStep
  <2> QED BY <2>1, <2>3, <2>4, <2>5 DEF Release
<1>7. CASE UNCHANGED vars
  BY <1>7, StutterStep
<1> QED BY <1>1, <1>2, <1>3, <1>4, <1>5, <1>6, <1>7 DEF Next

(* With one thread that releases frames, InputInv always holds: the lists, *)
(* the frames, the counts and what the two threads remember agree, for any *)
(* number of blocks, chunks and frame sizes.  The one state of the code in *)
(* which they do not, a freed wr_block after a reset that got no block, is *)
(* reached (wpc = "stale") and excepted there.                             *)
THEOREM InputInvariant ==
  ASSUME \A r, s \in Releaser : r = s
  PROVE  Spec => []InputInv
<1>1. Init => InputInv
  BY InitInv
<1>2. InputInv /\ [Next]_vars => InputInv'
  BY NextInv
<1> QED BY <1>1, <1>2, PTL DEF Spec

-----------------------------------------------------------------------------
(* What follows from it.                                                   *)

LEMMA InvNoOverwrite == InputInv => NoOverwrite
<1> SUFFICES ASSUME InputInv PROVE NoOverwrite
  OBVIOUS
<1>1. \A c \in Queued : c.block \in block_list
  BY DEF InputInv, FramesInv
<1>2. ASSUME wpc = "fill"
      PROVE  /\ wblk \in block_list
             /\ wp[wblk] + Extent <= bsize[wblk]
             /\ NoFrameIn(wblk, wp[wblk], wp[wblk] + Extent)
  <2>1. /\ TypeOK /\ wblk \in block_list /\ wblk \in Block /\ wcnt \in Count
        /\ ~ secure => Fits(wblk, wcnt)
        /\ secure => wp[wblk] = 0 /\ Extent <= bsize[wblk] /\ QueuedIn(wblk) = {}
    BY <1>2 DEF InputInv, WriterInv, TypeOK
  <2>2. /\ wp[wblk] \in Nat /\ bsize[wblk] \in Nat
        /\ Need(wcnt) \in Nat /\ Extent \in Nat /\ (~ secure => Extent = Need(wcnt))
    BY <2>1, Extents DEF TypeOK, Extent
  <2>3. wp[wblk] + Extent <= bsize[wblk]
    BY <2>1, <2>2 DEF Fits
  <2>4. NoFrameIn(wblk, wp[wblk], wp[wblk] + Extent)
    <3>1. ASSUME NEW c \in QueuedIn(wblk) PROVE c.offset + c.extent <= wp[wblk]
      BY <2>1 DEF InputInv, FramesInv, QueuedIn
    <3> QED BY <3>1 DEF NoFrameIn
  <2> QED BY <2>1, <2>3, <2>4
<1> QED BY <1>1, <1>2 DEF NoOverwrite

(* A frame is never overwritten: see NoOverwrite.  The write after a reset *)
(* that got no block goes to freed memory and is excepted there.           *)
THEOREM FramesKept ==
  ASSUME \A r, s \in Releaser : r = s
  PROVE  Spec => []NoOverwrite
<1>1. Spec => []InputInv
  BY InputInvariant
<1> QED BY <1>1, InvNoOverwrite, PTL

(* The lists, the size and the counts of the blocks are exact.             *)
THEOREM BooksExact ==
  ASSUME \A r, s \in Releaser : r = s
  PROVE  Spec => []Accounts
<1>1. Spec => []InputInv
  BY InputInvariant
<1>2. InputInv => Accounts
  BY DEF InputInv, ListsInv, CountsInv, Accounts
<1> QED BY <1>1, <1>2, PTL

LEMMA FilledInMemory ==
  ASSUME InputInv
  PROVE  Cardinality(Filled) <= size
<1>1. Filled \subseteq Memory
  <2>1. ASSUME NEW c \in Queued, NEW x \in FrameBytes(c) PROVE x \in Memory
    <3>1. /\ c.offset \in Nat /\ c.extent \in Nat /\ c.block \in Block
          /\ c.block \in Held /\ c.offset + c.extent <= bsize[c.block] /\ bsize[c.block] \in Nat
      BY QueueFacts DEF InputInv, FramesInv, Held, TypeOK
    <3>2. x \in Bytes(c.block, 0, bsize[c.block])
      BY <3>1 DEF FrameBytes, Bytes
    <3> QED BY <3>1, <3>2 DEF Memory
  <2> QED BY <2>1 DEF Filled
<1>2. IsFiniteSet(Memory)
  BY HeldMemory, MemoryFinite, MemoryIs
<1>3. Cardinality(Filled) <= Cardinality(Memory)
  BY <1>1, <1>2, FS_Subset
<1> QED BY <1>3 DEF InputInv, CountsInv

(* The level is the data that waits as long as the memory of the input is  *)
(* less than half the range of the counters, which an int always is.       *)
THEOREM LevelIsExact ==
  ASSUME \A r, s \in Releaser : r = s
  PROVE  Spec => [](2 * size < Wrap => LevelExact)
<1>1. Spec => []InputInv
  BY InputInvariant
<1>2. ASSUME InputInv, 2 * size < Wrap, ~ secure PROVE Level = Cardinality(Filled)
  <2> DEFINE f == Cardinality(Filled)
             n == wr_count - rd_count
             d == n % Wrap
  <2>1. f \in Nat /\ f <= size /\ size \in Nat /\ Wrap \in Nat \ {0} /\ n \in Int
        /\ wr_count \in Int /\ rd_count \in Int
    BY <1>2, HeldMemory, FilledInMemory, InputAssumption DEF InputInv, TypeOK
  <2>2. (n - f) % Wrap = 0
    BY <1>2 DEF InputInv, CountsInv
  <2>3. Level = IF 2 * d >= Wrap THEN d - Wrap ELSE d
    BY DEF Level
  <2> HIDE DEF f, n
  <2>4. PICK q \in Int : n - f = q * Wrap
    <3> DEFINE m == n - f
    <3>1. m \in Int
      BY <2>1
    <3> HIDE DEF m
    <3>2. m % Wrap = 0 <=> \E q \in Int : m = q * Wrap
      BY <2>1, <3>1, ModZero
    <3> QED BY <2>2, <3>2 DEF m
  <2>5. n = f + q * Wrap /\ f \in 0..(Wrap - 1) /\ 2 * f < Wrap
    BY <1>2, <2>1, <2>4
  <2>6. d = f
    BY <2>1, <2>5, ModUnique
  <2> QED BY <2>3, <2>5, <2>6, <2>1 DEF f
<1>3. InputInv => (2 * size < Wrap => LevelExact)
  BY <1>2 DEF LevelExact
<1> QED BY <1>1, <1>3, PTL

-----------------------------------------------------------------------------
(* VdecInput implements InputFifo: each step is one of its steps or leaves *)
(* the frames as they are.                                                 *)

(* How InputFifo sees a chunk and the queue.                               *)
Image(c) == [id |-> c.id, block |-> c.block, from |-> c.offset, to |-> c.offset + c.extent,
             used |-> c.consumed]
Frames == [i \in 1..Len(queue) |-> Image(queue[i])]
Closing == wpc = "drain"
Images == {Image(c) : c \in ChunkStruct}

LEMMA UsedRecord ==
  ASSUME NEW A, NEW B, NEW C, NEW D, NEW E, NEW v,
         NEW r \in [id : A, block : B, from : C, to : D, used : E]
  PROVE  [r EXCEPT !.used = v]
           = [id |-> r.id, block |-> r.block, from |-> r.from, to |-> r.to, used |-> v]
OBVIOUS

LEMMA FramesFacts ==
  ASSUME NEW q \in Seq(ChunkStruct), NEW f, f = [i \in 1..Len(q) |-> Image(q[i])]
  PROVE  /\ f \in Seq(Images) /\ Len(f) = Len(q)
         /\ \A i \in 1..Len(q) : f[i] = Image(q[i])
         /\ f = <<>> <=> q = <<>>
<1>1. Len(q) \in Nat /\ \A i \in 1..Len(q) : q[i] \in ChunkStruct
  OBVIOUS
<1>2. f \in [1..Len(q) -> Images]
  BY <1>1 DEF Images
<1>3. f \in Seq(Images) /\ Len(f) = Len(q)
  BY <1>1, <1>2
<1>4. f = <<>> <=> q = <<>>
  BY <1>1, <1>3
<1> QED BY <1>3, <1>4

LEMMA FramesNow ==
  ASSUME InputInv, InputInv'
  PROVE  /\ queue \in Seq(ChunkStruct) /\ queue' \in Seq(ChunkStruct)
         /\ Frames \in Seq(Images) /\ Frames' \in Seq(Images)
         /\ Len(Frames) = Len(queue) /\ Len(Frames') = Len(queue')
         /\ Len(queue) \in Nat /\ Len(queue') \in Nat
         /\ \A i \in 1..Len(queue) : Frames[i] = Image(queue[i]) /\ queue[i] \in ChunkStruct
         /\ \A i \in 1..Len(queue') : Frames'[i] = Image(queue'[i])
         /\ (Frames = <<>> <=> queue = <<>>)
<1>1. queue \in Seq(ChunkStruct) /\ queue' \in Seq(ChunkStruct)
  BY DEF InputInv, TypeOK
<1>2. Frames \in Seq(Images) /\ Len(Frames) = Len(queue)
      /\ (\A i \in 1..Len(queue) : Frames[i] = Image(queue[i])) /\ (Frames = <<>> <=> queue = <<>>)
  BY <1>1, FramesFacts DEF Frames
<1>3. Frames' \in Seq(Images) /\ Len(Frames') = Len(queue')
      /\ (\A i \in 1..Len(queue') : Frames'[i] = Image(queue'[i]))
  BY <1>1, FramesFacts DEF Frames
<1> QED BY <1>1, <1>2, <1>3

LEMMA CommitRefines ==
  ASSUME InputInv, InputInv', UNCHANGED secure, NEW c \in Chunk, Commit(c)
  PROVE  Fifo!Put
<1> DEFINE x == [id |-> c, block |-> wblk, offset |-> IF secure THEN 0 ELSE wp[wblk],
                 extent |-> Extent, consumed |-> FALSE]
           n == Len(queue)
<1>1. /\ wpc = "fill" /\ wpc' = "idle" /\ queue' = Append(queue, x)
  BY DEF Commit, Return
<1>2. /\ wblk \in Block /\ Extent \in Nat /\ wp[wblk] \in Nat
  BY <1>1, Extents DEF InputInv, WriterInv, TypeOK
<1>3. x \in ChunkStruct /\ x.id = c /\ x.consumed = FALSE
  BY <1>2 DEF ChunkStruct
<1> HIDE DEF x
<1>4. /\ n \in Nat /\ Len(queue') = n + 1 /\ queue'[n + 1] = x
      /\ \A i \in 1..n : queue'[i] = queue[i]
  BY <1>1, <1>3, FramesNow
<1> HIDE DEF n
<1>5. /\ Frames \in Seq(Images) /\ Frames' \in Seq(Images)
      /\ Len(Frames) = n /\ Len(Frames') = n + 1
      /\ Frames'[n + 1] = Image(x)
      /\ \A i \in 1..n : Frames[i] = Image(queue[i]) /\ Frames'[i] = Frames[i]
  BY <1>4, FramesNow DEF n
<1>6. Image(x) \in Images
  BY <1>3 DEF Images
<1>7. Frames' = Append(Frames, Image(x))
  <2> DEFINE g == Append(Frames, Image(x))
  <2>1. /\ g \in Seq(Images) /\ Len(g) = n + 1 /\ g[n + 1] = Image(x)
        /\ \A i \in 1..n : g[i] = Frames[i]
    BY <1>5, <1>6, AppendProperties
  <2>2. \A i \in 1..(n + 1) : i \in 1..n \/ i = n + 1
    BY <1>4
  <2> HIDE DEF g
  <2>3. Frames' = g
    BY <1>5, <2>1, <2>2, SeqEqual
  <2> QED BY <2>3 DEF g
<1>8. /\ ~ Image(x).used
      /\ Image(x).from < Image(x).to
  <2>1. x \in Queued'
    BY <1>4 DEF Queued, Elements
  <2>2. x.extent > 0 /\ x.offset \in Nat /\ x.extent \in Nat
    BY <1>3, <2>1 DEF InputInv, FramesInv, ChunkStruct
  <2> QED BY <1>3, <2>2 DEF Image
<1>9. \A i \in 1..n : Image(x).id # Frames[i].id /\ Fifo!Apart(Image(x), Frames[i])
  <2> TAKE i \in 1..n
  <2>1. i \in 1..Len(queue') /\ n + 1 \in 1..Len(queue') /\ i # n + 1
    BY <1>4
  <2>2. queue'[n + 1].id # queue'[i].id /\ Disjoint(queue'[n + 1], queue'[i])
    BY <2>1 DEF InputInv, FramesInv, Disjoint
  <2>3. Frames[i] = Image(queue[i]) /\ queue'[i] = queue[i]
    BY <1>4, <1>5
  <2> QED BY <1>4, <2>2, <2>3 DEF Image, Disjoint, Fifo!Apart
<1>10. ~ Closing /\ ~ Closing'
  BY <1>1 DEF Closing
<1>11. Len(Frames') > Len(Frames) /\ Frames'[Len(Frames')] = Image(x) /\ Len(Frames) = n
  BY <1>4, <1>5
<1> DEFINE f == Frames'[Len(Frames')]
<1>12. /\ Frames' = Append(Frames, f) /\ ~ f.used /\ f.from < f.to
       /\ \A i \in 1..Len(Frames) : f.id # Frames[i].id /\ Fifo!Apart(f, Frames[i])
  BY <1>7, <1>8, <1>9, <1>11
<1> QED BY <1>10, <1>11, <1>12 DEF Fifo!Put, Frames, Image, Closing

LEMMA ConsumeRefines ==
  ASSUME InputInv, InputInv', Consume
  PROVE  Fifo!Use
<1>1. queue # <<>> /\ queue' = [queue EXCEPT ![1].consumed = TRUE] /\ wpc' = wpc
  BY DEF Consume, userVars
<1>2. /\ 1 \in 1..Len(queue) /\ Len(queue') = Len(queue)
      /\ queue'[1] = [queue[1] EXCEPT !.consumed = TRUE]
      /\ \A i \in 1..Len(queue) : i # 1 => queue'[i] = queue[i]
  <2> DEFINE d == [queue[1] EXCEPT !.consumed = TRUE]
  <2>1. queue \in Seq(ChunkStruct) /\ 1 \in 1..Len(queue) /\ queue[1] \in ChunkStruct
    BY <1>1, FramesNow
  <2>2. d \in ChunkStruct /\ queue' = [queue EXCEPT ![1] = d]
    BY <1>1, <2>1 DEF ChunkStruct
  <2> HIDE DEF d
  <2>3. Len(queue') = Len(queue) /\ queue'[1] = d
        /\ \A i \in 1..Len(queue) : i # 1 => queue'[i] = queue[i]
    BY <2>1, <2>2
  <2> QED BY <2>1, <2>3 DEF d
<1>3. Image(queue'[1]) = [Image(queue[1]) EXCEPT !.used = TRUE] /\ Image(queue'[1]) \in Images
  <2>1. queue[1] \in ChunkStruct /\ queue'[1] \in ChunkStruct
    BY <1>2, FramesNow
  <2>2. Image(queue'[1]) = [Image(queue[1]) EXCEPT !.used = TRUE]
    <3> DEFINE c == queue[1]
               d == queue'[1]
    <3>1. /\ d.id = c.id /\ d.block = c.block /\ d.offset = c.offset /\ d.extent = c.extent
          /\ d.consumed = TRUE
      BY <1>2, <2>1 DEF ChunkStruct
    <3>2. c.offset \in Nat /\ c.extent \in Nat /\ c \in ChunkStruct
      BY <2>1 DEF ChunkStruct
    <3> HIDE DEF c, d
    <3>3. Image(c) \in [id : Chunk, block : Block, from : Nat, to : Nat, used : BOOLEAN]
      BY <3>2 DEF Image, ChunkStruct
    <3>4. [Image(c) EXCEPT !.used = TRUE]
            = [id |-> Image(c).id, block |-> Image(c).block, from |-> Image(c).from, to |-> Image(c).to,
               used |-> TRUE]
      <4> DEFINE v == TRUE
      <4> HIDE DEF v
      <4>1. [Image(c) EXCEPT !.used = v]
              = [id |-> Image(c).id, block |-> Image(c).block, from |-> Image(c).from, to |-> Image(c).to,
                 used |-> v]
        BY <3>3, UsedRecord
      <4> QED BY <4>1 DEF v
    <3>5. Image(d) = [id |-> c.id, block |-> c.block, from |-> c.offset, to |-> c.offset + c.extent,
                      used |-> TRUE]
      BY <3>1 DEF Image
    <3>6. /\ Image(c).id = c.id /\ Image(c).block = c.block /\ Image(c).from = c.offset
          /\ Image(c).to = c.offset + c.extent
      BY DEF Image
    <3>7. Image(d) = [Image(c) EXCEPT !.used = TRUE]
      BY <3>4, <3>5, <3>6
    <3> QED BY <3>7 DEF c, d
  <2> QED BY <2>1, <2>2 DEF Images
<1>4. Frames' = [Frames EXCEPT ![1] = Image(queue'[1])]
  <2> DEFINE g == [Frames EXCEPT ![1] = Image(queue'[1])]
  <2>1. g \in Seq(Images) /\ Len(g) = Len(queue) /\ g[1] = Image(queue'[1])
        /\ \A i \in 1..Len(queue) : i # 1 => g[i] = Frames[i]
    BY <1>2, <1>3, FramesNow
  <2> HIDE DEF g
  <2>2. \A i \in 1..Len(queue) : Frames'[i] = g[i]
    BY <1>2, <2>1, FramesNow
  <2>3. Frames' = g
    BY <1>2, <2>1, <2>2, FramesNow, SeqEqual
  <2> QED BY <2>3 DEF g
<1>5. Frames' = [Frames EXCEPT ![1].used = TRUE] /\ Frames # <<>>
  BY <1>1, <1>2, <1>3, <1>4, FramesNow
<1> QED BY <1>1, <1>5 DEF Fifo!Use, Frames, Image

LEMMA TailRefines ==
  ASSUME InputInv, InputInv', queue # <<>>, queue' = Tail(queue), wpc' = wpc,
         queue[1].consumed \/ wpc = "drain"
  PROVE  Fifo!Take
<1>1. /\ 1 \in 1..Len(queue) /\ Len(queue') = Len(queue) - 1
      /\ \A i \in 1..Len(queue') : i + 1 \in 1..Len(queue) /\ queue'[i] = queue[i + 1]
  BY FramesNow
<1>2. Frames # <<>> /\ Frames[1] = Image(queue[1])
  BY <1>1, FramesNow
<1>3. Frames' = Tail(Frames)
  <2> DEFINE g == Tail(Frames)
  <2>1. /\ g \in Seq(Images) /\ Len(g) = Len(queue) - 1
        /\ \A i \in 1..Len(g) : g[i] = Frames[i + 1]
    BY <1>1, <1>2, FramesNow
  <2> HIDE DEF g
  <2>2. \A i \in 1..Len(queue') : Frames'[i] = g[i]
    BY <1>1, <2>1, FramesNow
  <2>3. Frames' = g
    BY <1>1, <2>1, <2>2, FramesNow, SeqEqual
  <2> QED BY <2>3 DEF g
<1>4. Frames[1].used \/ Closing
  BY <1>2 DEF Image, Closing
<1>5. Closing' = Closing
  BY DEF Closing
<1> QED BY <1>2, <1>3, <1>4, <1>5 DEF Fifo!Take, Frames, Image, Closing

LEMMA QueueKept ==
  ASSUME queue' = queue, Closing' = Closing
  PROVE  UNCHANGED Fifo!fifoVars
BY DEF Fifo!fifoVars, Closing

LEMMA StepRefines ==
  ASSUME \A r, s \in Releaser : r = s, InputInv, InputInv', [Next]_vars
  PROVE  [Fifo!FifoNext]_Fifo!fifoVars
<1>1. CASE User
  <2>1. UNCHANGED secure
    BY <1>1 DEF User
  <2>2. CASE \E n \in Count : Write(n)
    BY <2>2, QueueKept DEF Write, listVars, Closing
  <2>3. CASE \E n \in Count, b \in Block, cb \in BOOLEAN : WriteSecure(n, b, cb)
    BY <2>3, QueueKept DEF WriteSecure, NewBlock, Closing
  <2>4. CASE Recycle
    BY <2>4, QueueKept DEF Recycle, Closing
  <2>5. CASE GetFree
    BY <2>5, QueueKept DEF GetFree, Closing
  <2>6. CASE GetNone
    BY <2>6, QueueKept DEF GetNone, listVars, Closing
  <2>7. CASE \E long \in BOOLEAN : Enough(long)
    BY <2>7, QueueKept DEF Enough, Return, listVars, Closing
  <2>8. CASE \E b \in Block : Alloc(b)
    BY <2>8, QueueKept DEF Alloc, NewBlock, Closing
  <2>9. CASE \E c \in Chunk : Commit(c)
    BY <2>1, <2>9, CommitRefines DEF Fifo!FifoNext
  <2>10. CASE WriteFreed
    BY <2>10, QueueKept DEF WriteFreed, listVars, Closing
  <2> QED BY <1>1, <2>2, <2>3, <2>4, <2>5, <2>6, <2>7, <2>8, <2>9, <2>10 DEF User, Start
<1>2. CASE Fail
  BY <1>2, QueueKept DEF Fail, AllocFail, ChunkFail, Return, listVars, Closing
<1>3. CASE Port
  <2>1. UNCHANGED secure
    BY <1>3 DEF Port
  <2>2. CASE Reset
    <3>1. queue' = queue /\ Closing'
      BY <2>2 DEF Reset, listVars, Closing
    <3> QED BY <3>1 DEF Fifo!FifoNext, Fifo!Close, Closing
  <2>3. CASE Drained
    <3>1. queue = <<>> /\ queue' = queue /\ ~ Closing'
      BY <2>3 DEF Drained, listVars, Closing
    <3>2. Frames = <<>>
      BY <3>1, FramesNow
    <3> QED BY <3>1, <3>2 DEF Fifo!FifoNext, Fifo!Reopen, Closing, Frames, Image
  <2>4. CASE Drain
    <3>1. wpc = "drain" /\ wpc' = wpc /\ queue # <<>>
      BY <2>4 DEF Drain, userVars
    <3>2. queue' = Tail(queue)
      BY <2>1, <2>4, DrainStep
    <3> QED BY <3>1, <3>2, TailRefines DEF Fifo!FifoNext
  <2>5. CASE FreeBlocks
    BY <2>5, QueueKept DEF FreeBlocks, Closing
  <2>6. CASE \E k \in 0..Prepared : \E s \in [1..k -> Block] :
               (\A i, j \in 1..k : i # j => s[i] # s[j]) /\ Prepare(s)
    BY <2>6, QueueKept DEF Prepare, Closing
  <2> QED BY <1>3, <2>2, <2>3, <2>4, <2>5, <2>6 DEF Port
<1>4. CASE GetHandle
  BY <1>4, QueueKept DEF GetHandle, GetFreedHandle, userVars, Closing
<1>5. CASE Decoder
  BY <1>5, ConsumeRefines DEF Decoder, Fifo!FifoNext
<1>6. CASE \E r \in Releaser : Release(r)
  <2>1. PICK r \in Releaser : Release(r)
    BY <1>6
  <2>2. UNCHANGED secure
    BY <2>1 DEF Release
  <2>3. CASE Peek(r)
    BY <2>3, QueueKept DEF Peek, listVars, userVars, Closing
  <2>4. CASE Check(r)
    BY <2>4, QueueKept DEF Check, listVars, userVars, Closing
  <2>5. CASE Delete(r)
    <3>1. queue' = Tail(queue) /\ queue # <<>> /\ queue[1].consumed
      BY <2>2, <2>5, DeleteStep
    <3>2. wpc' = wpc
      BY <2>5 DEF Delete, userVars
    <3> QED BY <3>1, <3>2, TailRefines DEF Fifo!FifoNext
  <2> QED BY <2>1, <2>3, <2>4, <2>5 DEF Release
<1>7. CASE UNCHANGED vars
  BY <1>7, QueueKept DEF vars, listVars, userVars, Closing
<1> QED BY <1>1, <1>2, <1>3, <1>4, <1>5, <1>6, <1>7 DEF Next

LEMMA InitRefines == Init => Fifo!FifoInit
<1> SUFFICES ASSUME Init PROVE Fifo!FifoInit
  OBVIOUS
<1>1. queue = <<>> /\ wpc # "drain"
  BY DEF Init
<1>2. queue \in Seq(ChunkStruct)
  BY <1>1
<1>3. Frames = <<>>
  BY <1>1, <1>2, FramesFacts DEF Frames
<1> QED BY <1>1, <1>3 DEF Fifo!FifoInit, Frames, Image

(* Frames go in and come out as InputFifo says: in the order in which they *)
(* were written, none lost or released before its time, none in the bytes  *)
(* of another one.                                                         *)
THEOREM InputIsFifo ==
  ASSUME \A r, s \in Releaser : r = s
  PROVE  Spec => ImplementsFifo
<1>1. Spec => []InputInv
  BY InputInvariant
<1>2. Init => Fifo!FifoInit
  BY InitRefines
<1>3. InputInv /\ InputInv' /\ [Next]_vars => [Fifo!FifoNext]_Fifo!fifoVars
  BY StepRefines
<1> QED BY <1>1, <1>2, <1>3, PTL DEF Spec, ImplementsFifo, Fifo!FifoSpec
=============================================================================
