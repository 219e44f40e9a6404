------------------------------ MODULE VppProofs ------------------------------
(***************************************************************************)
(* Proofs about Vpp: VppInv is inductive, hence an invariant for every     *)
(* number of buffers and every choice of the modes, and the thread and the *)
(* decoder never give up.  First come lemmas about sequences and about the *)
(* operators of TaskChain, then one lemma per action, with one step per    *)
(* conjunct of VppInv; the theorems are at the end.                        *)
(***************************************************************************)
EXTENDS Vpp, FiniteSetTheorems, TLAPS

-----------------------------------------------------------------------------
(* Sequences.                                                              *)

LEMMA AppendFacts ==
  ASSUME NEW S, NEW q \in Seq(S), NEW x \in S
  PROVE  /\ Append(q, x) \in Seq(S) /\ Len(q) \in Nat
         /\ Len(Append(q, x)) = Len(q) + 1
         /\ \A i \in 1..Len(Append(q, x)) :
              Append(q, x)[i] = IF i <= Len(q) THEN q[i] ELSE x
OBVIOUS

LEMMA TailFacts ==
  ASSUME NEW S, NEW q \in Seq(S), q # <<>>
  PROVE  /\ Tail(q) \in Seq(S) /\ Head(q) \in S
         /\ Len(q) \in Nat \ {0} /\ Len(Tail(q)) = Len(q) - 1
         /\ Head(q) = q[1]
         /\ \A i \in 1..Len(Tail(q)) : i + 1 \in 1..Len(q) /\ Tail(q)[i] = q[i + 1]
OBVIOUS

LEMMA EmptyFacts ==
  ASSUME NEW S, NEW q \in Seq(S)
  PROVE  Len(q) = 0 <=> q = <<>>
OBVIOUS

(* A buffer, a time stamp and the number of a field make a picture.        *)
LEMMA FrameFacts ==
  /\ \A b \in Buf, t \in Time, n \in 1..2 : [fb |-> b, ts |-> t, nth |-> n] \in Frame
  /\ \A f \in Frame : f.fb \in Buf /\ f.ts \in Time /\ f.nth \in 1..2 /\ f # NoFrame
  /\ NoBuf \notin Buf
BY VppAssumption, NoFrameAssumption DEF Frame, Buf, NoBuf

(* The stream is live until its buffers are taken back.                    *)
LEMMA LiveFacts ==
  ASSUME VppInv, Running
  PROVE  Live <=> phase # "off"
BY DEF VppInv, TypeOK, Running, Live

USE DEF Live, fieldVars

-----------------------------------------------------------------------------
(* The operators of TaskChain.                                             *)

(* The slots in use are a finite set.                                      *)
LEMMA HeldFacts ==
  ASSUME NEW c, NEW t
  PROVE  /\ Held(c, t) \subseteq 1..3 /\ IsFiniteSet(Held(c, t))
         /\ Cardinality(Held(c, t)) \in 0..3
         /\ Cardinality(Held(c, t)) = 0 <=> Held(c, t) = {}
         /\ Cardinality(Held(c, t)) < 3 => \E i \in 1..3 : c.vframe[t][i] = NoFrame
<1>1. Held(c, t) \subseteq 1..3
  BY DEF Held
<1>2. IsFiniteSet(1..3) /\ Cardinality(1..3) = 3
  <2>1. 1 \in Int /\ 3 \in Int /\ ~ (1 > 3)
    OBVIOUS
  <2>2. /\ IsFiniteSet(1..3)
        /\ Cardinality(1..3) = IF 1 > 3 THEN 0 ELSE 3 - 1 + 1
    BY ONLY <2>1, FS_Interval, Zenon
  <2> QED BY <2>2
<1>3. IsFiniteSet(Held(c, t)) /\ Cardinality(Held(c, t)) <= 3
  BY <1>1, <1>2, FS_Subset
<1>4. Cardinality(Held(c, t)) \in Nat
  BY <1>3, FS_CardinalityType
<1>5. Cardinality(Held(c, t)) = 0 <=> Held(c, t) = {}
  BY <1>3, FS_EmptySet
<1>6. ASSUME Cardinality(Held(c, t)) < 3
      PROVE  \E i \in 1..3 : c.vframe[t][i] = NoFrame
  <2>1. Held(c, t) # 1..3
    BY <1>2, <1>6
  <2> QED BY <2>1 DEF Held
<1> QED BY <1>1, <1>3, <1>4, <1>5, <1>6

(* The slot that Top and Pop look at is the first one in use.              *)
LEMMA FirstFacts ==
  ASSUME NEW c, NEW t, Held(c, t) # {}
  PROVE  /\ First(c, t) \in Held(c, t) /\ First(c, t) \in 1..3
         /\ \A j \in Held(c, t) : First(c, t) <= j
<1>1. \E i \in Held(c, t) : \A j \in Held(c, t) : i <= j
  <2>1. Held(c, t) \subseteq {1, 2, 3}
    BY DEF Held
  <2>2. CASE 1 \in Held(c, t)
    BY <2>1, <2>2
  <2>3. CASE 1 \notin Held(c, t) /\ 2 \in Held(c, t)
    BY <2>1, <2>3
  <2>4. CASE 1 \notin Held(c, t) /\ 2 \notin Held(c, t)
    BY <2>1, <2>4
  <2> QED BY <2>2, <2>3, <2>4
<1>2. First(c, t) \in Held(c, t) /\ \A j \in Held(c, t) : First(c, t) <= j
  BY <1>1 DEF First
<1> QED BY <1>2 DEF Held

LEMMA TopFacts ==
  ASSUME NEW c, NEW t
  PROVE  /\ Top(c, t) = NoFrame <=> Held(c, t) = {}
         /\ Top(c, t) # NoFrame => \E i \in 1..3 : c.vframe[t][i] = Top(c, t)
BY FirstFacts DEF Top, Held

(* A push fills the first free slot of its stage, if there is one.         *)
LEMMA PushFacts ==
  ASSUME NEW c \in Chain(Frame), NEW t \in Task, NEW f \in Frame
  PROVE  /\ Push(c, t, f) \in Chain(Frame)
         /\ Push(c, t, f).items = c.items
         /\ \A u \in Task, i \in 1..3 :
              /\ Push(c, t, f).vframe[u][i] = c.vframe[u][i] \/ Push(c, t, f).vframe[u][i] = f
              /\ u # t => Push(c, t, f).vframe[u][i] = c.vframe[u][i]
         /\ Cardinality(Held(c, t)) < 3 =>
              \E k \in 1..3 \ Held(c, t) :
                /\ \A j \in 1..3 \ Held(c, t) : k <= j
                /\ \A i \in 1..3 : Push(c, t, f).vframe[t][i] = IF i = k THEN f ELSE c.vframe[t][i]
                /\ Held(Push(c, t, f), t) = Held(c, t) \cup {k}
                /\ Cardinality(Held(Push(c, t, f), t)) = Cardinality(Held(c, t)) + 1
<1> DEFINE free == {i \in 1..3 : c.vframe[t][i] = NoFrame}
           k == CHOOSE i \in free : \A j \in free : i <= j
<1>1. CASE free = {}
  <2>1. Push(c, t, f) = c
    BY <1>1 DEF Push
  <2>2. ~ (Cardinality(Held(c, t)) < 3)
    BY <1>1, HeldFacts
  <2> QED BY <2>1, <2>2
<1>2. CASE free # {}
  <2>1. k \in free /\ \A j \in free : k <= j
    <3>1. \E i \in free : \A j \in free : i <= j
      <4>1. free \subseteq {1, 2, 3}
        OBVIOUS
      <4>2. CASE 1 \in free
        BY <4>1, <4>2
      <4>3. CASE 1 \notin free /\ 2 \in free
        BY <4>1, <4>3
      <4>4. CASE 1 \notin free /\ 2 \notin free
        BY <1>2, <4>1, <4>4
      <4> QED BY <4>2, <4>3, <4>4
    <3> HIDE DEF free
    <3> QED BY <3>1, Zenon
  <2>2. Push(c, t, f) = [c EXCEPT !.vframe[t][k] = f]
    BY <1>2 DEF Push
  <2> HIDE DEF k
  <2>3. k \in 1..3
    BY <2>1
  <2>4. /\ c.vframe \in [Task -> [1..3 -> Frame \cup {NoFrame}]]
        /\ [c.vframe EXCEPT ![t][k] = f] \in [Task -> [1..3 -> Frame \cup {NoFrame}]]
    BY <2>3 DEF Chain
  <2>5. Push(c, t, f).vframe = [c.vframe EXCEPT ![t][k] = f]
    BY <2>2 DEF Chain
  <2>6. Push(c, t, f) \in Chain(Frame) /\ Push(c, t, f).items = c.items
    BY <2>2, <2>4 DEF Chain
  <2>7. \A u \in Task, i \in 1..3 :
          Push(c, t, f).vframe[u][i] = IF u = t /\ i = k THEN f ELSE c.vframe[u][i]
    BY <2>3, <2>4, <2>5
  <2>8. k \in 1..3 \ Held(c, t) /\ \A j \in 1..3 \ Held(c, t) : k <= j
    BY <2>1 DEF Held
  <2>9. Held(Push(c, t, f), t) = Held(c, t) \cup {k}
    BY <2>3, <2>7, FrameFacts DEF Held
  <2>10. Cardinality(Held(Push(c, t, f), t)) = Cardinality(Held(c, t)) + 1
    BY <2>8, <2>9, HeldFacts, FS_AddElement
  <2> HIDE DEF free
  <2>11. /\ \A u \in Task, i \in 1..3 :
              /\ Push(c, t, f).vframe[u][i] = c.vframe[u][i] \/ Push(c, t, f).vframe[u][i] = f
              /\ u # t => Push(c, t, f).vframe[u][i] = c.vframe[u][i]
         /\ \A i \in 1..3 : Push(c, t, f).vframe[t][i] = IF i = k THEN f ELSE c.vframe[t][i]
    BY <2>7
  <2> QED BY <2>6, <2>8, <2>9, <2>10, <2>11
<1> QED BY <1>1, <1>2

(* A pop empties the first slot in use of its stage.                       *)
LEMMA PopFacts ==
  ASSUME NEW c \in Chain(Frame), NEW t \in Task
  PROVE  /\ Pop(c, t) \in Chain(Frame)
         /\ Pop(c, t).items = c.items /\ Pop(c, t).recycle = c.recycle
         /\ \A u \in Task, i \in 1..3 :
              /\ Pop(c, t).vframe[u][i] = c.vframe[u][i] \/ Pop(c, t).vframe[u][i] = NoFrame
              /\ u # t => Pop(c, t).vframe[u][i] = c.vframe[u][i]
         /\ Held(c, t) = {} => Held(Pop(c, t), t) = {}
         /\ Held(c, t) # {} =>
              /\ \A i \in 1..3 :
                   Pop(c, t).vframe[t][i] = IF i = First(c, t) THEN NoFrame ELSE c.vframe[t][i]
              /\ Held(Pop(c, t), t) = Held(c, t) \ {First(c, t)}
              /\ Cardinality(Held(Pop(c, t), t)) = Cardinality(Held(c, t)) - 1
<1>1. CASE Held(c, t) = {}
  BY <1>1 DEF Pop
<1>2. CASE Held(c, t) # {}
  <2> DEFINE k == First(c, t)
  <2>1. k \in 1..3 /\ k \in Held(c, t)
    BY <1>2, FirstFacts
  <2>2. Pop(c, t) = [c EXCEPT !.vframe[t][k] = NoFrame]
    BY <1>2 DEF Pop
  <2> HIDE DEF k
  <2>3. /\ c.vframe \in [Task -> [1..3 -> Frame \cup {NoFrame}]]
        /\ [c.vframe EXCEPT ![t][k] = NoFrame] \in [Task -> [1..3 -> Frame \cup {NoFrame}]]
    BY <2>1 DEF Chain
  <2>4. Pop(c, t).vframe = [c.vframe EXCEPT ![t][k] = NoFrame]
    BY <2>2 DEF Chain
  <2>5. Pop(c, t) \in Chain(Frame) /\ Pop(c, t).items = c.items /\ Pop(c, t).recycle = c.recycle
    BY <2>2, <2>3 DEF Chain
  <2>6. \A u \in Task, i \in 1..3 :
          Pop(c, t).vframe[u][i] = IF u = t /\ i = k THEN NoFrame ELSE c.vframe[u][i]
    BY <2>1, <2>3, <2>4
  <2>7. Held(Pop(c, t), t) = Held(c, t) \ {k}
    BY <2>6 DEF Held
  <2>8. Cardinality(Held(Pop(c, t), t)) = Cardinality(Held(c, t)) - 1
    BY <2>1, <2>7, HeldFacts, FS_RemoveElement
  <2> QED BY <1>2, <2>5, <2>6, <2>7, <2>8 DEF k
<1> QED BY <1>1, <1>2

(* Attached stages are empty; nothing else is lost.                        *)
LEMMA AttachFacts ==
  ASSUME NEW c \in Chain(Frame), NEW t \in Task
  PROVE  /\ Attach(c, t) \in Chain(Frame)
         /\ Attach(c, t).items = c.items \cup {t}
         /\ \A u \in Task, i \in 1..3 :
              Attach(c, t).vframe[u][i] = IF u = t THEN NoFrame ELSE c.vframe[u][i]
<1> DEFINE empty == [i \in 1..3 |-> NoFrame]
<1>1. empty \in [1..3 -> Frame \cup {NoFrame}]
  OBVIOUS
<1>2. /\ Attach(c, t).items = c.items \cup {t} /\ Attach(c, t).cur = t
      /\ Attach(c, t).submit = [c.submit EXCEPT ![t] = c.cur]
      /\ Attach(c, t).recycle = [c.recycle EXCEPT ![c.cur] = t]
      /\ Attach(c, t).vframe = [c.vframe EXCEPT ![t] = empty]
  BY DEF Attach, Chain
<1>3. /\ c.vframe \in [Task -> [1..3 -> Frame \cup {NoFrame}]]
      /\ [c.vframe EXCEPT ![t] = empty] \in [Task -> [1..3 -> Frame \cup {NoFrame}]]
  BY <1>1 DEF Chain
<1>4. Attach(c, t) \in Chain(Frame)
  <2>1. /\ c.items \cup {t} \in SUBSET Task /\ c.cur \in Task
        /\ [c.submit EXCEPT ![t] = c.cur] \in [Task -> Task]
        /\ [c.recycle EXCEPT ![c.cur] = t] \in [Task -> Task]
    BY DEF Chain
  <2> QED BY <1>3, <2>1 DEF Attach, Chain
<1>5. ASSUME NEW u \in Task, NEW i \in 1..3
      PROVE  Attach(c, t).vframe[u][i] = IF u = t THEN NoFrame ELSE c.vframe[u][i]
  BY <1>2, <1>3
<1> QED BY <1>2, <1>4, <1>5

LEMMA CleanFacts ==
  ASSUME NEW c \in Chain(Frame)
  PROVE  /\ Clean(c) \in Chain(Frame) /\ Clean(c).items = {}
         /\ \A u \in Task, i \in 1..3 : Clean(c).vframe[u][i] = NoFrame
BY DEF Clean, Chain, NewChain

LEMMA NewChainFacts ==
  /\ NewChain \in Chain(Frame) /\ NewChain.items = {}
  /\ \A u \in Task, i \in 1..3 : NewChain.vframe[u][i] = NoFrame
BY DEF Chain, NewChain, Task

(* The stages of a new picture's buffer: the decoder's is empty after its  *)
(* own allocation; the post processor's allocation leaves it as it is.     *)
LEMMA PipelineFacts ==
  ASSUME mode \in Mode, NEW c \in Chain(Frame), NEW who \in {"dec", "vpp"}
  PROVE  /\ Pipeline(c, who) \in Chain(Frame)
         /\ who = "vpp" => ("dec" \in Pipeline(c, who).items <=> "dec" \in c.items)
         /\ \A u \in Task, i \in 1..3 :
              /\ \/ Pipeline(c, who).vframe[u][i] = c.vframe[u][i]
                 \/ Pipeline(c, who).vframe[u][i] = NoFrame
              /\ who = "dec" => Pipeline(c, who).vframe["dec"][i] = NoFrame
<1>1. {"dec", "vpp", "sink"} \subseteq Task
  BY DEF Task
<1>2. CASE who = "dec" /\ mode.is_prog
  <2> DEFINE c1 == Attach(c, "sink")
             c2 == Attach(c1, "vpp")
  <2>1. Pipeline(c, who) = Attach(c2, "dec")
    BY <1>2 DEF Pipeline
  <2>2. c1 \in Chain(Frame)
    BY <1>1, AttachFacts
  <2>3. \A u \in Task, i \in 1..3 :
          c1.vframe[u][i] = IF u = "sink" THEN NoFrame ELSE c.vframe[u][i]
    BY <1>1, AttachFacts
  <2> HIDE DEF c1
  <2>4. c2 \in Chain(Frame)
    BY <1>1, <2>2, AttachFacts
  <2>5. \A u \in Task, i \in 1..3 :
          c2.vframe[u][i] = IF u = "vpp" THEN NoFrame ELSE c1.vframe[u][i]
    BY <1>1, <2>2, AttachFacts
  <2> HIDE DEF c2
  <2>6. Attach(c2, "dec") \in Chain(Frame)
    BY <1>1, <2>4, AttachFacts
  <2>7. \A u \in Task, i \in 1..3 :
          Attach(c2, "dec").vframe[u][i] = IF u = "dec" THEN NoFrame ELSE c2.vframe[u][i]
    BY <1>1, <2>4, AttachFacts
  <2> QED BY <1>1, <1>2, <2>1, <2>3, <2>5, <2>6, <2>7
<1>3. CASE who = "dec" /\ ~ mode.is_prog
  <2> DEFINE c1 == Attach(c, "vpp")
  <2>1. Pipeline(c, who) = Attach(c1, "dec")
    BY <1>3 DEF Pipeline
  <2>2. c1 \in Chain(Frame)
    BY <1>1, AttachFacts
  <2>3. \A u \in Task, i \in 1..3 :
          c1.vframe[u][i] = IF u = "vpp" THEN NoFrame ELSE c.vframe[u][i]
    BY <1>1, AttachFacts
  <2> HIDE DEF c1
  <2>4. Attach(c1, "dec") \in Chain(Frame)
    BY <1>1, <2>2, AttachFacts
  <2>5. \A u \in Task, i \in 1..3 :
          Attach(c1, "dec").vframe[u][i] = IF u = "dec" THEN NoFrame ELSE c1.vframe[u][i]
    BY <1>1, <2>2, AttachFacts
  <2> QED BY <1>1, <1>3, <2>1, <2>3, <2>4, <2>5
<1>4. CASE who = "vpp"
  <2> DEFINE c1 == Attach(c, "sink")
  <2>1. Pipeline(c, who) = Attach(c1, "vpp")
    BY <1>4 DEF Pipeline
  <2>2. c1 \in Chain(Frame) /\ c1.items = c.items \cup {"sink"}
    BY <1>1, AttachFacts
  <2>3. \A u \in Task, i \in 1..3 :
          c1.vframe[u][i] = IF u = "sink" THEN NoFrame ELSE c.vframe[u][i]
    BY <1>1, AttachFacts
  <2> HIDE DEF c1
  <2>4. Attach(c1, "vpp") \in Chain(Frame) /\ Attach(c1, "vpp").items = c1.items \cup {"vpp"}
    BY <1>1, <2>2, AttachFacts
  <2>5. \A u \in Task, i \in 1..3 :
          Attach(c1, "vpp").vframe[u][i] = IF u = "vpp" THEN NoFrame ELSE c1.vframe[u][i]
    BY <1>1, <2>2, AttachFacts
  <2> QED BY <1>4, <2>1, <2>2, <2>3, <2>4, <2>5
<1> QED BY <1>2, <1>3, <1>4 DEF Mode

-----------------------------------------------------------------------------
(* The fields that are out.                                                *)

LEMMA RefsFinite ==
  /\ IsFiniteSet(Buf \X (1..2))
  /\ IsFiniteSet(Refs) /\ Cardinality(Refs) \in Nat
<1>1. IsFiniteSet(Buf) /\ IsFiniteSet(1..2)
  <2>1. NumBuf \in Int /\ 1 \in Int /\ 2 \in Int
    BY VppAssumption
  <2> QED BY ONLY <2>1, FS_Interval, Zenon DEF Buf
<1>2. IsFiniteSet(Buf \X (1..2))
  BY <1>1, FS_Product
<1>3. Refs \subseteq Buf \X (1..2)
  BY DEF Refs
<1>4. IsFiniteSet(Refs)
  BY <1>2, <1>3, FS_Subset
<1> QED BY <1>2, <1>4, FS_CardinalityType

(* One more, one less, none at all.                                        *)
LEMMA RefUp ==
  ASSUME vf_ref \in [Buf -> 0..2], NEW b \in Buf, vf_ref[b] <= 1,
         vf_ref' = [vf_ref EXCEPT ![b] = vf_ref[b] + 1]
  PROVE  Cardinality(Refs') = Cardinality(Refs) + 1
<1>1. Refs' = Refs \cup {<<b, vf_ref[b] + 1>>}
  <2>1. \A x \in Buf : vf_ref'[x] = IF x = b THEN vf_ref[x] + 1 ELSE vf_ref[x]
    OBVIOUS
  <2>2. \A x \in Buf, n \in 1..2 : n <= vf_ref'[x] <=> n <= vf_ref[x] \/ (x = b /\ n = vf_ref[b] + 1)
    BY <2>1
  <2>3. vf_ref[b] + 1 \in 1..2
    OBVIOUS
  <2> QED BY <2>2, <2>3 DEF Refs
<1>2. <<b, vf_ref[b] + 1>> \notin Refs
  BY DEF Refs
<1> QED BY <1>1, <1>2, RefsFinite, FS_AddElement

LEMMA RefDown ==
  ASSUME vf_ref \in [Buf -> 0..2], NEW b \in Buf, vf_ref[b] >= 1,
         vf_ref' = [vf_ref EXCEPT ![b] = vf_ref[b] - 1]
  PROVE  Cardinality(Refs') = Cardinality(Refs) - 1
<1>1. Refs' = Refs \ {<<b, vf_ref[b]>>}
  <2>1. \A x \in Buf : vf_ref'[x] = IF x = b THEN vf_ref[x] - 1 ELSE vf_ref[x]
    OBVIOUS
  <2>2. \A x \in Buf, n \in 1..2 : n <= vf_ref'[x] <=> n <= vf_ref[x] /\ ~ (x = b /\ n = vf_ref[b])
    BY <2>1
  <2> QED BY <2>2 DEF Refs
<1>2. <<b, vf_ref[b]>> \in Refs
  BY DEF Refs
<1> QED BY <1>1, <1>2, RefsFinite, FS_RemoveElement

LEMMA NoRefs ==
  ASSUME NEW ref, \A b \in Buf : ref[b] = 0
  PROVE  Cardinality({r \in Buf \X (1..2) : r[2] <= ref[r[1]]}) = 0
<1>1. {r \in Buf \X (1..2) : r[2] <= ref[r[1]]} = {}
  OBVIOUS
<1> QED BY <1>1, FS_EmptySet

-----------------------------------------------------------------------------
(* What the actions share.                                                 *)

(* A token that is asked for: nothing changes, or the first ready buffer   *)
(* becomes it.                                                             *)
LEMMA QueryFacts ==
  ASSUME VppInv, Running, NEW token \in Buf \cup {NoBuf}
  PROVE  LET q == Query(token)
         IN  /\ q.ok \in BOOLEAN
             /\ \/ /\ q.token = token /\ q.table = token_table /\ q.ready = ready
                   /\ q.ok <=> token \in token_table
                \/ /\ ready # <<>> /\ phase # "off" /\ Live /\ token \notin token_table
                   /\ q.ok /\ q.token = ready[1] /\ q.token \in Buf
                   /\ q.token \notin token_table \cup new /\ pool[q.token] = "m2m"
                   /\ q.table = token_table \cup {q.token} /\ q.ready = Tail(ready)
<1>1. CASE token \in token_table
  BY <1>1 DEF Query
<1>2. CASE token \notin token_table /\ ready = <<>>
  BY <1>2 DEF Query
<1>3. CASE token \notin token_table /\ ready # <<>>
  <2>1. ready \in Seq(Buf)
    BY DEF VppInv, TypeOK
  <2>2. Head(ready) = ready[1] /\ ready[1] \in Buf /\ 1 \in 1..Len(ready)
    BY <1>3, <2>1, TailFacts
  <2>3. ready[1] \notin token_table \cup new /\ pool[ready[1]] = "m2m"
    BY <2>2 DEF VppInv, ReadyApart
  <2>4. phase # "off" /\ Live
    BY <1>3, LiveFacts DEF VppInv, TableApart
  <2> QED BY <1>3, <2>2, <2>3, <2>4 DEF Query
<1> QED BY <1>1, <1>2, <1>3

(* ... and ready buffers and tokens stay apart.                            *)
LEMMA AfterQuery ==
  ASSUME VppInv, Running, NEW token \in Buf \cup {NoBuf},
         token_table' = Query(token).table, ready' = Query(token).ready,
         UNCHANGED <<phase, new, pool>>
  PROVE  /\ ready' \in Seq(Buf) /\ token_table' \subseteq Buf
         /\ Query(token).token \in Buf \cup {NoBuf}
         /\ token_table \subseteq token_table'
         /\ ReadyApart' /\ TableApart'
<1> DEFINE q == Query(token)
<1>1. ready \in Seq(Buf) /\ token_table \subseteq Buf
  BY DEF VppInv, TypeOK
<1>2. CASE q.token = token /\ q.table = token_table /\ q.ready = ready
  BY <1>1, <1>2 DEF VppInv, ReadyApart, TableApart
<1>3. CASE /\ ready # <<>> /\ phase # "off" /\ q.token = ready[1] /\ q.token \in Buf
           /\ q.token \notin token_table \cup new /\ pool[q.token] = "m2m"
           /\ q.table = token_table \cup {q.token} /\ q.ready = Tail(ready)
  <2> HIDE DEF q
  <2>1. /\ ready' = Tail(ready) /\ token_table' = token_table \cup {ready[1]}
        /\ pool' = pool /\ new' = new /\ phase' = phase
    BY <1>3 DEF q
  <2>2. /\ Tail(ready) \in Seq(Buf) /\ Len(ready) \in Nat \ {0} /\ Len(Tail(ready)) = Len(ready) - 1
        /\ \A i \in 1..Len(Tail(ready)) : i + 1 \in 1..Len(ready) /\ Tail(ready)[i] = ready[i + 1]
    BY <1>1, <1>3, TailFacts
  <2>3. /\ \A i, j \in 1..Len(ready) : ready[i] = ready[j] => i = j
        /\ \A i \in 1..Len(ready) : /\ ready[i] \notin new \cup token_table
                                    /\ pool[ready[i]] = "m2m"
    BY DEF VppInv, ReadyApart
  <2>4. ReadyApart'
    <3>1. ASSUME NEW i \in 1..Len(ready'), NEW j \in 1..Len(ready'), ready'[i] = ready'[j]
          PROVE  i = j
      <4>1. i + 1 \in 1..Len(ready) /\ j + 1 \in 1..Len(ready) /\ ready[i + 1] = ready[j + 1]
        BY <2>1, <2>2, <3>1
      <4>2. i + 1 = j + 1
        BY <2>3, <4>1
      <4> QED BY <2>1, <2>2, <4>2
    <3>2. ASSUME NEW i \in 1..Len(ready')
          PROVE  ready'[i] \notin new' \cup token_table' /\ pool'[ready'[i]] = "m2m"
      <4>1. i + 1 \in 1..Len(ready) /\ ready'[i] = ready[i + 1] /\ i + 1 # 1 /\ 1 \in 1..Len(ready)
        BY <2>1, <2>2, <3>2
      <4>2. ready[i + 1] # ready[1]
        BY <2>3, <4>1
      <4> QED BY <2>1, <2>3, <4>1, <4>2
    <3> QED BY <3>1, <3>2 DEF ReadyApart
  <2>5. TableApart'
    BY <1>3, <2>1 DEF VppInv, TableApart, q
  <2>6. token_table' \subseteq Buf /\ q.token \in Buf /\ token_table \subseteq token_table'
    BY <1>1, <1>3, <2>1
  <2> QED BY <2>1, <2>2, <2>4, <2>5, <2>6 DEF q
<1> QED BY <1>2, <1>3, QueryFacts

(* The buffer of a good token is nobody else's.                            *)
LEMMA TokenFacts ==
  ASSUME VppInv, Running, NEW token \in token_table
  PROVE  /\ token \in Buf /\ token # NoBuf /\ token \notin new
         /\ pool[token] = "m2m" /\ spec[token] = "none" /\ vf_ref[token] = 0 /\ Live
         /\ "dec" \notin chain[token].items
         /\ \A i \in 1..Len(ready) : ready[i] # token
<1>1. token \in Buf /\ token # NoBuf
  BY FrameFacts DEF VppInv, TypeOK
<1>2. token \notin new /\ pool[token] = "m2m" /\ Live
  BY LiveFacts DEF VppInv, TableApart
<1>3. spec[token] = "none" /\ vf_ref[token] = 0
  <2>1. spec[token] = "none"
    BY <1>1, <1>2 DEF VppInv, InUse
  <2>2. vf_ref[token] \in 0..2 /\ (vf_ref[token] > 0 => spec[token] = "out")
    BY <1>1 DEF VppInv, TypeOK, FieldsCounted
  <2> QED BY <2>1, <2>2
<1>4. "dec" \notin chain[token].items
  BY <1>1, <1>2 DEF VppInv, ChainsFit
<1>5. \A i \in 1..Len(ready) : ready[i] # token
  BY DEF VppInv, ReadyApart
<1> QED BY <1>1, <1>2, <1>3, <1>4, <1>5

(* A buffer that is allocated.                                             *)
LEMMA AfterAlloc ==
  ASSUME VppInv, Running, NEW token \in token_table, NEW who \in {"dec", "vpp"}, Alloc(token, who),
         UNCHANGED <<phase, mode, new, ready>>
  PROVE  /\ pool' \in [Buf -> {"m2m", "dec", "vpp"}] /\ chain' \in [Buf -> Chain(Frame)]
         /\ token_table' = token_table \ {token}
         /\ \A b \in Buf : pool'[b] = IF b = token THEN who ELSE pool[b]
         /\ ReadyApart' /\ TableApart'
         /\ \A b \in Buf : b # token => chain'[b] = chain[b]
         /\ who = "vpp" => "dec" \notin chain'[token].items
         /\ \A t \in Task, i \in 1..3 : /\ \/ chain'[token].vframe[t][i] = chain[token].vframe[t][i]
                                           \/ chain'[token].vframe[t][i] = NoFrame
                                        /\ who = "dec" => chain'[token].vframe["dec"][i] = NoFrame
<1>1. /\ token \in Buf /\ token \notin new /\ "dec" \notin chain[token].items
      /\ \A i \in 1..Len(ready) : ready[i] # token
  BY TokenFacts
<1>2. /\ pool \in [Buf -> {"m2m", "dec", "vpp"}] /\ chain \in [Buf -> Chain(Frame)] /\ mode \in Mode
      /\ ready \in Seq(Buf) /\ new \subseteq Buf /\ token_table \subseteq Buf
  BY DEF VppInv, TypeOK
<1>3. /\ pool' = [pool EXCEPT ![token] = who] /\ token_table' = token_table \ {token}
      /\ chain' = [chain EXCEPT ![token] = Pipeline(chain[token], who)]
  BY DEF Alloc
<1>4. /\ Pipeline(chain[token], who) \in Chain(Frame)
      /\ who = "vpp" => "dec" \notin Pipeline(chain[token], who).items
      /\ \A t \in Task, i \in 1..3 :
           /\ \/ Pipeline(chain[token], who).vframe[t][i] = chain[token].vframe[t][i]
              \/ Pipeline(chain[token], who).vframe[t][i] = NoFrame
           /\ who = "dec" => Pipeline(chain[token], who).vframe["dec"][i] = NoFrame
  BY <1>1, <1>2, PipelineFacts
<1>5. \A b \in Buf : pool'[b] = IF b = token THEN who ELSE pool[b]
  BY <1>1, <1>2, <1>3
<1>6. pool' \in [Buf -> {"m2m", "dec", "vpp"}]
  BY <1>1, <1>2, <1>3
<1>7. /\ chain' \in [Buf -> Chain(Frame)] /\ chain'[token] = Pipeline(chain[token], who)
      /\ \A b \in Buf : b # token => chain'[b] = chain[b]
  BY <1>1, <1>2, <1>3, <1>4
<1>8. ReadyApart'
  <2>1. \A i \in 1..Len(ready) : ready[i] \in Buf
    BY <1>2
  <2> QED BY <1>1, <1>3, <1>5, <2>1 DEF VppInv, ReadyApart
<1>9. TableApart'
  BY <1>1, <1>2, <1>3, <1>5 DEF VppInv, TableApart
<1> QED BY <1>3, <1>4, <1>5, <1>6, <1>7, <1>8, <1>9

(* The fields stay counted in a step that changes neither them nor the     *)
(* decoder's stage.                                                        *)
LEMMA CountKept ==
  ASSUME VppInv, UNCHANGED <<vf_ref, newframe>>,
         \A x \in Buf : vf_ref[x] > 0 => spec'[x] = "out",
         phase' \in {"on", "flagged"} => \A x \in Buf \ new' : vf_ref[x] = Cardinality(Held(chain'[x], "dec")),
         more' # NoBuf => ~ mode'.is_prog /\ spec'[more'] \in {"out", "kept"} /\ vf_ref[more'] <= 1
  PROVE  FieldsCounted'
<1>1. Refs' = Refs
  BY DEF Refs
<1> QED BY <1>1 DEF VppInv, FieldsCounted

LEMMA CountSame ==
  ASSUME VppInv, UNCHANGED <<new, mode, chain, spec, fieldVars>>,
         phase' \in {"on", "flagged"} => phase \in {"on", "flagged"}
  PROVE  FieldsCounted'
<1>1. Refs' = Refs
  BY DEF Refs
<1> QED BY <1>1 DEF VppInv, FieldsCounted

(* A picture of a buffer that is given back to the decoder.                *)
LEMMA AfterRecycle ==
  ASSUME VppInv, Running, NEW b \in Buf, Live => b \notin new,
         NEW c \in [Buf -> Chain(Frame)],
         \A x \in Buf : c[x].items = chain[x].items,
         \A x \in Buf, t \in Task, i \in 1..3 :
           /\ c[x].vframe[t][i] = chain[x].vframe[t][i] \/ c[x].vframe[t][i] = NoFrame
           /\ c[x].vframe["dec"][i] = chain[x].vframe["dec"][i],
         RecycleToDec(c, b), UNCHANGED <<phase, mode, new, pool, more>>
  PROVE  /\ chain' \in [Buf -> Chain(Frame)]
         /\ spec' \in [Buf -> {"none", "free", "used", "out", "kept"}]
         /\ vf_ref' \in [Buf -> 0..2] /\ newframe' \in Nat
         /\ \A x \in Buf : /\ spec'[x] # "none" => pool[x] = "dec"
                           /\ IsFree(x) => spec'[x] = "free"
         /\ \A x \in Buf : chain'[x].items = chain[x].items
         /\ \A x \in Buf, t \in Task, i \in 1..3 :
              chain'[x].vframe[t][i] # NoFrame => chain'[x].vframe[t][i].fb = x
         /\ phase \in {"stopped", "off"} => spec' = spec
         /\ FieldsCounted'
<1> DEFINE f == Top(c[b], "dec")
           r == "dec" \in Precedes(c[b], "vpp")
           counts == r /\ f # NoFrame /\ phase \in {"on", "flagged"}
<1>1. "dec" \in Task /\ c[b] \in Chain(Frame)
  BY DEF Task
<1>2. /\ spec \in [Buf -> {"none", "free", "used", "out", "kept"}]
      /\ vf_ref \in [Buf -> 0..2] /\ newframe \in Nat /\ more \in Buf \cup {NoBuf}
  BY DEF VppInv, TypeOK
<1>3. /\ \A x \in Buf : spec[x] # "none" => pool[x] = "dec"
      /\ \A x \in Buf, t \in Task, i \in 1..3 :
           chain[x].vframe[t][i] # NoFrame => chain[x].vframe[t][i].fb = x
      /\ \A x \in Buf : vf_ref[x] > 0 => spec[x] = "out"
      /\ phase \in {"on", "flagged"} => \A x \in Buf \ new : vf_ref[x] = Cardinality(Held(chain[x], "dec"))
      /\ more # NoBuf => ~ mode.is_prog /\ spec[more] \in {"out", "kept"} /\ vf_ref[more] <= 1
  BY DEF VppInv, InUse, ChainsFit, FieldsCounted
<1>4. /\ chain' = [c EXCEPT ![b] = IF r THEN Pop(c[b], "dec") ELSE c[b]]
      /\ IF counts THEN PutVframe(f.fb) ELSE UNCHANGED <<spec, vf_ref, newframe>>
  BY DEF RecycleToDec
<1>5. /\ Pop(c[b], "dec") \in Chain(Frame) /\ Pop(c[b], "dec").items = c[b].items
      /\ \A t \in Task, i \in 1..3 :
           Pop(c[b], "dec").vframe[t][i] = c[b].vframe[t][i] \/ Pop(c[b], "dec").vframe[t][i] = NoFrame
      /\ Held(c[b], "dec") = {} => Held(Pop(c[b], "dec"), "dec") = {}
      /\ Held(c[b], "dec") # {} =>
           Cardinality(Held(Pop(c[b], "dec"), "dec")) = Cardinality(Held(c[b], "dec")) - 1
  BY <1>1, PopFacts
<1>6. \A x \in Buf : Held(c[x], "dec") = Held(chain[x], "dec")
  BY <1>1 DEF Held
<1>7. f = NoFrame <=> Held(c[b], "dec") = {}
  BY TopFacts
<1>8. f # NoFrame => f.fb = b
  <2>1. f # NoFrame => \E i \in 1..3 : c[b].vframe["dec"][i] = f
    BY TopFacts
  <2> HIDE DEF f
  <2> QED BY <1>1, <1>3, <2>1
<1>9. counts => /\ vf_ref[b] = Cardinality(Held(c[b], "dec")) /\ vf_ref[b] >= 1 /\ spec[b] = "out"
                /\ vf_ref' = [vf_ref EXCEPT ![b] = vf_ref[b] - 1] /\ newframe' = newframe + 1
                /\ spec' = IF vf_ref[b] <= 1 THEN [spec EXCEPT ![b] = "kept"] ELSE spec
  <2>1. SUFFICES ASSUME counts
                 PROVE  /\ vf_ref[b] = Cardinality(Held(c[b], "dec")) /\ vf_ref[b] >= 1 /\ spec[b] = "out"
                        /\ PutVframe(b)
    BY DEF PutVframe
  <2>2. vf_ref[b] = Cardinality(Held(c[b], "dec"))
    BY <1>3, <1>6, <2>1
  <2>3. Cardinality(Held(c[b], "dec")) # 0 /\ Cardinality(Held(c[b], "dec")) \in Nat
    BY <1>7, <2>1, HeldFacts
  <2>4. PutVframe(b)
    BY <1>4, <1>8, <2>1
  <2> HIDE DEF counts
  <2> QED BY <1>2, <1>3, <2>2, <2>3, <2>4
<1>10. ~ counts => UNCHANGED <<spec, vf_ref, newframe>>
  BY <1>4
<1>11. /\ chain' \in [Buf -> Chain(Frame)]
       /\ \A x \in Buf : x # b => chain'[x] = c[x]
       /\ chain'[b] = IF r THEN Pop(c[b], "dec") ELSE c[b]
  BY <1>1, <1>4, <1>5
<1>12. /\ counts => r
       /\ phase \in {"on", "flagged"} /\ ~ counts => ~ r \/ f = NoFrame
       /\ counts => phase \in {"on", "flagged"}
       /\ counts => Held(c[b], "dec") # {}
  BY <1>7
<1> HIDE DEF f, r, counts
<1>13. /\ spec' \in [Buf -> {"none", "free", "used", "out", "kept"}]
       /\ vf_ref' \in [Buf -> 0..2] /\ newframe' \in Nat
       /\ \A x \in Buf : x # b => spec'[x] = spec[x] /\ vf_ref'[x] = vf_ref[x]
  BY <1>2, <1>9, <1>10
<1>14. \A x \in Buf : /\ spec'[x] # "none" => pool[x] = "dec"
                      /\ IsFree(x) => spec'[x] = "free"
  BY <1>2, <1>3, <1>9, <1>10, <1>13 DEF IsFree
<1>15. \A x \in Buf : chain'[x].items = chain[x].items
  BY <1>5, <1>11
<1>16. \A x \in Buf, t \in Task, i \in 1..3 :
         chain'[x].vframe[t][i] # NoFrame => chain'[x].vframe[t][i].fb = x
  <2> TAKE x \in Buf, t \in Task, i \in 1..3
  <2>1. chain'[x].vframe[t][i] = chain[x].vframe[t][i] \/ chain'[x].vframe[t][i] = NoFrame
    <3>1. CASE x # b
      BY <1>11, <3>1
    <3>2. CASE x = b
      BY <1>5, <1>11, <3>2
    <3> QED BY <3>1, <3>2
  <2>2. chain[x].vframe[t][i] # NoFrame => chain[x].vframe[t][i].fb = x
    BY <1>3
  <2> QED BY <2>1, <2>2
<1>17. phase \in {"stopped", "off"} => spec' = spec
  BY <1>10, <1>12
<1>18. FieldsCounted'
  <2>1. newframe' + Cardinality(Refs') = VfPool
    <3>1. newframe + Cardinality(Refs) = VfPool /\ Cardinality(Refs) \in Nat
      BY RefsFinite DEF VppInv, FieldsCounted
    <3>2. CASE counts
      <4>1. Cardinality(Refs') = Cardinality(Refs) - 1
        BY <1>2, <1>9, <3>2, RefDown
      <4> QED BY <1>2, <1>9, <3>1, <3>2, <4>1
    <3>3. CASE ~ counts
      <4>1. Refs' = Refs
        BY <1>10, <3>3 DEF Refs
      <4> QED BY <1>10, <3>1, <3>3, <4>1
    <3> QED BY <3>2, <3>3
  <2>2. \A x \in Buf : vf_ref'[x] > 0 => spec'[x] = "out"
    <3> TAKE x \in Buf
    <3>1. CASE x # b
      BY <1>3, <1>13, <3>1
    <3>2. CASE x = b /\ counts
      BY <1>2, <1>9, <3>2
    <3>3. CASE x = b /\ ~ counts
      BY <1>3, <1>10, <3>3
    <3> QED BY <3>1, <3>2, <3>3
  <2>3. phase' \in {"on", "flagged"} => \A x \in Buf \ new' : vf_ref'[x] = Cardinality(Held(chain'[x], "dec"))
    <3> SUFFICES ASSUME phase \in {"on", "flagged"}, NEW x \in Buf \ new
                 PROVE  vf_ref'[x] = Cardinality(Held(chain'[x], "dec"))
      OBVIOUS
    <3>1. CASE x # b
      BY <1>3, <1>6, <1>11, <1>13, <3>1
    <3>2. CASE x = b /\ counts
      BY <1>2, <1>5, <1>9, <1>11, <1>12, <3>2
    <3>3. CASE x = b /\ ~ counts
      <4>1. vf_ref'[b] = Cardinality(Held(c[b], "dec"))
        BY <1>3, <1>6, <1>10, <3>3
      <4>2. Held(chain'[b], "dec") = Held(c[b], "dec")
        BY <1>5, <1>7, <1>11, <1>12, <3>3 DEF f
      <4> QED BY <3>3, <4>1, <4>2
    <3> QED BY <3>1, <3>2, <3>3
  <2>4. more' # NoBuf => ~ mode'.is_prog /\ spec'[more'] \in {"out", "kept"} /\ vf_ref'[more'] <= 1
    <3> SUFFICES ASSUME more # NoBuf
                 PROVE  ~ mode.is_prog /\ spec'[more] \in {"out", "kept"} /\ vf_ref'[more] <= 1
      OBVIOUS
    <3>1. more \in Buf
      BY <1>2
    <3>2. CASE more # b
      BY <1>3, <1>13, <3>1, <3>2
    <3>3. CASE more = b /\ counts
      BY <1>2, <1>3, <1>9, <3>3
    <3>4. CASE more = b /\ ~ counts
      BY <1>3, <1>10, <3>4
    <3> QED BY <3>2, <3>3, <3>4
  <2> QED BY <2>1, <2>2, <2>3, <2>4 DEF FieldsCounted
<1> QED BY <1>11, <1>13, <1>14, <1>15, <1>16, <1>17, <1>18

-----------------------------------------------------------------------------
(* The decoder.                                                            *)

(* The decoder has something to do only until it is stopped.               *)
LEMMA DecoderRuns ==
  ASSUME VppInv, Running, dec # "idle" \/ more # NoBuf \/ \E b \in Buf : spec[b] # "none"
  PROVE  phase \in {"on", "flagged"}
BY DEF VppInv, TypeOK, Running, Promise

LEMMA HaveFreeStep ==
  ASSUME VppInv, Running, HaveFree
  PROVE  VppInv'
<1> DEFINE asks == Cardinality(Allocated("dec")) < DpbSize
           q == Query(dec_token)
           free == (IF asks /\ q.ok THEN Len(q.ready) + 1 ELSE 0) + Cardinality({b \in Buf : IsFree(b)})
<1>1. dec_token \in Buf \cup {NoBuf} /\ token_table \subseteq Buf
  BY DEF VppInv, TypeOK
<1>2. /\ phase \in {"on", "flagged"} /\ dec' = IF free >= MinFree THEN "run" ELSE "idle"
      /\ UNCHANGED <<phase, mode, offs, clock, new, pool, chain, spec, fieldVars, fifoVars, threadVars, diVars,
                     outVars>>
      /\ IF asks THEN dec_token' = q.token /\ token_table' = q.table /\ ready' = q.ready
                 ELSE UNCHANGED <<dec_token, token_table, ready>>
  BY DEF HaveFree
<1>3. /\ ready' \in Seq(Buf) /\ token_table' \subseteq Buf /\ dec_token' \in Buf \cup {NoBuf}
      /\ token_table \subseteq token_table' /\ ReadyApart' /\ TableApart'
  <2>1. CASE asks
    BY <1>1, <1>2, <2>1, AfterQuery
  <2>2. CASE ~ asks
    BY <1>1, <1>2, <2>2 DEF VppInv, TypeOK, ReadyApart, TableApart
  <2> QED BY <2>1, <2>2
<1>4. \/ dec_token' = dec_token /\ token_table' = token_table
      \/ /\ dec_token' \in Buf /\ dec_token' \notin token_table /\ pool[dec_token'] = "m2m"
         /\ token_table' = token_table \cup {dec_token'}
  <2>1. CASE asks
    BY <1>1, <1>2, <2>1, QueryFacts
  <2>2. CASE ~ asks
    BY <1>2, <2>2
  <2> QED BY <2>1, <2>2
<1>5. dec' = "run" => (\E b \in Buf : IsFree(b)) \/ dec_token' \in token_table'
  <2>1. SUFFICES ASSUME dec' = "run", ~ \E b \in Buf : IsFree(b)
                 PROVE  dec_token' \in token_table'
    OBVIOUS
  <2>2. Cardinality({b \in Buf : IsFree(b)}) = 0
    <3>1. {b \in Buf : IsFree(b)} = {}
      BY <2>1
    <3> QED BY <3>1, FS_EmptySet
  <2>3. MinFree \in Nat \ {0}
    BY VppAssumption
  <2>4. free >= MinFree
    BY <1>2, <2>1
  <2>5. asks /\ q.ok
    <3>1. ASSUME ~ (asks /\ q.ok) PROVE free = 0
      BY <2>2, <3>1
    <3> HIDE DEF asks, q, free
    <3> QED BY <2>3, <2>4, <3>1
  <2>6. dec_token' = q.token /\ token_table' = q.table
    BY <1>2, <2>5
  <2>7. q.token \in q.table
    <3> HIDE DEF q
    <3>1. \/ q.token = dec_token /\ q.table = token_table /\ (q.ok <=> dec_token \in token_table)
          \/ q.table = token_table \cup {q.token}
      BY <1>1, QueryFacts DEF q
    <3> QED BY <2>5, <3>1
  <2> QED BY <2>6, <2>7
<1> HIDE DEF asks, q, free
<1>6. TypeOK'
  BY <1>2, <1>3 DEF VppInv, TypeOK, fifoVars, threadVars, diVars, outVars
<1>7. Accounts'
  BY <1>2 DEF VppInv, Accounts, Working, Here, fifoVars, threadVars
<1>8. TokensApart'
  <2>1. dec_token' \in token_table' => fb_token # dec_token'
    BY <1>2, <1>4, FrameFacts DEF VppInv, TokensApart
  <2>2. \/ dec_token' \in token_table'
        \/ dec_token' = dec_token /\ token_table' = token_table
    BY <1>4
  <2> QED BY <1>2, <1>3, <2>1, <2>2 DEF VppInv, TokensApart, Allocated, threadVars
<1>9. InUse'
  BY <1>2 DEF VppInv, InUse, fifoVars, threadVars, diVars, outVars
<1>10. ChainsFit'
  BY <1>2 DEF VppInv, ChainsFit, diVars, outVars, fifoVars
<1>11. FieldsCounted'
  BY <1>2, CountSame
<1>12. Promise'
  BY <1>2, <1>5 DEF VppInv, Promise, IsFree
<1> QED BY <1>3, <1>6, <1>7, <1>8, <1>9, <1>10, <1>11, <1>12 DEF VppInv

(* An allocation leaves the use of the other buffers as it is.             *)
LEMMA InUseKept ==
  ASSUME VppInv, Running,
         \A x \in Buf : /\ spec'[x] # "none" => pool'[x] = "dec"
                        /\ pool[x] = "dec" => pool'[x] = "dec"
                        /\ pool[x] # "m2m" => pool'[x] # "m2m",
         UNCHANGED <<phase, mode, fifoVars, diVars, outVars>>,
         out_buf' # NoBuf => out_buf' \in Buf /\ pool'[out_buf'] # "m2m",
         pc' = "pair" /\ ~ mode.is_prog => out_buf' # NoBuf
  PROVE  InUse'
<1>1. /\ in_done_q \in Seq(Frame) /\ reading \in Seq(Frame) /\ filling \in Seq(Frame)
      /\ emptied \in Seq(Frame) /\ putting \in Seq(Frame) /\ posting \in Seq(Frame)
      /\ capture \in Seq(Frame) /\ user \subseteq Frame
      /\ output \in Seq(Buf \cup {NoBuf}) /\ done \in Buf \cup {NoBuf}
  BY DEF VppInv, TypeOK
<1>2. /\ \A i \in 1..Len(in_done_q) : in_done_q[i].fb \in Buf
      /\ \A i \in 1..Len(reading) : reading[i].fb \in Buf
      /\ \A i \in 1..Len(emptied) : emptied[i].fb \in Buf
      /\ \A i \in 1..Len(filling) : filling[i].fb \in Buf
      /\ \A i \in 1..Len(putting) : putting[i].fb \in Buf
      /\ \A i \in 1..Len(capture) : capture[i].fb \in Buf
      /\ \A i \in 1..Len(posting) : posting[i].fb \in Buf
      /\ \A i \in 1..Len(output) : output[i] # NoBuf => output[i] \in Buf
      /\ \A f \in user : f.fb \in Buf
  BY <1>1, FrameFacts
<1>3. Live =>
        /\ \A i \in 1..Len(in_done_q) : pool'[in_done_q[i].fb] = "dec"
        /\ \A i \in 1..Len(reading) : pool'[reading[i].fb] = "dec"
        /\ \A i \in 1..Len(emptied) : pool'[emptied[i].fb] = "dec"
  BY <1>2 DEF VppInv, InUse
<1>4. Live =>
        /\ \A i \in 1..Len(filling) : pool'[filling[i].fb] # "m2m"
        /\ \A i \in 1..Len(putting) : pool'[putting[i].fb] # "m2m"
        /\ \A i \in 1..Len(capture) : pool'[capture[i].fb] # "m2m"
        /\ \A i \in 1..Len(posting) : pool'[posting[i].fb] # "m2m"
        /\ \A i \in 1..Len(output) : output[i] # NoBuf => pool'[output[i]] # "m2m"
        /\ done # NoBuf => pool'[done] # "m2m"
  BY <1>1, <1>2 DEF VppInv, InUse
<1>5. \A f \in user : pool'[f.fb] # "m2m"
  BY <1>2 DEF VppInv, InUse
<1>6. phase = "off" => user = {}
  BY DEF VppInv, InUse
<1> QED BY <1>3, <1>4, <1>5, <1>6 DEF InUse, fifoVars, diVars, outVars

LEMMA GetFreeStep ==
  ASSUME VppInv, Running, GetFree
  PROVE  VppInv'
<1>1. CASE \E b \in Buf : /\ IsFree(b)
                          /\ spec' = [spec EXCEPT ![b] = "used"]
                          /\ dec' = "idle"
                          /\ UNCHANGED <<token_table, pool, chain>>
  <2>1. PICK b \in Buf : /\ IsFree(b)
                         /\ spec' = [spec EXCEPT ![b] = "used"]
                         /\ dec' = "idle"
                         /\ UNCHANGED <<token_table, pool, chain>>
    BY <1>1
  <2>2. UNCHANGED <<phase, mode, offs, clock, new, ready, dec_token, fieldVars, fifoVars, threadVars, diVars, outVars>>
    BY DEF GetFree
  <2>3. spec \in [Buf -> {"none", "free", "used", "out", "kept"}]
    BY DEF VppInv, TypeOK
  <2>4. TypeOK'
    BY <2>1, <2>2, <2>3 DEF VppInv, TypeOK, fifoVars, threadVars, diVars, outVars
  <2>5. Accounts'
    BY <2>2 DEF VppInv, Accounts, Working, Here, fifoVars, threadVars
  <2>6. ReadyApart' /\ TableApart'
    BY <2>1, <2>2 DEF VppInv, ReadyApart, TableApart
  <2>7. TokensApart'
    BY <2>1, <2>2 DEF VppInv, TokensApart, Allocated, threadVars
  <2>8. InUse'
    <3>1. \A x \in Buf : spec'[x] # "none" => pool'[x] = "dec"
      BY <2>1, <2>3 DEF VppInv, InUse, IsFree
    <3> QED BY <2>1, <2>2, <3>1 DEF VppInv, InUse, fifoVars, threadVars, diVars, outVars
  <2>9. ChainsFit' /\ FieldsCounted'
    <3>1. \A x \in Buf : spec[x] \in {"out", "kept"} => spec'[x] = spec[x]
      BY <2>1, <2>3 DEF IsFree
    <3>2. more = NoBuf
      BY DEF GetFree
    <3>3. FieldsCounted'
      BY <2>1, <2>2, <3>1, <3>2, CountKept DEF VppInv, FieldsCounted
    <3> QED BY <2>1, <2>2, <3>1, <3>3 DEF VppInv, ChainsFit, diVars, outVars, fifoVars
  <2>10. Promise'
    <3>1. phase \in {"on", "flagged"}
      BY <2>1, DecoderRuns DEF IsFree
    <3> QED BY <2>1, <2>2, <3>1 DEF Promise
  <2> QED BY <2>4, <2>5, <2>6, <2>7, <2>8, <2>9, <2>10 DEF VppInv
<1>2. CASE /\ ~ \E b \in Buf : IsFree(b)
           /\ Allocated("m2m") \ new # {} /\ MayAlloc(dec_token)
           /\ Alloc(dec_token, "dec")
           /\ spec' = [spec EXCEPT ![dec_token] = "used"]
           /\ dec' = "idle"
  <2>1. phase = "on" /\ dec_token \in token_table
    BY <1>2 DEF GetFree, MayAlloc, VppInv, Promise
  <2>2. UNCHANGED <<phase, mode, offs, clock, new, ready, dec_token, fieldVars, fifoVars, threadVars, diVars, outVars>>
    BY DEF GetFree
  <2>3. spec \in [Buf -> {"none", "free", "used", "out", "kept"}]
    BY DEF VppInv, TypeOK
  <2>4. /\ dec_token \in Buf /\ dec_token # NoBuf /\ dec_token \notin new
        /\ pool[dec_token] = "m2m" /\ spec[dec_token] = "none"
    BY <2>1, TokenFacts
  <2>5. /\ pool' \in [Buf -> {"m2m", "dec", "vpp"}] /\ chain' \in [Buf -> Chain(Frame)]
        /\ token_table' = token_table \ {dec_token}
        /\ \A b \in Buf : pool'[b] = IF b = dec_token THEN "dec" ELSE pool[b]
        /\ ReadyApart' /\ TableApart'
        /\ \A b \in Buf : b # dec_token => chain'[b] = chain[b]
        /\ \A t \in Task, i \in 1..3 : /\ \/ chain'[dec_token].vframe[t][i] = chain[dec_token].vframe[t][i]
                                          \/ chain'[dec_token].vframe[t][i] = NoFrame
                                       /\ chain'[dec_token].vframe["dec"][i] = NoFrame
    BY <1>2, <2>1, <2>2, AfterAlloc
  <2>6. \A x \in Buf : spec'[x] = IF x = dec_token THEN "used" ELSE spec[x]
    BY <1>2, <2>3, <2>4
  <2>7. TypeOK'
    BY <1>2, <2>2, <2>3, <2>4, <2>5 DEF VppInv, TypeOK, fifoVars, threadVars, diVars, outVars
  <2>8. Accounts'
    BY <2>2 DEF VppInv, Accounts, Working, Here, fifoVars, threadVars
  <2>9. TokensApart'
    <3>1. dec_token \in Allocated("dec")'
      BY <2>2, <2>4, <2>5 DEF Allocated
    <3>2. fb_token # dec_token
      BY <2>1 DEF VppInv, TokensApart
    <3>3. fb_token \in Buf \cup {NoBuf}
      BY DEF VppInv, TypeOK
    <3> QED BY <2>2, <2>5, <3>1, <3>2, <3>3 DEF VppInv, TokensApart, threadVars
  <2>10. InUse'
    <3>1. \A x \in Buf : /\ spec'[x] # "none" => pool'[x] = "dec"
                         /\ pool[x] = "dec" => pool'[x] = "dec"
                         /\ pool[x] # "m2m" => pool'[x] # "m2m"
      BY <2>4, <2>5, <2>6 DEF VppInv, InUse
    <3>2. /\ out_buf' # NoBuf => out_buf' \in Buf /\ pool'[out_buf'] # "m2m"
          /\ pc' = "pair" /\ ~ mode.is_prog => out_buf' # NoBuf
      BY <2>1, <2>2, <2>5, <3>1 DEF VppInv, InUse, TypeOK, threadVars
    <3> QED BY <2>2, <3>1, <3>2, InUseKept DEF fifoVars, diVars, outVars
  <2>11. ChainsFit'
    <3>1. \A b \in Buf, t \in Task, i \in 1..3 :
            chain'[b].vframe[t][i] # NoFrame => chain'[b].vframe[t][i].fb = b
      BY <2>4, <2>5 DEF VppInv, ChainsFit
    <3>2. \A b \in Buf : Live /\ b \notin new /\ "dec" \in chain'[b].items => pool'[b] = "dec"
      BY <2>5 DEF VppInv, ChainsFit
    <3> QED BY <2>2, <3>1, <3>2 DEF VppInv, ChainsFit, diVars, outVars, fifoVars
  <2>12. FieldsCounted'
    <3>1. vf_ref[dec_token] = 0
      BY <2>1, TokenFacts
    <3>2. Cardinality(Held(chain'[dec_token], "dec")) = 0
      <4>1. Held(chain'[dec_token], "dec") = {}
        BY <2>5 DEF Held, Task
      <4> QED BY <4>1, HeldFacts
    <3>3. \A x \in Buf \ new : vf_ref[x] = Cardinality(Held(chain'[x], "dec"))
      BY <2>1, <2>5, <3>1, <3>2 DEF VppInv, FieldsCounted
    <3>4. more = NoBuf /\ \A x \in Buf : vf_ref[x] > 0 => spec'[x] = "out"
      BY <2>6, <3>1 DEF GetFree, VppInv, FieldsCounted
    <3> QED BY <2>2, <3>3, <3>4, CountKept
  <2>13. Promise'
    BY <1>2, <2>1, <2>2 DEF Promise
  <2> QED BY <2>5, <2>7, <2>8, <2>9, <2>10, <2>11, <2>12, <2>13 DEF VppInv
<1>3. CASE /\ ~ \E b \in Buf : IsFree(b)
           /\ Allocated("m2m") \ new = {} \/ ~ MayAlloc(dec_token)
           /\ dec' = "failed"
           /\ UNCHANGED <<spec, token_table, pool, chain>>
  <2>1. phase = "flagged"
    <3>1. phase # "on"
      <4>1. SUFFICES ASSUME phase = "on" PROVE FALSE
        OBVIOUS
      <4>2. dec_token \in token_table
        BY <1>3, <4>1 DEF GetFree, VppInv, Promise
      <4>3. dec_token \in Buf /\ dec_token # NoBuf /\ dec_token \notin new /\ pool[dec_token] = "m2m"
        BY <4>2, TokenFacts
      <4>4. dec_token \in Allocated("m2m") \ new /\ MayAlloc(dec_token)
        BY <4>1, <4>3 DEF Allocated, MayAlloc
      <4> QED BY <1>3, <4>4
    <3> QED BY <3>1, DecoderRuns DEF GetFree
  <2>2. UNCHANGED <<phase, mode, offs, clock, new, ready, dec_token, fieldVars, fifoVars, threadVars, diVars, outVars>>
    BY DEF GetFree
  <2>3. TypeOK'
    BY <1>3, <2>2 DEF VppInv, TypeOK, fifoVars, threadVars, diVars, outVars
  <2>4. Accounts'
    BY <2>2 DEF VppInv, Accounts, Working, Here, fifoVars, threadVars
  <2>5. ReadyApart' /\ TableApart'
    BY <1>3, <2>2 DEF VppInv, ReadyApart, TableApart
  <2>6. TokensApart'
    BY <1>3, <2>2 DEF VppInv, TokensApart, Allocated, threadVars
  <2>7. InUse'
    BY <1>3, <2>2 DEF VppInv, InUse, fifoVars, threadVars, diVars, outVars
  <2>8. ChainsFit'
    BY <1>3, <2>2 DEF VppInv, ChainsFit, diVars, outVars, fifoVars
  <2>9. FieldsCounted'
    BY <1>3, <2>2, CountSame
  <2>10. Promise'
    BY <2>1, <2>2 DEF Promise
  <2> QED BY <2>3, <2>4, <2>5, <2>6, <2>7, <2>8, <2>9, <2>10 DEF VppInv
<1> QED BY <1>1, <1>2, <1>3 DEF GetFree

(* A field that is handed over.                                            *)
LEMMA AfterHandOver ==
  ASSUME VppInv, Running, NEW f \in Frame, HandOver(f),
         spec[f.fb] \in {"used", "out"}, vf_ref[f.fb] <= 1, newframe > 0,
         spec' \in [Buf -> {"none", "free", "used", "out", "kept"}],
         \A x \in Buf : spec'[x] = IF x = f.fb THEN "out" ELSE spec[x],
         vf_ref' = [vf_ref EXCEPT ![f.fb] = vf_ref[f.fb] + 1], newframe' = newframe - 1,
         more' = NoBuf \/ (more' = f.fb /\ ~ mode.is_prog /\ vf_ref[f.fb] = 0),
         UNCHANGED <<phase, offs, mode, queueVars, dec, dec_token, output, frame, out_done_q, sem_out,
                     threadVars, diVars, outVars>>
  PROVE  VppInv'
<1> DEFINE b == f.fb
           c == Push(chain[b], "dec", f)
<1>1. /\ clock' = (clock + 1) % Times
      /\ chain' = [chain EXCEPT ![b] = c]
      /\ \/ /\ input > 0 /\ input' = input - 1 /\ sem_in' = sem_in + 1
            /\ in_done_q' = Append(in_done_q, f)
         \/ UNCHANGED <<input, sem_in, in_done_q>>
  BY DEF HandOver, PushVframe
<1>2. /\ spec \in [Buf -> {"none", "free", "used", "out", "kept"}] /\ chain \in [Buf -> Chain(Frame)]
      /\ clock \in Time /\ in_done_q \in Seq(Frame) /\ vf_ref \in [Buf -> 0..2] /\ newframe \in Nat
  BY DEF VppInv, TypeOK
<1>3. b \in Buf /\ "dec" \in Task /\ b # NoBuf
  BY FrameFacts DEF Task
<1>4. pool[b] = "dec" /\ b \notin new /\ phase \in {"on", "flagged"}
  BY <1>3, DecoderRuns DEF VppInv, InUse, TableApart
<1>5. Cardinality(Held(chain[b], "dec")) = vf_ref[b]
  BY <1>3, <1>4 DEF VppInv, FieldsCounted
<1>6. /\ c \in Chain(Frame)
      /\ c.items = chain[b].items
      /\ \A t \in Task, i \in 1..3 : c.vframe[t][i] = chain[b].vframe[t][i] \/ c.vframe[t][i] = f
      /\ Cardinality(Held(c, "dec")) = vf_ref[b] + 1
  <2>1. Cardinality(Held(chain[b], "dec")) < 3
    BY <1>2, <1>3, <1>5
  <2> QED BY <1>2, <1>3, <1>5, <2>1, PushFacts
<1> HIDE DEF c
<1>7. /\ chain' \in [Buf -> Chain(Frame)] /\ chain'[b] = c
      /\ \A x \in Buf : x # b => chain'[x] = chain[x]
  BY <1>1, <1>2, <1>3, <1>6
<1>8. /\ vf_ref' \in [Buf -> 0..2] /\ newframe' \in Nat
      /\ \A x \in Buf : vf_ref'[x] = IF x = b THEN vf_ref[x] + 1 ELSE vf_ref[x]
  BY <1>2, <1>3
<1>9. \/ in_done_q' = in_done_q
      \/ /\ in_done_q' = Append(in_done_q, f)
         /\ in_done_q' \in Seq(Frame) /\ Len(in_done_q') = Len(in_done_q) + 1
         /\ \A i \in 1..Len(in_done_q') : in_done_q'[i] = IF i <= Len(in_done_q) THEN in_done_q[i] ELSE f
  <2>1. /\ Append(in_done_q, f) \in Seq(Frame) /\ Len(Append(in_done_q, f)) = Len(in_done_q) + 1
        /\ \A i \in 1..Len(Append(in_done_q, f)) :
             Append(in_done_q, f)[i] = IF i <= Len(in_done_q) THEN in_done_q[i] ELSE f
    BY <1>2, AppendFacts
  <2>2. in_done_q' = in_done_q \/ in_done_q' = Append(in_done_q, f)
    BY <1>1
  <2> QED BY <2>1, <2>2
<1>10. TypeOK'
  <2>1. clock' \in Time
    BY <1>1, <1>2, VppAssumption DEF Time
  <2>2. input' \in Nat /\ sem_in' \in Nat /\ in_done_q' \in Seq(Frame)
    BY SMTT(30), <1>1, <1>9 DEF VppInv, TypeOK
  <2>3. more' \in Buf \cup {NoBuf}
    BY <1>3
  <2> QED BY <1>7, <1>8, <2>1, <2>2, <2>3 DEF VppInv, TypeOK, queueVars, threadVars, diVars, outVars
<1>11. Accounts'
  <2>1. Len(in_done_q') = sem_in' + Here(Working')
    <3>1. Len(in_done_q) = sem_in + Here(Working) /\ sem_in \in Nat
      BY DEF VppInv, TypeOK, Accounts
    <3>2. Here(Working') = Here(Working) /\ Here(Working) \in Nat
      BY DEF Working, Here, threadVars
    <3>3. Len(Append(in_done_q, f)) = Len(in_done_q) + 1 /\ Len(in_done_q) \in Nat
      BY <1>2, AppendFacts
    <3> QED BY <1>1, <3>1, <3>2, <3>3
  <2> QED BY <2>1 DEF VppInv, Accounts, Working, Here, threadVars
<1>12. ReadyApart' /\ TableApart'
  BY DEF VppInv, ReadyApart, TableApart, queueVars
<1>13. TokensApart'
  BY DEF VppInv, TokensApart, Allocated, queueVars, threadVars
<1>14. InUse'
  <2>1. \A x \in Buf : spec'[x] # "none" => pool[x] = "dec"
    BY <1>4 DEF VppInv, InUse
  <2>2. Live => \A i \in 1..Len(in_done_q') : pool[in_done_q'[i].fb] = "dec"
    <3>1. CASE in_done_q' = in_done_q
      BY <3>1 DEF VppInv, InUse
    <3>2. CASE /\ Len(in_done_q') = Len(in_done_q) + 1
               /\ \A i \in 1..Len(in_done_q') :
                    in_done_q'[i] = IF i <= Len(in_done_q) THEN in_done_q[i] ELSE f
      BY <1>2, <1>4, <3>2 DEF VppInv, InUse
    <3> QED BY <1>9, <3>1, <3>2
  <2>3. UNCHANGED <<phase, mode, pool, output, pc, out_buf, reading, filling, done, putting, emptied, capture,
                    posting, user>>
    BY DEF queueVars, threadVars, diVars, outVars
  <2> QED BY <2>1, <2>2, <2>3 DEF VppInv, InUse
<1>15. ChainsFit'
  <2>1. \A x \in Buf, t \in Task, i \in 1..3 :
          chain'[x].vframe[t][i] # NoFrame => chain'[x].vframe[t][i].fb = x
    <3> TAKE x \in Buf, t \in Task, i \in 1..3
    <3>1. chain[x].vframe[t][i] # NoFrame => chain[x].vframe[t][i].fb = x
      BY DEF VppInv, ChainsFit
    <3>2. \/ chain'[x].vframe[t][i] = chain[x].vframe[t][i]
          \/ x = b /\ chain'[x].vframe[t][i] = f
      BY <1>6, <1>7
    <3> QED BY <3>1, <3>2
  <2>2. \A x \in Buf : Live /\ x \notin new /\ "dec" \in chain'[x].items => pool[x] = "dec"
    BY <1>6, <1>7 DEF VppInv, ChainsFit
  <2>3. UNCHANGED <<phase, mode, new, pool, reading, done, putting, emptied, posting, out_done_q>>
    BY DEF queueVars, diVars, outVars
  <2> QED BY <2>1, <2>2, <2>3 DEF VppInv, ChainsFit
<1>16. FieldsCounted'
  <2>1. newframe' + Cardinality(Refs') = VfPool
    <3>1. newframe + Cardinality(Refs) = VfPool /\ Cardinality(Refs) \in Nat
      BY RefsFinite DEF VppInv, FieldsCounted
    <3>2. Cardinality(Refs') = Cardinality(Refs) + 1
      BY <1>2, <1>3, RefUp
    <3> QED BY <1>2, <3>1, <3>2
  <2>2. \A x \in Buf : vf_ref'[x] > 0 => spec'[x] = "out"
    BY <1>8 DEF VppInv, FieldsCounted
  <2>3. \A x \in Buf \ new : vf_ref'[x] = Cardinality(Held(chain'[x], "dec"))
    BY <1>4, <1>6, <1>7, <1>8 DEF VppInv, FieldsCounted
  <2>4. more' # NoBuf => ~ mode.is_prog /\ spec'[more'] \in {"out", "kept"} /\ vf_ref'[more'] <= 1
    BY <1>2, <1>3, <1>8
  <2> QED BY <2>1, <2>2, <2>3, <2>4 DEF FieldsCounted, queueVars
<1>17. Promise'
  <2>1. \A x \in Buf : IsFree(x) => spec'[x] = "free"
    BY DEF IsFree
  <2> QED BY <1>4, <2>1 DEF VppInv, Promise, IsFree, queueVars
<1> QED BY <1>10, <1>11, <1>12, <1>13, <1>14, <1>15, <1>16, <1>17 DEF VppInv

LEMMA OutputStep ==
  ASSUME VppInv, Running, NEW b \in Buf, Output(b)
  PROVE  VppInv'
<1> DEFINE f == [fb |-> b, ts |-> clock, nth |-> 1]
<1>1. /\ spec \in [Buf -> {"none", "free", "used", "out", "kept"}] /\ vf_ref \in [Buf -> 0..2]
      /\ clock \in Time
  BY DEF VppInv, TypeOK
<1>2. f \in Frame /\ f.fb = b
  BY <1>1 DEF Frame
<1>3. HandOver(f)
  BY DEF Output
<1> HIDE DEF f
<1>4. spec[b] = "used" /\ vf_ref[b] = 0
  BY <1>1 DEF Output, VppInv, FieldsCounted
<1>5. vf_ref' = [vf_ref EXCEPT ![b] = vf_ref[b] + 1]
  BY <1>1, <1>4 DEF Output
<1>6. /\ spec' \in [Buf -> {"none", "free", "used", "out", "kept"}]
      /\ \A x \in Buf : spec'[x] = IF x = b THEN "out" ELSE spec[x]
  BY <1>1 DEF Output
<1>7. more' = NoBuf \/ (more' = b /\ ~ mode.is_prog /\ vf_ref[b] = 0)
  BY <1>4 DEF Output
<1>8. /\ newframe > 0 /\ newframe' = newframe - 1
      /\ UNCHANGED <<phase, offs, mode, queueVars, dec, dec_token, output, frame, out_done_q, sem_out,
                     threadVars, diVars, outVars>>
  BY DEF Output
<1>9. spec[f.fb] \in {"used", "out"} /\ vf_ref[f.fb] <= 1
  BY <1>2, <1>4
<1> QED BY <1>2, <1>3, <1>5, <1>6, <1>7, <1>8, <1>9, AfterHandOver

(* A step of the decoder that changes nothing but the use of its buffers.  *)
LEMMA UseStep ==
  ASSUME VppInv, Running, phase \in {"on", "flagged"},
         spec' \in [Buf -> {"none", "free", "used", "out", "kept"}],
         \A x \in Buf : /\ spec'[x] # "none" => pool[x] = "dec"
                        /\ IsFree(x) => spec'[x] = "free"
                        /\ vf_ref[x] > 0 => spec'[x] = "out",
         more' = NoBuf,
         UNCHANGED <<phase, offs, mode, clock, queueVars, chain, dec, dec_token, vf_ref, newframe, fifoVars,
                     threadVars, diVars, outVars>>
  PROVE  VppInv'
<1>1. TypeOK'
  BY DEF VppInv, TypeOK, queueVars, fifoVars, threadVars, diVars, outVars
<1>2. Accounts' /\ ReadyApart' /\ TableApart' /\ TokensApart'
  BY DEF VppInv, Accounts, Working, Here, ReadyApart, TableApart, TokensApart, Allocated,
       queueVars, fifoVars, threadVars
<1>3. InUse'
  BY DEF VppInv, InUse, queueVars, fifoVars, threadVars, diVars, outVars
<1>4. ChainsFit'
  BY DEF VppInv, ChainsFit, queueVars, fifoVars, diVars, outVars
<1>5. FieldsCounted'
  <2>1. \A x \in Buf \ new' : vf_ref[x] = Cardinality(Held(chain'[x], "dec"))
    BY DEF VppInv, FieldsCounted, queueVars
  <2> QED BY <2>1, CountKept
<1>6. Promise'
  BY DEF VppInv, Promise, IsFree, queueVars
<1> QED BY <1>1, <1>2, <1>3, <1>4, <1>5, <1>6 DEF VppInv

LEMMA HideStep ==
  ASSUME VppInv, Running, NEW b \in Buf, Hide(b)
  PROVE  VppInv'
<1>1. spec \in [Buf -> {"none", "free", "used", "out", "kept"}] /\ vf_ref \in [Buf -> 0..2]
  BY DEF VppInv, TypeOK
<1>2. phase \in {"on", "flagged"} /\ pool[b] = "dec" /\ ~ (vf_ref[b] > 0)
  BY DecoderRuns DEF Hide, VppInv, InUse, FieldsCounted
<1>3. \A x \in Buf : x # b => spec'[x] = spec[x]
  BY <1>1 DEF Hide
<1>4. spec' \in [Buf -> {"none", "free", "used", "out", "kept"}] /\ spec[b] = "used"
  BY <1>1 DEF Hide
<1>5. \A x \in Buf : /\ spec'[x] # "none" => pool[x] = "dec"
                     /\ IsFree(x) => spec'[x] = "free"
                     /\ vf_ref[x] > 0 => spec'[x] = "out"
  BY <1>2, <1>3, <1>4 DEF VppInv, InUse, IsFree, FieldsCounted
<1> QED BY <1>2, <1>4, <1>5, UseStep DEF Hide

LEMMA UnrefStep ==
  ASSUME VppInv, Running, NEW b \in Buf, Unref(b)
  PROVE  VppInv'
<1>1. spec \in [Buf -> {"none", "free", "used", "out", "kept"}] /\ vf_ref \in [Buf -> 0..2]
  BY DEF VppInv, TypeOK
<1>2. phase \in {"on", "flagged"} /\ pool[b] = "dec" /\ ~ (vf_ref[b] > 0)
  BY DecoderRuns DEF Unref, VppInv, InUse, FieldsCounted
<1>3. \A x \in Buf : spec'[x] = IF x = b THEN "free" ELSE spec[x]
  BY <1>1 DEF Unref
<1>4. spec' \in [Buf -> {"none", "free", "used", "out", "kept"}]
  BY <1>1 DEF Unref
<1>5. \A x \in Buf : /\ spec'[x] # "none" => pool[x] = "dec"
                     /\ IsFree(x) => spec'[x] = "free"
                     /\ vf_ref[x] > 0 => spec'[x] = "out"
  BY <1>2, <1>3 DEF VppInv, InUse, IsFree, FieldsCounted
<1> QED BY <1>2, <1>4, <1>5, UseStep DEF Unref

LEMMA SecondFieldStep ==
  ASSUME VppInv, Running, SecondField
  PROVE  VppInv'
<1>1. /\ spec \in [Buf -> {"none", "free", "used", "out", "kept"}] /\ vf_ref \in [Buf -> 0..2]
      /\ clock \in Time /\ more \in Buf
  BY DEF SecondField, VppInv, TypeOK
<1>2. /\ phase \in {"on", "flagged"} /\ vf_ref[more] <= 1
  BY DecoderRuns DEF SecondField, VppInv, FieldsCounted
<1>3. CASE spec[more] = "out" /\ newframe > 0 /\ phase = "on"
  <2> DEFINE f == [fb |-> more, ts |-> clock, nth |-> 2]
  <2>1. f \in Frame /\ f.fb = more
    BY <1>1 DEF Frame
  <2>2. HandOver(f)
    BY <1>3 DEF SecondField
  <2> HIDE DEF f
  <2>3. /\ vf_ref' = [vf_ref EXCEPT ![more] = vf_ref[more] + 1] /\ newframe' = newframe - 1 /\ more' = NoBuf
        /\ spec' = spec
        /\ UNCHANGED <<phase, offs, mode, queueVars, dec, dec_token, output, frame, out_done_q, sem_out,
                       threadVars, diVars, outVars>>
    BY <1>3 DEF SecondField
  <2>4. \A x \in Buf : spec'[x] = IF x = f.fb THEN "out" ELSE spec[x]
    BY <1>3, <2>1, <2>3
  <2>5. spec[f.fb] \in {"used", "out"} /\ vf_ref[f.fb] <= 1 /\ newframe > 0
    BY <1>2, <1>3, <2>1
  <2> QED BY <1>1, <2>1, <2>2, <2>3, <2>4, <2>5, AfterHandOver
<1>4. CASE ~ (spec[more] = "out" /\ newframe > 0 /\ phase = "on")
  <2>1. /\ more' = NoBuf /\ spec' = spec
        /\ UNCHANGED <<phase, offs, mode, clock, queueVars, chain, dec, dec_token, vf_ref, newframe, fifoVars,
                       threadVars, diVars, outVars>>
    BY <1>4 DEF SecondField, fifoVars
  <2>2. \A x \in Buf : /\ spec'[x] # "none" => pool[x] = "dec"
                       /\ IsFree(x) => spec'[x] = "free"
                       /\ vf_ref[x] > 0 => spec'[x] = "out"
    BY <2>1 DEF VppInv, InUse, IsFree, FieldsCounted
  <2> QED BY <1>1, <1>2, <2>1, <2>2, UseStep
<1> QED BY <1>3, <1>4

(* After a lost race little is claimed.                                    *)
LEMMA CountRacesStep ==
  ASSUME VppInv, Running, CountRaces
  PROVE  VppInv'
<1> USE DEF CountRaces
<1>1. TypeOK'
  BY DEF VppInv, TypeOK, queueVars, decVars, fifoVars, threadVars, diVars, outVars
<1>2. Accounts' /\ ReadyApart' /\ TableApart' /\ TokensApart'
  BY DEF VppInv, Accounts, Working, Here, ReadyApart, TableApart, TokensApart, Allocated,
       queueVars, decVars, fifoVars, threadVars
<1>3. InUse' /\ ChainsFit' /\ Promise'
  BY DEF VppInv, InUse, ChainsFit, Promise, queueVars, decVars, fifoVars, threadVars, diVars, outVars
<1>4. FieldsCounted'
  BY CountSame DEF queueVars, decVars
<1> QED BY <1>1, <1>2, <1>3, <1>4 DEF VppInv

-----------------------------------------------------------------------------
(* The post processing thread.                                             *)

LEMMA WaitInStep ==
  ASSUME VppInv, Running, WaitIn
  PROVE  VppInv'
<1>1. TypeOK' /\ Accounts'
  BY DEF VppInv, TypeOK, Accounts, Working, Here, WaitIn, queueVars, decVars, diVars, outVars
<1>2. ReadyApart' /\ TableApart' /\ TokensApart'
  BY DEF VppInv, ReadyApart, TableApart, TokensApart, Allocated, WaitIn, queueVars, decVars
<1>3. InUse'
  BY DEF VppInv, InUse, WaitIn, queueVars, decVars, diVars, outVars
<1>4. ChainsFit' /\ Promise'
  BY DEF VppInv, ChainsFit, Promise, IsFree, WaitIn, queueVars, decVars, diVars, outVars
<1>5. FieldsCounted'
  BY CountSame DEF WaitIn, queueVars, decVars
<1> QED BY <1>1, <1>2, <1>3, <1>4, <1>5 DEF VppInv

LEMMA WaitOutStep ==
  ASSUME VppInv, Running, WaitOut
  PROVE  VppInv'
<1>1. TypeOK' /\ Accounts'
  BY DEF VppInv, TypeOK, Accounts, Working, Here, WaitOut, queueVars, decVars, diVars, outVars
<1>2. ReadyApart' /\ TableApart' /\ TokensApart'
  BY DEF VppInv, ReadyApart, TableApart, TokensApart, Allocated, WaitOut, queueVars, decVars
<1>3. InUse'
  BY DEF VppInv, InUse, WaitOut, queueVars, decVars, diVars, outVars
<1>4. ChainsFit' /\ Promise'
  BY DEF VppInv, ChainsFit, Promise, IsFree, WaitOut, queueVars, decVars, diVars, outVars
<1>5. FieldsCounted'
  BY CountSame DEF WaitOut, queueVars, decVars
<1> QED BY <1>1, <1>2, <1>3, <1>4, <1>5 DEF VppInv

LEMMA TakeOutStep ==
  ASSUME VppInv, Running, TakeOut
  PROVE  VppInv'
<1>1. output \in Seq(Buf \cup {NoBuf})
  BY DEF VppInv, TypeOK
<1>2. \/ pc' = "wait_out" /\ UNCHANGED <<output, out_buf>>
      \/ /\ output # <<>> /\ output' = Tail(output) /\ out_buf' = output[1]
         /\ output' \in Seq(Buf \cup {NoBuf}) /\ out_buf' \in Buf \cup {NoBuf}
         /\ Len(output) \in Nat \ {0} /\ Len(output') = Len(output) - 1
         /\ \A i \in 1..Len(output') : i + 1 \in 1..Len(output) /\ output'[i] = output[i + 1]
         /\ pc' = IF ~ mode.is_prog /\ out_buf' = NoBuf THEN "bind" ELSE "pair"
  <2>1. CASE output = <<>>
    BY <2>1 DEF TakeOut
  <2>2. CASE output # <<>>
    BY <1>1, <2>2, TailFacts DEF TakeOut
  <2> QED BY <2>1, <2>2
<1>3. /\ pc = "retry"
      /\ UNCHANGED <<phase, offs, mode, clock, queueVars, chain, decVars, input, frame, in_done_q, out_done_q,
                     sem_in, sem_out, fb_token, diVars, outVars>>
  BY DEF TakeOut
<1>4. TypeOK'
  BY <1>2, <1>3 DEF VppInv, TypeOK, queueVars, decVars, diVars, outVars
<1>5. Accounts'
  BY <1>2, <1>3 DEF VppInv, TypeOK, Accounts, Working, Here
<1>6. ReadyApart' /\ TableApart' /\ TokensApart'
  BY <1>2, <1>3 DEF VppInv, ReadyApart, TableApart, TokensApart, Allocated, queueVars, decVars
<1>7. InUse'
  <2>1. Live => \A i \in 1..Len(output) : output[i] # NoBuf => pool[output[i]] # "m2m"
    BY DEF VppInv, InUse
  <2>2. Live /\ out_buf # NoBuf => pool[out_buf] # "m2m"
    BY DEF VppInv, InUse
  <2>3. Live =>
          /\ \A i \in 1..Len(output') : output'[i] # NoBuf => pool[output'[i]] # "m2m"
          /\ out_buf' # NoBuf => pool[out_buf'] # "m2m"
    BY <1>2, <1>3, <2>1, <2>2
  <2>4. pc' = "pair" /\ ~ mode.is_prog => out_buf' # NoBuf
    BY <1>2
  <2> QED BY <1>3, <2>3, <2>4 DEF VppInv, InUse, queueVars, decVars, diVars, outVars
<1>8. ChainsFit' /\ Promise'
  BY <1>3 DEF VppInv, ChainsFit, Promise, IsFree, queueVars, decVars, diVars, outVars
<1>9. FieldsCounted'
  BY <1>3, CountSame DEF queueVars, decVars
<1> QED BY <1>4, <1>5, <1>6, <1>7, <1>8, <1>9 DEF VppInv

LEMMA AskBufferStep ==
  ASSUME VppInv, Running, AskBuffer
  PROVE  VppInv'
<1> DEFINE q == Query(fb_token)
<1>1. /\ pc = "bind"
      /\ \/ fb_token' = q.token /\ token_table' = q.table /\ ready' = q.ready
         \/ UNCHANGED <<fb_token, token_table, ready>>
      /\ \/ /\ q.ok /\ fb_token' = q.token /\ token_table' = q.table
            /\ pc' = "alloc" /\ UNCHANGED <<output, out_buf>>
         \/ pc' = "retry" /\ output' = Append(output, out_buf) /\ out_buf' = NoBuf
      /\ UNCHANGED <<phase, offs, mode, clock, new, pool, chain, decVars, input, frame, in_done_q, out_done_q,
                     sem_in, sem_out, diVars, outVars>>
  BY DEF AskBuffer
<1>2. /\ fb_token \in Buf \cup {NoBuf} /\ dec_token \in Buf \cup {NoBuf} /\ token_table \subseteq Buf
      /\ output \in Seq(Buf \cup {NoBuf}) /\ out_buf \in Buf \cup {NoBuf} /\ pool \in [Buf -> {"m2m", "dec", "vpp"}]
  BY DEF VppInv, TypeOK
<1>3. /\ ready' \in Seq(Buf) /\ token_table' \subseteq Buf /\ fb_token' \in Buf \cup {NoBuf}
      /\ token_table \subseteq token_table' /\ ReadyApart' /\ TableApart'
  <2>1. CASE fb_token' = q.token /\ token_table' = q.table /\ ready' = q.ready
    BY <1>1, <1>2, <2>1, AfterQuery
  <2>2. CASE UNCHANGED <<fb_token, token_table, ready>>
    BY <1>1, <1>2, <2>2 DEF VppInv, TypeOK, ReadyApart, TableApart
  <2> QED BY <1>1, <2>1, <2>2
<1>4. /\ \/ fb_token' = fb_token /\ token_table' = token_table
         \/ /\ fb_token' \in Buf /\ fb_token' \notin token_table /\ pool[fb_token'] = "m2m"
            /\ token_table' = token_table \cup {fb_token'} /\ Live
      /\ pc' = "alloc" => fb_token' \in token_table'
  <2>1. \/ q.token = fb_token /\ q.table = token_table /\ (q.ok <=> fb_token \in token_table)
        \/ /\ Live /\ q.token \in Buf /\ q.token \notin token_table /\ pool[q.token] = "m2m"
           /\ q.table = token_table \cup {q.token}
    BY <1>2, QueryFacts
  <2> HIDE DEF q
  <2> QED BY <1>1, <2>1
<1>5. \/ pc' = "alloc" /\ UNCHANGED <<output, out_buf>>
      \/ /\ pc' = "retry" /\ out_buf' = NoBuf /\ output' \in Seq(Buf \cup {NoBuf})
         /\ Len(output) \in Nat /\ Len(output') = Len(output) + 1
         /\ \A i \in 1..Len(output') : output'[i] = IF i <= Len(output) THEN output[i] ELSE out_buf
  BY <1>1, <1>2, AppendFacts
<1> HIDE DEF q
<1>6. TypeOK'
  BY <1>1, <1>3, <1>5 DEF VppInv, TypeOK, decVars, diVars, outVars
<1>7. Accounts'
  BY <1>1, <1>5 DEF VppInv, Accounts, Working, Here
<1>8. TokensApart'
  <2>1. Live => Allocated("dec") # {}
    <3>1. in_done_q \in Seq(Frame) /\ Len(in_done_q) >= 1
      BY <1>1 DEF VppInv, TypeOK, Accounts, Working, Here
    <3>2. 1 \in 1..Len(in_done_q) /\ in_done_q[1].fb \in Buf
      BY <3>1, FrameFacts
    <3> QED BY <3>2 DEF VppInv, InUse, Allocated
  <2>2. Live => dec_token \in token_table \/ pool[dec_token] = "dec"
    BY <2>1 DEF VppInv, TokensApart, Allocated
  <2>3. dec_token \in token_table' => fb_token' # dec_token
    <3>1. CASE fb_token' = fb_token /\ token_table' = token_table
      BY <3>1 DEF VppInv, TokensApart
    <3>2. CASE /\ Live /\ fb_token' \notin token_table /\ pool[fb_token'] = "m2m"
      BY <2>2, <3>2
    <3> QED BY <1>4, <3>1, <3>2
  <2>4. UNCHANGED <<phase, pool, dec_token>>
    BY <1>1 DEF decVars
  <2>5. Live /\ fb_token' # NoBuf => fb_token' \in token_table' \/ pool[fb_token'] # "m2m"
    BY <1>4 DEF VppInv, TokensApart
  <2>6. Live /\ Allocated("dec") # {} => dec_token \in token_table' \cup Allocated("dec")
    BY <1>3 DEF VppInv, TokensApart
  <2> QED BY <1>4, <2>3, <2>4, <2>5, <2>6 DEF TokensApart, Allocated
<1>9. InUse'
  <2>1. Live =>
          /\ \A i \in 1..Len(output) : output[i] # NoBuf => pool[output[i]] # "m2m"
          /\ out_buf # NoBuf => pool[out_buf] # "m2m"
    BY DEF VppInv, InUse
  <2>2. Live =>
          /\ \A i \in 1..Len(output') : output'[i] # NoBuf => pool[output'[i]] # "m2m"
          /\ out_buf' # NoBuf => pool[out_buf'] # "m2m"
    BY <1>5, <2>1
  <2> QED BY <1>1, <1>5, <2>2 DEF VppInv, InUse, decVars, diVars, outVars
<1>10. ChainsFit'
  BY <1>1 DEF VppInv, ChainsFit, decVars, diVars, outVars
<1>11. Promise'
  BY <1>1, <1>3 DEF VppInv, Promise, IsFree, decVars
<1>12. FieldsCounted'
  BY <1>1, CountSame DEF decVars
<1> QED BY <1>3, <1>6, <1>7, <1>8, <1>9, <1>10, <1>11, <1>12 DEF VppInv

LEMMA BindStep ==
  ASSUME VppInv, Running, Bind
  PROVE  VppInv'
<1>1. /\ pc = "alloc"
      /\ UNCHANGED <<phase, offs, mode, clock, new, ready, decVars, input, frame, in_done_q, out_done_q, sem_in,
                     sem_out, fb_token, diVars, outVars>>
  BY DEF Bind
<1>2. /\ output \in Seq(Buf \cup {NoBuf}) /\ out_buf \in Buf \cup {NoBuf} /\ dec_token \in Buf \cup {NoBuf}
      /\ spec \in [Buf -> {"none", "free", "used", "out", "kept"}]
  BY DEF VppInv, TypeOK
<1>3. CASE MayAlloc(fb_token)
  <2>1. phase = "on" /\ fb_token \in token_table
    BY <1>1, <1>3 DEF MayAlloc, VppInv, TokensApart
  <2>2. Alloc(fb_token, "vpp") /\ out_buf' = fb_token /\ pc' = "pair" /\ output' = output
    BY <1>3 DEF Bind
  <2>3. /\ fb_token \in Buf /\ fb_token # NoBuf /\ fb_token \notin new
        /\ pool[fb_token] = "m2m" /\ spec[fb_token] = "none"
    BY <2>1, TokenFacts
  <2>4. /\ pool' \in [Buf -> {"m2m", "dec", "vpp"}] /\ chain' \in [Buf -> Chain(Frame)]
        /\ token_table' = token_table \ {fb_token}
        /\ \A b \in Buf : pool'[b] = IF b = fb_token THEN "vpp" ELSE pool[b]
        /\ ReadyApart' /\ TableApart'
        /\ \A b \in Buf : b # fb_token => chain'[b] = chain[b]
        /\ "dec" \notin chain'[fb_token].items
        /\ \A t \in Task, i \in 1..3 : \/ chain'[fb_token].vframe[t][i] = chain[fb_token].vframe[t][i]
                                       \/ chain'[fb_token].vframe[t][i] = NoFrame
    BY <1>1, <2>1, <2>2, AfterAlloc
  <2>5. TypeOK'
    BY <1>1, <2>2, <2>3, <2>4 DEF VppInv, TypeOK, decVars, diVars, outVars
  <2>6. Accounts'
    BY <1>1, <2>2 DEF VppInv, Accounts, Working, Here
  <2>7. TokensApart'
    <3>1. fb_token # dec_token \/ dec_token \notin token_table
      BY DEF VppInv, TokensApart
    <3>2. Allocated("dec")' = Allocated("dec")
      BY <2>3, <2>4 DEF Allocated
    <3>3. dec_token' = dec_token /\ fb_token' = fb_token /\ pc' = "pair" /\ pool'[fb_token] # "m2m"
      BY <1>1, <2>2, <2>3, <2>4 DEF decVars
    <3> QED BY <1>1, <2>1, <2>4, <3>1, <3>2, <3>3 DEF VppInv, TokensApart
  <2>8. InUse'
    <3>1. \A x \in Buf : /\ spec'[x] # "none" => pool'[x] = "dec"
                         /\ pool[x] = "dec" => pool'[x] = "dec"
                         /\ pool[x] # "m2m" => pool'[x] # "m2m"
      BY <1>1, <2>3, <2>4 DEF VppInv, InUse, decVars
    <3>2. /\ out_buf' # NoBuf => out_buf' \in Buf /\ pool'[out_buf'] # "m2m"
          /\ pc' = "pair" /\ ~ mode.is_prog => out_buf' # NoBuf
      BY <2>2, <2>3, <2>4
    <3> QED BY <1>1, <2>2, <3>1, <3>2, InUseKept DEF fifoVars, diVars, outVars
  <2>9. ChainsFit'
    <3>1. \A b \in Buf, t \in Task, i \in 1..3 :
            chain'[b].vframe[t][i] # NoFrame => chain'[b].vframe[t][i].fb = b
      BY <2>3, <2>4 DEF VppInv, ChainsFit
    <3>2. \A b \in Buf : Live /\ b \notin new /\ "dec" \in chain'[b].items => pool'[b] = "dec"
      BY <2>4 DEF VppInv, ChainsFit
    <3> QED BY <1>1, <3>1, <3>2 DEF VppInv, ChainsFit, diVars, outVars
  <2>10. FieldsCounted'
    <3>1. vf_ref[fb_token] = 0 /\ UNCHANGED <<spec, vf_ref, newframe, more>>
      BY <1>1, <2>1, TokenFacts DEF decVars
    <3>2. Cardinality(Held(chain'[fb_token], "dec")) = 0
      <4>1. Cardinality(Held(chain[fb_token], "dec")) = 0
        BY <2>1, <2>3, <3>1 DEF VppInv, FieldsCounted
      <4>2. \A i \in 1..3 : chain[fb_token].vframe["dec"][i] = NoFrame
        <5>1. Held(chain[fb_token], "dec") = {}
          BY <4>1, HeldFacts
        <5> QED BY <5>1 DEF Held
      <4>3. Held(chain'[fb_token], "dec") = {}
        BY <2>4, <4>2 DEF Held, Task
      <4> QED BY <4>3, HeldFacts
    <3>3. \A x \in Buf \ new : vf_ref[x] = Cardinality(Held(chain'[x], "dec"))
      BY <2>1, <2>4, <3>1, <3>2 DEF VppInv, FieldsCounted
    <3> QED BY <1>1, <3>1, <3>3, CountKept DEF VppInv, FieldsCounted
  <2>11. Promise'
    <3>1. dec_token \in token_table => dec_token \in token_table'
      BY <2>1, <2>4 DEF VppInv, TokensApart
    <3> QED BY <1>1, <3>1 DEF VppInv, Promise, IsFree, decVars
  <2> QED BY <2>4, <2>5, <2>6, <2>7, <2>8, <2>9, <2>10, <2>11 DEF VppInv
<1>4. CASE ~ MayAlloc(fb_token)
  <2>1. /\ output' = Append(output, out_buf) /\ out_buf' = NoBuf /\ pc' = "retry"
        /\ UNCHANGED <<pool, token_table, chain>>
    BY <1>4 DEF Bind
  <2>2. /\ output' \in Seq(Buf \cup {NoBuf}) /\ Len(output) \in Nat /\ Len(output') = Len(output) + 1
        /\ \A i \in 1..Len(output') : output'[i] = IF i <= Len(output) THEN output[i] ELSE out_buf
    BY <1>2, <2>1, AppendFacts
  <2>3. TypeOK'
    BY <1>1, <2>1, <2>2 DEF VppInv, TypeOK, decVars, diVars, outVars
  <2>4. Accounts'
    BY <1>1, <2>1, <2>2 DEF VppInv, Accounts, Working, Here
  <2>5. ReadyApart' /\ TableApart' /\ TokensApart'
    BY <1>1, <2>1 DEF VppInv, ReadyApart, TableApart, TokensApart, Allocated, decVars
  <2>6. InUse'
    <3>1. Live =>
            /\ \A i \in 1..Len(output) : output[i] # NoBuf => pool[output[i]] # "m2m"
            /\ out_buf # NoBuf => pool[out_buf] # "m2m"
      BY DEF VppInv, InUse
    <3>2. Live => \A i \in 1..Len(output') : output'[i] # NoBuf => pool[output'[i]] # "m2m"
      BY <2>2, <3>1
    <3> QED BY <1>1, <2>1, <3>2 DEF VppInv, InUse, decVars, diVars, outVars
  <2>7. ChainsFit' /\ Promise'
    BY <1>1, <2>1 DEF VppInv, ChainsFit, Promise, IsFree, decVars, diVars, outVars
  <2>8. FieldsCounted'
    BY <1>1, <2>1, CountSame DEF decVars
  <2> QED BY <2>3, <2>4, <2>5, <2>6, <2>7, <2>8 DEF VppInv
<1> QED BY <1>3, <1>4

LEMMA PairStep ==
  ASSUME VppInv, Running, Pair
  PROVE  VppInv'
<1> DEFINE f == Head(in_done_q)
           g == [f EXCEPT !.fb = IF mode.is_prog THEN f.fb ELSE out_buf]
<1>1. /\ in_done_q \in Seq(Frame) /\ reading \in Seq(Frame) /\ filling \in Seq(Frame)
      /\ out_buf \in Buf \cup {NoBuf} /\ output \in Seq(Buf \cup {NoBuf})
  BY DEF VppInv, TypeOK
<1>2. in_done_q # <<>> /\ frame > 0
  <2>1. Len(in_done_q) = sem_in + 1 /\ frame = Len(output) + 1 /\ sem_in \in Nat
    BY DEF Pair, VppInv, TypeOK, Accounts, Working, Here
  <2> QED BY <1>1, <2>1
<1>3. /\ Tail(in_done_q) \in Seq(Frame) /\ f \in Frame /\ f = in_done_q[1]
      /\ Len(in_done_q) \in Nat \ {0} /\ Len(Tail(in_done_q)) = Len(in_done_q) - 1
      /\ \A i \in 1..Len(Tail(in_done_q)) :
           i + 1 \in 1..Len(in_done_q) /\ Tail(in_done_q)[i] = in_done_q[i + 1]
  BY <1>1, <1>2, TailFacts
<1>4. /\ pc = "pair"
      /\ reading' = IF mode.is_prog THEN reading ELSE Append(reading, f)
      /\ filling' = Append(filling, g)
      /\ in_done_q' = Tail(in_done_q) /\ frame' = frame - 1 /\ held' = held + 1
      /\ out_buf' = NoBuf /\ pc' = "wait_in"
      /\ UNCHANGED <<phase, offs, mode, clock, queueVars, chain, decVars, input, output, out_done_q, sem_in,
                     sem_out, fb_token, done, putting, emptied, outVars>>
  BY <1>2 DEF Pair
<1>5. g \in Frame
  <2>1. mode.is_prog \/ out_buf # NoBuf
    BY <1>4 DEF VppInv, InUse
  <2>2. (IF mode.is_prog THEN f.fb ELSE out_buf) \in Buf
    BY <1>1, <1>3, <2>1, FrameFacts
  <2> HIDE DEF f
  <2> QED BY <1>3, <2>2 DEF Frame
<1>6. Live => pool[f.fb] = "dec" /\ pool[g.fb] # "m2m"
  <2>1. SUFFICES ASSUME Live PROVE pool[f.fb] = "dec" /\ pool[g.fb] # "m2m"
    OBVIOUS
  <2>2. pool[f.fb] = "dec"
    BY <1>3, <2>1 DEF VppInv, InUse
  <2>3. ~ mode.is_prog => pool[out_buf] # "m2m"
    BY <1>4, <2>1 DEF VppInv, InUse
  <2>4. g.fb = IF mode.is_prog THEN f.fb ELSE out_buf
    BY <1>3 DEF Frame
  <2> HIDE DEF f, g
  <2> QED BY <2>2, <2>3, <2>4
<1> HIDE DEF f, g
<1>7. \/ reading' = reading
      \/ /\ reading' = Append(reading, f) /\ reading' \in Seq(Frame)
         /\ Len(reading') = Len(reading) + 1
         /\ \A i \in 1..Len(reading') : reading'[i] = IF i <= Len(reading) THEN reading[i] ELSE f
  BY <1>1, <1>3, <1>4, AppendFacts
<1>8. /\ filling' \in Seq(Frame) /\ Len(filling') = Len(filling) + 1
      /\ \A i \in 1..Len(filling') : filling'[i] = IF i <= Len(filling) THEN filling[i] ELSE g
  BY <1>1, <1>4, <1>5, AppendFacts
<1>9. TypeOK'
  <2>1. frame' \in Nat /\ held' \in Int
    BY <1>2, <1>4 DEF VppInv, TypeOK
  <2>2. reading' \in Seq(Frame) /\ in_done_q' \in Seq(Frame)
    BY <1>1, <1>3, <1>4, <1>7
  <2> QED BY <1>4, <1>8, <2>1, <2>2 DEF VppInv, TypeOK, queueVars, decVars, outVars
<1>10. Accounts'
  BY <1>2, <1>3, <1>4 DEF VppInv, TypeOK, Accounts, Working, Here
<1>11. ReadyApart' /\ TableApart' /\ TokensApart'
  BY <1>4 DEF VppInv, ReadyApart, TableApart, TokensApart, Allocated, queueVars, decVars
<1>12. InUse'
  <2>1. Live => \A i \in 1..Len(in_done_q') : pool[in_done_q'[i].fb] = "dec"
    BY <1>3, <1>4 DEF VppInv, InUse
  <2>2. Live => \A i \in 1..Len(reading') : pool[reading'[i].fb] = "dec"
    <3>1. Live => \A i \in 1..Len(reading) : pool[reading[i].fb] = "dec"
      BY DEF VppInv, InUse
    <3>2. Len(reading) \in Nat
      BY <1>1
    <3>3. CASE reading' = reading
      BY <3>1, <3>3
    <3>4. CASE /\ Len(reading') = Len(reading) + 1
               /\ \A i \in 1..Len(reading') : reading'[i] = IF i <= Len(reading) THEN reading[i] ELSE f
      BY <1>6, <3>1, <3>2, <3>4
    <3> QED BY <1>7, <3>3, <3>4
  <2>3. Live => \A i \in 1..Len(filling') : pool[filling'[i].fb] # "m2m"
    <3>1. Live => \A i \in 1..Len(filling) : pool[filling[i].fb] # "m2m"
      BY DEF VppInv, InUse
    <3> QED BY <1>1, <1>6, <1>8, <3>1
  <2> QED BY <1>4, <2>1, <2>2, <2>3 DEF VppInv, InUse, queueVars, decVars, outVars
<1>13. ChainsFit' /\ Promise'
  BY <1>4 DEF VppInv, ChainsFit, Promise, IsFree, queueVars, decVars, outVars
<1>14. FieldsCounted'
  BY <1>4, CountSame DEF queueVars, decVars
<1> QED BY <1>9, <1>10, <1>11, <1>12, <1>13, <1>14 DEF VppInv

-----------------------------------------------------------------------------
(* The DI and the capture worker.                                          *)

(* The output that is done is on its way: either fifo has its picture.     *)
LEMMA DoneFacts ==
  ASSUME VppInv
  PROVE  /\ done = NoBuf => out_done_q = <<>> /\ putting = <<>>
         /\ done # NoBuf => \E f \in Frame : /\ f.fb = done
                                             /\ \/ out_done_q = <<f>> /\ putting = <<>>
                                                \/ out_done_q = <<>> /\ putting = <<f>>
<1>1. CASE done = NoBuf
  BY <1>1 DEF VppInv, ChainsFit
<1>2. CASE done # NoBuf
  <2>1. PICK f \in Frame : f.fb = done /\ {out_done_q, putting} = {<<>>, <<f>>}
    BY <1>2 DEF VppInv, ChainsFit
  <2>2. <<>> # <<f>>
    OBVIOUS
  <2>3. \/ out_done_q = <<f>> /\ putting = <<>>
        \/ out_done_q = <<>> /\ putting = <<f>>
    BY <2>1, <2>2, Zenon
  <2> QED BY <1>2, <2>1, <2>3
<1> QED BY <1>1, <1>2

LEMMA FillDoneStep ==
  ASSUME VppInv, Running, FillDone
  PROVE  VppInv'
<1> DEFINE f == Head(filling)
<1>1. filling \in Seq(Frame) /\ filling # <<>> /\ done = NoBuf /\ out_done_q = <<>> /\ putting = <<>>
  BY DoneFacts DEF FillDone, VppInv, TypeOK
<1>2. /\ Tail(filling) \in Seq(Frame) /\ f \in Frame /\ f = filling[1]
      /\ Len(filling) \in Nat \ {0} /\ Len(Tail(filling)) = Len(filling) - 1
      /\ \A i \in 1..Len(Tail(filling)) : i + 1 \in 1..Len(filling) /\ Tail(filling)[i] = filling[i + 1]
  BY <1>1, TailFacts
<1>3. /\ filling' = Tail(filling)
      /\ \/ /\ phase = "on" /\ out_done_q' = Append(out_done_q, f) /\ done' = f.fb
            /\ (input' = input + 1 \/ input' = input)
         \/ UNCHANGED <<out_done_q, input, done>>
      /\ UNCHANGED <<phase, offs, mode, clock, queueVars, chain, decVars, output, frame, in_done_q, sem_in,
                     sem_out, threadVars, reading, putting, emptied, held, outVars>>
  BY DEF FillDone
<1>4. f.fb \in Buf /\ f.fb # NoBuf /\ (Live => pool[f.fb] # "m2m")
  <2>1. Live => pool[f.fb] # "m2m"
    BY <1>2 DEF VppInv, InUse
  <2> QED BY <1>2, <2>1, FrameFacts
<1> HIDE DEF f
<1>5. \/ phase = "on" /\ done' = f.fb /\ out_done_q' = <<f>>
      \/ UNCHANGED <<out_done_q, done>>
  <2>1. Append(<<>>, f) = <<f>>
    OBVIOUS
  <2> QED BY <1>1, <1>3, <2>1
<1>6. TypeOK'
  <2>1. input' \in Nat
    BY <1>3 DEF VppInv, TypeOK
  <2>2. <<f>> \in Seq(Frame) /\ <<>> \in Seq(Frame)
    BY <1>2
  <2>3. out_done_q' \in Seq(Frame) /\ done' \in Buf \cup {NoBuf}
    BY <1>1, <1>4, <1>5, <2>2
  <2> QED BY <1>2, <1>3, <2>1, <2>3 DEF VppInv, TypeOK, queueVars, decVars, threadVars, outVars
<1>7. Accounts' /\ ReadyApart' /\ TableApart' /\ TokensApart'
  BY <1>3 DEF VppInv, Accounts, Working, Here, ReadyApart, TableApart, TokensApart, Allocated,
       queueVars, decVars, threadVars
<1>8. InUse'
  <2>1. Live => \A i \in 1..Len(filling') : pool[filling'[i].fb] # "m2m"
    BY <1>2, <1>3 DEF VppInv, InUse
  <2>2. Live /\ done' # NoBuf => pool[done'] # "m2m"
    BY <1>4, <1>5 DEF VppInv, InUse
  <2> QED BY <1>3, <2>1, <2>2 DEF VppInv, InUse, queueVars, decVars, threadVars, outVars
<1>9. ChainsFit'
  <2>1. IF done' = NoBuf THEN out_done_q' = <<>> /\ putting' = <<>>
        ELSE \E g \in Frame : g.fb = done' /\ {out_done_q', putting'} = {<<>>, <<g>>}
    <3>1. CASE phase = "on" /\ done' = f.fb /\ out_done_q' = <<f>>
      BY <1>1, <1>2, <1>3, <1>4, <3>1
    <3>2. CASE UNCHANGED <<out_done_q, done>>
      BY <1>1, <1>3, <3>2
    <3> QED BY <1>5, <3>1, <3>2
  <2> QED BY <1>3, <2>1 DEF VppInv, ChainsFit, queueVars, decVars, outVars
<1>10. FieldsCounted'
  BY <1>3, CountSame DEF queueVars, decVars
<1>11. Promise'
  BY <1>3 DEF VppInv, Promise, IsFree, queueVars, decVars
<1> QED BY <1>6, <1>7, <1>8, <1>9, <1>10, <1>11 DEF VppInv

LEMMA SubmitStep ==
  ASSUME VppInv, Running, Submit
  PROVE  VppInv'
<1>1. PICK f \in Frame : f.fb = done /\ out_done_q = <<f>>
  BY DoneFacts DEF Submit
<1>2. /\ done \in Buf /\ Head(out_done_q) = f /\ Tail(out_done_q) = <<>> /\ putting = <<>>
  BY <1>1, FrameFacts DEF Submit
<1>3. /\ out_done_q' = <<>>
      /\ chain' = [chain EXCEPT ![done] = Push(chain[done], "vpp", f)]
      /\ \/ putting' = <<f>> /\ UNCHANGED <<held, done>>
         \/ held' = held - 1 /\ done' = NoBuf /\ putting' = <<>>
      /\ UNCHANGED <<phase, offs, mode, clock, queueVars, decVars, input, output, frame, in_done_q, sem_in,
                     sem_out, threadVars, reading, filling, emptied, outVars>>
  BY <1>2 DEF Submit
<1>4. chain \in [Buf -> Chain(Frame)] /\ chain[done] \in Chain(Frame)
  BY <1>2 DEF VppInv, TypeOK
<1> DEFINE c == Push(chain[done], "vpp", f)
<1>5. /\ c \in Chain(Frame)
      /\ c.items = chain[done].items
      /\ \A t \in Task, i \in 1..3 :
           /\ c.vframe[t][i] = chain[done].vframe[t][i] \/ c.vframe[t][i] = f
           /\ c.vframe["dec"][i] = chain[done].vframe["dec"][i]
  <2>1. "vpp" \in Task /\ "dec" \in Task /\ "dec" # "vpp"
    BY DEF Task
  <2>2. /\ c \in Chain(Frame) /\ c.items = chain[done].items
        /\ \A u \in Task, i \in 1..3 :
              /\ c.vframe[u][i] = chain[done].vframe[u][i] \/ c.vframe[u][i] = f
              /\ u # "vpp" => c.vframe[u][i] = chain[done].vframe[u][i]
    BY <1>4, <2>1, PushFacts
  <2> QED BY <2>1, <2>2
<1> HIDE DEF c
<1>6. /\ chain' \in [Buf -> Chain(Frame)] /\ chain'[done] = c
      /\ \A x \in Buf : x # done => chain'[x] = chain[x]
  BY <1>2, <1>3, <1>4, <1>5 DEF c
<1>7. TypeOK'
  <2>1. <<f>> \in Seq(Frame) /\ <<>> \in Seq(Frame)
    OBVIOUS
  <2>2. putting' = <<f>> \/ putting' = <<>>
    BY <1>3
  <2>3. putting' \in Seq(Frame)
    BY <2>1, <2>2, Zenon
  <2>4. held' \in Int /\ done' \in Buf \cup {NoBuf}
    BY <1>2, <1>3 DEF VppInv, TypeOK
  <2> QED BY <1>3, <1>6, <2>1, <2>3, <2>4 DEF VppInv, TypeOK, queueVars, decVars, threadVars, outVars
<1>8. Accounts' /\ ReadyApart' /\ TableApart' /\ TokensApart'
  BY <1>3 DEF VppInv, Accounts, Working, Here, ReadyApart, TableApart, TokensApart, Allocated,
       queueVars, decVars, threadVars
<1>9. InUse'
  <2>1. Live => pool[done] # "m2m"
    BY <1>2, FrameFacts DEF VppInv, InUse
  <2>2. Live => \A i \in 1..Len(putting') : pool[putting'[i].fb] # "m2m"
    <3>1. Len(<<>>) = 0 /\ Len(<<f>>) = 1 /\ <<f>>[1] = f
      OBVIOUS
    <3> QED BY <1>1, <1>3, <2>1, <3>1
  <2> QED BY <1>3, <2>1, <2>2 DEF VppInv, InUse, queueVars, decVars, threadVars, outVars
<1>10. ChainsFit'
  <2>1. \A x \in Buf, t \in Task, i \in 1..3 :
          chain'[x].vframe[t][i] # NoFrame => chain'[x].vframe[t][i].fb = x
    <3> TAKE x \in Buf, t \in Task, i \in 1..3
    <3>1. CASE x # done
      BY <1>6, <3>1 DEF VppInv, ChainsFit
    <3>2. CASE x = done
      BY <1>1, <1>5, <1>6, <3>2 DEF VppInv, ChainsFit
    <3> QED BY <3>1, <3>2
  <2>2. \A x \in Buf : chain'[x].items = chain[x].items
    BY <1>5, <1>6
  <2>3. UNCHANGED <<phase, mode, new, pool, reading, emptied, posting>>
    BY <1>3 DEF queueVars, outVars
  <2>4. IF done' = NoBuf THEN out_done_q' = <<>> /\ putting' = <<>>
        ELSE \E g \in Frame : g.fb = done' /\ {out_done_q', putting'} = {<<>>, <<g>>}
    <3>1. CASE putting' = <<f>> /\ done' = done
      BY <1>1, <1>2, <1>3, <3>1, FrameFacts
    <3>2. CASE putting' = <<>> /\ done' = NoBuf
      BY <1>3, <3>2
    <3> QED BY <1>3, <3>1, <3>2
  <2> QED BY <2>1, <2>2, <2>3, <2>4 DEF VppInv, ChainsFit
<1>11. FieldsCounted'
  <2>1. \A x \in Buf : Held(chain'[x], "dec") = Held(chain[x], "dec")
    BY <1>5, <1>6 DEF Held, Task
  <2>2. UNCHANGED <<phase, mode, new, spec, vf_ref, newframe, more>>
    BY <1>3 DEF queueVars, decVars
  <2> QED BY <2>1, <2>2, CountKept DEF VppInv, FieldsCounted
<1>12. Promise'
  BY <1>3 DEF VppInv, Promise, IsFree, queueVars, decVars
<1> QED BY <1>7, <1>8, <1>9, <1>10, <1>11, <1>12 DEF VppInv

LEMMA PutCaptureStep ==
  ASSUME VppInv, Running, PutCapture
  PROVE  VppInv'
<1>1. PICK f \in Frame : f.fb = done /\ putting = <<f>> /\ out_done_q = <<>>
  BY DoneFacts DEF PutCapture
<1>2. capture \in Seq(Frame) /\ done \in Buf
  BY <1>1, FrameFacts DEF VppInv, TypeOK
<1>3. /\ capture' = capture \o <<f>> /\ putting' = <<>> /\ held' = held - 1 /\ done' = NoBuf
      /\ UNCHANGED <<phase, offs, mode, clock, queueVars, chain, decVars, fifoVars, threadVars, reading, filling,
                     emptied, posting, user>>
  BY <1>1 DEF PutCapture
<1>4. /\ capture' \in Seq(Frame) /\ Len(capture') = Len(capture) + 1
      /\ \A i \in 1..Len(capture') : capture'[i] = IF i <= Len(capture) THEN capture[i] ELSE f
  <2>1. capture \o <<f>> = Append(capture, f)
    BY <1>2
  <2> QED BY <1>2, <1>3, <2>1, AppendFacts
<1>5. TypeOK'
  <2>1. held' \in Int /\ putting' \in Seq(Frame)
    BY <1>3 DEF VppInv, TypeOK
  <2> QED BY <1>3, <1>4, <2>1 DEF VppInv, TypeOK, queueVars, decVars, fifoVars, threadVars
<1>6. Accounts' /\ ReadyApart' /\ TableApart' /\ TokensApart'
  <2>1. UNCHANGED <<phase, queueVars, decVars, fifoVars, threadVars>>
    BY <1>3
  <2> QED BY <2>1 DEF VppInv, Accounts, Working, Here, ReadyApart, TableApart, TokensApart, Allocated,
                queueVars, decVars, fifoVars, threadVars
<1>7. InUse'
  <2>1. Live => pool[done] # "m2m" /\ \A i \in 1..Len(capture) : pool[capture[i].fb] # "m2m"
    BY <1>2, FrameFacts DEF VppInv, InUse
  <2>2. Live => \A i \in 1..Len(capture') : pool[capture'[i].fb] # "m2m"
    BY <1>1, <1>2, <1>4, <2>1
  <2>3. 1..Len(putting') = {}
    BY <1>3
  <2> QED BY <1>3, <2>2, <2>3 DEF VppInv, InUse, queueVars, decVars, fifoVars, threadVars
<1>8. ChainsFit'
  BY <1>1, <1>3 DEF VppInv, ChainsFit, queueVars, decVars, fifoVars
<1>9. FieldsCounted'
  BY <1>3, CountSame DEF queueVars, decVars
<1>10. Promise'
  BY <1>3 DEF VppInv, Promise, IsFree, queueVars, decVars
<1> QED BY <1>5, <1>6, <1>7, <1>8, <1>9, <1>10 DEF VppInv

LEMMA EmptyDoneStep ==
  ASSUME VppInv, Running, EmptyDone
  PROVE  VppInv'
<1> DEFINE f == Head(reading)
<1>1. reading \in Seq(Frame) /\ reading # <<>> /\ ~ mode.is_prog
  BY DEF EmptyDone, VppInv, TypeOK, ChainsFit
<1>2. /\ Tail(reading) \in Seq(Frame) /\ f \in Frame /\ f = reading[1]
      /\ Len(reading) \in Nat \ {0} /\ Len(Tail(reading)) = Len(reading) - 1
      /\ \A i \in 1..Len(Tail(reading)) : i + 1 \in 1..Len(reading) /\ Tail(reading)[i] = reading[i + 1]
  BY <1>1, TailFacts
<1>3. /\ reading' = Tail(reading)
      /\ emptied' = <<f>> \/ emptied' = <<>>
      /\ UNCHANGED <<phase, offs, mode, clock, queueVars, chain, decVars, fifoVars, threadVars, filling, done,
                     putting, held, outVars>>
  BY DEF EmptyDone
<1>4. Live => pool[f.fb] = "dec"
  BY <1>2 DEF VppInv, InUse
<1> HIDE DEF f
<1>5. /\ emptied' \in Seq(Frame) /\ Len(emptied') <= 1
      /\ \A i \in 1..Len(emptied') : emptied'[i] = f
  <2>1. CASE emptied' = <<f>>
    BY <1>2, <2>1
  <2>2. CASE emptied' = <<>>
    BY <2>2
  <2> QED BY <1>3, <2>1, <2>2
<1>6. TypeOK'
  BY SMTT(30), <1>2, <1>3, <1>5 DEF VppInv, TypeOK, queueVars, decVars, fifoVars, threadVars, outVars
<1>7. Accounts' /\ ReadyApart' /\ TableApart' /\ TokensApart'
  BY <1>3 DEF VppInv, Accounts, Working, Here, ReadyApart, TableApart, TokensApart, Allocated,
       queueVars, decVars, fifoVars, threadVars
<1>8. InUse'
  <2>1. Live => \A i \in 1..Len(reading') : pool[reading'[i].fb] = "dec"
    BY <1>2, <1>3 DEF VppInv, InUse
  <2>2. Live => \A i \in 1..Len(emptied') : pool[emptied'[i].fb] = "dec"
    BY <1>4, <1>5
  <2> QED BY <1>3, <2>1, <2>2 DEF VppInv, InUse, queueVars, decVars, fifoVars, threadVars, outVars
<1>9. ChainsFit'
  BY <1>1, <1>3, <1>5 DEF VppInv, ChainsFit, queueVars, decVars, fifoVars, outVars
<1>10. FieldsCounted'
  BY <1>3, CountSame DEF queueVars, decVars
<1>11. Promise'
  BY <1>3 DEF VppInv, Promise, IsFree, queueVars, decVars
<1> QED BY <1>6, <1>7, <1>8, <1>9, <1>10, <1>11 DEF VppInv

LEMMA RecycleStep ==
  ASSUME VppInv, Running, Recycle
  PROVE  VppInv'
<1> DEFINE f == Head(emptied)
<1>1. emptied \in Seq(Frame) /\ emptied # <<>> /\ chain \in [Buf -> Chain(Frame)]
  BY DEF Recycle, VppInv, TypeOK
<1>2. f \in Frame /\ f = emptied[1] /\ Len(emptied) \in Nat \ {0}
  BY <1>1, TailFacts
<1>3. /\ emptied' = <<>> /\ RecycleToDec(chain, f.fb) /\ input' = input + 1
      /\ UNCHANGED <<phase, offs, mode, clock, queueVars, dec, dec_token, more, output, frame, in_done_q,
                     out_done_q, sem_in, sem_out, threadVars, reading, filling, done, putting, held, outVars>>
  BY DEF Recycle
<1>4. f.fb \in Buf /\ (Live => f.fb \notin new)
  <2>1. Live => pool[f.fb] = "dec"
    BY <1>2 DEF VppInv, InUse
  <2> QED BY <1>2, <2>1, FrameFacts DEF VppInv, TableApart
<1> HIDE DEF f
<1>5. /\ chain' \in [Buf -> Chain(Frame)]
      /\ spec' \in [Buf -> {"none", "free", "used", "out", "kept"}]
      /\ vf_ref' \in [Buf -> 0..2] /\ newframe' \in Nat
      /\ \A x \in Buf : /\ spec'[x] # "none" => pool[x] = "dec"
                        /\ IsFree(x) => spec'[x] = "free"
      /\ \A x \in Buf : chain'[x].items = chain[x].items
      /\ \A x \in Buf, t \in Task, i \in 1..3 :
           chain'[x].vframe[t][i] # NoFrame => chain'[x].vframe[t][i].fb = x
      /\ phase \in {"stopped", "off"} => spec' = spec
      /\ FieldsCounted'
  BY <1>1, <1>3, <1>4, AfterRecycle DEF queueVars
<1>6. TypeOK'
  <2>1. input' \in Nat /\ emptied' \in Seq(Frame)
    BY <1>3 DEF VppInv, TypeOK
  <2> QED BY <1>3, <1>5, <2>1 DEF VppInv, TypeOK, queueVars, threadVars, outVars
<1>7. Accounts' /\ ReadyApart' /\ TableApart' /\ TokensApart'
  BY <1>3 DEF VppInv, Accounts, Working, Here, ReadyApart, TableApart, TokensApart, Allocated,
       queueVars, threadVars
<1>8. InUse'
  <2>1. 1..Len(emptied') = {}
    BY <1>3
  <2> QED BY <1>3, <1>5, <2>1 DEF VppInv, InUse, queueVars, threadVars, outVars
<1>9. ChainsFit'
  <2>1. UNCHANGED <<phase, mode, new, pool, done, out_done_q, reading, putting, posting>>
    BY <1>3 DEF queueVars, outVars
  <2>2. \A x \in Buf : Live /\ x \notin new /\ "dec" \in chain'[x].items => pool[x] = "dec"
    BY <1>5 DEF VppInv, ChainsFit
  <2>3. emptied' = <<>> /\ Len(emptied') <= 1
    BY <1>3
  <2> QED BY <1>5, <2>1, <2>2, <2>3 DEF VppInv, ChainsFit
<1>10. Promise'
  BY <1>3, <1>5 DEF VppInv, Promise, IsFree, queueVars
<1> QED BY <1>5, <1>6, <1>7, <1>8, <1>9, <1>10 DEF VppInv

LEMMA WorkerGetStep ==
  ASSUME VppInv, Running, WorkerGet
  PROVE  VppInv'
<1> DEFINE f == Head(capture)
<1>1. capture \in Seq(Frame) /\ capture # <<>>
  BY DEF WorkerGet, VppInv, TypeOK
<1>2. /\ Tail(capture) \in Seq(Frame) /\ f \in Frame /\ f = capture[1]
      /\ Len(capture) \in Nat \ {0} /\ Len(Tail(capture)) = Len(capture) - 1
      /\ \A i \in 1..Len(Tail(capture)) : i + 1 \in 1..Len(capture) /\ Tail(capture)[i] = capture[i + 1]
  BY <1>1, TailFacts
<1>3. /\ capture' = Tail(capture)
      /\ posting' = <<f>> \/ posting' = <<>>
      /\ UNCHANGED <<phase, offs, mode, clock, queueVars, chain, decVars, fifoVars, threadVars, diVars, user>>
  BY DEF WorkerGet
<1>4. Live => /\ \A i \in 1..Len(capture) : pool[capture[i].fb] # "m2m"
              /\ pool[f.fb] # "m2m"
  BY <1>2 DEF VppInv, InUse
<1> HIDE DEF f
<1>5. /\ posting' \in Seq(Frame) /\ Len(posting') <= 1
      /\ \A i \in 1..Len(posting') : posting'[i] = f
  <2>1. CASE posting' = <<f>>
    BY <1>2, <2>1
  <2>2. CASE posting' = <<>>
    BY <2>2
  <2> QED BY <1>3, <2>1, <2>2
<1>6. TypeOK'
  BY <1>2, <1>3, <1>5 DEF VppInv, TypeOK, queueVars, decVars, fifoVars, threadVars, diVars
<1>7. Accounts' /\ ReadyApart' /\ TableApart' /\ TokensApart'
  BY <1>3 DEF VppInv, Accounts, Working, Here, ReadyApart, TableApart, TokensApart, Allocated,
       queueVars, decVars, fifoVars, threadVars
<1>8. InUse'
  <2>1. Live => \A i \in 1..Len(capture') : pool[capture'[i].fb] # "m2m"
    BY <1>2, <1>3, <1>4
  <2>2. Live => \A i \in 1..Len(posting') : pool[posting'[i].fb] # "m2m"
    BY <1>4, <1>5
  <2> QED BY <1>3, <2>1, <2>2 DEF VppInv, InUse, queueVars, decVars, fifoVars, threadVars, diVars
<1>9. ChainsFit' /\ Promise'
  BY <1>3, <1>5 DEF VppInv, ChainsFit, Promise, IsFree, queueVars, decVars, fifoVars, diVars
<1>10. FieldsCounted'
  BY <1>3, CountSame DEF queueVars, decVars
<1> QED BY <1>6, <1>7, <1>8, <1>9, <1>10 DEF VppInv

LEMMA PostStep ==
  ASSUME VppInv, Running, Post
  PROVE  VppInv'
<1>1. posting \in Seq(Frame) /\ posting # <<>> /\ user \subseteq Frame
  BY DEF Post, VppInv, TypeOK
<1>2. Head(posting) \in Frame /\ Head(posting) = posting[1] /\ Len(posting) \in Nat \ {0}
  BY <1>1, TailFacts
<1>3. /\ \/ phase = "off" /\ phase' = "broken" /\ UNCHANGED <<posting, user>>
         \/ phase # "off" /\ phase' = phase /\ posting' = <<>> /\ user' = user \cup {posting[1]}
      /\ UNCHANGED <<offs, mode, clock, queueVars, chain, decVars, fifoVars, threadVars, diVars, capture>>
  BY <1>2 DEF Post
<1>4. TypeOK'
  <2>1. phase' \in {"on", "flagged", "stopped", "off", "broken"} /\ user' \subseteq Frame
    BY <1>1, <1>2, <1>3 DEF VppInv, TypeOK
  <2>2. <<>> \in Seq(Frame)
    OBVIOUS
  <2>3. posting' \in Seq(Frame)
    BY <1>1, <1>3, <2>2
  <2> QED BY <1>3, <2>1, <2>3 DEF VppInv, TypeOK, queueVars, decVars, fifoVars, threadVars, diVars
<1>5. Accounts' /\ ReadyApart' /\ TableApart' /\ TokensApart'
  BY <1>3 DEF VppInv, Accounts, Working, Here, ReadyApart, TableApart, TokensApart, Allocated,
       queueVars, decVars, fifoVars, threadVars
<1>6. InUse'
  <2>1. CASE phase = "off" /\ phase' = "broken" /\ UNCHANGED <<posting, user>>
    BY <1>3, <2>1 DEF VppInv, InUse, queueVars, decVars, fifoVars, threadVars, diVars
  <2>2. CASE phase # "off" /\ phase' = phase /\ posting' = <<>> /\ user' = user \cup {posting[1]}
    <3>1. pool[posting[1].fb] # "m2m"
      BY <1>2, <2>2, LiveFacts DEF VppInv, InUse
    <3>2. \A f \in user' : pool[f.fb] # "m2m"
      BY <2>2, <3>1 DEF VppInv, InUse
    <3>3. 1..Len(posting') = {}
      BY <2>2
    <3> QED BY <1>3, <2>2, <3>2, <3>3 DEF VppInv, InUse, queueVars, decVars, fifoVars, threadVars, diVars
  <2> QED BY <1>3, <2>1, <2>2
<1>7. ChainsFit' /\ Promise'
  <2>1. Len(posting') <= 1
    BY <1>3 DEF VppInv, ChainsFit
  <2> QED BY <1>3, <2>1 DEF VppInv, ChainsFit, Promise, IsFree, queueVars, decVars, fifoVars, diVars
<1>8. FieldsCounted'
  BY <1>3, CountSame DEF queueVars, decVars
<1> QED BY <1>4, <1>5, <1>6, <1>7, <1>8 DEF VppInv

-----------------------------------------------------------------------------
(* The user queues buffers.                                                *)

LEMMA QueueNewStep ==
  ASSUME VppInv, Running, NEW b \in Buf, QueueNew(b)
  PROVE  VppInv'
<1>1. /\ phase = "on" /\ b \in new
      /\ new' = new \ {b} /\ ready' = Append(ready, b)
      /\ chain' = [chain EXCEPT ![b] = Clean(chain[b])]
      /\ UNCHANGED <<phase, offs, mode, clock, token_table, pool, decVars, fifoVars, threadVars, diVars, outVars>>
  BY DEF QueueNew
<1>2. ready \in Seq(Buf) /\ chain \in [Buf -> Chain(Frame)] /\ new \subseteq Buf
  BY DEF VppInv, TypeOK
<1>3. /\ ready' \in Seq(Buf) /\ Len(ready) \in Nat /\ Len(ready') = Len(ready) + 1
      /\ \A i \in 1..Len(ready') : ready'[i] = IF i <= Len(ready) THEN ready[i] ELSE b
  BY <1>1, <1>2, AppendFacts
<1>4. /\ Clean(chain[b]) \in Chain(Frame) /\ Clean(chain[b]).items = {}
      /\ \A t \in Task, i \in 1..3 : Clean(chain[b]).vframe[t][i] = NoFrame
  BY <1>2, CleanFacts
<1>5. /\ chain' \in [Buf -> Chain(Frame)] /\ chain'[b] = Clean(chain[b])
      /\ \A x \in Buf : x # b => chain'[x] = chain[x]
  BY <1>1, <1>2, <1>4
<1>6. b \notin token_table /\ pool[b] = "m2m"
  BY <1>1 DEF VppInv, TableApart
<1>7. TypeOK'
  BY <1>1, <1>2, <1>3, <1>5 DEF VppInv, TypeOK, decVars, fifoVars, threadVars, diVars, outVars
<1>8. Accounts'
  BY <1>1 DEF VppInv, Accounts, Working, Here, fifoVars, threadVars
<1>9. ReadyApart'
  <2>1. /\ \A i, j \in 1..Len(ready) : ready[i] = ready[j] => i = j
        /\ \A i \in 1..Len(ready) : /\ ready[i] \notin new \cup token_table
                                    /\ pool[ready[i]] = "m2m"
    BY DEF VppInv, ReadyApart
  <2>2. \A i \in 1..Len(ready) : ready[i] # b
    BY <1>1, <2>1
  <2>3. \A i, j \in 1..Len(ready') : ready'[i] = ready'[j] => i = j
    BY <1>3, <2>1, <2>2
  <2>4. \A i \in 1..Len(ready') : /\ ready'[i] \notin new' \cup token_table'
                                  /\ pool'[ready'[i]] = "m2m"
    BY <1>1, <1>3, <1>6, <2>1
  <2> QED BY <2>3, <2>4 DEF ReadyApart
<1>10. TableApart' /\ TokensApart'
  BY <1>1 DEF VppInv, TableApart, TokensApart, Allocated, decVars, threadVars
<1>11. InUse'
  BY <1>1 DEF VppInv, InUse, decVars, fifoVars, threadVars, diVars, outVars
<1>12. ChainsFit'
  <2>1. \A x \in Buf, t \in Task, i \in 1..3 :
          chain'[x].vframe[t][i] # NoFrame => chain'[x].vframe[t][i].fb = x
    BY <1>4, <1>5 DEF VppInv, ChainsFit
  <2>2. \A x \in Buf : Live /\ x \notin new' /\ "dec" \in chain'[x].items => pool[x] = "dec"
    BY <1>1, <1>4, <1>5 DEF VppInv, ChainsFit
  <2> QED BY <1>1, <2>1, <2>2 DEF VppInv, ChainsFit, decVars, fifoVars, diVars, outVars
<1>13. FieldsCounted'
  <2>1. vf_ref[b] = 0
    <3>1. spec[b] = "none"
      BY <1>6 DEF VppInv, InUse
    <3>2. vf_ref[b] \in 0..2 /\ (vf_ref[b] > 0 => spec[b] = "out")
      BY DEF VppInv, TypeOK, FieldsCounted
    <3> QED BY <3>1, <3>2
  <2>2. Cardinality(Held(chain'[b], "dec")) = 0
    <3>1. Held(chain'[b], "dec") = {}
      BY <1>4, <1>5 DEF Held, Task
    <3> QED BY <3>1, HeldFacts
  <2>3. \A x \in Buf \ new' : vf_ref[x] = Cardinality(Held(chain'[x], "dec"))
    BY <1>1, <1>5, <2>1, <2>2 DEF VppInv, FieldsCounted
  <2>4. UNCHANGED <<mode, spec, vf_ref, newframe, more>>
    BY <1>1 DEF decVars
  <2> QED BY <2>3, <2>4, CountKept DEF VppInv, FieldsCounted
<1>14. Promise'
  BY <1>1 DEF VppInv, Promise, IsFree, decVars
<1> QED BY <1>7, <1>8, <1>9, <1>10, <1>11, <1>12, <1>13, <1>14 DEF VppInv

LEMMA QueueAgainStep ==
  ASSUME VppInv, Running, NEW b \in Buf, QueueAgain(b)
  PROVE  VppInv'
<1> DEFINE f == Top(chain[b], "vpp")
           c == [chain EXCEPT ![b] = Pop(chain[b], "vpp")]
<1>1. PICK g \in user : g.fb = b /\ user' = user \ {g}
  BY DEF QueueAgain
<1>2. /\ phase = "on" /\ f # NoFrame
      /\ IF mode.is_prog THEN RecycleToDec(c, f.fb) ELSE chain' = c /\ UNCHANGED <<spec, vf_ref, newframe>>
      /\ frame' = frame + 1
      /\ output' = Append(output, f.fb)
      /\ sem_out' = IF sem_out < MaxPermits THEN sem_out + 1 ELSE sem_out
      /\ UNCHANGED <<phase, offs, mode, clock, queueVars, dec, dec_token, more, input, in_done_q, out_done_q,
                     sem_in, threadVars, diVars, capture, posting>>
  BY DEF QueueAgain
<1>3. chain \in [Buf -> Chain(Frame)] /\ chain[b] \in Chain(Frame) /\ output \in Seq(Buf \cup {NoBuf})
  BY DEF VppInv, TypeOK
<1>4. pool[b] # "m2m" /\ b \notin new
  BY <1>1 DEF VppInv, InUse, TableApart
<1>5. f.fb = b
  <2>1. \E i \in 1..3 : chain[b].vframe["vpp"][i] = f
    BY <1>2, TopFacts
  <2> HIDE DEF f
  <2>2. "vpp" \in Task
    BY DEF Task
  <2> QED BY <1>2, <2>1, <2>2 DEF VppInv, ChainsFit
<1> HIDE DEF f
<1>6. /\ c \in [Buf -> Chain(Frame)]
      /\ \A x \in Buf : c[x].items = chain[x].items
      /\ \A x \in Buf, t \in Task, i \in 1..3 :
           /\ c[x].vframe[t][i] = chain[x].vframe[t][i] \/ c[x].vframe[t][i] = NoFrame
           /\ c[x].vframe["dec"][i] = chain[x].vframe["dec"][i]
  <2> DEFINE p == Pop(chain[b], "vpp")
  <2>1. "vpp" \in Task /\ "dec" \in Task /\ "dec" # "vpp"
    BY DEF Task
  <2>2. /\ p \in Chain(Frame) /\ p.items = chain[b].items
        /\ \A u \in Task, i \in 1..3 :
             /\ p.vframe[u][i] = chain[b].vframe[u][i] \/ p.vframe[u][i] = NoFrame
             /\ u # "vpp" => p.vframe[u][i] = chain[b].vframe[u][i]
    BY <1>3, <2>1, PopFacts
  <2> HIDE DEF p
  <2>3. /\ c \in [Buf -> Chain(Frame)] /\ c[b] = p
        /\ \A x \in Buf : x # b => c[x] = chain[x]
    BY <1>3, <2>2 DEF p
  <2> HIDE DEF c
  <2>4. ASSUME NEW x \in Buf, NEW t \in Task, NEW i \in 1..3
        PROVE  /\ c[x].vframe[t][i] = chain[x].vframe[t][i] \/ c[x].vframe[t][i] = NoFrame
               /\ c[x].vframe["dec"][i] = chain[x].vframe["dec"][i]
    BY <2>1, <2>2, <2>3
  <2> QED BY <2>2, <2>3, <2>4
<1> HIDE DEF c
<1>7. /\ chain' \in [Buf -> Chain(Frame)]
      /\ spec' \in [Buf -> {"none", "free", "used", "out", "kept"}]
      /\ vf_ref' \in [Buf -> 0..2] /\ newframe' \in Nat
      /\ \A x \in Buf : /\ spec'[x] # "none" => pool[x] = "dec"
                        /\ IsFree(x) => spec'[x] = "free"
      /\ \A x \in Buf : chain'[x].items = chain[x].items
      /\ \A x \in Buf, t \in Task, i \in 1..3 :
           chain'[x].vframe[t][i] # NoFrame => chain'[x].vframe[t][i].fb = x
      /\ FieldsCounted'
  <2>1. CASE mode.is_prog
    <3>1. RecycleToDec(c, b)
      BY <1>2, <1>5, <2>1
    <3> QED BY <1>2, <1>4, <1>6, <3>1, AfterRecycle DEF queueVars
  <2>2. CASE ~ mode.is_prog
    <3>1. chain' = c /\ UNCHANGED <<phase, mode, new, spec, vf_ref, newframe, more>>
      BY <1>2, <2>2 DEF queueVars
    <3>2. /\ spec \in [Buf -> {"none", "free", "used", "out", "kept"}]
          /\ vf_ref \in [Buf -> 0..2] /\ newframe \in Nat
          /\ \A x \in Buf : /\ spec[x] # "none" => pool[x] = "dec"
                            /\ IsFree(x) => spec[x] = "free"
      BY DEF VppInv, TypeOK, InUse, IsFree
    <3>3. \A x \in Buf, t \in Task, i \in 1..3 : c[x].vframe[t][i] # NoFrame => c[x].vframe[t][i].fb = x
      BY <1>6 DEF VppInv, ChainsFit
    <3>4. FieldsCounted'
      <4>1. \A x \in Buf : Held(c[x], "dec") = Held(chain[x], "dec")
        BY <1>6 DEF Held, Task
      <4> QED BY <3>1, <4>1, CountKept DEF VppInv, FieldsCounted
    <3> QED BY <1>6, <3>1, <3>2, <3>3, <3>4
  <2> QED BY <2>1, <2>2
<1>8. /\ output' \in Seq(Buf \cup {NoBuf}) /\ Len(output) \in Nat /\ Len(output') = Len(output) + 1
      /\ \A i \in 1..Len(output') : output'[i] = IF i <= Len(output) THEN output[i] ELSE b
  BY <1>2, <1>3, <1>5, AppendFacts
<1>9. TypeOK'
  <2>1. frame' \in Nat /\ sem_out' \in Nat /\ user' \subseteq Frame
    BY <1>1, <1>2 DEF VppInv, TypeOK
  <2> QED BY <1>2, <1>7, <1>8, <2>1 DEF VppInv, TypeOK, queueVars, threadVars, diVars
<1>10. Accounts'
  <2>1. /\ pc # "exit" /\ Len(in_done_q) = sem_in + Here(Working)
        /\ frame = Len(output) + Here(pc \in {"bind", "alloc", "pair"}) /\ frame \in Nat
    BY DEF VppInv, TypeOK, Accounts
  <2>2. Here(pc \in {"bind", "alloc", "pair"}) \in {0, 1}
    BY DEF Here
  <2>3. UNCHANGED <<pc, in_done_q, sem_in>> /\ frame' = frame + 1
    BY <1>2 DEF threadVars
  <2>4. frame' = Len(output') + Here(pc \in {"bind", "alloc", "pair"})
    BY <1>8, <2>1, <2>2, <2>3
  <2>5. Here(Working)' = Here(Working) /\ Here(pc \in {"bind", "alloc", "pair"})' = Here(pc \in {"bind", "alloc", "pair"})
    BY <2>3 DEF Here, Working
  <2> QED BY <2>1, <2>3, <2>4, <2>5 DEF Accounts
<1>11. ReadyApart' /\ TableApart' /\ TokensApart'
  BY <1>2 DEF VppInv, ReadyApart, TableApart, TokensApart, Allocated, queueVars, threadVars
<1>12. InUse'
  <2>1. \A i \in 1..Len(output') : output'[i] # NoBuf => pool[output'[i]] # "m2m"
    <3>1. \A i \in 1..Len(output) : output[i] # NoBuf => pool[output[i]] # "m2m"
      BY <1>2 DEF VppInv, InUse
    <3> QED BY <1>4, <1>8, <3>1
  <2> QED BY <1>1, <1>2, <1>7, <2>1 DEF VppInv, InUse, queueVars, threadVars, diVars
<1>13. ChainsFit'
  <2>1. UNCHANGED <<phase, mode, new, pool, done, out_done_q, putting, reading, emptied, posting>>
    BY <1>2 DEF queueVars, diVars
  <2>2. \A x \in Buf : Live /\ x \notin new /\ "dec" \in chain'[x].items => pool[x] = "dec"
    BY <1>7 DEF VppInv, ChainsFit
  <2> QED BY <1>7, <2>1, <2>2 DEF VppInv, ChainsFit
<1>14. Promise'
  BY <1>2, <1>7 DEF VppInv, Promise, IsFree, queueVars
<1> QED BY <1>7, <1>9, <1>10, <1>11, <1>12, <1>13, <1>14 DEF VppInv

-----------------------------------------------------------------------------
(* The stream ends and starts again.                                       *)

LEMMA StreamOffStep ==
  ASSUME VppInv, Running, StreamOff
  PROVE  VppInv'
<1> USE DEF StreamOff
<1>1. TypeOK'
  BY DEF VppInv, TypeOK, queueVars, decVars, fifoVars, threadVars, diVars, outVars
<1>2. Accounts' /\ ReadyApart' /\ TableApart' /\ TokensApart'
  BY DEF VppInv, Accounts, Working, Here, ReadyApart, TableApart, TokensApart, Allocated,
       queueVars, decVars, fifoVars, threadVars
<1>3. InUse' /\ ChainsFit' /\ Promise'
  BY DEF VppInv, InUse, ChainsFit, Promise, queueVars, decVars, fifoVars, threadVars, diVars, outVars
<1>4. FieldsCounted'
  BY CountSame DEF queueVars, decVars
<1> QED BY <1>1, <1>2, <1>3, <1>4 DEF VppInv

LEMMA StopDecoderStep ==
  ASSUME VppInv, Running, StopDecoder
  PROVE  VppInv'
<1> USE DEF StopDecoder
<1>1. TypeOK'
  <2>1. VfPool \in Nat
    BY VppAssumption
  <2> QED BY <2>1 DEF VppInv, TypeOK, queueVars, fifoVars, threadVars, diVars, outVars
<1>2. Accounts' /\ ReadyApart' /\ TableApart' /\ TokensApart'
  BY DEF VppInv, Accounts, Working, Here, ReadyApart, TableApart, TokensApart, Allocated,
       queueVars, fifoVars, threadVars
<1>3. InUse' /\ ChainsFit' /\ Promise'
  BY DEF VppInv, InUse, ChainsFit, Promise, queueVars, fifoVars, threadVars, diVars, outVars
<1>4. FieldsCounted'
  <2>1. \A b \in Buf : vf_ref'[b] = 0
    OBVIOUS
  <2>2. Cardinality(Refs') = 0
    BY <2>1, NoRefs DEF Refs
  <2>3. newframe' = VfPool /\ VfPool \in Nat
    BY VppAssumption
  <2> QED BY <2>1, <2>2, <2>3 DEF FieldsCounted
<1> QED BY <1>1, <1>2, <1>3, <1>4 DEF VppInv

LEMMA DrainStep ==
  ASSUME VppInv, Running, Drain
  PROVE  VppInv'
<1> USE DEF Drain
<1>1. TypeOK'
  BY DEF VppInv, TypeOK, decVars, fifoVars, threadVars, diVars
<1>2. Accounts'
  BY DEF VppInv, Accounts, Working, Here, fifoVars, threadVars
<1>3. ReadyApart' /\ TableApart'
  BY DEF ReadyApart, TableApart
<1>4. TokensApart'
  BY DEF TokensApart
<1>5. InUse'
  <2>1. \A b \in Buf : spec'[b] = "none"
    BY DEF VppInv, Promise, decVars
  <2> QED BY <2>1 DEF VppInv, InUse, fifoVars, threadVars
<1>6. ChainsFit' /\ Promise'
  BY DEF VppInv, ChainsFit, Promise, decVars, fifoVars, diVars
<1>7. FieldsCounted'
  <2>1. Buf \ new' = {}
    OBVIOUS
  <2> QED BY <2>1, CountKept DEF VppInv, FieldsCounted, decVars
<1> QED BY <1>1, <1>2, <1>3, <1>4, <1>5, <1>6, <1>7 DEF VppInv

(* Fifos that have just been set up fit the accounts.                      *)
LEMMA FreshFifos ==
  LET q == [i \in 1..OutSize |-> NoBuf]
  IN  /\ q \in Seq(Buf \cup {NoBuf}) /\ Len(q) = OutSize
      /\ \A i \in 1..Len(q) : q[i] = NoBuf
      /\ OutSize \in Nat /\ InSize \in Nat /\ 0 \in Time
<1>1. OutSize \in Nat /\ InSize \in Nat /\ Times \in Nat \ {0}
  BY VppAssumption
<1> DEFINE q == [i \in 1..OutSize |-> NoBuf]
<1>2. q \in Seq(Buf \cup {NoBuf}) /\ Len(q) = OutSize
  BY <1>1
<1>3. 0 \in Time
  BY <1>1 DEF Time
<1> QED BY <1>1, <1>2, <1>3

LEMMA StreamOnStep ==
  ASSUME VppInv, Running, StreamOn
  PROVE  VppInv'
<1> USE DEF StreamOn
<1> DEFINE q == [i \in 1..OutSize |-> NoBuf]
<1>1. /\ q \in Seq(Buf \cup {NoBuf}) /\ Len(q) = OutSize
      /\ \A i \in 1..Len(q) : q[i] = NoBuf
      /\ OutSize \in Nat /\ InSize \in Nat /\ 0 \in Time
  BY FreshFifos
<1>2. output' = q
  OBVIOUS
<1> HIDE DEF q
<1>3. /\ ready = <<>> /\ token_table = {} /\ new = Buf /\ user = {} /\ putting = <<>>
      /\ \A b \in Buf : pool[b] = "m2m" /\ spec[b] = "none"
      /\ dec = "idle" /\ more = NoBuf
  BY DoneFacts DEF VppInv, TableApart, InUse, Promise
<1>4. TypeOK'
  <2>1. mode' \in Mode
    BY VppAssumption
  <2>2. <<>> \in Seq(Frame) /\ NoBuf \in Buf \cup {NoBuf}
    OBVIOUS
  <2>3. phase' \in {"on", "broken"}
    OBVIOUS
  <2>4. /\ in_done_q' \in Seq(Frame) /\ out_done_q' \in Seq(Frame) /\ sem_in' \in Nat /\ sem_out' \in Nat
        /\ clock' \in Time /\ input' \in Nat /\ output' \in Seq(Buf \cup {NoBuf}) /\ frame' \in Nat
        /\ pc' = "wait_in" /\ out_buf' = NoBuf /\ fb_token' = NoBuf /\ held' = 0
    BY <1>1, <1>2, <2>2
  <2>5. UNCHANGED <<offs, queueVars, chain, decVars, reading, filling, done, putting, emptied, outVars>>
    OBVIOUS
  <2> HIDE DEF StreamOn
  <2> QED BY <2>1, <2>2, <2>3, <2>4, <2>5 DEF VppInv, TypeOK, queueVars, decVars, outVars
<1>5. Accounts'
  BY <1>1, <1>2 DEF Accounts, Working, Here
<1>6. ReadyApart' /\ TableApart'
  BY DEF VppInv, ReadyApart, TableApart, queueVars
<1>7. TokensApart'
  BY <1>3 DEF TokensApart, Allocated, queueVars, decVars
<1>8. InUse'
  <2>1. \A i \in 1..Len(output') : output'[i] = NoBuf
    BY <1>1, <1>2
  <2>2. /\ in_done_q' = <<>> /\ reading' = <<>> /\ filling' = <<>> /\ emptied' = <<>> /\ putting' = <<>>
        /\ Live' => capture' = <<>> /\ posting' = <<>>
        /\ user' = {} /\ pc' = "wait_in" /\ out_buf' = NoBuf /\ done' = NoBuf
        /\ \A b \in Buf : spec'[b] = "none"
    BY <1>3 DEF queueVars, decVars, outVars
  <2>3. 1..Len(<<>>) = {}
    OBVIOUS
  <2> QED BY <2>1, <2>2, <2>3 DEF InUse
<1>9. ChainsFit' /\ Promise'
  <2>1. Buf \ new' = {}
    BY <1>3 DEF queueVars
  <2> QED BY <1>3, <2>1 DEF VppInv, ChainsFit, Promise, queueVars, decVars, outVars
<1>10. FieldsCounted'
  <2>1. Buf \ new' = {} /\ more' = NoBuf
    BY <1>3 DEF queueVars, decVars
  <2> QED BY <2>1, CountKept DEF VppInv, FieldsCounted, decVars
<1> QED BY <1>4, <1>5, <1>6, <1>7, <1>8, <1>9, <1>10 DEF VppInv

-----------------------------------------------------------------------------
(* The invariant.                                                          *)

LEMMA InitStep == Init => VppInv
<1> SUFFICES ASSUME Init PROVE VppInv
  OBVIOUS
<1> USE DEF Init
<1> DEFINE q == [i \in 1..OutSize |-> NoBuf]
<1>1. /\ q \in Seq(Buf \cup {NoBuf}) /\ Len(q) = OutSize
      /\ \A i \in 1..Len(q) : q[i] = NoBuf
      /\ OutSize \in Nat /\ InSize \in Nat /\ 0 \in Time
  BY FreshFifos
<1>2. output = q
  OBVIOUS
<1> HIDE DEF q
<1>3. /\ chain \in [Buf -> Chain(Frame)]
      /\ \A b \in Buf : /\ chain[b].items = {}
                        /\ \A t \in Task, i \in 1..3 : chain[b].vframe[t][i] = NoFrame
  BY NewChainFacts
<1>4. TypeOK
  <2>1. mode \in Mode
    BY VppAssumption
  <2>2. <<>> \in Seq(Frame) /\ <<>> \in Seq(Buf)
    OBVIOUS
  <2>3. VfPool \in Nat
    BY VppAssumption
  <2> QED BY <1>1, <1>2, <1>3, <2>1, <2>2, <2>3 DEF TypeOK, NoBuf
<1>5. Accounts
  BY <1>1, <1>2 DEF Accounts, Working, Here
<1>6. ReadyApart /\ TableApart /\ TokensApart
  BY DEF ReadyApart, TableApart, TokensApart, Allocated
<1>7. InUse
  <2>1. \A i \in 1..Len(output) : output[i] = NoBuf
    BY <1>1, <1>2
  <2>2. 1..Len(<<>>) = {}
    OBVIOUS
  <2> QED BY <2>1, <2>2 DEF InUse
<1>8. ChainsFit /\ Promise
  <2>1. Len(<<>>) <= 1
    OBVIOUS
  <2> QED BY <1>3, <2>1 DEF ChainsFit, Promise
<1>9. FieldsCounted
  <2>1. Cardinality(Refs) = 0
    BY NoRefs DEF Refs
  <2>2. newframe = VfPool /\ VfPool \in Nat
    BY VppAssumption
  <2> QED BY <2>1, <2>2 DEF FieldsCounted
<1> QED BY <1>4, <1>5, <1>6, <1>7, <1>8, <1>9 DEF VppInv

LEMMA NextStep == VppInv /\ [Next]_vars => VppInv'
<1> SUFFICES ASSUME VppInv, [Next]_vars PROVE VppInv'
  OBVIOUS
<1>1. CASE Running /\ Queue
  BY <1>1, QueueNewStep, QueueAgainStep DEF Queue
<1>2. CASE Running /\ Stream
  BY <1>2, StreamOffStep, StopDecoderStep, DrainStep, StreamOnStep DEF Stream
<1>3. CASE Running /\ Decoder
  BY <1>3, HaveFreeStep, GetFreeStep, SecondFieldStep, CountRacesStep, OutputStep, HideStep, UnrefStep DEF Decoder
<1>4. CASE Running /\ Thread
  BY <1>4, WaitInStep, WaitOutStep, TakeOutStep, AskBufferStep, BindStep, PairStep DEF Thread
<1>5. CASE Running /\ Di
  BY <1>5, FillDoneStep, SubmitStep, PutCaptureStep, EmptyDoneStep, RecycleStep DEF Di
<1>6. CASE Running /\ Worker
  BY <1>6, WorkerGetStep, PostStep DEF Worker
<1>7. CASE UNCHANGED vars
  <2> USE <1>7 DEF vars, queueVars, decVars, fifoVars, threadVars, diVars, outVars
  <2>1. TypeOK'
    BY DEF VppInv, TypeOK
  <2>2. Accounts' /\ ReadyApart' /\ TableApart' /\ TokensApart'
    BY DEF VppInv, Accounts, Working, Here, ReadyApart, TableApart, TokensApart, Allocated
  <2>3. InUse' /\ ChainsFit' /\ Promise'
    BY DEF VppInv, InUse, ChainsFit, Promise, IsFree
  <2>4. FieldsCounted'
    BY CountSame
  <2> QED BY <2>1, <2>2, <2>3, <2>4 DEF VppInv
<1> QED BY <1>1, <1>2, <1>3, <1>4, <1>5, <1>6, <1>7 DEF Next

(* Types, accounts and uses fit each other through every seek: the         *)
(* inductive invariant holds for every number of capture buffers, every    *)
(* size of the fifos and every choice of the modes.                        *)
THEOREM Fits == Spec => []VppInv
<1>1. Init => VppInv
  BY InitStep
<1>2. VppInv /\ [Next]_vars => VppInv'
  BY NextStep
<1> QED BY <1>1, <1>2, PTL DEF Spec

(* The post processing thread always finds the picture and the frame it    *)
(* was woken up for (aml_v4l2_vpp_thread), and the decoder the buffer that *)
(* have_free_buf_spec has promised (v4l_get_free_buf_idx).                 *)
THEOREM GoesOn == Spec => []NeverGivesUp
<1>1. VppInv => NeverGivesUp
  BY DEF VppInv, Accounts, Promise, NeverGivesUp
<1> QED BY <1>1, Fits, PTL

=============================================================================
