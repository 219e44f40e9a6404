------------------------------ MODULE VppOrder ------------------------------
(***************************************************************************)
(* Proofs about Vpp, continued: pictures reach the user in the order in    *)
(* which the decoder has put them out, the fields of a frame one after the *)
(* other, and none is lost on the way, if there are input buffers and      *)
(* vframes enough and every progressive mode has the DI's own memory.  A   *)
(* step moves a picture from the head of one queue to the end of the next  *)
(* one, puts a new one at the very end, or takes the oldest one;           *)
(* PictureInv is why no other queue is ever taken.                         *)
(***************************************************************************)
EXTENDS VppOwners

-----------------------------------------------------------------------------
(* Time stamps.                                                            *)

LEMMA StampsFacts ==
  ASSUME NEW q \in Seq(Frame)
  PROVE  /\ StampsOf(q) \in Seq(Time) /\ Len(StampsOf(q)) = Len(q) /\ Len(q) \in Nat
         /\ \A i \in 1..Len(q) : StampsOf(q)[i] = q[i].ts
<1>1. \A i \in 1..Len(q) : q[i].ts \in Time
  BY FrameFacts
<1> QED BY <1>1 DEF StampsOf

LEMMA StampsAppend ==
  ASSUME NEW q \in Seq(Frame), NEW f \in Frame
  PROVE  StampsOf(Append(q, f)) = Append(StampsOf(q), f.ts)
<1> DEFINE u == StampsOf(Append(q, f))
           v == Append(StampsOf(q), f.ts)
<1>1. f.ts \in Time
  BY FrameFacts
<1>2. u \in Seq(Time) /\ v \in Seq(Time)
  BY <1>1, AppendFacts, StampsFacts
<1>3. Len(u) = Len(v)
  <2>1. Append(q, f) \in Seq(Frame) /\ Len(Append(q, f)) = Len(q) + 1
    BY AppendFacts
  <2>2. Len(u) = Len(q) + 1
    BY <2>1, StampsFacts
  <2>3. Len(v) = Len(q) + 1
    BY <1>1, AppendFacts, StampsFacts
  <2> QED BY <2>2, <2>3
<1>4. \A i \in 1..Len(u) : u[i] = v[i]
  <2>1. Append(q, f) \in Seq(Frame) /\ Len(Append(q, f)) = Len(q) + 1
    BY AppendFacts
  <2> TAKE i \in 1..Len(u)
  <2>2. i \in 1..Len(Append(q, f)) /\ u[i] = Append(q, f)[i].ts
    BY <2>1, StampsFacts
  <2>3. v[i] = IF i <= Len(q) THEN StampsOf(q)[i] ELSE f.ts
    BY <1>1, <2>1, <2>2, AppendFacts, StampsFacts
  <2> QED BY <2>1, <2>2, <2>3, AppendFacts, StampsFacts
<1> HIDE DEF u, v
<1>5. u = v
  BY <1>2, <1>3, <1>4, SameElements
<1> QED BY <1>5 DEF u, v

LEMMA StampsTail ==
  ASSUME NEW q \in Seq(Frame), q # <<>>
  PROVE  /\ StampsOf(Tail(q)) = Tail(StampsOf(q))
         /\ StampsOf(q) # <<>> /\ Head(StampsOf(q)) = Head(q).ts
<1> DEFINE u == StampsOf(Tail(q))
           v == Tail(StampsOf(q))
<1>1. /\ Tail(q) \in Seq(Frame) /\ Len(q) \in Nat \ {0} /\ Len(Tail(q)) = Len(q) - 1 /\ Head(q) = q[1]
      /\ \A i \in 1..Len(Tail(q)) : i + 1 \in 1..Len(q) /\ Tail(q)[i] = q[i + 1]
  BY TailFacts
<1>2. /\ StampsOf(q) \in Seq(Time) /\ Len(StampsOf(q)) = Len(q)
      /\ \A i \in 1..Len(q) : StampsOf(q)[i] = q[i].ts
  BY StampsFacts
<1>3. StampsOf(q) # <<>>
  BY <1>1, <1>2, EmptyFacts
<1>4. /\ v \in Seq(Time) /\ Len(v) = Len(q) - 1 /\ Head(StampsOf(q)) = StampsOf(q)[1]
      /\ \A i \in 1..Len(v) : v[i] = StampsOf(q)[i + 1]
  BY <1>2, <1>3, TailFacts
<1>5. u \in Seq(Time) /\ Len(u) = Len(q) - 1 /\ \A i \in 1..Len(u) : u[i] = Tail(q)[i].ts
  BY <1>1, StampsFacts
<1>6. \A i \in 1..Len(u) : u[i] = v[i]
  BY <1>1, <1>2, <1>4, <1>5
<1>7. Head(StampsOf(q)) = Head(q).ts
  BY <1>1, <1>2, <1>4
<1> HIDE DEF u, v
<1>8. u = v
  BY <1>4, <1>5, <1>6, SameElements
<1> QED BY <1>3, <1>7, <1>8 DEF u, v

(* A sequence of consecutive stamps may lose its first one ...             *)
LEMMA LaterOnes ==
  ASSUME NEW S, NEW s \in Seq(S), NEW x \in S, s # <<>>, Consecutive(Append(s, x))
  PROVE  Consecutive(Append(Tail(s), x))
<1> DEFINE u == Append(s, x)
           v == Append(Tail(s), x)
           n == Len(s)
<1>1. u \in Seq(S) /\ n \in Nat \ {0} /\ Len(u) = n + 1 /\ u # <<>>
  BY TailFacts, AppendFacts
<1>2. v = Tail(u)
  <2>1. <<x>> \in Seq(S) /\ Tail(s) \in Seq(S)
    BY TailFacts
  <2>2. Append(s, x) = s \o <<x>> /\ Append(Tail(s), x) = Tail(s) \o <<x>>
    BY <2>1
  <2>3. Tail(s) \o <<x>> = Tail(s \o <<x>>)
    BY <2>1, TailConcat
  <2> QED BY <2>2, <2>3
<1>3. \A i \in 1..n : u[i + 1] = (u[i] + 1) % Times
  BY <1>1 DEF Consecutive
<1> HIDE DEF u, v, n
<1>4. Len(v) = n /\ \A i \in 1..n : v[i] = u[i + 1]
  BY <1>1, <1>2, TailFacts
<1>5. \A i \in 1..(Len(v) - 1) : v[i + 1] = (v[i] + 1) % Times
  <2> TAKE i \in 1..(Len(v) - 1)
  <2>1. i \in 1..n /\ i + 1 \in 1..n
    BY <1>1, <1>4
  <2> QED BY <1>3, <1>4, <2>1
<1> QED BY <1>5 DEF Consecutive, v

(* ... and get the next one.                                               *)
LEMMA OneMore ==
  ASSUME NEW S, NEW s \in Seq(S), NEW x \in S, NEW y \in S, y = (x + 1) % Times,
         Consecutive(Append(s, x))
  PROVE  Consecutive(Append(Append(s, x), y))
<1> DEFINE u == Append(s, x)
           v == Append(u, y)
<1>1. u \in Seq(S) /\ Len(s) \in Nat /\ Len(u) = Len(s) + 1 /\ u[Len(s) + 1] = x
  BY AppendFacts
<1> HIDE DEF u
<1>2. Len(v) = Len(u) + 1 /\ v[Len(u) + 1] = y /\ \A i \in 1..Len(u) : v[i] = u[i]
  BY <1>1, AppendFacts
<1> HIDE DEF v
<1>3. \A i \in 1..(Len(u) - 1) : u[i + 1] = (u[i] + 1) % Times
  BY DEF Consecutive, u
<1>4. ASSUME NEW i \in 1..(Len(v) - 1)
      PROVE  v[i + 1] = (v[i] + 1) % Times
  <2>1. CASE i = Len(u)
    <3>1. v[i + 1] = y /\ v[i] = x
      BY <1>1, <1>2, <2>1
    <3> QED BY <3>1
  <2>2. CASE i # Len(u)
    <3>1. i \in 1..(Len(u) - 1)
      BY <1>1, <1>2, <2>2
    <3>2. i \in 1..Len(u) /\ i + 1 \in 1..Len(u)
      BY <1>1, <3>1
    <3> QED BY <1>2, <1>3, <3>1, <3>2
  <2> QED BY <2>1, <2>2
<1> QED BY <1>4 DEF Consecutive, v, u

(* A picture moves from one queue to the end of the one before it.         *)
LEMMA Moves ==
  ASSUME NEW x \in Seq(Frame), NEW y \in Seq(Frame), y # <<>>, NEW f \in Frame, f.ts = Head(y).ts,
         NEW s \in Seq(Time)
  PROVE  (s \o StampsOf(Append(x, f))) \o StampsOf(Tail(y)) = (s \o StampsOf(x)) \o StampsOf(y)
<1> DEFINE t == StampsOf(x)
           u == StampsOf(y)
<1>1. t \in Seq(Time) /\ u \in Seq(Time) /\ f.ts \in Time
  BY StampsFacts, FrameFacts
<1>2. StampsOf(Append(x, f)) = Append(t, f.ts) /\ StampsOf(Tail(y)) = Tail(u) /\ u # <<>> /\ Head(u) = f.ts
  BY StampsAppend, StampsTail
<1> HIDE DEF t, u
<1>3. s \o t \in Seq(Time) /\ s \o Append(t, f.ts) = Append(s \o t, f.ts)
  BY <1>1, ConcatFacts, AppendConcat
<1>4. Append(s \o t, f.ts) \o Tail(u) = (s \o t) \o u
  BY <1>1, <1>2, <1>3, MoveOver
<1> QED BY <1>2, <1>3, <1>4 DEF t, u

LEMMA MovesFirst ==
  ASSUME NEW x \in Seq(Frame), NEW y \in Seq(Frame), y # <<>>, NEW f \in Frame, f.ts = Head(y).ts
  PROVE  StampsOf(Append(x, f)) \o StampsOf(Tail(y)) = StampsOf(x) \o StampsOf(y)
<1> DEFINE t == StampsOf(x)
           u == StampsOf(y)
<1>1. t \in Seq(Time) /\ u \in Seq(Time) /\ f.ts \in Time
  BY StampsFacts, FrameFacts
<1>2. StampsOf(Append(x, f)) = Append(t, f.ts) /\ StampsOf(Tail(y)) = Tail(u) /\ u # <<>> /\ Head(u) = f.ts
  BY StampsAppend, StampsTail
<1> HIDE DEF t, u
<1>3. Append(t, f.ts) \o Tail(u) = t \o u
  BY <1>1, <1>2, MoveOver
<1> QED BY <1>2, <1>3 DEF t, u

-----------------------------------------------------------------------------
(* The steps.                                                              *)

(* The stamps of the pictures before a queue.                              *)
ToPost == StampsOf(posting) \o StampsOf(capture)
ToCapture == ToPost \o StampsOf(putting)
ToPut == ToCapture \o StampsOf(out_done_q)
ToSubmit == ToPut \o StampsOf(filling)

LEMMA StampsTyped ==
  ASSUME VppInv
  PROVE  /\ StampsOf(posting) \in Seq(Time) /\ StampsOf(capture) \in Seq(Time)
         /\ StampsOf(putting) \in Seq(Time) /\ StampsOf(out_done_q) \in Seq(Time)
         /\ StampsOf(filling) \in Seq(Time) /\ StampsOf(in_done_q) \in Seq(Time)
         /\ ToPost \in Seq(Time) /\ ToCapture \in Seq(Time) /\ ToPut \in Seq(Time) /\ ToSubmit \in Seq(Time)
         /\ Stamps = ToSubmit \o StampsOf(in_done_q)
         /\ Stamps \in Seq(Time) /\ clock \in Time
<1>1. /\ StampsOf(posting) \in Seq(Time) /\ StampsOf(capture) \in Seq(Time)
      /\ StampsOf(putting) \in Seq(Time) /\ StampsOf(out_done_q) \in Seq(Time)
      /\ StampsOf(filling) \in Seq(Time) /\ StampsOf(in_done_q) \in Seq(Time)
  BY Types, StampsFacts
<1>2. ToPost \in Seq(Time)
  BY <1>1, ConcatFacts DEF ToPost
<1>3. ToCapture \in Seq(Time)
  BY <1>1, <1>2, ConcatFacts DEF ToCapture
<1>4. ToPut \in Seq(Time)
  BY <1>1, <1>3, ConcatFacts DEF ToPut
<1>5. ToSubmit \in Seq(Time)
  BY <1>1, <1>4, ConcatFacts DEF ToSubmit
<1>6. Stamps = ToSubmit \o StampsOf(in_done_q)
  BY DEF Stamps, ToPost, ToCapture, ToPut, ToSubmit
<1>7. Stamps \in Seq(Time)
  BY <1>1, <1>5, <1>6, ConcatFacts
<1>8. clock \in Time
  BY DEF VppInv, TypeOK
<1> QED BY <1>1, <1>2, <1>3, <1>4, <1>5, <1>6, <1>7, <1>8

(* The stamps in the next state.                                           *)
LEMMA StampsThen ==
  /\ ToPost' = StampsOf(posting') \o StampsOf(capture')
  /\ ToCapture' = ToPost' \o StampsOf(putting')
  /\ ToPut' = ToCapture' \o StampsOf(out_done_q')
  /\ ToSubmit' = ToPut' \o StampsOf(filling')
  /\ Stamps' = ToSubmit' \o StampsOf(in_done_q')
<1>1. ToPost' = StampsOf(posting') \o StampsOf(capture')
  BY DEF ToPost, StampsOf
<1>2. ToCapture' = ToPost' \o StampsOf(putting')
  BY DEF ToCapture, ToPost, StampsOf
<1>3. ToPut' = ToCapture' \o StampsOf(out_done_q')
  BY DEF ToPut, ToCapture, ToPost, StampsOf
<1>4. ToSubmit' = ToPut' \o StampsOf(filling')
  BY DEF ToSubmit, ToPut, ToCapture, ToPost, StampsOf
<1>5. Stamps' = ToSubmit' \o StampsOf(in_done_q')
  BY DEF Stamps, ToSubmit, ToPut, ToCapture, ToPost, StampsOf
<1> QED BY <1>1, <1>2, <1>3, <1>4, <1>5

(* A step that leaves the stamps and the clock alone.                      *)
LEMMA SameStamps ==
  ASSUME phase = "on", InOrder, Stamps' = Stamps, clock' = clock
  PROVE  InOrder'
BY DEF InOrder, Consecutive

(* A step that touches none of the queues.                                 *)
LEMMA SameQueues ==
  ASSUME phase = "on", InOrder, UNCHANGED <<posting, capture, putting, out_done_q, filling, in_done_q, clock>>
  PROVE  InOrder'
<1>1. Stamps' = Stamps
  BY DEF Stamps, StampsOf
<1> QED BY <1>1, SameStamps

(* A picture is put out.                                                   *)
LEMMA FieldOutOrders ==
  ASSUME VppInv, OnInv, phase = "on", InputsForAll, InOrder, NEW f \in Frame, FieldOut(f), f.ts = clock
  PROVE  InOrder'
<1>1. /\ in_done_q' = Append(in_done_q, f) /\ clock' = (clock + 1) % Times
      /\ UNCHANGED <<posting, capture, putting, out_done_q, filling>>
  <2>1. in_done_q' = Append(in_done_q, f)
    BY FieldOutFacts
  <2> QED BY <2>1 DEF FieldOut, HandOver
<1>2. StampsOf(in_done_q') = Append(StampsOf(in_done_q), clock)
  BY <1>1, Types, StampsAppend
<1>3. Stamps' = Append(Stamps, clock)
  <2>1. ToSubmit' = ToSubmit
    BY <1>1 DEF ToSubmit, ToPut, ToCapture, ToPost, StampsOf
  <2>2. ToSubmit \o Append(StampsOf(in_done_q), clock) = Append(ToSubmit \o StampsOf(in_done_q), clock)
    BY SMTT(30), StampsTyped, AppendConcat
  <2>3. Stamps = ToSubmit \o StampsOf(in_done_q)
    BY StampsTyped
  <2> QED BY <1>2, <2>1, <2>2, <2>3, StampsThen
<1>4. clock' \in Time
  <2>1. clock \in Time /\ Times \in Nat \ {0}
    BY StampsTyped, VppAssumption
  <2> QED BY <1>1, <2>1 DEF Time
<1>5. Consecutive(Append(Append(Stamps, clock), clock'))
  BY <1>1, <1>4, StampsTyped, OneMore DEF InOrder
<1>6. Consecutive(Append(Stamps', clock'))
  BY <1>3, <1>5
<1> QED BY <1>6 DEF InOrder, Consecutive

LEMMA OutputOrders ==
  ASSUME VppInv, OnInv, phase = "on", InputsForAll, InOrder, NEW b \in Buf, Output(b)
  PROVE  InOrder'
BY FirstGoesOut, FieldOutOrders

LEMMA SecondFieldOrders ==
  ASSUME VppInv, OnInv, phase = "on", InputsForAll, InOrder, SecondField
  PROVE  InOrder'
<1>1. CASE spec[more] = "out"
  BY <1>1, SecondGoesOut, FieldOutOrders
<1>2. CASE spec[more] # "out"
  <2>1. UNCHANGED <<posting, capture, putting, out_done_q, filling, in_done_q, clock>>
    BY <1>2 DEF SecondField, diVars, outVars
  <2> QED BY <2>1, SameQueues
<1> QED BY <1>1, <1>2

LEMMA PairOrders ==
  ASSUME VppInv, phase = "on", InOrder, Pair
  PROVE  InOrder'
<1>1. UNCHANGED <<posting, capture, putting, out_done_q, clock>>
  BY DEF Pair, outVars
<1>2. filling \in Seq(Frame) /\ in_done_q \in Seq(Frame)
  BY Types
<1>3. CASE in_done_q # <<>> /\ frame > 0
  <2> DEFINE g == [Head(in_done_q) EXCEPT !.fb = IF mode.is_prog THEN Head(in_done_q).fb ELSE out_buf]
  <2>1. filling' = Append(filling, g) /\ in_done_q' = Tail(in_done_q)
    BY <1>3 DEF Pair
  <2>2. g \in Frame /\ g.ts = Head(in_done_q).ts
    <3>1. Head(in_done_q) \in Frame
      BY <1>2, <1>3, TailFacts
    <3>2. ~ mode.is_prog => out_buf \in Buf
      BY Types DEF Pair, VppInv, InUse
    <3>3. Head(in_done_q).fb \in Buf
      BY <3>1, FrameFacts
    <3> QED BY <3>1, <3>2, <3>3 DEF Frame
  <2> HIDE DEF g
  <2>3. ToPut' = ToPut
    BY <1>1 DEF ToPut, ToCapture, ToPost, StampsOf
  <2>4. (ToPut \o StampsOf(filling')) \o StampsOf(in_done_q') = (ToPut \o StampsOf(filling)) \o StampsOf(in_done_q)
    <3>1. ToPut \in Seq(Time)
      BY StampsTyped
    <3> QED BY <1>2, <1>3, <2>1, <2>2, <3>1, Moves
  <2>5. Stamps' = Stamps
    BY <2>3, <2>4, StampsThen, StampsTyped DEF ToSubmit
  <2> QED BY <1>1, <2>5, SameStamps
<1>4. CASE in_done_q = <<>> \/ frame = 0
  BY <1>1, <1>4, SameQueues DEF Pair
<1> QED BY <1>3, <1>4 DEF Pair

LEMMA FillDoneOrders ==
  ASSUME VppInv, phase = "on", InOrder, FillDone
  PROVE  InOrder'
<1>1. /\ UNCHANGED <<posting, capture, putting, in_done_q, clock>> /\ filling # <<>>
      /\ filling' = Tail(filling) /\ out_done_q' = Append(out_done_q, Head(filling))
  BY DEF FillDone, outVars
<1>2. filling \in Seq(Frame) /\ out_done_q \in Seq(Frame) /\ Head(filling) \in Frame
  BY <1>1, Types, TailFacts
<1>3. ToCapture' = ToCapture
  BY <1>1 DEF ToCapture, ToPost, StampsOf
<1>4. (ToCapture \o StampsOf(out_done_q')) \o StampsOf(filling')
      = (ToCapture \o StampsOf(out_done_q)) \o StampsOf(filling)
  <2>1. ToCapture \in Seq(Time)
    BY StampsTyped
  <2> QED BY <1>1, <1>2, <2>1, Moves
<1>5. ToSubmit' = ToSubmit
  BY <1>3, <1>4, StampsThen DEF ToSubmit, ToPut
<1>6. Stamps' = Stamps
  BY <1>1, <1>5, StampsThen, StampsTyped
<1> QED BY <1>1, <1>6, SameStamps

LEMMA SubmitOrders ==
  ASSUME VppInv, OnInv, phase = "on", InOrder, Submit
  PROVE  InOrder'
<1>1. /\ UNCHANGED <<posting, capture, filling, in_done_q, clock>>
      /\ out_done_q' = Tail(out_done_q) /\ done # NoBuf /\ done \in Buf
  BY Types DEF Submit, outVars
<1>2. PICK f \in Frame : out_done_q = <<f>> /\ putting = <<>>
  BY <1>1, DoneFacts DEF Submit
<1>3. /\ out_done_q # <<>> /\ Head(out_done_q) = f /\ out_done_q \in Seq(Frame) /\ putting \in Seq(Frame)
      /\ Append(putting, f) = <<f>>
  BY <1>2, Types, SingleFacts
<1>4. putting' = Append(putting, f)
  <2>1. pool[done] = LastStage
    BY <1>1 DEF OnInv, ChainsLinked
  <2>2. "sink" \in Follows(chain[done], "vpp")
    BY <1>1, <2>1 DEF OnInv, ChainsLinked, Linked
  <2> QED BY <1>3, <2>2 DEF Submit
<1>5. ToPost' = ToPost
  BY <1>1 DEF ToPost, StampsOf
<1>6. (ToPost \o StampsOf(putting')) \o StampsOf(out_done_q') = (ToPost \o StampsOf(putting)) \o StampsOf(out_done_q)
  <2>1. ToPost \in Seq(Time)
    BY StampsTyped
  <2> QED BY <1>1, <1>3, <1>4, <2>1, Moves
<1>7. ToPut' = ToPut
  BY <1>5, <1>6, StampsThen DEF ToPut, ToCapture
<1>8. Stamps' = Stamps
  BY <1>1, <1>7, StampsThen, StampsTyped DEF ToSubmit
<1> QED BY <1>1, <1>8, SameStamps

LEMMA PutCaptureOrders ==
  ASSUME VppInv, phase = "on", InOrder, PutCapture
  PROVE  InOrder'
<1>1. /\ UNCHANGED <<posting, out_done_q, filling, in_done_q, clock>> /\ putting # <<>>
      /\ capture' = capture \o putting /\ putting' = <<>>
  BY DEF PutCapture, fifoVars
<1>2. PICK f \in Frame : putting = <<f>>
  BY <1>1, DoneFacts
<1>3. /\ Head(putting) = f /\ Tail(putting) = <<>> /\ putting \in Seq(Frame) /\ capture \in Seq(Frame)
      /\ capture \o putting = Append(capture, f)
  BY <1>2, Types, SingleFacts
<1>4. capture' = Append(capture, f) /\ putting' = Tail(putting)
  BY <1>1, <1>3
<1>5. (StampsOf(posting) \o StampsOf(capture')) \o StampsOf(putting')
      = (StampsOf(posting) \o StampsOf(capture)) \o StampsOf(putting)
  <2>1. StampsOf(posting) \in Seq(Time)
    BY StampsTyped
  <2>2. /\ capture \in Seq(Frame) /\ putting \in Seq(Frame) /\ putting # <<>> /\ f.ts = Head(putting).ts
        /\ capture' = Append(capture, f) /\ putting' = Tail(putting)
    BY <1>1, <1>3, <1>4
  <2> QED BY <2>1, <2>2, Moves
<1>6. ToCapture' = ToCapture
  BY <1>1, <1>5, StampsThen DEF ToCapture, ToPost
<1>7. ToPut' = ToPut
  BY <1>1, <1>6, StampsThen DEF ToPut
<1>8. Stamps' = Stamps
  BY <1>1, <1>7, StampsThen, StampsTyped DEF ToSubmit
<1> QED BY <1>1, <1>8, SameStamps

LEMMA WorkerGetOrders ==
  ASSUME VppInv, phase = "on", InOrder, WorkerGet
  PROVE  InOrder'
<1>1. /\ UNCHANGED <<putting, out_done_q, filling, in_done_q, clock>> /\ capture # <<>> /\ posting = <<>>
      /\ capture' = Tail(capture) /\ posting' = <<Head(capture)>>
  BY DEF WorkerGet, fifoVars, diVars
<1>2. /\ capture \in Seq(Frame) /\ posting \in Seq(Frame) /\ Head(capture) \in Frame
  BY <1>1, Types, TailFacts
<1>3. posting' = Append(posting, Head(capture))
  BY <1>1, <1>2, SingleFacts
<1>4. StampsOf(posting') \o StampsOf(capture') = StampsOf(posting) \o StampsOf(capture)
  BY <1>1, <1>2, <1>3, MovesFirst
<1>5. ToPost' = ToPost
  BY <1>4, StampsThen DEF ToPost
<1>6. ToPut' = ToPut
  BY <1>1, <1>5, StampsThen DEF ToPut, ToCapture
<1>7. Stamps' = Stamps
  BY <1>1, <1>6, StampsThen, StampsTyped DEF ToSubmit
<1> QED BY <1>1, <1>7, SameStamps

(* The oldest picture is shown.                                            *)
LEMMA PostOrders ==
  ASSUME VppInv, phase = "on", InOrder, Post
  PROVE  InOrder'
<1>1. /\ UNCHANGED <<capture, putting, out_done_q, filling, in_done_q, clock>>
      /\ posting # <<>> /\ posting' = <<>>
  BY DEF Post, fifoVars, diVars
<1>2. PICK f \in Frame : posting = <<f>>
  BY <1>1, Types, OnlyOne DEF VppInv, ChainsFit
<1>3. posting' = Tail(posting)
  BY <1>1, <1>2, SingleFacts
<1>4. StampsOf(posting') = Tail(StampsOf(posting)) /\ StampsOf(posting) # <<>>
  BY <1>1, <1>3, Types, StampsTail
<1>5. ToPost # <<>> /\ ToPost' = Tail(ToPost)
  BY <1>1, <1>4, StampsTyped, StampsThen, TailConcat DEF ToPost
<1>6. ToCapture # <<>> /\ ToCapture' = Tail(ToCapture)
  BY <1>1, <1>5, StampsTyped, StampsThen, TailConcat DEF ToCapture
<1>7. ToPut # <<>> /\ ToPut' = Tail(ToPut)
  BY <1>1, <1>6, StampsTyped, StampsThen, TailConcat DEF ToPut
<1>8. ToSubmit # <<>> /\ ToSubmit' = Tail(ToSubmit)
  <2>1. ToSubmit' = Tail(ToPut) \o StampsOf(filling)
    BY <1>1, <1>7, StampsThen
  <2>2. ToPut \in Seq(Time) /\ StampsOf(filling) \in Seq(Time)
    BY StampsTyped
  <2> QED BY <1>7, <2>1, <2>2, TailConcat DEF ToSubmit
<1>9. Stamps # <<>> /\ Stamps' = Tail(Stamps)
  <2>1. Stamps' = Tail(ToSubmit) \o StampsOf(in_done_q)
    BY <1>1, <1>8, StampsThen
  <2>2. ToSubmit \in Seq(Time) /\ StampsOf(in_done_q) \in Seq(Time) /\ Stamps = ToSubmit \o StampsOf(in_done_q)
    BY StampsTyped
  <2> QED BY <1>8, <2>1, <2>2, TailConcat
<1>10. Consecutive(Append(Tail(Stamps), clock))
  BY <1>9, StampsTyped, LaterOnes DEF InOrder
<1>11. Consecutive(Append(Stamps', clock'))
  BY <1>1, <1>9, <1>10
<1> QED BY <1>11 DEF InOrder, Consecutive

(* No pictures at all are in order.                                        *)
LEMMA NoStamps ==
  ASSUME posting = <<>>, capture = <<>>, putting = <<>>, out_done_q = <<>>, filling = <<>>, in_done_q = <<>>
  PROVE  InOrder
<1>1. Stamps = <<>>
  BY DEF Stamps, StampsOf
<1>2. Len(Append(Stamps, clock)) = 1
  BY <1>1
<1> QED BY <1>2 DEF InOrder, Consecutive

LEMMA OrderNext ==
  ASSUME InputsForAll, VppInv, PictureInv, InOrder, [Next]_vars
  PROVE  InOrder'
<1>0. OnInv
  BY DEF PictureInv
<1>1. CASE phase = "on" /\ phase' = "on"
  <2>1. CASE Queue
    BY <1>1, <2>1, SameQueues DEF Queue, QueueNew, QueueAgain, fifoVars, diVars, outVars
  <2>2. CASE Stream
    BY <1>1, <2>2 DEF Stream, StreamOff, StopDecoder, Drain, StreamOn
  <2>3. CASE HaveFree \/ GetFree \/ \E b \in Buf : Hide(b) \/ Unref(b)
    BY <1>1, <2>3, SameQueues DEF HaveFree, GetFree, Hide, Unref, fifoVars, diVars, outVars
  <2>4. CASE (\E b \in Buf : Output(b)) \/ SecondField
    BY <1>0, <1>1, <2>4, OutputOrders, SecondFieldOrders
  <2>5. CASE CountRaces
    BY <1>1, <2>5 DEF CountRaces
  <2>6. CASE WaitIn \/ WaitOut \/ TakeOut \/ AskBuffer \/ Bind
    BY <1>1, <2>6, SameQueues DEF WaitIn, WaitOut, TakeOut, AskBuffer, Bind, diVars, outVars
  <2>7. CASE EmptyDone \/ Recycle
    BY <1>1, <2>7, SameQueues DEF EmptyDone, Recycle, fifoVars, outVars
  <2>8. CASE Pair
    BY <1>1, <2>8, PairOrders
  <2>9. CASE FillDone
    BY <1>1, <2>9, FillDoneOrders
  <2>10. CASE Submit
    BY <1>0, <1>1, <2>10, SubmitOrders
  <2>11. CASE PutCapture
    BY <1>1, <2>11, PutCaptureOrders
  <2>12. CASE WorkerGet
    BY <1>1, <2>12, WorkerGetOrders
  <2>13. CASE Post
    BY <1>1, <2>13, PostOrders
  <2>14. CASE UNCHANGED vars
    BY <1>1, <2>14, SameQueues DEF vars, fifoVars, diVars, outVars
  <2> QED BY <2>1, <2>2, <2>3, <2>4, <2>5, <2>6, <2>7, <2>8, <2>9, <2>10, <2>11, <2>12, <2>13, <2>14
          DEF Next, Decoder, Thread, Di, Worker
<1>2. CASE phase' # "on"
  BY <1>2 DEF InOrder
<1>3. CASE phase # "on" /\ phase' = "on"
  <2>1. StreamOn
    <3>1. CASE Stream
      BY <1>3, <3>1 DEF Stream, StreamOff, StopDecoder, Drain
    <3>2. CASE Queue
      BY <1>3, <3>2 DEF Queue, QueueNew, QueueAgain
    <3>3. CASE Decoder
      BY <1>3, <3>3 DEF Decoder, HaveFree, GetFree, Output, Hide, SecondField, CountRaces, Unref
    <3>4. CASE Thread
      BY <1>3, <3>4 DEF Thread, WaitIn, WaitOut, TakeOut, AskBuffer, Bind, Pair
    <3>5. CASE Di
      BY <1>3, <3>5 DEF Di, FillDone, Submit, PutCapture, EmptyDone, Recycle
    <3>6. CASE Worker
      BY <1>3, <3>6 DEF Worker, WorkerGet, Post
    <3>7. CASE UNCHANGED vars
      BY <1>3, <3>7 DEF vars
    <3> QED BY <3>1, <3>2, <3>3, <3>4, <3>5, <3>6, <3>7 DEF Next
  <2>2. /\ posting' = <<>> /\ capture' = <<>> /\ putting' = <<>>
        /\ out_done_q' = <<>> /\ filling' = <<>> /\ in_done_q' = <<>>
    <3>1. done = NoBuf
      BY <2>1 DEF StreamOn
    <3> QED BY <1>3, <2>1, <3>1, DoneFacts DEF StreamOn, outVars
  <2>3. Stamps' = <<>>
    BY <2>2 DEF Stamps, StampsOf
  <2>4. Len(Append(Stamps', clock')) = 1
    BY <2>3
  <2> QED BY <2>4 DEF InOrder, Consecutive
<1> QED BY <1>1, <1>2, <1>3

(* Pictures reach the capture thread (aml_thread_capture_worker) in the    *)
(* order in which the decoder has handed them over (post_video_frame), the *)
(* two fields of a frame one after the other, and each of them, whatever   *)
(* thread or callback of the post processor runs when.                     *)
THEOREM ShownInOrder == InputsForAll => (Spec => []InOrder)
<1> SUFFICES ASSUME InputsForAll PROVE Spec => []InOrder
  OBVIOUS
<1>1. Init => InOrder
  BY NoStamps DEF Init
<1>2. VppInv /\ PictureInv /\ InOrder /\ [Next]_vars => InOrder'
  BY OrderNext
<1> QED BY <1>1, <1>2, Fits, PicturesFit, PTL DEF Spec
=============================================================================
