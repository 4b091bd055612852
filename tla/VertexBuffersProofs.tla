------------------------- MODULE VertexBuffersProofs -------------------------
(***************************************************************************)
(* First the transient data of a frame: it lies side by side within the two *)
(* buffers, and no more of it is promised than was asked for, if the sizes  *)
(* of the buffers are multiples of the strides used.  MCTransientWrap shows *)
(* what happens without that.                                               *)
(*                                                                         *)
(* Then layouts and buffers, for any number of handles and calls: a layout  *)
(* is counted by those who name it, the map has those that are counted, a   *)
(* handle waits for its release in one place, and the renderer, once it has *)
(* executed what is recorded, has what the API thread counts on.  LayoutInv *)
(* says so of a record of what a call changes (State) and of the renderer   *)
(* after the commands recorded (Recorded), so that a call is followed step  *)
(* by step.  What frame releases is a fold: each iteration of it keeps what *)
(* DynamicsFreed and BuffersFreed say of the iterations done.               *)
(***************************************************************************)
EXTENDS VertexBuffers, TLAPS, FoldProofs, FiniteSetTheorems, SequenceTheorems

-----------------------------------------------------------------------------
(* The arithmetic: what getAvailTransientVertexBuffer and                   *)
(* allocTransientVertexBuffer compute, for every size of the buffer, every  *)
(* stride and every number of elements.  The one condition that matters is  *)
(* that the offset rounded up to the stride is not past the end of the      *)
(* buffer; a buffer whose size is a multiple of the stride always meets it. *)

LEMMA Division ==
    ASSUME NEW a \in Nat, NEW k \in Nat \ {0}
    PROVE  /\ a \div k \in Nat
           /\ k * (a \div k) <= a
           /\ a < k * (a \div k) + k
  OBVIOUS

\* The quotient of at most n times k is at most n.
LEMMA QuotientAtMost ==
    ASSUME NEW a \in Nat, NEW k \in Nat \ {0}, NEW n \in Nat, a <= n * k
    PROVE  a \div k <= n
<1> DEFINE q == a \div k
<1>1. q \in Nat /\ k * q <= a BY Division
<1>2. SUFFICES ASSUME n + 1 <= q PROVE FALSE BY <1>1
<1>3. k * (n + 1) <= k * q BY <1>1, <1>2
<1>4. k * (n + 1) = n * k + k OBVIOUS
<1> QED BY <1>1, <1>3, <1>4

\* And that of at least n times k at least n.
LEMMA QuotientAtLeast ==
    ASSUME NEW a \in Nat, NEW k \in Nat \ {0}, NEW n \in Nat, n * k <= a
    PROVE  n <= a \div k
<1> DEFINE q == a \div k
<1>1. q \in Nat /\ a < k * q + k BY Division
<1>2. SUFFICES ASSUME q + 1 <= n PROVE FALSE BY <1>1
<1>3. k * (q + 1) <= k * n BY <1>1, <1>2
<1>4. k * (q + 1) = k * q + k /\ k * n = n * k BY <1>1
<1> QED BY <1>1, <1>3, <1>4

LEMMA AlignUpBounds ==
    ASSUME NEW n \in Nat, NEW k \in Nat \ {0}
    PROVE  AlignUp(n, k) \in Nat /\ n <= AlignUp(n, k) /\ AlignUp(n, k) < n + k
  BY Division, n + k - 1 \in Nat DEF AlignUp

LEMMA Unchanged == ASSUME NEW a \in Nat, NEW m \in Nat, a < m PROVE a % m = a
  OBVIOUS

LEMMA Wrapped ==
    ASSUME NEW a \in Int, NEW m \in Nat, a < 0, -m <= a PROVE a % m = a + m
  OBVIOUS

\* Within a buffer whose size is a multiple of the stride, an offset rounded up to the
\* stride is not past the end.
THEOREM WholeBuffer ==
    ASSUME NEW offset \in Nat, NEW stride \in Nat \ {0}, NEW n \in Nat,
           offset <= n * stride
    PROVE  AlignUp(offset, stride) <= n * stride
<1> DEFINE q == (offset + stride - 1) \div stride
<1>1. offset + stride - 1 \in Nat /\ n * stride \in Nat OBVIOUS
<1>2. q \in Nat /\ stride * q <= offset + stride - 1 BY <1>1, Division
<1>3. SUFFICES ASSUME n + 1 <= q PROVE FALSE
  <2>1. SUFFICES ASSUME q <= n PROVE q * stride <= n * stride BY <1>2 DEF AlignUp
  <2> QED BY <1>2, <2>1
<1>4. stride * (n + 1) <= stride * q BY <1>2, <1>3
<1>5. stride * (n + 1) = n * stride + stride OBVIOUS
<1> QED BY <1>1, <1>2, <1>4, <1>5

\* What fits and what is asked for stay within a uint32_t.
InRange(offset, num, stride, size) ==
    /\ offset \in Nat /\ num \in Nat /\ stride \in Nat \ {0} /\ size \in Nat
    /\ offset <= size /\ size < Word
    /\ AlignUp(offset, stride) + num * stride < Word

\* bgfx.h: "Returns number of requested or maximum available vertices."  So it is if the
\* rounded offset is not past the end: as many as asked for if they all fit, otherwise
\* as many as do.
THEOREM AvailableExact ==
    ASSUME NEW offset, NEW num, NEW stride, NEW size,
           InRange(offset, num, stride, size), AlignUp(offset, stride) <= size
    PROVE  /\ Available(offset, num, stride, size) \in 0 .. num
           /\ Available(offset, num, stride, size) = num
                 <=> AlignUp(offset, stride) + num * stride <= size
<1> DEFINE first == AlignUp(offset, stride)
           end   == first + num * stride
           least == IF end < size THEN end ELSE size
           avail == Available(offset, num, stride, size)
<1>1. /\ offset \in Nat /\ num \in Nat /\ stride \in Nat \ {0} /\ size \in Nat /\ Word \in Nat
      /\ first \in Nat /\ num * stride \in Nat /\ end < Word /\ first <= end
      /\ size < Word /\ first <= size
  BY WordAssumption, AlignUpBounds DEF InRange
<1>2. First(offset, stride) = first BY <1>1, Unchanged DEF First
<1>3. end % Word = end BY <1>1, Unchanged
<1>4. least - first \in Nat /\ least - first < Word /\ least - first <= num * stride BY <1>1
<1>5. avail = (least - first) \div stride
  <2>1. (least - first) % Word = least - first BY <1>1, <1>4, Unchanged
  <2> HIDE DEF first
  <2>2. avail = ((least - first) % Word) \div stride BY <1>2, <1>3 DEF Available
  <2> QED BY <2>1, <2>2
<1> HIDE DEF first, avail
<1>6. avail \in Nat /\ avail <= num BY <1>1, <1>4, <1>5, Division, QuotientAtMost
<1>7. ASSUME end <= size PROVE num <= avail
  BY <1>1, <1>4, <1>5, <1>7, QuotientAtLeast
<1>8. ASSUME num <= avail PROVE end <= size
  <2>1. stride * avail <= least - first BY <1>1, <1>4, <1>5, Division
  <2>2. stride * num <= stride * avail BY <1>1, <1>6, <1>8
  <2>3. stride * num = num * stride BY <1>1
  <2> QED BY <1>1, <1>6, <2>1, <2>2, <2>3
<1>9. avail \in 0 .. num /\ (avail = num <=> end <= size) BY <1>1, <1>6, <1>7, <1>8
<1> QED BY <1>9 DEF first, avail

\* The elements handed out start at or after the offset, end within the buffer, are all
\* that were asked for, and leave the offset at their end.
THEOREM TakenFits ==
    ASSUME NEW offset, NEW num, NEW stride, NEW size,
           InRange(offset, num, stride, size), AlignUp(offset, stride) <= size,
           Available(offset, num, stride, size) >= num
    PROVE  LET t == Taken(offset, num, stride, size)
           IN  /\ t.range \in [first : Nat, end : Nat]
               /\ offset <= t.range.first
               /\ t.range.end = t.range.first + num * stride
               /\ t.offset = t.range.end /\ t.range.end <= size
<1> DEFINE first == AlignUp(offset, stride)
<1>1. /\ offset \in Nat /\ num \in Nat /\ stride \in Nat \ {0} /\ size \in Nat /\ Word \in Nat
      /\ first \in Nat /\ offset <= first /\ size < Word /\ first <= size
      /\ num * stride \in Nat /\ first + num * stride < Word
  BY WordAssumption, AlignUpBounds DEF InRange
<1>2. First(offset, stride) = first BY <1>1, Unchanged DEF First
<1>3. Available(offset, num, stride, size) = num BY <1>1, AvailableExact
<1>4. first + num * stride <= size BY <1>1, <1>3, AvailableExact
<1>5. (first + num * stride) % Word = first + num * stride BY <1>1, Unchanged
<1> HIDE DEF first
<1>6. Taken(offset, num, stride, size)
        = [range |-> [first |-> first, end |-> first + num * stride],
           offset |-> first + num * stride]
  BY <1>2, <1>3, <1>5 DEF Taken
<1> QED BY <1>1, <1>4, <1>6

\* The case bgfx.h does not speak of: the rounded offset is past the end.  Nothing is
\* available then, and what is returned is nearly a whole uint32_t full.
THEOREM AvailableWraps ==
    ASSUME NEW offset, NEW num, NEW stride, NEW size,
           InRange(offset, num, stride, size), size < AlignUp(offset, stride)
    PROVE  Available(offset, num, stride, size)
              = (Word - (AlignUp(offset, stride) - size)) \div stride
<1> DEFINE first == AlignUp(offset, stride)
           end   == first + num * stride
<1>1. /\ offset \in Nat /\ num \in Nat /\ stride \in Nat \ {0} /\ size \in Nat /\ Word \in Nat
      /\ first \in Nat /\ num * stride \in Nat /\ end < Word /\ first <= end /\ size < first
  BY WordAssumption, AlignUpBounds DEF InRange
<1>2. First(offset, stride) = first BY <1>1, Unchanged DEF First
<1>3. end % Word = end BY <1>1, Unchanged
<1>4. (size - first) % Word = size - first + Word
  <2>1. size - first \in Int /\ size - first < 0 /\ -Word <= size - first BY <1>1
  <2> HIDE DEF first
  <2> QED BY <1>1, <2>1, Wrapped
<1>5. ~(end < size) BY <1>1
<1> HIDE DEF first
<1>6. Available(offset, num, stride, size) = ((size - first) % Word) \div stride
  BY <1>2, <1>3, <1>5 DEF Available
<1>7. size - first + Word = Word - (first - size) BY <1>1
<1> QED BY <1>4, <1>6, <1>7 DEF first

-----------------------------------------------------------------------------
(* The sizes and the strides.                                               *)

\* Room for n more elements of the stride in a buffer, in uint32_t and without a gap
\* at the end.
Suits(size, stride, num) ==
    /\ \E n \in Nat : size = n * stride
    /\ size + num * stride < Word

SizesSuit ==
    \A num \in Nums :
        /\ \A h \in Hashes : Suits(VbSize, Stride[h], num)
        /\ Suits(VbSize, 16, num)
        /\ Suits(IbSize, 2, num) /\ Suits(IbSize, 4, num)

-----------------------------------------------------------------------------
(* The invariant: each frame's parts are apart and end before its offset.   *)

Fields == {"pre", "post", "draws", "vboffset", "vertices", "iboffset", "indices",
           "freeVertexBuffer", "freeVertexLayout"}

Sound(f) ==
    /\ DOMAIN f = Fields
    /\ f.vboffset \in 0 .. VbSize /\ f.iboffset \in 0 .. IbSize
    /\ f.vertices \subseteq Parts /\ f.indices \subseteq Parts
    /\ Apart(f.vertices, f.vboffset) /\ Apart(f.indices, f.iboffset)

TransientInv == Sound(submit) /\ Sound(render)

-----------------------------------------------------------------------------
(* Steps of a call that leave the transient fields as they are.             *)

IsState(s) == "frame" \in DOMAIN s /\ DOMAIN s.frame = Fields

Kept(s, t) ==
    /\ IsState(t)
    /\ t.frame.vboffset = s.frame.vboffset /\ t.frame.vertices = s.frame.vertices
    /\ t.frame.iboffset = s.frame.iboffset /\ t.frame.indices = s.frame.indices

LEMMA RecordKeeps ==
    ASSUME NEW s, NEW cmd, IsState(s) PROVE Kept(s, Record(s, cmd))
  BY DEF IsState, Kept, Record, Fields

LEMMA FindOrCreateKeeps ==
    ASSUME NEW s, NEW h, IsState(s) PROVE \A f \in FindOrCreate(s, h) : Kept(s, f.s)
<1> TAKE f \in FindOrCreate(s, h)
<1>1. CASE h \in DOMAIN s.map BY <1>1 DEF FindOrCreate, Kept
<1>2. CASE h \notin DOMAIN s.map
  <2> DEFINE r(l) == Record(s, [op |-> "CreateLayout", layout |-> l, hash |-> h])
             t(l) == [r(l) EXCEPT !.layouts = @ \union {l}]
  <2>1. PICK l \in Layouts \ s.layouts : f = [layout |-> l, s |-> t(l)]
    BY <1>2, Zenon DEF FindOrCreate
  <2>2. Kept(s, t(l))
    <3>1. Kept(s, r(l)) BY RecordKeeps
    <3> QED BY <3>1, Zenon DEF Kept, IsState
  <2> HIDE DEF t
  <2>3. f.s = t(l) BY <2>1
  <2> QED BY <2>2, <2>3
<1> QED BY <1>1, <1>2

LEMMA AddKeeps ==
    ASSUME NEW s, NEW l, NEW h, IsState(s) PROVE Kept(s, Add(s, l, h))
  BY DEF IsState, Kept, Add

LEMMA ReleaseKeeps ==
    ASSUME NEW s, NEW l, IsState(s) PROVE Kept(s, Release(s, l))
  BY DEF IsState, Kept, Release

LEMMA NewBufferKeeps ==
    ASSUME NEW s, NEW b, NEW l, IsState(s) PROVE Kept(s, NewBuffer(s, b, l))
  BY RecordKeeps DEF IsState, Kept, NewBuffer

LEMMA DestroyKeeps ==
    ASSUME NEW s, NEW b, IsState(s) PROVE Kept(s, Destroy(s, b))
  BY DEF IsState, Kept, Destroy, Fields

LEMMA DrawingKeeps ==
    ASSUME NEW s, NEW b, NEW l, NEW h, IsState(s) PROVE Kept(s, Drawing(s, b, l, h))
  BY DEF IsState, Kept, Drawing, Fields

LEMMA KeptChain ==
    ASSUME NEW s, NEW t, NEW u, Kept(s, t), Kept(t, u) PROVE Kept(s, u)
  BY DEF Kept

LEMMA StateIs ==
    ASSUME Sound(submit)
    PROVE  IsState(State) /\ State.frame = submit
  BY Zenon DEF IsState, State, Sound

\* A call whose state is kept from the frame it found keeps the frame sound.
LEMMA BecomesKept ==
    ASSUME TransientInv, NEW t, Kept(State, t), Becomes(t), UNCHANGED render
    PROVE  TransientInv'
<1>1. submit' = t.frame BY DEF Becomes
<1>2. State.frame = submit BY StateIs DEF TransientInv
<1> QED BY <1>1, <1>2, Zenon DEF TransientInv, Sound, Kept, IsState
-----------------------------------------------------------------------------
(* Steps that take a part.                                                  *)

\* One more part, after those there are.
LEMMA TakenApart ==
    ASSUME NEW size \in 0 .. Word - 1, NEW offset \in 0 .. size, NEW stride \in Nat \ {0},
           NEW num \in Nat, Suits(size, stride, num),
           NEW parts, parts \subseteq Parts, Apart(parts, offset),
           Available(offset, num, stride, size) >= num
    PROVE  /\ Taken(offset, num, stride, size).offset \in 0 .. size
           /\ parts \union {Taken(offset, num, stride, size).range} \subseteq Parts
           /\ Apart(parts \union {Taken(offset, num, stride, size).range},
                    Taken(offset, num, stride, size).offset)
<1> DEFINE t == Taken(offset, num, stride, size)
<1>1. size \in Nat /\ offset \in Nat /\ num * stride \in Nat /\ Word \in Nat BY WordAssumption
<1>2. AlignUp(offset, stride) <= size BY <1>1, WholeBuffer DEF Suits
<1>3. AlignUp(offset, stride) \in Nat BY <1>1, AlignUpBounds
<1>4. InRange(offset, num, stride, size) BY <1>1, <1>2, <1>3 DEF InRange, Suits
<1>5. /\ t.range \in Parts /\ offset <= t.range.first
      /\ t.range.end = t.range.first + num * stride
      /\ t.offset = t.range.end /\ t.range.end <= size
  BY <1>2, <1>4, TakenFits DEF Parts
<1> HIDE DEF t
<1>6. t.offset \in 0 .. size BY <1>1, <1>5 DEF Parts
<1>7. offset <= t.offset BY <1>1, <1>5 DEF Parts
<1>8. Apart(parts \union {t.range}, t.offset)
  <2> SUFFICES ASSUME NEW r \in parts \union {t.range}, NEW u \in parts \union {t.range}
               PROVE  r.end <= t.offset /\ (r = u \/ r.end <= u.first \/ u.end <= r.first)
    BY DEF Apart
  <2>1. r \in Parts /\ u \in Parts BY <1>5
  <2>2. r \in parts => r.end <= offset BY DEF Apart
  <2>3. u \in parts => u.end <= offset BY DEF Apart
  <2>4. r \in parts /\ u \in parts => r = u \/ r.end <= u.first \/ u.end <= r.first BY DEF Apart
  <2>5. r.end \in Nat /\ u.end \in Nat /\ r.first \in Nat /\ u.first \in Nat
        /\ t.range.first \in Nat /\ t.range.end \in Nat
    BY <1>5, <2>1 DEF Parts
  <2>6. CASE r \in parts /\ u \in parts BY <1>1, <1>6, <1>7, <2>2, <2>4, <2>5, <2>6
  <2>7. CASE r = t.range /\ u \in parts BY <1>1, <1>5, <2>3, <2>5, <2>7
  <2>8. CASE r \in parts /\ u = t.range BY <1>1, <1>5, <1>7, <2>2, <2>5, <2>8
  <2>9. CASE r = t.range /\ u = t.range BY <1>5, <2>5, <2>9
  <2> QED BY <2>6, <2>7, <2>8, <2>9
<1> QED BY <1>5, <1>6, <1>8 DEF t

LEMMA TakeVerticesSound ==
    ASSUME NEW s, IsState(s), Sound(s.frame), NEW num \in Nat, NEW stride \in Nat \ {0},
           Suits(VbSize, stride, num),
           Available(s.frame.vboffset, num, stride, VbSize) >= num
    PROVE  IsState(TakeVertices(s, num, stride)) /\ Sound(TakeVertices(s, num, stride).frame)
<1> DEFINE t == Taken(s.frame.vboffset, num, stride, VbSize)
           g == TakeVertices(s, num, stride).frame
<1>1. /\ t.offset \in 0 .. VbSize /\ s.frame.vertices \union {t.range} \subseteq Parts
      /\ Apart(s.frame.vertices \union {t.range}, t.offset)
  BY SizesAssumption, TakenApart DEF Sound
<1>2. /\ IsState(TakeVertices(s, num, stride))
      /\ g.vboffset = t.offset /\ g.vertices = s.frame.vertices \union {t.range}
      /\ g.iboffset = s.frame.iboffset /\ g.indices = s.frame.indices
  BY Zenon DEF TakeVertices, IsState, Fields
<1> HIDE DEF t, g
<1>3. Sound(g) BY <1>1, <1>2, Zenon DEF Sound, IsState, g
<1> QED BY <1>2, <1>3 DEF g

LEMMA TakeIndicesSound ==
    ASSUME NEW s, IsState(s), Sound(s.frame), NEW num \in Nat, NEW size \in Nat \ {0},
           Suits(IbSize, size, num),
           Available(s.frame.iboffset, num, size, IbSize) >= num
    PROVE  Sound(TakeIndices(s, num, size).frame)
<1> DEFINE t == Taken(s.frame.iboffset, num, size, IbSize)
           g == TakeIndices(s, num, size).frame
<1>1. /\ t.offset \in 0 .. IbSize /\ s.frame.indices \union {t.range} \subseteq Parts
      /\ Apart(s.frame.indices \union {t.range}, t.offset)
  BY SizesAssumption, TakenApart DEF Sound
<1>2. /\ IsState(TakeIndices(s, num, size))
      /\ g.iboffset = t.offset /\ g.indices = s.frame.indices \union {t.range}
      /\ g.vboffset = s.frame.vboffset /\ g.vertices = s.frame.vertices
  BY Zenon DEF TakeIndices, IsState, Fields
<1> HIDE DEF t, g
<1>3. Sound(g) BY <1>1, <1>2, Zenon DEF Sound, IsState, g
<1> QED BY <1>3 DEF g

-----------------------------------------------------------------------------

LEMMA EmptySound == Sound(EmptyFrame)
<1>1. DOMAIN EmptyFrame = Fields BY DEF EmptyFrame, Fields
<1>2. /\ EmptyFrame.vboffset = 0 /\ EmptyFrame.iboffset = 0
      /\ EmptyFrame.vertices = {} /\ EmptyFrame.indices = {}
  BY DEF EmptyFrame
<1>3. 0 \in 0 .. VbSize /\ 0 \in 0 .. IbSize BY SizesAssumption, WordAssumption
<1> QED BY <1>1, <1>2, <1>3 DEF Sound, Apart

LEMMA TransientInit == Init => TransientInv
  BY EmptySound DEF Init, TransientInv

\* Both ways of allocating vertices, and that of indices.
LEMMA DrawTransientKeeps ==
    ASSUME SizesSuit, TransientInv, NEW h \in Hashes, NEW num \in Nums, DrawTransient(h, num)
    PROVE  TransientInv'
<1> DEFINE take(s) == TakeVertices(s, num, Stride[h])
<1>1. PICK f \in FindOrCreate(State, h) :
         Becomes(Drawing(take(IF Known(h) THEN f.s ELSE Add(f.s, f.layout, h)),
                         Transient, f.layout, h))
  BY DEF DrawTransient
<1> DEFINE s == IF Known(h) THEN f.s ELSE Add(f.s, f.layout, h)
<1>2. IsState(State) /\ State.frame = submit BY StateIs DEF TransientInv
<1>3. Kept(State, s)
  <2>1. Kept(State, f.s) BY <1>2, FindOrCreateKeeps
  <2>2. Kept(f.s, Add(f.s, f.layout, h)) BY <2>1, AddKeeps DEF Kept
  <2> QED BY <2>1, <2>2, KeptChain
<1> HIDE DEF s
<1>4. IsState(s) /\ Sound(s.frame) /\ s.frame.vboffset = submit.vboffset
  BY <1>2, <1>3, Zenon DEF TransientInv, Sound, Kept, IsState
<1>5. Available(s.frame.vboffset, num, Stride[h], VbSize) >= num
  BY <1>4 DEF DrawTransient, RoomForVertices
<1>6. IsState(take(s)) /\ Sound(take(s).frame)
  BY <1>4, <1>5, SizesAssumption, StrideAssumption, TakeVerticesSound DEF SizesSuit
<1> HIDE DEF take
<1>7. Kept(take(s), Drawing(take(s), Transient, f.layout, h)) BY <1>6, DrawingKeeps
<1>8. Sound(Drawing(take(s), Transient, f.layout, h).frame)
  BY <1>6, <1>7, Zenon DEF Sound, Kept, IsState
<1>9. submit' = Drawing(take(s), Transient, f.layout, h).frame /\ render' = render
  BY <1>1 DEF s, Becomes, DrawTransient, rendVars
<1> QED BY <1>8, <1>9 DEF TransientInv

LEMMA AllocKeeps ==
    ASSUME SizesSuit, TransientInv, NEW num \in Nums,
           AllocInstanceData(num) \/ \E size \in {2, 4} : AllocTransientIndices(num, size)
    PROVE  TransientInv'
<1>1. IsState(State) /\ State.frame = submit BY StateIs DEF TransientInv
<1>2. CASE AllocInstanceData(num)
  <2>1. Available(State.frame.vboffset, num, 16, VbSize) >= num
    BY <1>1, <1>2 DEF AllocInstanceData, RoomForVertices
  <2>2. Sound(TakeVertices(State, num, 16).frame)
    BY <1>1, <2>1, SizesAssumption, TakeVerticesSound DEF SizesSuit, TransientInv
  <2> QED BY <1>2, <2>2 DEF AllocInstanceData, Becomes, rendVars, TransientInv
<1>3. ASSUME NEW size \in {2, 4}, AllocTransientIndices(num, size) PROVE TransientInv'
  <2>1. Available(State.frame.iboffset, num, size, IbSize) >= num
    BY <1>1, <1>3 DEF AllocTransientIndices, RoomForIndices
  <2>2. Suits(IbSize, size, num) BY DEF SizesSuit
  <2>3. Sound(TakeIndices(State, num, size).frame)
    BY <1>1, <2>1, <2>2, SizesAssumption, TakeIndicesSound DEF TransientInv
  <2> QED BY <1>3, <2>3 DEF AllocTransientIndices, Becomes, rendVars, TransientInv
<1> QED BY <1>2, <1>3

LEMMA CallKeeps ==
    ASSUME TransientInv, NEW h, NEW l, NEW k, NEW b, NEW d,
           \/ CreateVertexLayout(h) \/ DestroyVertexLayout(l)
           \/ CreateVertexBuffer(b, h) \/ DestroyVertexBuffer(b)
           \/ CreateDynamicVertexBuffer(d, h) \/ CreateDynamicVertexBufferFails(h)
           \/ DestroyDynamicVertexBuffer(d) \/ DrawStatic(b, k) \/ DrawDynamic(d)
    PROVE  TransientInv'
<1>1. IsState(State) BY StateIs DEF TransientInv
<1>2. SUFFICES \/ \E t : Kept(State, t) /\ Becomes(t) /\ UNCHANGED render
               \/ UNCHANGED <<submit, render>>
  <2>1. CASE \E t : Kept(State, t) /\ Becomes(t) /\ UNCHANGED render BY <2>1, BecomesKept
  <2>2. CASE UNCHANGED <<submit, render>> BY <2>2 DEF TransientInv
  <2> QED BY <1>2, <2>1, <2>2
<1>3. \A f \in FindOrCreate(State, h) : Kept(State, f.s) BY <1>1, FindOrCreateKeeps
<1>4. CASE CreateVertexLayout(h)
  <2>1. PICK f \in FindOrCreate(State, h) : Becomes(Add(f.s, f.layout, h))
    BY <1>4 DEF CreateVertexLayout
  <2>2. Kept(State, Add(f.s, f.layout, h)) BY <1>3, AddKeeps, KeptChain DEF Kept
  <2> QED BY <1>4, <2>1, <2>2 DEF CreateVertexLayout, rendVars
<1>5. CASE DestroyVertexLayout(l)
  <2> DEFINE r == Release(State, l)
             q == [r EXCEPT !.frame.freeVertexLayout = Append(@, l)]
  <2>1. Kept(State, r) BY <1>1, ReleaseKeeps
  <2> HIDE DEF r
  <2>2. Kept(State, q) BY <2>1, Zenon DEF Kept, IsState, Fields
  <2> USE DEF r
  <2>3. Becomes(r) \/ Becomes(q) BY <1>5 DEF DestroyVertexLayout
  <2> QED BY <1>5, <2>1, <2>2, <2>3 DEF DestroyVertexLayout, rendVars
<1>6. CASE CreateVertexBuffer(b, h)
  <2>1. PICK f \in FindOrCreate(State, h) :
           Becomes(NewBuffer(Add(f.s, f.layout, h), b, f.layout))
    BY <1>6 DEF CreateVertexBuffer
  <2>2. Kept(State, Add(f.s, f.layout, h)) BY <1>3, AddKeeps, KeptChain DEF Kept
  <2>3. Kept(State, NewBuffer(Add(f.s, f.layout, h), b, f.layout))
    BY <2>2, NewBufferKeeps, KeptChain DEF Kept
  <2> QED BY <1>6, <2>1, <2>3 DEF CreateVertexBuffer, rendVars
<1>7. CASE DestroyVertexBuffer(b)
  BY <1>1, <1>7, DestroyKeeps DEF DestroyVertexBuffer, rendVars
<1>8. CASE CreateDynamicVertexBuffer(d, h)
  <2>1. PICK f \in FindOrCreate(State, h), c \in Buffers :
           Becomes(Add(NewBuffer(f.s, c, NoLayout), f.layout, h))
    BY <1>8 DEF CreateDynamicVertexBuffer
  <2>2. Kept(State, NewBuffer(f.s, c, NoLayout)) BY <1>3, NewBufferKeeps, KeptChain DEF Kept
  <2>3. Kept(State, Add(NewBuffer(f.s, c, NoLayout), f.layout, h))
    BY <2>2, AddKeeps, KeptChain DEF Kept
  <2> QED BY <1>8, <2>1, <2>3 DEF CreateDynamicVertexBuffer, rendVars
<1>9. CASE CreateDynamicVertexBufferFails(h)
  BY <1>3, <1>9 DEF CreateDynamicVertexBufferFails, rendVars
<1>10. CASE DestroyDynamicVertexBuffer(d) BY <1>10 DEF DestroyDynamicVertexBuffer, rendVars
<1>11. CASE DrawStatic(b, k) BY <1>1, <1>11, DrawingKeeps DEF DrawStatic, rendVars
<1>12. CASE DrawDynamic(d) BY <1>1, <1>12, DrawingKeeps DEF DrawDynamic, rendVars
<1> QED BY <1>4, <1>5, <1>6, <1>7, <1>8, <1>9, <1>10, <1>11, <1>12

\* The frame handed over keeps its parts, and the next one starts with none.
LEMMA FrameKeeps ==
    ASSUME TransientInv, Frame PROVE TransientInv'
<1>1. Sound([EmptyFrame EXCEPT !.freeVertexLayout = Freed.next])
  <2> DEFINE g == [EmptyFrame EXCEPT !.freeVertexLayout = Freed.next]
  <2>1. Sound(EmptyFrame) BY EmptySound
  <2>2. /\ DOMAIN g = Fields
        /\ g.vboffset = EmptyFrame.vboffset /\ g.vertices = EmptyFrame.vertices
        /\ g.iboffset = EmptyFrame.iboffset /\ g.indices = EmptyFrame.indices
    BY <2>1, Zenon DEF Sound, Fields
  <2> QED BY <2>1, <2>2, Zenon DEF Sound
<1>2. ASSUME NEW p
      PROVE Sound([submit EXCEPT !.post = p, !.freeVertexBuffer = <<>>, !.freeVertexLayout = <<>>])
  <2> DEFINE g == [submit EXCEPT !.post = p, !.freeVertexBuffer = <<>>, !.freeVertexLayout = <<>>]
  <2>1. /\ DOMAIN g = Fields
        /\ g.vboffset = submit.vboffset /\ g.vertices = submit.vertices
        /\ g.iboffset = submit.iboffset /\ g.indices = submit.indices
    BY Zenon DEF TransientInv, Sound, Fields
  <2> QED BY <2>1, Zenon DEF TransientInv, Sound
<1> QED BY <1>1, <1>2, Zenon DEF Frame, TransientInv

LEMMA TransientNext ==
    ASSUME SizesSuit, TransientInv, [Next]_vars PROVE TransientInv'
<1>1. CASE \E h \in Hashes :
              \/ CreateVertexLayout(h)
              \/ \E b \in Buffers : CreateVertexBuffer(b, h)
              \/ \E d \in Dynamics : CreateDynamicVertexBuffer(d, h)
              \/ CreateDynamicVertexBufferFails(h)
  BY <1>1, CallKeeps
<1>2. CASE \E h \in Hashes, num \in Nums : DrawTransient(h, num) BY <1>2, DrawTransientKeeps
<1>3. CASE \E num \in Nums : AllocInstanceData(num)
                              \/ \E size \in {2, 4} : AllocTransientIndices(num, size)
  BY <1>3, AllocKeeps
<1>4. CASE \E l \in Layouts : DestroyVertexLayout(l) BY <1>4, CallKeeps
<1>5. CASE \E b \in Buffers : DestroyVertexBuffer(b)
                               \/ \E l \in Layouts \union {NoLayout} : DrawStatic(b, l)
  BY <1>5, CallKeeps
<1>6. CASE \E d \in Dynamics : DestroyDynamicVertexBuffer(d) \/ DrawDynamic(d)
  BY <1>6, CallKeeps
<1>7. CASE Frame BY <1>7, FrameKeeps
<1>8. CASE RenderFrame BY <1>8, EmptySound DEF RenderFrame, TransientInv
<1>9. CASE UNCHANGED vars BY <1>9 DEF vars, rendVars, TransientInv
<1> QED BY <1>1, <1>2, <1>3, <1>4, <1>5, <1>6, <1>7, <1>8, <1>9 DEF Next

-----------------------------------------------------------------------------
(* The theorems.                                                            *)

\* The inductive invariant, for any number of layouts, buffers and calls.
THEOREM Invariance == ASSUME SizesSuit PROVE Spec => []TransientInv
<1>1. Init => TransientInv BY TransientInit
<1>2. TransientInv /\ [Next]_vars => TransientInv' BY TransientNext
<1> QED BY <1>1, <1>2, PTL DEF Spec

\* The vertices, indices and instance data of the frame the renderer has lie side by
\* side in what it uploads.
THEOREM PartsApart == ASSUME SizesSuit PROVE Spec => []TransientsApart
<1>1. TransientInv => TransientsApart BY DEF TransientInv, Sound, TransientsApart
<1> QED BY <1>1, Invariance, PTL

\* No more vertices are promised than were asked for.
THEOREM PromisesKept == ASSUME SizesSuit PROVE Spec => []AvailableAtMostRequested
<1>1. TransientInv => AvailableAtMostRequested
  <2> SUFFICES ASSUME TransientInv, NEW h \in Hashes, NEW num \in Nums
               PROVE  Available(submit.vboffset, num, Stride[h], VbSize) <= num
    BY DEF AvailableAtMostRequested
  <2>1. /\ VbSize \in 0 .. Word - 1 /\ num \in Nat /\ Stride[h] \in Nat \ {0}
        /\ submit.vboffset \in 0 .. VbSize /\ Word \in Nat
    BY SizesAssumption, StrideAssumption, WordAssumption DEF TransientInv, Sound
  <2>2. Suits(VbSize, Stride[h], num) BY DEF SizesSuit
  <2>3. AlignUp(submit.vboffset, Stride[h]) <= VbSize BY <2>1, <2>2, WholeBuffer DEF Suits
  <2>4. AlignUp(submit.vboffset, Stride[h]) \in Nat
    <3>1. submit.vboffset \in Nat BY <2>1
    <3> QED BY <2>1, <3>1, AlignUpBounds
  <2>5. num * Stride[h] \in Nat BY <2>1
  <2>6. InRange(submit.vboffset, num, Stride[h], VbSize)
    BY <2>1, <2>2, <2>3, <2>4, <2>5 DEF InRange, Suits
  <2> QED BY <2>1, <2>3, <2>6, AvailableExact
<1> QED BY <1>1, Invariance, PTL

-----------------------------------------------------------------------------
(* The invariant of layouts and buffers.                                    *)

AnyLayout == Layouts \union {NoLayout}

\* Functions on some of the elements of a set.
Some(S, T) == UNION {[U -> T] : U \in SUBSET S}

Renderers == [buffers : Some(Buffers, AnyLayout), layouts : Some(Layouts, Hashes), ok : BOOLEAN]

\* Frames whatever the sizes of the transient buffers are.
AnyFrames == [pre : Seq(Cmds), post : Seq(Cmds), draws : SUBSET Draws,
              vboffset : Int, vertices : SUBSET [first : Int, end : Int],
              iboffset : Int, indices : SUBSET [first : Int, end : Int],
              freeVertexBuffer : Seq(Buffers), freeVertexLayout : Seq(Layouts)]

States == [buffers : Some(Buffers, AnyLayout), layouts : SUBSET Layouts,
           ref : [Layouts -> Int], map : Some(Hashes, Layouts),
           frame : AnyFrames, next : Seq(Layouts)]

\* Who counts l, if D are the dynamic buffers not yet released.
Counted(l, bufs, dyn, D, app, tr) ==
    Cardinality({b \in DOMAIN bufs : bufs[b] = l}) + Cardinality({d \in D : dyn[d].layout = l})
    + app[l] + (IF l \in tr THEN 1 ELSE 0)

Counts(s, dyn, D, app, tr) ==
    \A l \in Layouts : s.ref[l] = Counted(l, s.buffers, dyn, D, app, tr)

\* The map has the layouts that are counted.
Maps(s) ==
    /\ IsInjective(s.map)
    /\ \A l \in Layouts : s.ref[l] \in Nat /\ (l \in Range(s.map) <=> s.ref[l] > 0)
    /\ \A l \in Layouts : s.ref[l] > 0 => l \in s.layouts

\* The handles that wait for their release.
Leaving(s) == ToSet(s.frame.freeVertexLayout) \union ToSet(s.next)

\* A handle in use that is not counted waits in one of the queues, once; but X are those
\* a call has yet to count or to queue.
Waits(s, X) ==
    LET q == s.frame.freeVertexLayout
    IN  /\ IsInjective(q) /\ IsInjective(s.next) /\ ToSet(q) \intersect ToSet(s.next) = {}
        /\ \A l \in Leaving(s) : l \in s.layouts /\ s.ref[l] = 0
        /\ ~NewInVain => \A l \in s.layouts \ X : s.ref[l] = 0 => l \in Leaving(s)

\* The renderer W has each layout that is counted under the hash the map has.
Knows(s, W) ==
    /\ W \in Renderers /\ W.ok
    /\ \A l \in Layouts : s.ref[l] > 0 =>
          /\ l \in DOMAIN W.layouts /\ W.layouts[l] \in DOMAIN s.map
          /\ s.map[W.layouts[l]] = l

Core(s, W, X) == s \in States /\ Maps(s) /\ Waits(s, X) /\ Knows(s, W)

\* Each buffer is the transient one, a dynamic one's, the application's or queued.
Owners(s, dyn, fd, aB) ==
    LET q == s.frame.freeVertexBuffer
    IN  /\ Transient \in DOMAIN s.buffers /\ Transient \notin aB \union ToSet(q)
        /\ \A d \in DOMAIN dyn :
              /\ dyn[d].buffer \in DOMAIN s.buffers /\ s.buffers[dyn[d].buffer] = NoLayout
              /\ dyn[d].buffer \notin aB \union ToSet(q) \union {Transient}
              /\ \A e \in DOMAIN dyn : dyn[e].buffer = dyn[d].buffer => d = e
        /\ fd \in Seq(DOMAIN dyn) /\ IsInjective(fd)
        /\ aB \subseteq DOMAIN s.buffers /\ \A b \in aB : s.buffers[b] \in Layouts
        /\ IsInjective(q) /\ ToSet(q) \subseteq DOMAIN s.buffers \ aB

\* What is queued is what is destroyed at the end of the frame.
Posts(f) ==
    /\ Len(f.post) = Len(f.freeVertexBuffer)
    /\ \A i \in 1 .. Len(f.post) : f.post[i] = [op |-> "DestroyBuffer", buffer |-> f.freeVertexBuffer[i]]

\* What a draw finds in the renderer W.
DrawFinds(d, W) ==
    LET l == IF d.layout = NoLayout THEN W.buffers[d.buffer] ELSE d.layout
    IN  d.buffer \in DOMAIN W.buffers /\ l \in DOMAIN W.layouts /\ W.layouts[l] = d.hash

DrawnLayout(d, W) == IF d.layout = NoLayout THEN W.buffers[d.buffer] ELSE d.layout

\* The renderer after the commands recorded so far.
Recorded(s, base) == FoldLeft(Execute, base, s.frame.pre)

ApiHolds(s, base, dyn, fd, aB, app, tr) ==
    LET W == Recorded(s, base)
    IN  /\ s.next = <<>>
        /\ DOMAIN dyn \subseteq Dynamics /\ dyn \in [DOMAIN dyn -> [buffer : Buffers, layout : Layouts]]
        /\ app \in [Layouts -> Nat] /\ tr \subseteq Layouts
        /\ base \in Renderers
        /\ Counts(s, dyn, DOMAIN dyn, app, tr)
        /\ Core(s, W, {})
        /\ Owners(s, dyn, fd, aB)
        /\ Posts(s.frame)
        /\ W.buffers = s.buffers
        /\ \A d \in s.frame.draws : DrawFinds(d, W) /\ DrawnLayout(d, W) \in s.layouts

\* The renderer when it is done with m_render.
Base == IF rendering THEN WhenDone ELSE Renderer

ApiInv == ApiHolds(State, Base, dvb, freeDynamic, appBuffers, appLayouts, transient)

RenderInv ==
    /\ render \in AnyFrames /\ Renderer \in Renderers
    /\ rendering \in BOOLEAN /\ calls \in 0 .. MaxCalls
    /\ rendering => WhenDone.ok /\ \A d \in render.draws : DrawFinds(d, WhenDrawing)

LayoutInv == ApiInv /\ RenderInv
-----------------------------------------------------------------------------
(* Functions on some of the elements of a set.                              *)

LEMMA SomeIs ==
    ASSUME NEW S, NEW T, NEW f \in Some(S, T)
    PROVE  DOMAIN f \subseteq S /\ f \in [DOMAIN f -> T] /\ \A x \in DOMAIN f : f[x] \in T
  BY DEF Some

LEMMA IsSome ==
    ASSUME NEW S, NEW T, NEW U \in SUBSET S, NEW f \in [U -> T]
    PROVE  f \in Some(S, T)
  BY DEF Some

LEMMA SomeMore ==
    ASSUME NEW S, NEW T, NEW f \in Some(S, T), NEW x \in S, NEW y \in T
    PROVE  /\ With(f, x, y) \in Some(S, T)
           /\ DOMAIN With(f, x, y) = DOMAIN f \union {x} /\ With(f, x, y)[x] = y
           /\ \A z \in DOMAIN f \ {x} : With(f, x, y)[z] = f[z]
<1> DEFINE g == With(f, x, y)
<1>1. DOMAIN f \subseteq S /\ \A z \in DOMAIN f : f[z] \in T BY SomeIs
<1>2. g = [z \in DOMAIN f \union {x} |-> IF z = x THEN y ELSE f[z]]
  BY DEF With
<1> HIDE DEF g
<1>3. g \in [DOMAIN f \union {x} -> T] BY <1>1, <1>2
<1>4. DOMAIN f \union {x} \in SUBSET S BY <1>1
<1>5. g \in Some(S, T) BY <1>3, <1>4, IsSome
<1> QED BY <1>2, <1>5 DEF g

LEMMA SomeLess ==
    ASSUME NEW S, NEW T, NEW f \in Some(S, T), NEW U \in SUBSET DOMAIN f
    PROVE  LET g == Restrict(f, U)
           IN  g \in Some(S, T) /\ DOMAIN g = U /\ \A z \in U : g[z] = f[z]
<1> DEFINE g == Restrict(f, U)
<1>1. DOMAIN f \subseteq S /\ \A z \in DOMAIN f : f[z] \in T BY SomeIs
<1>2. g = [z \in U |-> f[z]] BY DEF Restrict
<1> HIDE DEF g
<1>3. g \in [U -> T] BY <1>1, <1>2
<1>4. U \in SUBSET S BY <1>1
<1>5. g \in Some(S, T) BY <1>3, <1>4, IsSome
<1> QED BY <1>2, <1>5 DEF g

-----------------------------------------------------------------------------
(* The commands.                                                            *)

LEMMA CreateLayoutDoes ==
    ASSUME NEW r \in Renderers, NEW l \in Layouts, NEW h \in Hashes
    PROVE  LET e == Execute(r, [op |-> "CreateLayout", layout |-> l, hash |-> h])
           IN  /\ e \in Renderers /\ e.buffers = r.buffers
               /\ DOMAIN e.layouts = DOMAIN r.layouts \union {l} /\ e.layouts[l] = h
               /\ \A k \in DOMAIN r.layouts \ {l} : e.layouts[k] = r.layouts[k]
               /\ e.ok <=> r.ok /\ \A b \in DOMAIN r.buffers : r.buffers[b] # l
<1> DEFINE c == [op |-> "CreateLayout", layout |-> l, hash |-> h]
           e == Execute(r, c)
           m == With(r.layouts, l, h)
           k == r.ok /\ \A b \in DOMAIN r.buffers : r.buffers[b] # l
<1>1. e = [r EXCEPT !.layouts = m, !.ok = k] BY DEF Execute
<1>2. r.layouts \in Some(Layouts, Hashes) /\ r.ok \in BOOLEAN BY DEF Renderers
<1>3. m \in Some(Layouts, Hashes)
      /\ (DOMAIN m = DOMAIN r.layouts \union {l} /\ m[l] = h)
      /\ \A z \in DOMAIN r.layouts \ {l} : m[z] = r.layouts[z]
  <2>1. m \in Some(Layouts, Hashes) BY <1>2, SomeMore
  <2> QED BY <2>1 DEF With
<1>4. k \in BOOLEAN BY <1>2
<1> HIDE DEF m, k, e
<1>5. e \in Renderers /\ e.buffers = r.buffers /\ e.layouts = m /\ e.ok = k
  BY <1>1, <1>3, <1>4 DEF Renderers
<1> QED BY <1>3, <1>5 DEF e, k

LEMMA DestroyLayoutDoes ==
    ASSUME NEW r \in Renderers, NEW l \in Layouts
    PROVE  LET e == Execute(r, [op |-> "DestroyLayout", layout |-> l])
           IN  /\ e \in Renderers /\ e.buffers = r.buffers
               /\ DOMAIN e.layouts = DOMAIN r.layouts \ {l}
               /\ \A k \in DOMAIN r.layouts \ {l} : e.layouts[k] = r.layouts[k]
               /\ e.ok = (r.ok /\ l \in DOMAIN r.layouts)
<1> DEFINE c == [op |-> "DestroyLayout", layout |-> l]
           e == Execute(r, c)
           m == Restrict(r.layouts, DOMAIN r.layouts \ {l})
           k == r.ok /\ l \in DOMAIN r.layouts
<1>1. e = [r EXCEPT !.layouts = m, !.ok = k] BY DEF Execute
<1>2. r.layouts \in Some(Layouts, Hashes) /\ r.ok \in BOOLEAN BY DEF Renderers
<1>3. /\ m \in Some(Layouts, Hashes) /\ DOMAIN m = DOMAIN r.layouts \ {l}
      /\ \A z \in DOMAIN r.layouts \ {l} : m[z] = r.layouts[z]
  BY <1>2, SomeLess
<1>4. k \in BOOLEAN BY <1>2
<1> HIDE DEF m, k, e
<1>5. e \in Renderers /\ e.buffers = r.buffers /\ e.layouts = m /\ e.ok = k
  BY <1>1, <1>3, <1>4 DEF Renderers
<1> QED BY <1>3, <1>5 DEF e, k

LEMMA CreateBufferDoes ==
    ASSUME NEW r \in Renderers, NEW b \in Buffers, NEW l \in AnyLayout
    PROVE  LET e == Execute(r, [op |-> "CreateBuffer", buffer |-> b, layout |-> l])
           IN  /\ e \in Renderers /\ e.layouts = r.layouts
               /\ e.buffers = With(r.buffers, b, l)
               /\ e.ok = (r.ok /\ b \notin DOMAIN r.buffers
                               /\ l \in DOMAIN r.layouts \union {NoLayout})
<1> DEFINE c == [op |-> "CreateBuffer", buffer |-> b, layout |-> l]
           e == Execute(r, c)
           m == With(r.buffers, b, l)
           k == r.ok /\ b \notin DOMAIN r.buffers /\ l \in DOMAIN r.layouts \union {NoLayout}
<1>1. e = [r EXCEPT !.buffers = m, !.ok = k] BY DEF Execute
<1>2. r.buffers \in Some(Buffers, AnyLayout) /\ r.ok \in BOOLEAN BY DEF Renderers
<1>3. m \in Some(Buffers, AnyLayout) BY <1>2, SomeMore
<1>4. k \in BOOLEAN BY <1>2
<1> HIDE DEF m, k, e
<1>5. e \in Renderers /\ e.buffers = m /\ e.layouts = r.layouts /\ e.ok = k
  BY <1>1, <1>3, <1>4 DEF Renderers
<1> QED BY <1>5 DEF e, k, m

LEMMA DestroyBufferDoes ==
    ASSUME NEW r \in Renderers, NEW b \in Buffers
    PROVE  LET e == Execute(r, [op |-> "DestroyBuffer", buffer |-> b])
           IN  /\ e \in Renderers /\ e.layouts = r.layouts
               /\ e.buffers = Restrict(r.buffers, DOMAIN r.buffers \ {b})
               /\ e.ok = (r.ok /\ b \in DOMAIN r.buffers)
<1> DEFINE c == [op |-> "DestroyBuffer", buffer |-> b]
           e == Execute(r, c)
           m == Restrict(r.buffers, DOMAIN r.buffers \ {b})
           k == r.ok /\ b \in DOMAIN r.buffers
<1>1. e = [r EXCEPT !.buffers = m, !.ok = k] BY DEF Execute
<1>2. r.buffers \in Some(Buffers, AnyLayout) /\ r.ok \in BOOLEAN BY DEF Renderers
<1>3. m \in Some(Buffers, AnyLayout) BY <1>2, SomeLess
<1>4. k \in BOOLEAN BY <1>2
<1> HIDE DEF m, k, e
<1>5. e \in Renderers /\ e.buffers = m /\ e.layouts = r.layouts /\ e.ok = k
  BY <1>1, <1>3, <1>4 DEF Renderers
<1> QED BY <1>5 DEF e, k, m

LEMMA ExecuteType ==
    ASSUME NEW r \in Renderers, NEW c \in Cmds
    PROVE  Execute(r, c) \in Renderers
<1>1. CASE c \in [op : {"CreateLayout"}, layout : Layouts, hash : Hashes]
  <2>1. PICK l \in Layouts, h \in Hashes : c = [op |-> "CreateLayout", layout |-> l, hash |-> h] BY <1>1
  <2> QED BY <2>1, CreateLayoutDoes
<1>2. CASE c \in [op : {"DestroyLayout"}, layout : Layouts]
  <2>1. PICK l \in Layouts : c = [op |-> "DestroyLayout", layout |-> l] BY <1>2
  <2> QED BY <2>1, DestroyLayoutDoes
<1>3. CASE c \in [op : {"CreateBuffer"}, buffer : Buffers, layout : Layouts \union {NoLayout}]
  <2>1. PICK b \in Buffers, l \in AnyLayout : c = [op |-> "CreateBuffer", buffer |-> b, layout |-> l]
    BY <1>3 DEF AnyLayout
  <2> QED BY <2>1, CreateBufferDoes
<1>4. CASE c \in [op : {"DestroyBuffer"}, buffer : Buffers]
  <2>1. PICK b \in Buffers : c = [op |-> "DestroyBuffer", buffer |-> b] BY <1>4
  <2> QED BY <2>1, DestroyBufferDoes
<1> QED BY <1>1, <1>2, <1>3, <1>4 DEF Cmds

-----------------------------------------------------------------------------
(* What FoldLeft makes of a command buffer.                                 *)

Executes(g, r, w) ==
    /\ g \in [0 .. Len(w) -> Renderers] /\ g[0] = r
    /\ \A k \in 1 .. Len(w) : g[k] = Execute(g[k - 1], w[k])

LEMMA ExecutesAre ==
    ASSUME NEW r \in Renderers, NEW w \in Seq(Cmds)
    PROVE  \E g : Executes(g, r, w) /\ g[Len(w)] = FoldLeft(Execute, r, w)
<1> DEFINE n == Len(w)
           Is(it) == it = [s \in SUBSET DOMAIN w |->
                              IF s = {} THEN r ELSE Execute(it[s \ {Max(s)}], w[Max(s)])]
           G == [p \in Renderers \X (1 .. n) |-> Execute(p[1], w[p[2]])]
<1>1. \A x \in Renderers, i \in 1 .. n : G[<<x, i>>] = Execute(x, w[i]) OBVIOUS
<1>2. n \in Nat /\ DOMAIN w = 1 .. n /\ \A i \in 1 .. n : w[i] \in Cmds BY LenProperties
<1>3. G \in [Renderers \X (1 .. n) -> Renderers] BY <1>2, ExecuteType
<1> HIDE DEF G, n
<1>4. \A s \in SUBSET (1 .. n) : s # {} => Max(s) \in 1 .. n BY <1>2, MaxIn
<1>5. \E it : Is(it)
  <2>1. PICK it : Unfolds(it, Renderers, r, n, G) BY <1>2, <1>3, FoldExists
  <2>2. ASSUME NEW s \in SUBSET (1 .. n), s # {}
        PROVE  it[s] = Execute(it[s \ {Max(s)}], w[Max(s)])
    <3>1. it[s \ {Max(s)}] \in Renderers BY <2>1 DEF Unfolds
    <3>2. it[s] = G[<<it[s \ {Max(s)}], Max(s)>>] BY <2>1, <2>2 DEF Unfolds
    <3> QED BY <1>1, <1>4, <2>2, <3>1, <3>2
  <2>3. it = [s \in SUBSET (1 .. n) |-> it[s]] /\ it[{}] = r BY <2>1 DEF Unfolds
  <2>4. [s \in SUBSET (1 .. n) |-> it[s]]
            = [s \in SUBSET (1 .. n) |->
                  IF s = {} THEN r ELSE Execute(it[s \ {Max(s)}], w[Max(s)])]
    BY <2>2, <2>3, Zenon
  <2>5. Is(it) BY <1>2, <2>3, <2>4, Zenon
  <2> QED BY <2>5, Zenon
<1> DEFINE it == CHOOSE it : Is(it)
<1>6. Is(it) BY <1>5, Zenon
<1>7. FoldLeft(Execute, r, w) = it[1 .. n] BY <1>2, Zenon DEF FoldLeft, MapThenFoldSet
<1> HIDE DEF it
<1>8. Follows(it, Renderers, r, n, G)
  <2>1. it[{}] = r /\ \A s \in SUBSET (1 .. n) :
                         s # {} => it[s] = Execute(it[s \ {Max(s)}], w[Max(s)])
    BY <1>2, <1>6
  <2> HIDE DEF Is
  <2> QED BY <1>1, <1>4, <2>1 DEF Follows
<1> HIDE DEF Is
<1>9. PICK g : IsChain(g, Renderers, r, n, G, it[1 .. n]) BY <1>2, <1>3, <1>8, FoldChain
<1>10. ASSUME NEW k \in 1 .. n PROVE g[k] = Execute(g[k - 1], w[k])
  <2>1. g[k - 1] \in Renderers BY <1>2, <1>9 DEF IsChain
  <2>2. g[k] = G[<<g[k - 1], k>>] BY <1>9 DEF IsChain
  <2> QED BY <1>1, <2>1, <2>2
<1>11. Executes(g, r, w) BY <1>9, <1>10 DEF IsChain, n, Executes
<1>12. g[n] = it[1 .. n] BY <1>9 DEF IsChain
<1> QED BY <1>7, <1>11, <1>12 DEF n


LEMMA ExecutedType ==
    ASSUME NEW r \in Renderers, NEW w \in Seq(Cmds)
    PROVE  FoldLeft(Execute, r, w) \in Renderers
<1>1. PICK g : Executes(g, r, w) /\ g[Len(w)] = FoldLeft(Execute, r, w) BY ExecutesAre
<1>2. Len(w) \in 0 .. Len(w) BY LenProperties
<1> QED BY <1>1, <1>2 DEF Executes

LEMMA ExecutedNone ==
    ASSUME NEW r \in Renderers
    PROVE  FoldLeft(Execute, r, <<>>) = r
<1>1. <<>> \in Seq(Cmds) /\ Len(<<>>) = 0 OBVIOUS
<1>2. PICK g : Executes(g, r, <<>>) /\ g[Len(<<>>)] = FoldLeft(Execute, r, <<>>) BY <1>1, ExecutesAre
<1> QED BY <1>1, <1>2 DEF Executes

\* One command after the others.
LEMMA ExecutedOne ==
    ASSUME NEW r \in Renderers, NEW w \in Seq(Cmds), NEW c \in Cmds
    PROVE  /\ Append(w, c) \in Seq(Cmds)
           /\ FoldLeft(Execute, r, Append(w, c)) = Execute(FoldLeft(Execute, r, w), c)
<1> DEFINE v == Append(w, c)
           n == Len(w)
<1>1. /\ v \in Seq(Cmds) /\ n \in Nat /\ Len(v) = n + 1
      /\ \A i \in 1 .. n : v[i] = w[i]
      /\ v[n + 1] = c
  BY AppendProperties, LenProperties
<1> HIDE DEF v
<1>2. PICK g : Executes(g, r, w) /\ g[n] = FoldLeft(Execute, r, w) BY ExecutesAre
<1>3. PICK e : Executes(e, r, v) /\ e[n + 1] = FoldLeft(Execute, r, v) BY <1>1, ExecutesAre
<1> DEFINE S == {k \in 0 .. n : e[k] = g[k]}
<1> HIDE DEF n
<1>4. 0 \in S BY <1>1, <1>2, <1>3 DEF Executes, n
<1>5. ASSUME NEW k \in 0 .. n - 1, k \in S PROVE k + 1 \in S
  <2>1. k + 1 \in 1 .. n /\ k + 1 \in 1 .. n + 1 /\ (k + 1) - 1 = k /\ k + 1 \in 0 .. n BY <1>1
  <2>2. g[k + 1] = Execute(g[k], w[k + 1]) BY <1>2, <2>1 DEF Executes, n
  <2>3. e[k + 1] = Execute(e[k], v[k + 1]) BY <1>1, <1>3, <2>1 DEF Executes
  <2>4. v[k + 1] = w[k + 1] /\ e[k] = g[k] BY <1>1, <1>5, <2>1
  <2> QED BY <2>1, <2>2, <2>3, <2>4
<1> HIDE DEF S
<1>6. n \in S
  <2>1. n \in Nat /\ n \in 0 .. n BY <1>1
  <2>2. \A k \in 0 .. n : k \in S BY <1>4, <1>5, <2>1, UpTo
  <2> QED BY <2>1, <2>2
<1>7. e[n] = g[n] BY <1>6 DEF S
<1>8. n + 1 \in 1 .. n + 1 /\ (n + 1) - 1 = n BY <1>1
<1>9. e[n + 1] = Execute(e[n], v[n + 1]) BY <1>1, <1>3, <1>8 DEF Executes
<1> QED BY <1>1, <1>2, <1>3, <1>7, <1>9 DEF v

LEMMA RestrictTwice ==
    ASSUME NEW f, NEW S, NEW T, T \subseteq S
    PROVE  DOMAIN Restrict(f, S) = S /\ Restrict(Restrict(f, S), T) = Restrict(f, T)
  BY DEF Restrict

\* Buffers destroyed one after the other.
LEMMA DestroyRun ==
    ASSUME NEW r \in Renderers, NEW q \in Seq(Buffers), NEW w \in Seq(Cmds),
           Len(w) = Len(q), IsInjective(q), ToSet(q) \subseteq DOMAIN r.buffers,
           \A i \in 1 .. Len(w) : w[i] = [op |-> "DestroyBuffer", buffer |-> q[i]]
    PROVE  LET e == FoldLeft(Execute, r, w)
           IN  /\ e \in Renderers /\ e.layouts = r.layouts /\ e.ok = r.ok
               /\ e.buffers = Restrict(r.buffers, DOMAIN r.buffers \ ToSet(q))
<1> DEFINE n == Len(w)
           Upto(k) == {q[i] : i \in 1 .. k}
           Left(k) == DOMAIN r.buffers \ Upto(k)
<1>1. PICK g : Executes(g, r, w) /\ g[n] = FoldLeft(Execute, r, w) BY ExecutesAre
<1>2. /\ n \in Nat /\ DOMAIN q = 1 .. n /\ \A i \in 1 .. n : q[i] \in Buffers
      /\ \A k \in 0 .. n : g[k] \in Renderers
      /\ g[0] = r /\ \A k \in 1 .. n : g[k] = Execute(g[k - 1], w[k])
  BY <1>1, LenProperties DEF Executes
<1>3. \A i \in 1 .. n : w[i] = [op |-> "DestroyBuffer", buffer |-> q[i]] OBVIOUS
<1> HIDE DEF n
<1> DEFINE S == {k \in 0 .. n : /\ g[k].layouts = r.layouts /\ g[k].ok = r.ok
                               /\ g[k].buffers = Restrict(r.buffers, Left(k))}
<1>4. 0 \in S
  <2>1. Left(0) = DOMAIN r.buffers OBVIOUS
  <2>2. r.buffers = Restrict(r.buffers, DOMAIN r.buffers)
    <3>1. r.buffers \in Some(Buffers, AnyLayout) BY DEF Renderers
    <3>2. r.buffers \in [DOMAIN r.buffers -> AnyLayout] BY <3>1, SomeIs
    <3> QED BY <3>2 DEF Restrict
  <2> HIDE DEF Left
  <2> QED BY <1>2, <2>1, <2>2
<1>5. ASSUME NEW k \in 0 .. n - 1, k \in S PROVE k + 1 \in S
  <2>1. k + 1 \in 1 .. n /\ (k + 1) - 1 = k /\ k + 1 \in 0 .. n /\ k \in 0 .. n BY <1>2
  <2> DEFINE b == q[k + 1]
  <2>2. b \in Buffers /\ g[k] \in Renderers BY <1>2, <2>1
  <2>3. g[k + 1] = Execute(g[k], [op |-> "DestroyBuffer", buffer |-> b]) BY <1>2, <1>3, <2>1
  <2>4. b \in Left(k)
    <3>1. b \in DOMAIN r.buffers BY <1>2, <2>1 DEF ToSet
    <3>2. ASSUME NEW i \in 1 .. k, q[i] = b PROVE FALSE
      <4>1. i \in DOMAIN q /\ k + 1 \in DOMAIN q /\ i # k + 1 BY <1>2, <2>1
      <4> QED BY <3>2, <4>1 DEF IsInjective
    <3> QED BY <3>1, <3>2
  <2>5. Left(k + 1) = Left(k) \ {b}
    <3>1. 1 .. k + 1 = (1 .. k) \union {k + 1} OBVIOUS
    <3> QED BY <3>1
  <2> HIDE DEF Left, b
  <2>6. /\ g[k].layouts = r.layouts /\ g[k].ok = r.ok
        /\ g[k].buffers = Restrict(r.buffers, Left(k))
    BY <1>5
  <2>7. DOMAIN g[k].buffers = Left(k)
        /\ Restrict(g[k].buffers, Left(k) \ {b}) = Restrict(r.buffers, Left(k) \ {b})
    BY <2>6, RestrictTwice
  <2>8. /\ g[k + 1].layouts = g[k].layouts
        /\ g[k + 1].buffers = Restrict(g[k].buffers, DOMAIN g[k].buffers \ {b})
        /\ g[k + 1].ok = (g[k].ok /\ b \in DOMAIN g[k].buffers)
    <3> DEFINE p == g[k]
               e == g[k + 1]
    <3>1. p \in Renderers /\ e = Execute(p, [op |-> "DestroyBuffer", buffer |-> b]) BY <2>2, <2>3
    <3> HIDE DEF p, e
    <3>2. /\ e.layouts = p.layouts
          /\ e.buffers = Restrict(p.buffers, DOMAIN p.buffers \ {b})
          /\ e.ok = (p.ok /\ b \in DOMAIN p.buffers)
      BY <2>2, <3>1, DestroyBufferDoes
    <3> QED BY <3>2 DEF p, e
  <2>9. r.ok \in BOOLEAN BY DEF Renderers
  <2>10. g[k + 1].ok = r.ok BY <2>4, <2>6, <2>7, <2>8, <2>9
  <2> QED BY <2>1, <2>5, <2>6, <2>7, <2>8, <2>10
<1> HIDE DEF S
<1>6. n \in S
  <2>1. n \in Nat /\ n \in 0 .. n BY <1>2
  <2>2. \A k \in 0 .. n : k \in S BY <1>4, <1>5, <2>1, UpTo
  <2> QED BY <2>1, <2>2
<1>7. Upto(n) = ToSet(q) BY <1>2 DEF ToSet
<1>8. n \in 0 .. n BY <1>2
<1> HIDE DEF Upto
<1> QED BY <1>1, <1>2, <1>6, <1>7, <1>8 DEF S, n

-----------------------------------------------------------------------------
(* What the steps of a call do to the state.                                *)

\* Frames whose queues and commands are the same.
SameFrame(g, f) ==
    /\ g.pre = f.pre /\ g.post = f.post /\ g.draws = f.draws
    /\ g.freeVertexBuffer = f.freeVertexBuffer /\ g.freeVertexLayout = f.freeVertexLayout

LEMMA FieldsOf ==
    ASSUME NEW s \in States
    PROVE  /\ s.buffers \in Some(Buffers, AnyLayout) /\ s.layouts \in SUBSET Layouts
           /\ s.ref \in [Layouts -> Int] /\ s.map \in Some(Hashes, Layouts)
           /\ s.frame \in AnyFrames /\ s.next \in Seq(Layouts)
           /\ s.frame.pre \in Seq(Cmds) /\ s.frame.post \in Seq(Cmds)
           /\ s.frame.draws \in SUBSET Draws
           /\ s.frame.freeVertexBuffer \in Seq(Buffers)
           /\ s.frame.freeVertexLayout \in Seq(Layouts)
<1>1. s.frame \in AnyFrames BY DEF States
<1>2. \A f \in AnyFrames : /\ f.pre \in Seq(Cmds) /\ f.post \in Seq(Cmds)
                           /\ f.draws \in SUBSET Draws
                           /\ f.freeVertexBuffer \in Seq(Buffers)
                           /\ f.freeVertexLayout \in Seq(Layouts)
  BY DEF AnyFrames
<1>3. /\ s.buffers \in Some(Buffers, AnyLayout) /\ s.layouts \in SUBSET Layouts
      /\ s.ref \in [Layouts -> Int] /\ s.map \in Some(Hashes, Layouts) /\ s.next \in Seq(Layouts)
  BY DEF States
<1> QED BY <1>1, <1>2, <1>3

LEMMA RecordDoes ==
    ASSUME NEW s \in States, NEW c \in Cmds
    PROVE  LET t == Record(s, c)
           IN  /\ t \in States
               /\ t.buffers = s.buffers /\ t.layouts = s.layouts /\ t.ref = s.ref
               /\ t.map = s.map /\ t.next = s.next
               /\ t.frame.pre = Append(s.frame.pre, c) /\ t.frame.post = s.frame.post
               /\ t.frame.draws = s.frame.draws
               /\ t.frame.freeVertexBuffer = s.frame.freeVertexBuffer
               /\ t.frame.freeVertexLayout = s.frame.freeVertexLayout
<1> DEFINE f == s.frame
           g == [f EXCEPT !.pre = Append(@, c)]
           t == Record(s, c)
<1>1. f \in AnyFrames BY DEF States
<1>2. g \in AnyFrames /\ g.pre = Append(f.pre, c) /\ g.post = f.post /\ g.draws = f.draws
      /\ g.freeVertexBuffer = f.freeVertexBuffer /\ g.freeVertexLayout = f.freeVertexLayout
  <2>1. f.pre \in Seq(Cmds) BY <1>1 DEF AnyFrames
  <2>2. Append(f.pre, c) \in Seq(Cmds) BY <2>1
  <2> HIDE DEF f
  <2> QED BY <1>1, <2>2 DEF AnyFrames
<1>3. t = [s EXCEPT !.frame = g] BY DEF Record
<1> HIDE DEF g, t
<1>4. t \in States /\ t.buffers = s.buffers /\ t.layouts = s.layouts /\ t.ref = s.ref
      /\ t.map = s.map /\ t.next = s.next /\ t.frame = g
  BY <1>2, <1>3 DEF States
<1> QED BY <1>2, <1>4 DEF t

LEMMA NewBufferDoes ==
    ASSUME NEW s \in States, NEW b \in Buffers, NEW l \in AnyLayout
    PROVE  LET t == NewBuffer(s, b, l)
           IN  /\ t \in States
               /\ t.buffers = With(s.buffers, b, l) /\ t.layouts = s.layouts /\ t.ref = s.ref
               /\ t.map = s.map /\ t.next = s.next
               /\ t.frame.pre = Append(s.frame.pre, [op |-> "CreateBuffer", buffer |-> b, layout |-> l])
               /\ t.frame.post = s.frame.post
               /\ t.frame.draws = s.frame.draws
               /\ t.frame.freeVertexBuffer = s.frame.freeVertexBuffer
               /\ t.frame.freeVertexLayout = s.frame.freeVertexLayout
<1> DEFINE c == [op |-> "CreateBuffer", buffer |-> b, layout |-> l]
           r == Record(s, c)
           t == NewBuffer(s, b, l)
           m == With(s.buffers, b, l)
<1>1. c \in Cmds BY DEF Cmds, AnyLayout
<1> HIDE DEF c
<1>2. /\ r \in States
      /\ r.buffers = s.buffers /\ r.layouts = s.layouts /\ r.ref = s.ref
      /\ r.map = s.map /\ r.next = s.next
      /\ r.frame.pre = Append(s.frame.pre, c) /\ r.frame.post = s.frame.post
      /\ r.frame.draws = s.frame.draws
      /\ r.frame.freeVertexBuffer = s.frame.freeVertexBuffer
      /\ r.frame.freeVertexLayout = s.frame.freeVertexLayout
  BY <1>1, RecordDoes
<1>3. m \in Some(Buffers, AnyLayout) BY FieldsOf, SomeMore
<1>4. t = [r EXCEPT !.buffers = m] BY <1>2 DEF NewBuffer, c
<1> HIDE DEF r, m, t
<1>5. t \in States /\ t.buffers = m /\ t.layouts = r.layouts /\ t.ref = r.ref
      /\ t.map = r.map /\ t.next = r.next /\ t.frame = r.frame
  BY <1>2, <1>3, <1>4 DEF States
<1> QED BY <1>2, <1>5 DEF t, m, c

LEMMA DestroyDoes ==
    ASSUME NEW s \in States, NEW b \in Buffers
    PROVE  LET t == Destroy(s, b)
           IN  /\ t \in States
               /\ t.buffers = s.buffers /\ t.layouts = s.layouts /\ t.ref = s.ref
               /\ t.map = s.map /\ t.next = s.next
               /\ t.frame.pre = s.frame.pre
               /\ t.frame.post = Append(s.frame.post, [op |-> "DestroyBuffer", buffer |-> b])
               /\ t.frame.draws = s.frame.draws
               /\ t.frame.freeVertexBuffer = Append(s.frame.freeVertexBuffer, b)
               /\ t.frame.freeVertexLayout = s.frame.freeVertexLayout
<1> DEFINE c == [op |-> "DestroyBuffer", buffer |-> b]
           f == s.frame
           q == Append(f.freeVertexBuffer, b)
           p == Append(f.post, c)
           g == [f EXCEPT !.freeVertexBuffer = q, !.post = p]
           t == Destroy(s, b)
<1>1. c \in Cmds BY DEF Cmds
<1>2. t = [s EXCEPT !.frame = g] BY Zenon DEF Destroy, States
<1>3. f \in AnyFrames BY DEF States
<1>4. q \in Seq(Buffers) /\ p \in Seq(Cmds) BY <1>1, <1>3 DEF AnyFrames
<1> HIDE DEF q, p, f, c
<1>5. g \in AnyFrames /\ g.pre = f.pre /\ g.post = p /\ g.draws = f.draws
      /\ g.freeVertexBuffer = q /\ g.freeVertexLayout = f.freeVertexLayout
  BY <1>3, <1>4 DEF AnyFrames
<1> HIDE DEF g, t
<1>6. t \in States /\ t.buffers = s.buffers /\ t.layouts = s.layouts /\ t.ref = s.ref
      /\ t.map = s.map /\ t.next = s.next /\ t.frame = g
  BY <1>2, <1>5 DEF States
<1> QED BY <1>5, <1>6 DEF t, q, p, f, c

LEMMA DrawingDoes ==
    ASSUME NEW s \in States, NEW b \in Buffers, NEW l \in AnyLayout, NEW h \in Hashes
    PROVE  LET t == Drawing(s, b, l, h)
           IN  /\ t \in States
               /\ t.buffers = s.buffers /\ t.layouts = s.layouts /\ t.ref = s.ref
               /\ t.map = s.map /\ t.next = s.next
               /\ t.frame.pre = s.frame.pre /\ t.frame.post = s.frame.post
               /\ t.frame.draws = s.frame.draws \union {[buffer |-> b, layout |-> l, hash |-> h]}
               /\ t.frame.freeVertexBuffer = s.frame.freeVertexBuffer
               /\ t.frame.freeVertexLayout = s.frame.freeVertexLayout
<1> DEFINE f == s.frame
           d == [buffer |-> b, layout |-> l, hash |-> h]
           e == f.draws \union {d}
           g == [f EXCEPT !.draws = e]
           t == Drawing(s, b, l, h)
<1>1. f \in AnyFrames BY DEF States
<1>2. e \in SUBSET Draws
  <2>1. d \in Draws BY DEF Draws, AnyLayout
  <2>2. f.draws \in SUBSET Draws BY <1>1 DEF AnyFrames
  <2> QED BY <2>1, <2>2
<1>3. t = [s EXCEPT !.frame = g] BY Zenon DEF Drawing, States
<1> HIDE DEF f, d, e
<1>4. g \in AnyFrames /\ g.pre = f.pre /\ g.post = f.post /\ g.draws = e
      /\ g.freeVertexBuffer = f.freeVertexBuffer /\ g.freeVertexLayout = f.freeVertexLayout
  BY <1>1, <1>2 DEF AnyFrames
<1> HIDE DEF g, t
<1>5. t \in States /\ t.buffers = s.buffers /\ t.layouts = s.layouts /\ t.ref = s.ref
      /\ t.map = s.map /\ t.next = s.next /\ t.frame = g
  BY <1>3, <1>4 DEF States
<1> QED BY <1>4, <1>5 DEF t, d, e, f

LEMMA QueueDoes ==
    ASSUME NEW s \in States, NEW l \in Layouts
    PROVE  LET t == [s EXCEPT !.frame.freeVertexLayout = Append(@, l)]
           IN  /\ t \in States
               /\ t.buffers = s.buffers /\ t.layouts = s.layouts /\ t.ref = s.ref
               /\ t.map = s.map /\ t.next = s.next
               /\ t.frame.pre = s.frame.pre /\ t.frame.post = s.frame.post
               /\ t.frame.draws = s.frame.draws
               /\ t.frame.freeVertexBuffer = s.frame.freeVertexBuffer
               /\ t.frame.freeVertexLayout = Append(s.frame.freeVertexLayout, l)
<1> DEFINE f == s.frame
           q == Append(f.freeVertexLayout, l)
           g == [f EXCEPT !.freeVertexLayout = q]
           t == [s EXCEPT !.frame.freeVertexLayout = Append(@, l)]
<1>1. f \in AnyFrames BY DEF States
<1>2. q \in Seq(Layouts) BY <1>1 DEF AnyFrames
<1>3. t = [s EXCEPT !.frame = g] BY Zenon DEF States
<1> HIDE DEF f, q
<1>4. g \in AnyFrames /\ g.pre = f.pre /\ g.post = f.post /\ g.draws = f.draws
      /\ g.freeVertexBuffer = f.freeVertexBuffer /\ g.freeVertexLayout = q
  BY <1>1, <1>2 DEF AnyFrames
<1> HIDE DEF g, t
<1>5. t \in States /\ t.buffers = s.buffers /\ t.layouts = s.layouts /\ t.ref = s.ref
      /\ t.map = s.map /\ t.next = s.next /\ t.frame = g
  BY <1>3, <1>4 DEF States
<1> QED BY <1>4, <1>5 DEF t, q, f

LEMMA TakenType ==
    ASSUME NEW offset \in Int, NEW num \in Nat, NEW stride \in Nat \ {0}, NEW size \in Int
    PROVE  /\ Taken(offset, num, stride, size).offset \in Int
           /\ Taken(offset, num, stride, size).range \in [first : Int, end : Int]
<1> DEFINE first == First(offset, stride)
           most == (first + num * stride) % Word
           left == ((IF most < size THEN most ELSE size) - first) % Word
           avail == Available(offset, num, stride, size)
<1>1. Word \in Nat \ {0} BY WordAssumption
<1>2. first \in Int
  <2> DEFINE a == (offset + stride - 1) \div stride
  <2>1. a \in Int OBVIOUS
  <2> HIDE DEF a
  <2>2. a * stride \in Int BY <2>1
  <2> QED BY <1>1, <2>2 DEF First, AlignUp, a
<1> HIDE DEF first
<1>3. num * stride \in Int OBVIOUS
<1>4. most \in Int BY <1>1, <1>2, <1>3
<1> HIDE DEF most
<1>5. left \in Int BY <1>1, <1>2, <1>4
<1> HIDE DEF left
<1>6. avail = left \div stride BY DEF Available, left, most, first
<1>7. avail \in Int BY <1>5, <1>6
<1> HIDE DEF avail
<1>8. first + avail * stride \in Int /\ (first + avail * stride) % Word \in Int
  <2>1. avail * stride \in Int BY <1>7
  <2> QED BY <1>1, <1>2, <2>1
<1> QED BY <1>2, <1>8 DEF Taken, first, avail

LEMMA TakeVerticesDoes ==
    ASSUME NEW s \in States, NEW num \in Nat, NEW stride \in Nat \ {0}
    PROVE  LET t == TakeVertices(s, num, stride)
           IN  /\ t \in States
               /\ t.buffers = s.buffers /\ t.layouts = s.layouts /\ t.ref = s.ref
               /\ t.map = s.map /\ t.next = s.next
               /\ SameFrame(t.frame, s.frame)
<1> DEFINE f == s.frame
           k == Taken(f.vboffset, num, stride, VbSize)
           o == k.offset
           e == f.vertices \union {k.range}
           g == [f EXCEPT !.vboffset = o, !.vertices = e]
           t == TakeVertices(s, num, stride)
<1>1. f \in AnyFrames BY DEF States
<1>2. o \in Int /\ k.range \in [first : Int, end : Int]
  <2>1. f.vboffset \in Int BY <1>1 DEF AnyFrames
  <2>2. VbSize \in Int BY SizesAssumption, WordAssumption
  <2> HIDE DEF f
  <2> QED BY <2>1, <2>2, TakenType
<1>3. t = [s EXCEPT !.frame = g] BY Zenon DEF TakeVertices, States
<1>4. e \in SUBSET [first : Int, end : Int] BY <1>1, <1>2 DEF AnyFrames
<1> HIDE DEF f, k, o, e
<1>5. g \in AnyFrames /\ SameFrame(g, f) BY <1>1, <1>2, <1>4 DEF AnyFrames, SameFrame
<1> HIDE DEF g, t
<1>6. t \in States /\ t.buffers = s.buffers /\ t.layouts = s.layouts /\ t.ref = s.ref
      /\ t.map = s.map /\ t.next = s.next /\ t.frame = g
  BY <1>3, <1>5 DEF States
<1> QED BY <1>5, <1>6 DEF t, f

LEMMA TakeIndicesDoes ==
    ASSUME NEW s \in States, NEW num \in Nat, NEW size \in Nat \ {0}
    PROVE  LET t == TakeIndices(s, num, size)
           IN  /\ t \in States
               /\ t.buffers = s.buffers /\ t.layouts = s.layouts /\ t.ref = s.ref
               /\ t.map = s.map /\ t.next = s.next
               /\ SameFrame(t.frame, s.frame)
<1> DEFINE f == s.frame
           k == Taken(f.iboffset, num, size, IbSize)
           o == k.offset
           e == f.indices \union {k.range}
           g == [f EXCEPT !.iboffset = o, !.indices = e]
           t == TakeIndices(s, num, size)
<1>1. f \in AnyFrames BY DEF States
<1>2. o \in Int /\ k.range \in [first : Int, end : Int]
  <2>1. f.iboffset \in Int BY <1>1 DEF AnyFrames
  <2>2. IbSize \in Int BY SizesAssumption, WordAssumption
  <2> HIDE DEF f
  <2> QED BY <2>1, <2>2, TakenType
<1>3. t = [s EXCEPT !.frame = g] BY Zenon DEF TakeIndices, States
<1>4. e \in SUBSET [first : Int, end : Int] BY <1>1, <1>2 DEF AnyFrames
<1> HIDE DEF f, k, o, e
<1>5. g \in AnyFrames /\ SameFrame(g, f) BY <1>1, <1>2, <1>4 DEF AnyFrames, SameFrame
<1> HIDE DEF g, t
<1>6. t \in States /\ t.buffers = s.buffers /\ t.layouts = s.layouts /\ t.ref = s.ref
      /\ t.map = s.map /\ t.next = s.next /\ t.frame = g
  BY <1>3, <1>5 DEF States
<1> QED BY <1>5, <1>6 DEF t, f

LEMMA AddDoes ==
    ASSUME NEW s \in States, NEW l \in Layouts, NEW h \in Hashes
    PROVE  LET t == Add(s, l, h)
           IN  /\ t \in States
               /\ t.buffers = s.buffers /\ t.layouts = s.layouts
               /\ t.ref = [s.ref EXCEPT ![l] = s.ref[l] + 1]
               /\ t.map = IF h \in DOMAIN s.map THEN s.map ELSE With(s.map, h, l)
               /\ t.next = s.next /\ t.frame = s.frame
<1> DEFINE c == [s.ref EXCEPT ![l] = s.ref[l] + 1]
           m == IF h \in DOMAIN s.map THEN s.map ELSE With(s.map, h, l)
           t == Add(s, l, h)
<1>1. c \in [Layouts -> Int] BY FieldsOf
<1>2. m \in Some(Hashes, Layouts)
  <2>1. With(s.map, h, l) \in Some(Hashes, Layouts) BY FieldsOf, SomeMore
  <2> QED BY <2>1, FieldsOf
<1>3. t = [s EXCEPT !.ref = c, !.map = m] BY Zenon DEF Add, States
<1> HIDE DEF c, m, t
<1>4. t \in States /\ t.buffers = s.buffers /\ t.layouts = s.layouts /\ t.ref = c /\ t.map = m
      /\ t.next = s.next /\ t.frame = s.frame
  BY <1>1, <1>2, <1>3 DEF States
<1> QED BY <1>4 DEF t, c, m

LEMMA ReleaseDoes ==
    ASSUME NEW s \in States, NEW l \in Layouts
    PROVE  LET t == Release(s, l)
           IN  /\ t \in States
               /\ t.buffers = s.buffers /\ t.layouts = s.layouts
               /\ t.ref = [s.ref EXCEPT ![l] = s.ref[l] - 1]
               /\ t.map = IF s.ref[l] = 1 THEN Restrict(s.map, {h \in DOMAIN s.map : s.map[h] # l})
                                          ELSE s.map
               /\ t.next = s.next /\ t.frame = s.frame
<1> DEFINE c == [s.ref EXCEPT ![l] = s.ref[l] - 1]
           left == {h \in DOMAIN s.map : s.map[h] # l}
           m == Restrict(s.map, left)
           t == Release(s, l)
<1>1. c \in [Layouts -> Int] /\ s.map \in Some(Hashes, Layouts) BY FieldsOf
<1>2. m \in Some(Hashes, Layouts)
  <2>1. left \in SUBSET DOMAIN s.map OBVIOUS
  <2> HIDE DEF left
  <2> QED BY <1>1, <2>1, SomeLess
<1>3. s.ref[l] = 1 => t = [s EXCEPT !.ref = c, !.map = m] BY DEF Release, States
<1>4. s.ref[l] # 1 => t = [s EXCEPT !.ref = c] BY DEF Release, States
<1> HIDE DEF c, m, t
<1>5. CASE s.ref[l] = 1
  <2>1. t \in States /\ t.buffers = s.buffers /\ t.layouts = s.layouts /\ t.ref = c /\ t.map = m
        /\ t.next = s.next /\ t.frame = s.frame
    BY <1>1, <1>2, <1>3, <1>5 DEF States
  <2> QED BY <1>5, <2>1 DEF t, c, m
<1>6. CASE s.ref[l] # 1
  <2>1. t \in States /\ t.buffers = s.buffers /\ t.layouts = s.layouts /\ t.ref = c /\ t.map = s.map
        /\ t.next = s.next /\ t.frame = s.frame
    BY <1>1, <1>4, <1>6 DEF States
  <2> QED BY <1>6, <2>1 DEF t, c
<1> QED BY <1>5, <1>6

\* What a call that finds or creates a layout has in hand.
LEMMA FoundDoes ==
    ASSUME NEW s \in States, NEW h \in Hashes, NEW f \in FindOrCreate(s, h)
    PROVE  \/ h \in DOMAIN s.map /\ f.layout = s.map[h] /\ f.layout \in Layouts /\ f.s = s
           \/ LET t == f.s
                  l == f.layout
              IN  /\ h \notin DOMAIN s.map /\ l \in Layouts \ s.layouts
                  /\ t \in States
                  /\ t.buffers = s.buffers /\ t.layouts = s.layouts \union {l}
                  /\ t.ref = s.ref /\ t.map = s.map /\ t.next = s.next
                  /\ t.frame.pre = Append(s.frame.pre, [op |-> "CreateLayout", layout |-> l, hash |-> h])
                  /\ t.frame.post = s.frame.post
                  /\ t.frame.draws = s.frame.draws
                  /\ t.frame.freeVertexBuffer = s.frame.freeVertexBuffer
                  /\ t.frame.freeVertexLayout = s.frame.freeVertexLayout
<1>1. CASE h \in DOMAIN s.map
  <2>1. f = [layout |-> s.map[h], s |-> s] BY <1>1 DEF FindOrCreate
  <2>2. s.map[h] \in Layouts
    <3>1. s.map \in Some(Hashes, Layouts) BY FieldsOf
    <3> QED BY <1>1, <3>1, SomeIs
  <2> QED BY <1>1, <2>1, <2>2
<1>2. CASE h \notin DOMAIN s.map
  <2> DEFINE c(l) == [op |-> "CreateLayout", layout |-> l, hash |-> h]
             r(l) == Record(s, c(l))
             t(l) == [r(l) EXCEPT !.layouts = @ \union {l}]
  <2>1. PICK l \in Layouts \ s.layouts : f = [layout |-> l, s |-> t(l)]
    BY <1>2, Zenon DEF FindOrCreate
  <2>2. c(l) \in Cmds BY DEF Cmds
  <2> HIDE DEF c
  <2>3. /\ r(l) \in States
        /\ r(l).buffers = s.buffers /\ r(l).layouts = s.layouts /\ r(l).ref = s.ref
        /\ r(l).map = s.map /\ r(l).next = s.next
        /\ r(l).frame.pre = Append(s.frame.pre, c(l)) /\ r(l).frame.post = s.frame.post
        /\ r(l).frame.draws = s.frame.draws
        /\ r(l).frame.freeVertexBuffer = s.frame.freeVertexBuffer
        /\ r(l).frame.freeVertexLayout = s.frame.freeVertexLayout
    BY <2>2, RecordDoes
  <2>4. s.layouts \union {l} \in SUBSET Layouts BY FieldsOf
  <2> HIDE DEF r
  <2>5. /\ t(l) \in States /\ t(l).buffers = r(l).buffers /\ t(l).layouts = s.layouts \union {l}
        /\ t(l).ref = r(l).ref /\ t(l).map = r(l).map /\ t(l).next = r(l).next
        /\ t(l).frame = r(l).frame
    BY <2>3, <2>4 DEF States
  <2> HIDE DEF t
  <2>6. f.layout = l /\ f.s = t(l) BY <2>1
  <2> QED BY <1>2, <2>3, <2>5, <2>6 DEF c
<1> QED BY <1>1, <1>2

-----------------------------------------------------------------------------
(* What each step keeps of the counts' bookkeeping.                         *)

\* Only counts, map, handles in use and queues matter.
LEMMA CoreSame ==
    ASSUME NEW s, NEW W, NEW X, Core(s, W, X), NEW t \in States, NEW V \in Renderers,
           t.ref = s.ref, t.map = s.map, t.layouts = s.layouts, t.next = s.next,
           t.frame.freeVertexLayout = s.frame.freeVertexLayout,
           V.ok, V.layouts = W.layouts
    PROVE  Core(t, V, X)
  BY DEF Core, Maps, Waits, Knows, Leaving

LEMMA CoreFacts ==
    ASSUME NEW s, NEW W, NEW X, Core(s, W, X)
    PROVE  /\ s \in States /\ W \in Renderers /\ W.ok
           /\ \A l \in Layouts : s.ref[l] \in Nat
           /\ \A l \in Layouts : s.ref[l] > 0 => l \in s.layouts
           /\ \A l \in Leaving(s) : l \in s.layouts /\ s.ref[l] = 0
  BY DEF Core, Maps, Waits, Knows

\* A layout that is about to be counted.
Ready(s, V, l, h) ==
    /\ l \in s.layouts /\ l \notin Leaving(s)
    /\ l \in DOMAIN V.layouts /\ V.layouts[l] = h
    /\ \/ h \in DOMAIN s.map /\ s.map[h] = l
       \/ h \notin DOMAIN s.map /\ s.ref[l] = 0

LEMMA KnownFinds ==
    ASSUME NEW s, NEW W, NEW X, Core(s, W, X), NEW h \in DOMAIN s.map
    PROVE  /\ h \in Hashes /\ s.map[h] \in Layouts /\ s.ref[s.map[h]] > 0
           /\ s.map[h] \in DOMAIN W.layouts /\ W.layouts[s.map[h]] = h
<1> DEFINE l == s.map[h]
<1>1. s.map \in Some(Hashes, Layouts) BY FieldsOf DEF Core
<1>2. h \in Hashes /\ l \in Layouts BY <1>1, SomeIs
<1>3. l \in Range(s.map) BY DEF Range
<1>4. s.ref[l] > 0 BY <1>2, <1>3 DEF Core, Maps
<1> DEFINE k == W.layouts[l]
<1>5. l \in DOMAIN W.layouts /\ k \in DOMAIN s.map /\ s.map[k] = l
  BY <1>2, <1>4 DEF Core, Knows
<1>6. k = h BY <1>5, Zenon DEF Core, Maps, IsInjective
<1> QED BY <1>2, <1>4, <1>5, <1>6

\* A call that finds or creates l leaves the state t and the renderer V behind.
Finds(s, W, t, V, l, h) ==
    /\ Core(t, V, {l}) /\ Ready(t, V, l, h)
    /\ l \in Layouts
    /\ h \in DOMAIN s.map => t = s
    /\ t.buffers = s.buffers /\ V.buffers = s.buffers /\ t.ref = s.ref /\ t.next = s.next
    /\ t.layouts = s.layouts \union {l}
    /\ t.frame.post = s.frame.post /\ t.frame.draws = s.frame.draws
    /\ t.frame.freeVertexBuffer = s.frame.freeVertexBuffer
    /\ \A k \in DOMAIN W.layouts \intersect s.layouts :
          k \in DOMAIN V.layouts /\ V.layouts[k] = W.layouts[k]

LayoutsInUse(s) ==
    \A b \in DOMAIN s.buffers : s.buffers[b] \in Layouts => s.buffers[b] \in s.layouts

LEMMA FoundCore ==
    ASSUME NEW s, NEW base \in Renderers, Core(s, Recorded(s, base), {}), LayoutsInUse(s),
           Recorded(s, base).buffers = s.buffers,
           NEW h \in Hashes, NEW f \in FindOrCreate(s, h)
    PROVE  Finds(s, Recorded(s, base), f.s, Recorded(f.s, base), f.layout, h)
<1> DEFINE W == Recorded(s, base)
           t == f.s
           V == Recorded(t, base)
           l == f.layout
<1>1. s \in States /\ W \in Renderers /\ W.ok BY CoreFacts
<1>2. CASE h \in DOMAIN s.map
  <2>1. t = s /\ l = s.map[h] /\ l \in Layouts BY <1>1, <1>2, FoundDoes
  <2>2. V = W BY <2>1
  <2> HIDE DEF W, V, t, l
  <2>3. s.ref[l] > 0 /\ l \in DOMAIN W.layouts /\ W.layouts[l] = h
    BY <1>2, <2>1, KnownFinds DEF W
  <2>4. l \in s.layouts /\ l \notin Leaving(s) BY <2>1, <2>3, CoreFacts DEF W
  <2>5. Core(s, W, {l})
    <3>1. Core(s, W, {}) BY DEF W
    <3> QED BY <3>1 DEF Core, Waits
  <2>6. Ready(s, W, l, h) BY <1>2, <2>1, <2>3, <2>4 DEF Ready
  <2>7. s.layouts = s.layouts \union {l} BY <2>4
  <2>8. W.buffers = s.buffers BY DEF W
  <2> QED BY <2>1, <2>2, <2>5, <2>6, <2>7, <2>8 DEF W, V, t, l, Finds
<1>3. CASE h \notin DOMAIN s.map
  <2> DEFINE c == [op |-> "CreateLayout", layout |-> l, hash |-> h]
  <2>1. /\ l \in Layouts \ s.layouts /\ t \in States
        /\ t.buffers = s.buffers /\ t.layouts = s.layouts \union {l}
        /\ t.ref = s.ref /\ t.map = s.map /\ t.next = s.next
        /\ t.frame.pre = Append(s.frame.pre, c)
        /\ t.frame.post = s.frame.post
        /\ t.frame.draws = s.frame.draws
        /\ t.frame.freeVertexBuffer = s.frame.freeVertexBuffer
        /\ t.frame.freeVertexLayout = s.frame.freeVertexLayout
    BY <1>1, <1>3, FoundDoes
  <2>2. c \in Cmds BY <2>1 DEF Cmds
  <2>3. s.frame.pre \in Seq(Cmds) BY <1>1, FieldsOf
  <2>4. V = Execute(W, c) BY <2>1, <2>2, <2>3, ExecutedOne DEF Recorded
  <2> HIDE DEF W, V, t, l
  <2>5. /\ V \in Renderers /\ V.buffers = W.buffers
        /\ DOMAIN V.layouts = DOMAIN W.layouts \union {l} /\ V.layouts[l] = h
        /\ \A k \in DOMAIN W.layouts \ {l} : V.layouts[k] = W.layouts[k]
        /\ V.ok <=> W.ok /\ \A b \in DOMAIN W.buffers : W.buffers[b] # l
    BY <1>1, <2>1, <2>4, CreateLayoutDoes DEF c
  <2>6. W.buffers = s.buffers BY DEF W
  <2>7. V.ok BY <1>1, <2>1, <2>5, <2>6 DEF LayoutsInUse
  <2>8. s.ref[l] = 0 /\ l \notin Leaving(s) BY <2>1, CoreFacts DEF W
  <2>9. Core(t, V, {l})
    <3>1. Maps(s) /\ Waits(s, {}) /\ Knows(s, W) BY DEF W, Core
    <3>2. Maps(t) BY <2>1, <3>1 DEF Maps
    <3>3. Waits(t, {l}) BY <2>1, <3>1 DEF Waits, Leaving
    <3>4. Knows(t, V)
      <4> SUFFICES ASSUME NEW k \in Layouts, t.ref[k] > 0
                   PROVE  k \in DOMAIN V.layouts /\ V.layouts[k] \in DOMAIN t.map /\ t.map[V.layouts[k]] = k
        BY <2>5, <2>7 DEF Knows
      <4>1. k \in DOMAIN W.layouts /\ W.layouts[k] \in DOMAIN s.map /\ s.map[W.layouts[k]] = k
        BY <2>1, <3>1 DEF Knows
      <4>2. k # l BY <2>1, <2>8
      <4>3. V.layouts[k] = W.layouts[k] /\ k \in DOMAIN V.layouts BY <2>5, <4>1, <4>2
      <4> QED BY <2>1, <4>1, <4>3
    <3> QED BY <2>1, <3>2, <3>3, <3>4 DEF Core
  <2>10. Ready(t, V, l, h) BY <1>3, <2>1, <2>5, <2>8 DEF Ready, Leaving
  <2>11. \A k \in DOMAIN W.layouts \intersect s.layouts :
            k \in DOMAIN V.layouts /\ V.layouts[k] = W.layouts[k]
    BY <2>1, <2>5
  <2> QED BY <1>3, <2>1, <2>5, <2>6, <2>9, <2>10, <2>11 DEF W, V, t, l, Finds
<1> QED BY <1>2, <1>3

LEMMA AddCore ==
    ASSUME NEW s, NEW V, NEW l \in Layouts, Core(s, V, {l}), NEW h \in Hashes, Ready(s, V, l, h)
    PROVE  Core(Add(s, l, h), V, {})
<1> DEFINE t == Add(s, l, h)
<1>1. s \in States /\ \A k \in Layouts : s.ref[k] \in Nat BY CoreFacts
<1>2. /\ t \in States /\ t.layouts = s.layouts
      /\ t.ref = [s.ref EXCEPT ![l] = s.ref[l] + 1]
      /\ t.map = IF h \in DOMAIN s.map THEN s.map ELSE With(s.map, h, l)
      /\ t.next = s.next /\ t.frame = s.frame
  BY <1>1, AddDoes
<1>3. \A k \in Layouts : t.ref[k] = IF k = l THEN s.ref[k] + 1 ELSE s.ref[k]
  BY <1>1, <1>2 DEF States
<1>4. Maps(s) /\ Waits(s, {l}) /\ Knows(s, V) BY DEF Core
<1> HIDE DEF t
<1>5. /\ IsInjective(t.map) /\ Range(t.map) = Range(s.map) \union {l}
      /\ h \in DOMAIN t.map /\ t.map[h] = l
      /\ \A g \in DOMAIN s.map : g \in DOMAIN t.map /\ t.map[g] = s.map[g]
  <2>1. CASE h \in DOMAIN s.map
    BY <1>2, <1>4, <2>1 DEF Ready, Maps, Range
  <2>2. CASE h \notin DOMAIN s.map
    <3>1. /\ DOMAIN t.map = DOMAIN s.map \union {h} /\ t.map[h] = l
          /\ \A g \in DOMAIN s.map : t.map[g] = s.map[g]
      BY <1>2, <2>2 DEF With
    <3>2. l \notin Range(s.map) BY <1>4, <2>2 DEF Ready, Maps
    <3>3. IsInjective(t.map) BY <1>4, <3>1, <3>2 DEF Maps, IsInjective, Range
    <3>4. Range(t.map) = Range(s.map) \union {l} BY <2>2, <3>1 DEF Range
    <3> QED BY <3>1, <3>3, <3>4
  <2> QED BY <2>1, <2>2
<1>6. Maps(t) BY <1>1, <1>2, <1>3, <1>4, <1>5 DEF Maps, Ready
<1>7. Waits(t, {})
  <2>1. Leaving(t) = Leaving(s) BY <1>2 DEF Leaving
  <2>2. \A k \in Leaving(t) : k \in t.layouts /\ t.ref[k] = 0
    <3>1. \A k \in Leaving(s) : k \in s.layouts /\ s.ref[k] = 0 /\ k # l BY <1>4 DEF Waits, Ready
    <3>2. s.layouts \subseteq Layouts BY <1>1 DEF States
    <3> QED BY <1>2, <1>3, <2>1, <3>1, <3>2
  <2>3. ASSUME ~NewInVain, NEW k \in t.layouts, t.ref[k] = 0 PROVE k \in Leaving(t)
    <3>1. k \in Layouts BY <1>2 DEF States
    <3>2. k # l /\ s.ref[k] = 0 BY <1>1, <1>3, <2>3, <3>1
    <3> QED BY <1>2, <1>4, <2>1, <2>3, <3>2 DEF Waits
  <2> QED BY <1>2, <1>4, <2>2, <2>3 DEF Waits
<1>8. Knows(t, V)
  <2> SUFFICES ASSUME NEW k \in Layouts, t.ref[k] > 0
               PROVE  k \in DOMAIN V.layouts /\ V.layouts[k] \in DOMAIN t.map /\ t.map[V.layouts[k]] = k
    BY <1>4 DEF Knows
  <2>1. CASE k = l BY <1>5, <2>1 DEF Ready
  <2>2. CASE k # l
    <3>1. s.ref[k] > 0 BY <1>3, <2>2
    <3> QED BY <1>4, <1>5, <3>1 DEF Knows
  <2> QED BY <2>1, <2>2
<1> QED BY <1>2, <1>6, <1>7, <1>8 DEF Core, t

LEMMA ReleaseCore ==
    ASSUME NEW s, NEW W, NEW l \in Layouts, Core(s, W, {}), s.ref[l] > 0
    PROVE  LET t == Release(s, l)
           IN  /\ Core(t, W, {l}) /\ l \in t.layouts /\ l \notin Leaving(t)
               /\ t.ref[l] > 0 => Core(t, W, {})
               /\ t.ref[l] \in Nat
<1> DEFINE t == Release(s, l)
<1>1. s \in States /\ \A k \in Layouts : s.ref[k] \in Nat BY CoreFacts
<1>2. /\ t \in States /\ t.layouts = s.layouts
      /\ t.ref = [s.ref EXCEPT ![l] = s.ref[l] - 1]
      /\ t.map = IF s.ref[l] = 1 THEN Restrict(s.map, {h \in DOMAIN s.map : s.map[h] # l})
                                 ELSE s.map
      /\ t.next = s.next /\ t.frame = s.frame
  BY <1>1, ReleaseDoes
<1>3. \A k \in Layouts : t.ref[k] = IF k = l THEN s.ref[k] - 1 ELSE s.ref[k]
  BY <1>1, <1>2 DEF States
<1>4. Maps(s) /\ Waits(s, {}) /\ Knows(s, W) BY DEF Core
<1> HIDE DEF t
<1>5. /\ IsInjective(t.map)
      /\ \A k \in Layouts : k \in Range(t.map) <=> t.ref[k] > 0
      /\ \A g \in DOMAIN s.map : s.map[g] # l \/ s.ref[l] # 1 => g \in DOMAIN t.map /\ t.map[g] = s.map[g]
  <2>1. CASE s.ref[l] = 1
    <3>1. /\ DOMAIN t.map = {h \in DOMAIN s.map : s.map[h] # l}
          /\ \A g \in DOMAIN t.map : t.map[g] = s.map[g]
      BY <1>2, <2>1 DEF Restrict
    <3>2. IsInjective(t.map) BY <1>4, <3>1 DEF Maps, IsInjective
    <3>3. Range(t.map) = Range(s.map) \ {l} BY <3>1 DEF Range
    <3>4. \A k \in Layouts : k \in Range(t.map) <=> t.ref[k] > 0
      BY <1>3, <1>4, <2>1, <3>3 DEF Maps
    <3> QED BY <2>1, <3>1, <3>2, <3>4
  <2>2. CASE s.ref[l] # 1
    <3>1. t.map = s.map BY <1>2, <2>2
    <3>2. \A k \in Layouts : t.ref[k] > 0 <=> s.ref[k] > 0 BY <1>1, <1>3, <2>2
    <3> QED BY <1>4, <3>1, <3>2 DEF Maps
  <2> QED BY <2>1, <2>2
<1>6. \A k \in Layouts : t.ref[k] \in Nat /\ (t.ref[k] > 0 => s.ref[k] > 0) BY <1>1, <1>3
<1>7. Maps(t) BY <1>2, <1>4, <1>5, <1>6 DEF Maps
<1>8. l \in s.layouts /\ l \notin Leaving(s) BY CoreFacts
<1>9. Leaving(t) = Leaving(s) BY <1>2 DEF Leaving
<1>10. s.layouts \subseteq Layouts BY <1>1 DEF States
<1>11. \A k \in Leaving(t) : k \in t.layouts /\ t.ref[k] = 0
  <2>1. \A k \in Leaving(s) : k \in s.layouts /\ s.ref[k] = 0 /\ k # l BY <1>4, <1>8 DEF Waits
  <2> QED BY <1>2, <1>3, <1>9, <1>10, <2>1
<1>12. ASSUME ~NewInVain, NEW k \in t.layouts, t.ref[k] = 0, k # l PROVE k \in Leaving(t)
  <2>1. s.ref[k] = 0 BY <1>2, <1>3, <1>10, <1>12
  <2> QED BY <1>2, <1>4, <1>9, <1>12, <2>1 DEF Waits
<1>13. Knows(t, W)
  <2> SUFFICES ASSUME NEW k \in Layouts, t.ref[k] > 0
               PROVE  k \in DOMAIN W.layouts /\ W.layouts[k] \in DOMAIN t.map /\ t.map[W.layouts[k]] = k
    BY <1>4 DEF Knows
  <2>1. k \in DOMAIN W.layouts /\ W.layouts[k] \in DOMAIN s.map /\ s.map[W.layouts[k]] = k
    BY <1>4, <1>6 DEF Knows
  <2>2. k # l \/ s.ref[l] # 1 BY <1>3
  <2> QED BY <1>5, <2>1, <2>2
<1>14. Core(t, W, {l})
  <2>1. Waits(t, {l}) BY <1>2, <1>4, <1>11, <1>12 DEF Waits
  <2> QED BY <1>2, <1>7, <1>13, <2>1 DEF Core
<1>15. ASSUME t.ref[l] > 0 PROVE Core(t, W, {})
  <2>1. Waits(t, {}) BY <1>2, <1>4, <1>11, <1>12, <1>15 DEF Waits
  <2> QED BY <1>2, <1>7, <1>13, <2>1 DEF Core
<1> QED BY <1>2, <1>6, <1>8, <1>9, <1>14, <1>15 DEF t

-----------------------------------------------------------------------------
(* Who counts a layout.                                                     *)

\* How many of S hold l.
Holding(S, f, l) == Cardinality({y \in S : f[y] = l})

\* One element more or less.
LEMMA HolderMore ==
    ASSUME NEW S, IsFiniteSet(S), NEW x, x \notin S, NEW f, NEW g, NEW l,
           \A y \in S : f[y] = g[y]
    PROVE  Holding(S \union {x}, f, l) = Holding(S, g, l) + IF f[x] = l THEN 1 ELSE 0
<1> DEFINE A == {y \in S : g[y] = l}
           B == {y \in S \union {x} : f[y] = l}
<1>1. IsFiniteSet(A) /\ x \notin A
  <2>1. A \subseteq S OBVIOUS
  <2> QED BY <2>1, FS_Subset
<1>2. f[x] = l => B = A \union {x} OBVIOUS
<1>3. f[x] # l => B = A OBVIOUS
<1> HIDE DEF A, B
<1>4. Cardinality(A) \in Nat BY <1>1, FS_CardinalityType
<1>5. Cardinality(A \union {x}) = Cardinality(A) + 1 BY <1>1, FS_AddElement
<1>6. Cardinality(B) = Cardinality(A) + IF f[x] = l THEN 1 ELSE 0
  BY <1>2, <1>3, <1>4, <1>5
<1> QED BY <1>6 DEF A, B, Holding

LEMMA HoldersNat ==
    ASSUME NEW S, IsFiniteSet(S), NEW f, NEW l
    PROVE  Holding(S, f, l) \in Nat /\ \A x \in S : f[x] = l => Holding(S, f, l) > 0
<1> DEFINE A == {y \in S : f[y] = l}
<1>1. IsFiniteSet(A)
  <2>1. A \subseteq S OBVIOUS
  <2> QED BY <2>1, FS_Subset
<1>2. \A x \in S : f[x] = l => A # {} OBVIOUS
<1> HIDE DEF A
<1>3. Cardinality(A) \in Nat BY <1>1, FS_CardinalityType
<1>4. A # {} => Cardinality(A) # 0 BY <1>1, FS_EmptySet
<1>5. \A x \in S : f[x] = l => Cardinality(A) > 0 BY <1>2, <1>3, <1>4
<1> QED BY <1>3, <1>5 DEF A, Holding

LayoutsOf(dyn, D) == [d \in D |-> dyn[d].layout]

LEMMA CountedIs ==
    ASSUME NEW l, NEW bufs, NEW dyn, NEW D, NEW app, NEW tr
    PROVE  Counted(l, bufs, dyn, D, app, tr)
              = Holding(DOMAIN bufs, bufs, l) + Holding(D, LayoutsOf(dyn, D), l)
                + app[l] + (IF l \in tr THEN 1 ELSE 0)
<1>1. {d \in D : dyn[d].layout = l} = {d \in D : LayoutsOf(dyn, D)[d] = l} BY DEF LayoutsOf
<1> QED BY <1>1, Zenon DEF Counted, Holding

\* What counts, whatever it is.
CountsOf(bufs, dyn, D, app, tr) ==
    /\ bufs \in Some(Buffers, AnyLayout)
    /\ D \subseteq Dynamics /\ D \subseteq DOMAIN dyn
    /\ app \in [Layouts -> Nat]

LEMMA CountsFinite ==
    ASSUME NEW bufs, NEW dyn, NEW D, NEW app, NEW tr, CountsOf(bufs, dyn, D, app, tr)
    PROVE  IsFiniteSet(DOMAIN bufs) /\ IsFiniteSet(D)
<1>1. DOMAIN bufs \subseteq Buffers BY SomeIs DEF CountsOf
<1> QED BY <1>1, FS_Subset, HandlesAssumption DEF CountsOf

LEMMA CountedNat ==
    ASSUME NEW bufs, NEW dyn, NEW D, NEW app, NEW tr, CountsOf(bufs, dyn, D, app, tr),
           NEW l \in Layouts
    PROVE  /\ Counted(l, bufs, dyn, D, app, tr) \in Nat
           /\ (\E b \in DOMAIN bufs : bufs[b] = l) => Counted(l, bufs, dyn, D, app, tr) > 0
           /\ (\E d \in D : dyn[d].layout = l) => Counted(l, bufs, dyn, D, app, tr) > 0
           /\ app[l] > 0 => Counted(l, bufs, dyn, D, app, tr) > 0
           /\ l \in tr => Counted(l, bufs, dyn, D, app, tr) > 0
<1> DEFINE m == Holding(DOMAIN bufs, bufs, l)
           n == Holding(D, LayoutsOf(dyn, D), l)
           c == Counted(l, bufs, dyn, D, app, tr)
<1>1. IsFiniteSet(DOMAIN bufs) /\ IsFiniteSet(D) BY CountsFinite
<1>2. m \in Nat /\ \A b \in DOMAIN bufs : bufs[b] = l => m > 0
  BY <1>1, HoldersNat
<1>3. n \in Nat /\ \A d \in D : LayoutsOf(dyn, D)[d] = l => n > 0
  BY <1>1, HoldersNat
<1>4. \A d \in D : LayoutsOf(dyn, D)[d] = dyn[d].layout BY DEF LayoutsOf
<1>5. c = m + n + app[l] + (IF l \in tr THEN 1 ELSE 0) BY CountedIs
<1>6. app[l] \in Nat BY DEF CountsOf
<1> HIDE DEF m, n, c
<1>7. c \in Nat /\ c >= m /\ c >= n /\ c >= app[l] /\ (l \in tr => c > 0)
  BY <1>2, <1>3, <1>5, <1>6
<1>8. (\E b \in DOMAIN bufs : bufs[b] = l) => c > 0 BY <1>2, <1>7
<1>9. (\E d \in D : dyn[d].layout = l) => c > 0 BY <1>3, <1>4, <1>7
<1>10. app[l] > 0 => c > 0 BY <1>6, <1>7
<1> QED BY <1>7, <1>8, <1>9, <1>10 DEF c

LEMMA CountedBuffer ==
    ASSUME NEW bufs, NEW dyn, NEW D, NEW app, NEW tr, CountsOf(bufs, dyn, D, app, tr),
           NEW b \in Buffers \ DOMAIN bufs, NEW k, NEW l \in Layouts
    PROVE  Counted(l, With(bufs, b, k), dyn, D, app, tr)
              = Counted(l, bufs, dyn, D, app, tr) + IF k = l THEN 1 ELSE 0
<1> DEFINE g == With(bufs, b, k)
           m == Holding(DOMAIN bufs, bufs, l)
           n == Holding(D, LayoutsOf(dyn, D), l)
<1>1. DOMAIN g = DOMAIN bufs \union {b} /\ g[b] = k /\ \A y \in DOMAIN bufs : g[y] = bufs[y]
  BY DEF With
<1>2. IsFiniteSet(DOMAIN bufs) /\ IsFiniteSet(D) BY CountsFinite
<1> HIDE DEF g
<1>3. Holding(DOMAIN g, g, l) = m + IF k = l THEN 1 ELSE 0
  BY <1>1, <1>2, HolderMore
<1>4. m \in Nat /\ n \in Nat BY <1>2, HoldersNat
<1>5. app[l] \in Nat BY DEF CountsOf
<1>6. Counted(l, bufs, dyn, D, app, tr) = m + n + app[l] + (IF l \in tr THEN 1 ELSE 0)
  BY CountedIs
<1>7. Counted(l, g, dyn, D, app, tr)
         = Holding(DOMAIN g, g, l) + n + app[l] + (IF l \in tr THEN 1 ELSE 0)
  BY CountedIs
<1> HIDE DEF m, n
<1> QED BY <1>3, <1>4, <1>5, <1>6, <1>7 DEF g

LEMMA CountedLessBuffer ==
    ASSUME NEW bufs, NEW dyn, NEW D, NEW app, NEW tr, CountsOf(bufs, dyn, D, app, tr),
           NEW b \in DOMAIN bufs, NEW l \in Layouts
    PROVE  Counted(l, Restrict(bufs, DOMAIN bufs \ {b}), dyn, D, app, tr)
              = Counted(l, bufs, dyn, D, app, tr) - IF bufs[b] = l THEN 1 ELSE 0
<1> DEFINE S == DOMAIN bufs \ {b}
           g == Restrict(bufs, S)
           m == Holding(S, g, l)
           n == Holding(D, LayoutsOf(dyn, D), l)
<1>1. DOMAIN g = S /\ \A y \in S : g[y] = bufs[y] BY DEF Restrict
<1>2. DOMAIN bufs = S \union {b} /\ b \notin S OBVIOUS
<1>3. IsFiniteSet(DOMAIN bufs) /\ IsFiniteSet(D) BY CountsFinite
<1>4. IsFiniteSet(S) BY <1>3, FS_Subset
<1> HIDE DEF g, S
<1>5. Holding(DOMAIN bufs, bufs, l) = m + IF bufs[b] = l THEN 1 ELSE 0
  <2>1. \A y \in S : bufs[y] = g[y] BY <1>1
  <2> QED BY <1>2, <1>4, <2>1, HolderMore
<1>6. m \in Nat /\ n \in Nat BY <1>3, <1>4, HoldersNat
<1>7. app[l] \in Nat BY DEF CountsOf
<1>8. Counted(l, bufs, dyn, D, app, tr)
         = Holding(DOMAIN bufs, bufs, l) + n + app[l] + (IF l \in tr THEN 1 ELSE 0)
  BY CountedIs
<1>9. Counted(l, g, dyn, D, app, tr)
         = Holding(DOMAIN g, g, l) + n + app[l] + (IF l \in tr THEN 1 ELSE 0)
  BY CountedIs
<1>10. Holding(DOMAIN g, g, l) = m BY <1>1
<1> HIDE DEF m, n
<1> QED BY <1>5, <1>6, <1>7, <1>8, <1>9, <1>10 DEF g, S

LEMMA CountedDynamic ==
    ASSUME NEW bufs, NEW dyn, NEW D, NEW app, NEW tr, CountsOf(bufs, dyn, D, app, tr),
           NEW d \in Dynamics \ DOMAIN dyn, NEW v, NEW l \in Layouts
    PROVE  Counted(l, bufs, With(dyn, d, v), D \union {d}, app, tr)
              = Counted(l, bufs, dyn, D, app, tr) + IF v.layout = l THEN 1 ELSE 0
<1> DEFINE e == With(dyn, d, v)
           E == D \union {d}
           f == LayoutsOf(dyn, D)
           g == LayoutsOf(e, E)
           m == Holding(DOMAIN bufs, bufs, l)
           n == Holding(D, f, l)
<1>1. d \notin D BY DEF CountsOf
<1>2. \A y \in D : e[y] = dyn[y] /\ e[d] = v BY <1>1 DEF With, CountsOf
<1>3. g[d] = v.layout
  <2>1. e[d] = v BY DEF With
  <2> QED BY <2>1 DEF LayoutsOf
<1>4. \A y \in D : g[y] = f[y] BY <1>2 DEF LayoutsOf
<1>5. IsFiniteSet(DOMAIN bufs) /\ IsFiniteSet(D) BY CountsFinite
<1> HIDE DEF e, f, g
<1>6. Holding(E, g, l) = n + IF v.layout = l THEN 1 ELSE 0
  BY <1>1, <1>3, <1>4, <1>5, HolderMore
<1>7. m \in Nat /\ n \in Nat BY <1>5, HoldersNat
<1>8. app[l] \in Nat BY DEF CountsOf
<1>9. Counted(l, bufs, dyn, D, app, tr) = m + n + app[l] + (IF l \in tr THEN 1 ELSE 0)
  BY CountedIs DEF f
<1>10. Counted(l, bufs, e, E, app, tr)
         = m + Holding(E, g, l) + app[l] + (IF l \in tr THEN 1 ELSE 0)
  BY CountedIs DEF g
<1> HIDE DEF m, n, E
<1> QED BY <1>6, <1>7, <1>8, <1>9, <1>10 DEF e, E

LEMMA CountedLessDynamic ==
    ASSUME NEW bufs, NEW dyn, NEW D, NEW app, NEW tr, CountsOf(bufs, dyn, D, app, tr),
           NEW d \in D, NEW l \in Layouts
    PROVE  Counted(l, bufs, dyn, D \ {d}, app, tr)
              = Counted(l, bufs, dyn, D, app, tr) - IF dyn[d].layout = l THEN 1 ELSE 0
<1> DEFINE E == D \ {d}
           f == LayoutsOf(dyn, D)
           g == LayoutsOf(dyn, E)
           m == Holding(DOMAIN bufs, bufs, l)
           n == Holding(E, g, l)
<1>1. D = E \union {d} /\ d \notin E OBVIOUS
<1>2. f[d] = dyn[d].layout /\ \A y \in E : f[y] = g[y] BY DEF LayoutsOf
<1>3. IsFiniteSet(DOMAIN bufs) /\ IsFiniteSet(D) BY CountsFinite
<1>4. IsFiniteSet(E) BY <1>3, FS_Subset
<1> HIDE DEF E, f, g
<1>5. Holding(D, f, l) = n + IF dyn[d].layout = l THEN 1 ELSE 0
  BY <1>1, <1>2, <1>4, HolderMore
<1>6. m \in Nat /\ n \in Nat BY <1>3, <1>4, HoldersNat
<1>7. app[l] \in Nat BY DEF CountsOf
<1>8. Counted(l, bufs, dyn, D, app, tr)
         = m + Holding(D, f, l) + app[l] + (IF l \in tr THEN 1 ELSE 0)
  BY CountedIs DEF f
<1>9. Counted(l, bufs, dyn, E, app, tr) = m + n + app[l] + (IF l \in tr THEN 1 ELSE 0)
  BY CountedIs DEF g
<1> HIDE DEF m, n
<1> QED BY <1>5, <1>6, <1>7, <1>8, <1>9 DEF E

LEMMA CountedApp ==
    ASSUME NEW bufs, NEW dyn, NEW D, NEW app, NEW tr, CountsOf(bufs, dyn, D, app, tr),
           NEW e, NEW l \in Layouts, NEW n \in Int, e[l] = app[l] + n
    PROVE  Counted(l, bufs, dyn, D, e, tr) = Counted(l, bufs, dyn, D, app, tr) + n
<1> DEFINE m == Holding(DOMAIN bufs, bufs, l)
           p == Holding(D, LayoutsOf(dyn, D), l)
<1>1. app[l] \in Nat BY DEF CountsOf
<1>2. IsFiniteSet(DOMAIN bufs) /\ IsFiniteSet(D) BY CountsFinite
<1>3. m \in Nat /\ p \in Nat BY <1>2, HoldersNat
<1>4. Counted(l, bufs, dyn, D, app, tr) = m + p + app[l] + (IF l \in tr THEN 1 ELSE 0)
  BY CountedIs
<1>5. Counted(l, bufs, dyn, D, e, tr) = m + p + e[l] + (IF l \in tr THEN 1 ELSE 0)
  BY CountedIs
<1> HIDE DEF m, p
<1> QED BY <1>1, <1>3, <1>4, <1>5

LEMMA CountedTransient ==
    ASSUME NEW bufs, NEW dyn, NEW D, NEW app, NEW tr, CountsOf(bufs, dyn, D, app, tr),
           NEW k, k \notin tr, NEW l \in Layouts
    PROVE  Counted(l, bufs, dyn, D, app, tr \union {k})
              = Counted(l, bufs, dyn, D, app, tr) + IF k = l THEN 1 ELSE 0
<1> DEFINE m == Holding(DOMAIN bufs, bufs, l)
           n == Holding(D, LayoutsOf(dyn, D), l)
<1>1. app[l] \in Nat BY DEF CountsOf
<1>2. IsFiniteSet(DOMAIN bufs) /\ IsFiniteSet(D) BY CountsFinite
<1>3. m \in Nat /\ n \in Nat BY <1>2, HoldersNat
<1>4. Counted(l, bufs, dyn, D, app, tr) = m + n + app[l] + (IF l \in tr THEN 1 ELSE 0)
  BY CountedIs
<1>5. Counted(l, bufs, dyn, D, app, tr \union {k})
         = m + n + app[l] + (IF l \in tr \union {k} THEN 1 ELSE 0)
  BY CountedIs
<1> HIDE DEF m, n
<1> QED BY <1>1, <1>3, <1>4, <1>5

-----------------------------------------------------------------------------
(* What each call keeps.                                                    *)

LEMMA ApiFacts ==
    ASSUME NEW s, NEW base, NEW dyn, NEW fd, NEW aB, NEW app, NEW tr,
           ApiHolds(s, base, dyn, fd, aB, app, tr)
    PROVE  /\ s \in States /\ s.next = <<>>
           /\ Core(s, Recorded(s, base), {})
           /\ Recorded(s, base) \in Renderers /\ Recorded(s, base).ok
           /\ Recorded(s, base).buffers = s.buffers
           /\ base \in Renderers
           /\ DOMAIN dyn \subseteq Dynamics /\ dyn \in [DOMAIN dyn -> [buffer : Buffers, layout : Layouts]]
           /\ app \in [Layouts -> Nat] /\ tr \subseteq Layouts
           /\ Counts(s, dyn, DOMAIN dyn, app, tr)
           /\ Owners(s, dyn, fd, aB)
           /\ Posts(s.frame)
           /\ \A d \in s.frame.draws :
                 DrawFinds(d, Recorded(s, base)) /\ DrawnLayout(d, Recorded(s, base)) \in s.layouts
           /\ CountsOf(s.buffers, dyn, DOMAIN dyn, app, tr)
<1>1. Core(s, Recorded(s, base), {}) BY DEF ApiHolds
<1>2. s \in States /\ Recorded(s, base) \in Renderers /\ Recorded(s, base).ok BY <1>1, CoreFacts
<1>3. s.buffers \in Some(Buffers, AnyLayout) BY <1>2, FieldsOf
<1> QED BY <1>1, <1>2, <1>3 DEF ApiHolds, CountsOf

\* Whoever names a layout has it counted, and so in use.
LEMMA NamedInUse ==
    ASSUME NEW s, NEW base, NEW dyn, NEW fd, NEW aB, NEW app, NEW tr,
           ApiHolds(s, base, dyn, fd, aB, app, tr), NEW l \in Layouts,
           \/ \E b \in DOMAIN s.buffers : s.buffers[b] = l
           \/ \E d \in DOMAIN dyn : dyn[d].layout = l
           \/ app[l] > 0
           \/ l \in tr
    PROVE  s.ref[l] > 0 /\ l \in s.layouts
<1>1. CountsOf(s.buffers, dyn, DOMAIN dyn, app, tr) /\ Counts(s, dyn, DOMAIN dyn, app, tr)
  BY ApiFacts
<1>2. Counted(l, s.buffers, dyn, DOMAIN dyn, app, tr) > 0 BY <1>1, CountedNat
<1>3. s.ref[l] > 0 BY <1>1, <1>2 DEF Counts
<1>4. Core(s, Recorded(s, base), {}) BY ApiFacts
<1> QED BY <1>3, <1>4, CoreFacts

LEMMA DrawKept ==
    ASSUME NEW d, NEW W, NEW V, NEW S, DrawFinds(d, W), DrawnLayout(d, W) \in S,
           \A b \in DOMAIN W.buffers : b \in DOMAIN V.buffers /\ V.buffers[b] = W.buffers[b],
           \A k \in DOMAIN W.layouts \intersect S : k \in DOMAIN V.layouts /\ V.layouts[k] = W.layouts[k]
    PROVE  DrawFinds(d, V) /\ DrawnLayout(d, V) \in S
  BY DEF DrawFinds, DrawnLayout

\* What the draws of the frame find.
DrawsFind(s, W) ==
    \A d \in s.frame.draws : DrawFinds(d, W) /\ DrawnLayout(d, W) \in s.layouts

\* A layout found or created.
LEMMA FoundHolds ==
    ASSUME NEW s, NEW base, NEW dyn, NEW fd, NEW aB, NEW app, NEW tr,
           ApiHolds(s, base, dyn, fd, aB, app, tr), NEW h \in Hashes, NEW f \in FindOrCreate(s, h)
    PROVE  /\ Finds(s, Recorded(s, base), f.s, Recorded(f.s, base), f.layout, h)
           /\ DrawsFind(f.s, Recorded(f.s, base))
<1> DEFINE W == Recorded(s, base)
           t == f.s
           V == Recorded(t, base)
           l == f.layout
<1>1. s \in States /\ s.next = <<>> /\ Core(s, W, {}) /\ W.buffers = s.buffers /\ base \in Renderers
  BY ApiFacts
<1>2. LayoutsInUse(s) BY NamedInUse DEF LayoutsInUse
<1>3. Finds(s, W, t, V, l, h) BY <1>1, <1>2, FoundCore
<1>4. ASSUME NEW d \in s.frame.draws
      PROVE  DrawFinds(d, V) /\ DrawnLayout(d, V) \in s.layouts
  <2>1. DrawFinds(d, W) /\ DrawnLayout(d, W) \in s.layouts BY ApiFacts
  <2> HIDE DEF W, V, t, l
  <2>2. V.buffers = W.buffers BY <1>1, <1>3 DEF Finds
  <2>3. \A k \in DOMAIN W.layouts \intersect s.layouts :
           k \in DOMAIN V.layouts /\ V.layouts[k] = W.layouts[k]
    BY <1>3 DEF Finds
  <2> QED BY <2>1, <2>2, <2>3, DrawKept
<1> HIDE DEF W, V, t, l
<1>5. DrawsFind(t, V) BY <1>3, <1>4 DEF DrawsFind, Finds
<1> QED BY <1>3, <1>5 DEF W, V, t, l

\* And counted.
Counting(s, t, l) ==
    /\ \A k \in Layouts : t.ref[k] = s.ref[k] + IF k = l THEN 1 ELSE 0
    /\ t.buffers = s.buffers /\ t.layouts = s.layouts /\ t.next = s.next /\ t.frame = s.frame

LEMMA AddHolds ==
    ASSUME NEW s, NEW base, NEW l \in Layouts, Core(s, Recorded(s, base), {l}), NEW h \in Hashes,
           Ready(s, Recorded(s, base), l, h)
    PROVE  /\ Core(Add(s, l, h), Recorded(Add(s, l, h), base), {})
           /\ Counting(s, Add(s, l, h), l)
           /\ Recorded(Add(s, l, h), base) = Recorded(s, base)
<1> DEFINE t == Add(s, l, h)
           V == Recorded(s, base)
<1>1. s \in States /\ \A k \in Layouts : s.ref[k] \in Nat BY CoreFacts
<1>2. /\ t \in States
      /\ t.buffers = s.buffers /\ t.layouts = s.layouts
      /\ t.ref = [s.ref EXCEPT ![l] = s.ref[l] + 1]
      /\ t.next = s.next /\ t.frame = s.frame
  BY <1>1, AddDoes
<1>3. Core(t, V, {})
  <2> HIDE DEF V
  <2>1. Core(s, V, {l}) /\ Ready(s, V, l, h) BY DEF V
  <2> QED BY <2>1, AddCore
<1>4. Recorded(t, base) = V BY <1>2 DEF Recorded
<1>5. \A k \in Layouts : t.ref[k] = s.ref[k] + IF k = l THEN 1 ELSE 0 BY <1>1, <1>2 DEF States
<1> HIDE DEF t, V
<1> QED BY <1>2, <1>3, <1>4, <1>5 DEF Counting, t, V

\* A new buffer.
BufferAdded(s, W, t, V, b, l) ==
    /\ V.buffers = t.buffers /\ V.layouts = W.layouts
    /\ t.buffers = With(s.buffers, b, l) /\ t.ref = s.ref /\ t.map = s.map /\ t.next = s.next
    /\ t.layouts = s.layouts
    /\ t.frame.post = s.frame.post /\ t.frame.draws = s.frame.draws
    /\ t.frame.freeVertexBuffer = s.frame.freeVertexBuffer
    /\ t.frame.freeVertexLayout = s.frame.freeVertexLayout

LEMMA NewBufferHolds ==
    ASSUME NEW s, NEW base \in Renderers, NEW X, Core(s, Recorded(s, base), X),
           Recorded(s, base).buffers = s.buffers,
           NEW b \in Buffers, b \notin DOMAIN s.buffers,
           NEW l \in AnyLayout, l = NoLayout \/ l \in DOMAIN Recorded(s, base).layouts,
           DrawsFind(s, Recorded(s, base))
    PROVE  /\ Core(NewBuffer(s, b, l), Recorded(NewBuffer(s, b, l), base), X)
           /\ BufferAdded(s, Recorded(s, base), NewBuffer(s, b, l),
                          Recorded(NewBuffer(s, b, l), base), b, l)
           /\ DrawsFind(NewBuffer(s, b, l), Recorded(NewBuffer(s, b, l), base))
<1> DEFINE c == [op |-> "CreateBuffer", buffer |-> b, layout |-> l]
           W == Recorded(s, base)
           t == NewBuffer(s, b, l)
           V == Recorded(t, base)
<1>1. s \in States /\ W \in Renderers /\ W.ok BY CoreFacts
<1>2. /\ t \in States
      /\ t.buffers = With(s.buffers, b, l) /\ t.layouts = s.layouts /\ t.ref = s.ref
      /\ t.map = s.map /\ t.next = s.next
      /\ t.frame.pre = Append(s.frame.pre, c)
      /\ t.frame.post = s.frame.post
      /\ t.frame.draws = s.frame.draws
      /\ t.frame.freeVertexBuffer = s.frame.freeVertexBuffer
      /\ t.frame.freeVertexLayout = s.frame.freeVertexLayout
  BY <1>1, NewBufferDoes
<1>3. c \in Cmds BY DEF Cmds, AnyLayout
<1>4. s.frame.pre \in Seq(Cmds) BY <1>1, FieldsOf
<1>5. V = Execute(W, c) BY <1>2, <1>3, <1>4, ExecutedOne DEF Recorded
<1>6. W.buffers = s.buffers /\ (l = NoLayout \/ l \in DOMAIN W.layouts) /\ Core(s, W, X) OBVIOUS
<1>7. \A d \in s.frame.draws : DrawFinds(d, W) /\ DrawnLayout(d, W) \in s.layouts BY DEF DrawsFind
<1> HIDE DEF W, V, t
<1>8. /\ V \in Renderers /\ V.layouts = W.layouts
      /\ V.buffers = With(W.buffers, b, l)
      /\ V.ok = (W.ok /\ b \notin DOMAIN W.buffers /\ l \in DOMAIN W.layouts \union {NoLayout})
  BY <1>1, <1>5, CreateBufferDoes DEF c
<1>9. V.ok BY <1>1, <1>6, <1>8
<1>10. Core(t, V, X) BY <1>2, <1>6, <1>8, <1>9, CoreSame
<1>11. \A a \in DOMAIN W.buffers : a \in DOMAIN V.buffers /\ V.buffers[a] = W.buffers[a]
  BY <1>6, <1>8 DEF With
<1>12. ASSUME NEW d \in s.frame.draws PROVE DrawFinds(d, V) /\ DrawnLayout(d, V) \in s.layouts
  BY <1>7, <1>8, <1>11, DrawKept
<1>13. BufferAdded(s, W, t, V, b, l) /\ DrawsFind(t, V)
  BY <1>2, <1>6, <1>8, <1>12 DEF BufferAdded, DrawsFind
<1> QED BY <1>10, <1>13 DEF W, V, t

-----------------------------------------------------------------------------

LEMMA CreateVertexLayoutHolds ==
    ASSUME NEW s, NEW base, NEW dyn, NEW fd, NEW aB, NEW app, NEW tr,
           ApiHolds(s, base, dyn, fd, aB, app, tr), NEW h \in Hashes, NEW f \in FindOrCreate(s, h)
    PROVE  ApiHolds(Add(f.s, f.layout, h), base, dyn, fd, aB,
                    [app EXCEPT ![f.layout] = @ + 1], tr)
<1> DEFINE r == f.s
           l == f.layout
           t == Add(r, l, h)
           V == Recorded(r, base)
           U == Recorded(t, base)
           x == app[l] + 1
           a == [app EXCEPT ![l] = x]
<1>1. Finds(s, Recorded(s, base), r, V, l, h) /\ DrawsFind(r, V) BY FoundHolds
<1>2. l \in Layouts /\ Core(r, V, {l}) /\ Ready(r, V, l, h) BY <1>1 DEF Finds
<1>3. Core(t, U, {}) /\ Counting(r, t, l) /\ U = V
  <2> HIDE DEF r, l
  <2> QED BY <1>2, AddHolds
<1>4. /\ DOMAIN dyn \subseteq Dynamics /\ dyn \in [DOMAIN dyn -> [buffer : Buffers, layout : Layouts]]
      /\ app \in [Layouts -> Nat] /\ tr \subseteq Layouts /\ base \in Renderers
      /\ Counts(s, dyn, DOMAIN dyn, app, tr) /\ Owners(s, dyn, fd, aB) /\ Posts(s.frame)
      /\ CountsOf(s.buffers, dyn, DOMAIN dyn, app, tr) /\ s \in States /\ s.next = <<>>
  BY ApiFacts
<1> HIDE DEF r, l, t, V, U
<1>5. x \in Nat /\ app[l] \in Nat BY <1>2, <1>4
<1> HIDE DEF x
<1>6. a \in [Layouts -> Nat] /\ a = [app EXCEPT ![l] = x] BY <1>4, <1>5
<1> HIDE DEF a
<1>7. /\ t.buffers = s.buffers /\ V.buffers = s.buffers /\ t.next = s.next /\ t.layouts = r.layouts
      /\ t.frame = r.frame /\ r.frame.post = s.frame.post
      /\ r.frame.freeVertexBuffer = s.frame.freeVertexBuffer
      /\ \A k \in Layouts : t.ref[k] = s.ref[k] + IF k = l THEN 1 ELSE 0
  BY <1>1, <1>3 DEF Finds, Counting
<1>8. Counts(t, dyn, DOMAIN dyn, a, tr)
  <2> SUFFICES ASSUME NEW k \in Layouts
               PROVE  t.ref[k] = Counted(k, t.buffers, dyn, DOMAIN dyn, a, tr)
    BY DEF Counts
  <2> DEFINE n == IF k = l THEN 1 ELSE 0
  <2>1. n \in Int /\ a[k] = app[k] + n BY <1>2, <1>4, <1>5, <1>6 DEF x
  <2>2. s.ref[k] = Counted(k, s.buffers, dyn, DOMAIN dyn, app, tr) BY <1>4 DEF Counts
  <2>3. t.ref[k] = s.ref[k] + n /\ t.buffers = s.buffers BY <1>7
  <2> HIDE DEF n
  <2>4. Counted(k, s.buffers, dyn, DOMAIN dyn, a, tr)
          = Counted(k, s.buffers, dyn, DOMAIN dyn, app, tr) + n
    BY <1>4, <2>1, CountedApp
  <2> QED BY <2>2, <2>3, <2>4
<1>9. Owners(t, dyn, fd, aB) BY <1>4, <1>7 DEF Owners
<1>10. Posts(t.frame) BY <1>4, <1>7 DEF Posts
<1>11. ApiHolds(t, base, dyn, fd, aB, a, tr)
  BY <1>1, <1>3, <1>4, <1>6, <1>7, <1>8, <1>9, <1>10 DEF ApiHolds, DrawsFind, U
<1> QED BY <1>11 DEF t, a, x, r, l

-----------------------------------------------------------------------------
(* Queues.                                                                  *)

LEMMA AppendOnce ==
    ASSUME NEW T, NEW q \in Seq(T), NEW x \in T
    PROVE  /\ ToSet(Append(q, x)) = ToSet(q) \union {x}
           /\ IsInjective(q) /\ x \notin ToSet(q) => IsInjective(Append(q, x))
<1> DEFINE n == Len(q)
           p == Append(q, x)
<1>1. n \in Nat /\ DOMAIN q = 1 .. n BY LenProperties
<1>2. DOMAIN p = 1 .. n + 1 /\ p[n + 1] = x /\ \A i \in 1 .. n : p[i] = q[i]
  BY AppendProperties, <1>1
<1> HIDE DEF p, n
<1>3. 1 .. n + 1 = (1 .. n) \union {n + 1} /\ n + 1 \notin 1 .. n BY <1>1
<1>4. ToSet(p) = ToSet(q) \union {x} BY <1>1, <1>2, <1>3 DEF ToSet
<1>5. ASSUME IsInjective(q), x \notin ToSet(q) PROVE IsInjective(p)
  <2> SUFFICES ASSUME NEW i \in DOMAIN p, NEW j \in DOMAIN p, p[i] = p[j] PROVE i = j
    BY DEF IsInjective
  <2>1. \A k \in 1 .. n : q[k] # x BY <1>1, <1>5 DEF ToSet
  <2>2. CASE i \in 1 .. n /\ j \in 1 .. n BY <1>1, <1>2, <1>5, <2>2 DEF IsInjective
  <2> QED BY <1>2, <1>3, <2>1, <2>2
<1> QED BY <1>4, <1>5 DEF p

\* A layout no longer counted is put in one of the queues.
Gone(r, W, t, V, l) ==
    /\ t \in States /\ V \in Renderers /\ V.ok
    /\ \A k \in DOMAIN W.layouts \ {l} : k \in DOMAIN V.layouts /\ V.layouts[k] = W.layouts[k]
    /\ t.layouts = r.layouts /\ t.ref = r.ref /\ t.map = r.map
    /\ \/ /\ t.frame.freeVertexLayout = Append(r.frame.freeVertexLayout, l)
          /\ t.next = r.next
       \/ /\ t.next = Append(r.next, l)
          /\ t.frame.freeVertexLayout = r.frame.freeVertexLayout

LEMMA GoneCore ==
    ASSUME NEW r, NEW W, NEW l \in Layouts, Core(r, W, {l}), l \in r.layouts, l \notin Leaving(r),
           r.ref[l] = 0, NEW t, NEW V, Gone(r, W, t, V, l)
    PROVE  Core(t, V, {})
<1> DEFINE q == r.frame.freeVertexLayout
           p == t.frame.freeVertexLayout
           m == r.next
           n == t.next
<1>1. r \in States /\ Maps(r) /\ Waits(r, {l}) /\ Knows(r, W) BY DEF Core
<1>2. q \in Seq(Layouts) /\ m \in Seq(Layouts) BY <1>1, FieldsOf
<1>3. l \notin ToSet(q) /\ l \notin ToSet(m) /\ Leaving(r) = ToSet(q) \union ToSet(m) BY DEF Leaving
<1>4. IsInjective(q) /\ IsInjective(m) /\ ToSet(q) \intersect ToSet(m) = {} BY <1>1 DEF Waits
<1>5. (p = Append(q, l) /\ n = m) \/ (n = Append(m, l) /\ p = q) BY DEF Gone
<1>6. Leaving(t) = ToSet(p) \union ToSet(n) BY DEF Leaving
<1> HIDE DEF p, q, m, n
<1>7. /\ IsInjective(p) /\ IsInjective(n) /\ ToSet(p) \intersect ToSet(n) = {}
      /\ ToSet(p) \union ToSet(n) = ToSet(q) \union ToSet(m) \union {l}
  <2>1. CASE p = Append(q, l) /\ n = m
    <3>1. ToSet(p) = ToSet(q) \union {l} /\ IsInjective(p) BY <1>2, <1>3, <1>4, <2>1, AppendOnce
    <3> QED BY <1>3, <1>4, <2>1, <3>1
  <2>2. CASE n = Append(m, l) /\ p = q
    <3>1. ToSet(n) = ToSet(m) \union {l} /\ IsInjective(n) BY <1>2, <1>3, <1>4, <2>2, AppendOnce
    <3> QED BY <1>3, <1>4, <2>2, <3>1
  <2> QED BY <1>5, <2>1, <2>2
<1>8. Leaving(t) = Leaving(r) \union {l} BY <1>3, <1>6, <1>7
<1>9. /\ t \in States /\ V \in Renderers /\ V.ok
      /\ \A k \in DOMAIN W.layouts \ {l} : k \in DOMAIN V.layouts /\ V.layouts[k] = W.layouts[k]
      /\ t.layouts = r.layouts /\ t.ref = r.ref /\ t.map = r.map
  BY DEF Gone
<1>10. \A k \in Leaving(t) : k \in t.layouts /\ t.ref[k] = 0
  BY <1>1, <1>8, <1>9 DEF Waits
<1>11. ASSUME ~NewInVain, NEW k \in t.layouts, t.ref[k] = 0 PROVE k \in Leaving(t)
  BY <1>1, <1>8, <1>9, <1>11 DEF Waits
<1>12. Waits(t, {}) BY <1>7, <1>10, <1>11 DEF Waits, p, n
<1>13. Maps(t) BY <1>1, <1>9 DEF Maps
<1>14. Knows(t, V)
  <2> SUFFICES ASSUME NEW k \in Layouts, t.ref[k] > 0
               PROVE  k \in DOMAIN V.layouts /\ V.layouts[k] \in DOMAIN t.map /\ t.map[V.layouts[k]] = k
    BY <1>9 DEF Knows
  <2>1. k # l BY <1>9
  <2>2. k \in DOMAIN W.layouts /\ W.layouts[k] \in DOMAIN r.map /\ r.map[W.layouts[k]] = k
    BY <1>1, <1>9 DEF Knows
  <2> QED BY <1>9, <2>1, <2>2
<1> QED BY <1>9, <1>12, <1>13, <1>14 DEF Core

-----------------------------------------------------------------------------
(* What the layouts and buffers are not concerned with.                     *)

LEMMA SameHolds ==
    ASSUME NEW s, NEW base, NEW dyn, NEW fd, NEW aB, NEW app, NEW tr,
           ApiHolds(s, base, dyn, fd, aB, app, tr),
           NEW t \in States, t.buffers = s.buffers, t.layouts = s.layouts, t.ref = s.ref,
           t.map = s.map, t.next = s.next, SameFrame(t.frame, s.frame)
    PROVE  ApiHolds(t, base, dyn, fd, aB, app, tr)
<1> DEFINE W == Recorded(s, base)
           V == Recorded(t, base)
<1>1. V = W BY DEF SameFrame, Recorded
<1>2. Core(s, W, {}) /\ W \in Renderers /\ W.ok BY ApiFacts
<1> HIDE DEF V, W
<1>3. Core(t, V, {}) BY <1>1, <1>2, CoreSame DEF SameFrame
<1>4. Owners(s, dyn, fd, aB) /\ Posts(s.frame) /\ Counts(s, dyn, DOMAIN dyn, app, tr) BY ApiFacts
<1>5. Owners(t, dyn, fd, aB) BY <1>4 DEF Owners, SameFrame
<1>6. Posts(t.frame) BY <1>4 DEF Posts, SameFrame
<1>7. Counts(t, dyn, DOMAIN dyn, app, tr) BY <1>4 DEF Counts
<1>8. W.buffers = s.buffers
      /\ \A d \in s.frame.draws : DrawFinds(d, W) /\ DrawnLayout(d, W) \in s.layouts
  BY ApiFacts DEF W
<1>9. /\ s.next = <<>>
      /\ DOMAIN dyn \subseteq Dynamics /\ dyn \in [DOMAIN dyn -> [buffer : Buffers, layout : Layouts]]
      /\ app \in [Layouts -> Nat] /\ tr \subseteq Layouts
      /\ base \in Renderers
  BY ApiFacts
<1> QED BY <1>1, <1>3, <1>5, <1>6, <1>7, <1>8, <1>9 DEF ApiHolds, SameFrame, V

-----------------------------------------------------------------------------
(* The application's calls.                                                 *)

LEMMA DestroyVertexLayoutHolds ==
    ASSUME NEW s, NEW base, NEW dyn, NEW fd, NEW aB, NEW app, NEW tr,
           ApiHolds(s, base, dyn, fd, aB, app, tr), NEW l \in Layouts, app[l] > 0,
           NEW t, t = IF Release(s, l).ref[l] > 0 THEN Release(s, l)
                      ELSE [Release(s, l) EXCEPT !.frame.freeVertexLayout = Append(@, l)]
    PROVE  ApiHolds(t, base, dyn, fd, aB, [app EXCEPT ![l] = @ - 1], tr)
<1> DEFINE r == Release(s, l)
           W == Recorded(s, base)
           V == Recorded(t, base)
           x == app[l] - 1
           a == [app EXCEPT ![l] = x]
<1>1. /\ DOMAIN dyn \subseteq Dynamics /\ dyn \in [DOMAIN dyn -> [buffer : Buffers, layout : Layouts]]
      /\ app \in [Layouts -> Nat] /\ tr \subseteq Layouts /\ base \in Renderers
      /\ Counts(s, dyn, DOMAIN dyn, app, tr) /\ Owners(s, dyn, fd, aB) /\ Posts(s.frame)
      /\ CountsOf(s.buffers, dyn, DOMAIN dyn, app, tr) /\ s \in States /\ s.next = <<>>
      /\ Core(s, W, {}) /\ W.buffers = s.buffers /\ W \in Renderers /\ W.ok
      /\ \A d \in s.frame.draws : DrawFinds(d, W) /\ DrawnLayout(d, W) \in s.layouts
  BY ApiFacts
<1>2. s.ref[l] > 0 /\ l \in s.layouts BY NamedInUse
<1>3. /\ r \in States /\ r.buffers = s.buffers /\ r.layouts = s.layouts
      /\ r.ref = [s.ref EXCEPT ![l] = s.ref[l] - 1]
      /\ r.next = s.next /\ r.frame = s.frame
  BY <1>1, ReleaseDoes
<1>4. /\ Core(r, W, {l}) /\ l \in r.layouts /\ l \notin Leaving(r)
      /\ r.ref[l] > 0 => Core(r, W, {})
      /\ r.ref[l] \in Nat
  <2> HIDE DEF W
  <2> QED BY <1>1, <1>2, ReleaseCore
<1>5. t = IF r.ref[l] > 0 THEN r ELSE [r EXCEPT !.frame.freeVertexLayout = Append(@, l)]
  OBVIOUS
<1> HIDE DEF r
<1>6. /\ t \in States
      /\ t.buffers = s.buffers /\ t.layouts = s.layouts /\ t.ref = r.ref
      /\ t.map = r.map /\ t.next = s.next
      /\ t.frame.pre = s.frame.pre /\ t.frame.post = s.frame.post
      /\ t.frame.draws = s.frame.draws
      /\ t.frame.freeVertexBuffer = s.frame.freeVertexBuffer
      /\ r.ref[l] > 0 \/ t.frame.freeVertexLayout = Append(r.frame.freeVertexLayout, l)
      /\ r.ref[l] > 0 => t = r
  <2>1. CASE r.ref[l] > 0 BY <1>3, <1>5, <2>1
  <2>2. CASE ~(r.ref[l] > 0)
    <3> DEFINE u == [r EXCEPT !.frame.freeVertexLayout = Append(@, l)]
    <3>1. t = u BY <1>5, <2>2
    <3>2. /\ u \in States
          /\ u.buffers = r.buffers /\ u.layouts = r.layouts /\ u.ref = r.ref
          /\ u.map = r.map /\ u.next = r.next
          /\ u.frame.pre = r.frame.pre /\ u.frame.post = r.frame.post
          /\ u.frame.draws = r.frame.draws
          /\ u.frame.freeVertexBuffer = r.frame.freeVertexBuffer
          /\ u.frame.freeVertexLayout = Append(r.frame.freeVertexLayout, l)
      BY <1>3, QueueDoes
    <3> HIDE DEF u
    <3> QED BY <1>3, <2>2, <3>1, <3>2
  <2> QED BY <2>1, <2>2
<1>7. V = W BY <1>6 DEF Recorded
<1> HIDE DEF V, W, a, x
<1>8. Core(t, V, {})
  <2>1. CASE r.ref[l] > 0 BY <1>4, <1>6, <1>7, <2>1
  <2>2. CASE ~(r.ref[l] > 0)
    <3>1. Gone(r, W, t, V, l) BY <1>1, <1>3, <1>6, <1>7, <2>2 DEF Gone
    <3>2. r.ref[l] = 0 BY <1>4, <2>2
    <3> QED BY <1>4, <3>1, <3>2, GoneCore
  <2> QED BY <2>1, <2>2
<1>9. x \in Nat /\ app[l] \in Nat BY <1>1 DEF x
<1>10. a \in [Layouts -> Nat] /\ \A k \in Layouts : a[k] = IF k = l THEN app[l] - 1 ELSE app[k]
  BY <1>1, <1>9 DEF a, x
<1>11. Counts(t, dyn, DOMAIN dyn, a, tr)
  <2> SUFFICES ASSUME NEW k \in Layouts
               PROVE  t.ref[k] = Counted(k, t.buffers, dyn, DOMAIN dyn, a, tr)
    BY DEF Counts
  <2> DEFINE n == IF k = l THEN -1 ELSE 0
  <2>1. app[k] \in Nat /\ s.ref[k] \in Int BY <1>1 DEF States
  <2>2. n \in Int /\ a[k] = app[k] + n BY <1>9, <1>10, <2>1
  <2>3. s.ref[k] = Counted(k, s.buffers, dyn, DOMAIN dyn, app, tr) BY <1>1 DEF Counts
  <2>4. t.ref[k] = s.ref[k] + n /\ t.buffers = s.buffers
    <3>1. r.ref[k] = IF k = l THEN s.ref[k] - 1 ELSE s.ref[k] BY <1>1, <1>3 DEF States
    <3> QED BY <1>6, <2>1, <3>1
  <2> HIDE DEF n
  <2>5. Counted(k, s.buffers, dyn, DOMAIN dyn, a, tr)
          = Counted(k, s.buffers, dyn, DOMAIN dyn, app, tr) + n
    BY <1>1, <2>2, CountedApp
  <2> QED BY <2>3, <2>4, <2>5
<1>12. Owners(t, dyn, fd, aB) BY <1>1, <1>6 DEF Owners
<1>13. Posts(t.frame) BY <1>1, <1>6 DEF Posts
<1>14. ApiHolds(t, base, dyn, fd, aB, a, tr)
  BY <1>1, <1>6, <1>7, <1>8, <1>10, <1>11, <1>12, <1>13 DEF ApiHolds, V
<1> QED BY <1>14 DEF a, x

LEMMA CreateVertexBufferHolds ==
    ASSUME NEW s, NEW base, NEW dyn, NEW fd, NEW aB, NEW app, NEW tr,
           ApiHolds(s, base, dyn, fd, aB, app, tr),
           NEW b \in Buffers, b \notin DOMAIN s.buffers,
           NEW h \in Hashes, NEW f \in FindOrCreate(s, h)
    PROVE  ApiHolds(NewBuffer(Add(f.s, f.layout, h), b, f.layout), base, dyn, fd, aB \union {b}, app, tr)
<1> DEFINE r == f.s
           l == f.layout
           c == Add(r, l, h)
           t == NewBuffer(c, b, l)
           W == Recorded(s, base)
           R == Recorded(r, base)
           C == Recorded(c, base)
           V == Recorded(t, base)
<1>1. Finds(s, W, r, R, l, h) /\ DrawsFind(r, R) BY FoundHolds
<1>2. l \in Layouts /\ Core(r, R, {l}) /\ Ready(r, R, l, h) BY <1>1 DEF Finds
<1>3. Core(c, C, {}) /\ Counting(r, c, l) /\ C = R
  <2> HIDE DEF r, l
  <2> QED BY <1>2, AddHolds
<1>4. /\ DOMAIN dyn \subseteq Dynamics /\ dyn \in [DOMAIN dyn -> [buffer : Buffers, layout : Layouts]]
      /\ app \in [Layouts -> Nat] /\ tr \subseteq Layouts /\ base \in Renderers
      /\ Counts(s, dyn, DOMAIN dyn, app, tr) /\ Owners(s, dyn, fd, aB) /\ Posts(s.frame)
      /\ CountsOf(s.buffers, dyn, DOMAIN dyn, app, tr) /\ s \in States /\ s.next = <<>>
  BY ApiFacts
<1> HIDE DEF W
<1>5. Core(t, V, {}) /\ BufferAdded(c, C, t, V, b, l) /\ DrawsFind(t, V)
  <2> HIDE DEF r, c, R
  <2>1. C.buffers = c.buffers BY <1>1, <1>3 DEF Finds, Counting
  <2>2. DrawsFind(c, C) BY <1>1, <1>3 DEF DrawsFind, Counting
  <2>3. l \in DOMAIN C.layouts BY <1>2, <1>3 DEF Ready
  <2>4. b \notin DOMAIN c.buffers BY <1>1, <1>3 DEF Finds, Counting
  <2> HIDE DEF l
  <2>5. l \in AnyLayout BY <1>2 DEF AnyLayout
  <2> QED BY <1>2, <1>3, <1>4, <2>1, <2>2, <2>3, <2>4, <2>5, NewBufferHolds
<1> HIDE DEF r, c, l, t, V, C, R
<1>6. /\ t.buffers = With(s.buffers, b, l) /\ V.buffers = t.buffers /\ t.next = s.next
      /\ t.frame.post = s.frame.post
      /\ t.frame.freeVertexBuffer = s.frame.freeVertexBuffer
      /\ \A k \in Layouts : t.ref[k] = s.ref[k] + IF k = l THEN 1 ELSE 0
  BY <1>1, <1>3, <1>5 DEF Finds, Counting, BufferAdded
<1>7. Counts(t, dyn, DOMAIN dyn, app, tr)
  <2> SUFFICES ASSUME NEW k \in Layouts
               PROVE  t.ref[k] = Counted(k, t.buffers, dyn, DOMAIN dyn, app, tr)
    BY DEF Counts
  <2>1. Counted(k, With(s.buffers, b, l), dyn, DOMAIN dyn, app, tr)
           = Counted(k, s.buffers, dyn, DOMAIN dyn, app, tr) + IF l = k THEN 1 ELSE 0
    BY <1>4, CountedBuffer
  <2> QED BY <1>4, <1>6, <2>1 DEF Counts
<1>8. Owners(t, dyn, fd, aB \union {b})
  <2> DEFINE A == aB \union {b}
             q == t.frame.freeVertexBuffer
  <2>1. q = s.frame.freeVertexBuffer BY <1>6
  <2>2. /\ DOMAIN t.buffers = DOMAIN s.buffers \union {b} /\ t.buffers[b] = l
        /\ \A y \in DOMAIN s.buffers : t.buffers[y] = s.buffers[y]
    BY <1>6 DEF With
  <2> HIDE DEF q
  <2>3. Transient \in DOMAIN t.buffers /\ Transient \notin A \union ToSet(q)
    BY <1>4, <2>1, <2>2 DEF Owners
  <2>4. ASSUME NEW d \in DOMAIN dyn
        PROVE  /\ dyn[d].buffer \in DOMAIN t.buffers /\ t.buffers[dyn[d].buffer] = NoLayout
               /\ dyn[d].buffer \notin A \union ToSet(q) \union {Transient}
               /\ \A e \in DOMAIN dyn : dyn[e].buffer = dyn[d].buffer => d = e
    BY <1>4, <2>1, <2>2 DEF Owners
  <2>5. fd \in Seq(DOMAIN dyn) /\ IsInjective(fd) BY <1>4 DEF Owners
  <2>6. A \subseteq DOMAIN t.buffers /\ \A a \in A : t.buffers[a] \in Layouts
    BY <1>2, <1>4, <2>2 DEF Owners
  <2>7. IsInjective(q) /\ ToSet(q) \subseteq DOMAIN t.buffers \ A BY <1>4, <2>1, <2>2 DEF Owners
  <2> QED BY <2>3, <2>4, <2>5, <2>6, <2>7 DEF Owners, q
<1>9. Posts(t.frame) BY <1>4, <1>6 DEF Posts
<1>10. ApiHolds(t, base, dyn, fd, aB \union {b}, app, tr)
  BY <1>4, <1>5, <1>6, <1>7, <1>8, <1>9 DEF ApiHolds, DrawsFind, V
<1> QED BY <1>10 DEF t, c, r, l

LEMMA DestroyVertexBufferHolds ==
    ASSUME NEW s, NEW base, NEW dyn, NEW fd, NEW aB, NEW app, NEW tr,
           ApiHolds(s, base, dyn, fd, aB, app, tr), NEW b \in aB
    PROVE  ApiHolds(Destroy(s, b), base, dyn, fd, aB \ {b}, app, tr)
<1> DEFINE t == Destroy(s, b)
           W == Recorded(s, base)
           V == Recorded(t, base)
           c == [op |-> "DestroyBuffer", buffer |-> b]
<1>1. /\ DOMAIN dyn \subseteq Dynamics /\ dyn \in [DOMAIN dyn -> [buffer : Buffers, layout : Layouts]]
      /\ app \in [Layouts -> Nat] /\ tr \subseteq Layouts /\ base \in Renderers
      /\ Counts(s, dyn, DOMAIN dyn, app, tr) /\ Owners(s, dyn, fd, aB) /\ Posts(s.frame)
      /\ s \in States /\ s.next = <<>>
      /\ Core(s, W, {}) /\ W.buffers = s.buffers /\ W \in Renderers /\ W.ok
      /\ \A d \in s.frame.draws : DrawFinds(d, W) /\ DrawnLayout(d, W) \in s.layouts
  BY ApiFacts
<1>2. b \in DOMAIN s.buffers /\ b \in Buffers
  <2>1. s.buffers \in Some(Buffers, AnyLayout) BY <1>1, FieldsOf
  <2> QED BY <1>1, <2>1, SomeIs DEF Owners
<1>3. /\ t \in States
      /\ t.buffers = s.buffers /\ t.layouts = s.layouts /\ t.ref = s.ref
      /\ t.map = s.map /\ t.next = s.next
      /\ t.frame.pre = s.frame.pre
      /\ t.frame.post = Append(s.frame.post, c)
      /\ t.frame.draws = s.frame.draws
      /\ t.frame.freeVertexBuffer = Append(s.frame.freeVertexBuffer, b)
      /\ t.frame.freeVertexLayout = s.frame.freeVertexLayout
  BY <1>1, <1>2, DestroyDoes
<1>4. V = W BY <1>3 DEF Recorded
<1> HIDE DEF V, W, t
<1>5. Core(t, V, {}) BY <1>1, <1>3, <1>4, CoreSame
<1>6. Counts(t, dyn, DOMAIN dyn, app, tr) BY <1>1, <1>3 DEF Counts
<1> DEFINE q == s.frame.freeVertexBuffer
           p == t.frame.freeVertexBuffer
<1>7. q \in Seq(Buffers) /\ p = Append(q, b) /\ b \notin ToSet(q)
  BY <1>1, <1>3, FieldsOf DEF Owners
<1>8. Owners(t, dyn, fd, aB \ {b})
  <2> DEFINE A == aB \ {b}
  <2>1. IsInjective(q) BY <1>1 DEF Owners
  <2> HIDE DEF q, p
  <2>2. ToSet(p) = ToSet(q) \union {b} /\ IsInjective(p) BY <1>2, <1>7, <2>1, AppendOnce
  <2>3. b # Transient /\ \A d \in DOMAIN dyn : dyn[d].buffer # b BY <1>1 DEF Owners
  <2>4. Transient \in DOMAIN t.buffers /\ Transient \notin A \union ToSet(p)
    BY <1>1, <1>3, <2>2, <2>3 DEF Owners, q
  <2>5. ASSUME NEW d \in DOMAIN dyn
        PROVE  /\ dyn[d].buffer \in DOMAIN t.buffers /\ t.buffers[dyn[d].buffer] = NoLayout
               /\ dyn[d].buffer \notin A \union ToSet(p) \union {Transient}
               /\ \A e \in DOMAIN dyn : dyn[e].buffer = dyn[d].buffer => d = e
    BY <1>1, <1>3, <2>2, <2>3 DEF Owners, q
  <2>6. fd \in Seq(DOMAIN dyn) /\ IsInjective(fd) BY <1>1 DEF Owners
  <2>7. A \subseteq DOMAIN t.buffers /\ \A a \in A : t.buffers[a] \in Layouts
    BY <1>1, <1>3 DEF Owners
  <2>8. ToSet(p) \subseteq DOMAIN t.buffers \ A BY <1>1, <1>2, <1>3, <2>2 DEF Owners, q
  <2> QED BY <2>2, <2>4, <2>5, <2>6, <2>7, <2>8 DEF Owners, p
<1>9. Posts(t.frame)
  <2> DEFINE w == s.frame.post
             v == t.frame.post
  <2>1. /\ Len(w) = Len(q)
        /\ \A i \in 1 .. Len(w) : w[i] = [op |-> "DestroyBuffer", buffer |-> q[i]]
    BY <1>1 DEF Posts
  <2>2. w \in Seq(Cmds) /\ v = Append(w, c) BY <1>1, <1>3, FieldsOf
  <2>3. c \in Cmds BY <1>2 DEF Cmds
  <2> HIDE DEF w, v, q, p, c
  <2>4. Len(w) \in Nat /\ Len(v) = Len(w) + 1 /\ v[Len(w) + 1] = c
        /\ \A i \in 1 .. Len(w) : v[i] = w[i]
    BY <2>2, <2>3, AppendProperties, LenProperties
  <2>5. Len(p) = Len(q) + 1 /\ p[Len(q) + 1] = b /\ \A i \in 1 .. Len(q) : p[i] = q[i]
    BY <1>2, <1>7, AppendProperties
  <2>6. ASSUME NEW i \in 1 .. Len(v) PROVE v[i] = [op |-> "DestroyBuffer", buffer |-> p[i]]
    <3>1. CASE i = Len(w) + 1 BY <2>1, <2>4, <2>5, <3>1 DEF c
    <3>2. CASE i # Len(w) + 1
      <4>1. i \in 1 .. Len(w) BY <2>4, <2>6, <3>2
      <4> QED BY <2>1, <2>4, <2>5, <4>1
    <3> QED BY <3>1, <3>2
  <2>7. Len(v) = Len(p) BY <2>1, <2>4, <2>5
  <2> QED BY <2>6, <2>7 DEF Posts, v, p
<1>10. ApiHolds(t, base, dyn, fd, aB \ {b}, app, tr)
  BY <1>1, <1>3, <1>4, <1>5, <1>6, <1>8, <1>9 DEF ApiHolds, V
<1> QED BY <1>10 DEF t

LEMMA CreateDynamicHolds ==
    ASSUME NEW s, NEW base, NEW dyn, NEW fd, NEW aB, NEW app, NEW tr,
           ApiHolds(s, base, dyn, fd, aB, app, tr),
           NEW d \in Dynamics \ DOMAIN dyn, NEW b \in Buffers \ DOMAIN s.buffers,
           NEW h \in Hashes, NEW f \in FindOrCreate(s, h)
    PROVE  ApiHolds(Add(NewBuffer(f.s, b, NoLayout), f.layout, h), base,
                    With(dyn, d, [buffer |-> b, layout |-> f.layout]), fd, aB, app, tr)
<1> DEFINE r == f.s
           l == f.layout
           c == NewBuffer(r, b, NoLayout)
           t == Add(c, l, h)
           v == [buffer |-> b, layout |-> l]
           e == With(dyn, d, v)
           W == Recorded(s, base)
           R == Recorded(r, base)
           C == Recorded(c, base)
           V == Recorded(t, base)
<1>1. Finds(s, W, r, R, l, h) /\ DrawsFind(r, R) BY FoundHolds
<1>2. l \in Layouts /\ Core(r, R, {l}) /\ Ready(r, R, l, h) BY <1>1 DEF Finds
<1>3. /\ DOMAIN dyn \subseteq Dynamics /\ dyn \in [DOMAIN dyn -> [buffer : Buffers, layout : Layouts]]
      /\ app \in [Layouts -> Nat] /\ tr \subseteq Layouts /\ base \in Renderers
      /\ Counts(s, dyn, DOMAIN dyn, app, tr) /\ Owners(s, dyn, fd, aB) /\ Posts(s.frame)
      /\ CountsOf(s.buffers, dyn, DOMAIN dyn, app, tr) /\ s \in States /\ s.next = <<>>
  BY ApiFacts
<1> HIDE DEF W, v
<1>4. Core(c, C, {l}) /\ BufferAdded(r, R, c, C, b, NoLayout) /\ DrawsFind(c, C)
  <2> HIDE DEF r, l
  <2>1. R.buffers = r.buffers /\ b \notin DOMAIN r.buffers BY <1>1 DEF Finds
  <2>2. NoLayout \in AnyLayout BY DEF AnyLayout
  <2> QED BY <1>1, <1>2, <1>3, <2>1, <2>2, NewBufferHolds
<1> HIDE DEF r, c, R
<1>5. Ready(c, C, l, h)
  BY <1>2, <1>4 DEF Ready, BufferAdded, Leaving
<1>6. Core(t, V, {}) /\ Counting(c, t, l) /\ V = C
  <2> HIDE DEF l
  <2> QED BY <1>2, <1>4, <1>5, AddHolds
<1> HIDE DEF l, t, V, C, e
<1>7. /\ t.buffers = With(s.buffers, b, NoLayout) /\ V.buffers = t.buffers /\ t.next = s.next
      /\ t.frame.post = s.frame.post
      /\ t.frame.freeVertexBuffer = s.frame.freeVertexBuffer
      /\ \A k \in Layouts : t.ref[k] = s.ref[k] + IF k = l THEN 1 ELSE 0
  BY <1>1, <1>4, <1>6 DEF Finds, Counting, BufferAdded
<1>8. /\ DOMAIN e = DOMAIN dyn \union {d} /\ e[d] = v /\ \A y \in DOMAIN dyn : e[y] = dyn[y]
      /\ e \in [DOMAIN e -> [buffer : Buffers, layout : Layouts]] /\ DOMAIN e \subseteq Dynamics
  <2>1. DOMAIN e = DOMAIN dyn \union {d} /\ e[d] = v /\ \A y \in DOMAIN dyn : e[y] = dyn[y]
    BY DEF e, With
  <2>2. v \in [buffer : Buffers, layout : Layouts] BY <1>2 DEF v
  <2>3. e = [y \in DOMAIN e |-> e[y]] BY DEF e, With
  <2>4. \A y \in DOMAIN e : e[y] \in [buffer : Buffers, layout : Layouts] BY <1>3, <2>1, <2>2
  <2> QED BY <1>3, <2>1, <2>3, <2>4
<1>9. Counts(t, e, DOMAIN e, app, tr)
  <2> SUFFICES ASSUME NEW k \in Layouts
               PROVE  t.ref[k] = Counted(k, t.buffers, e, DOMAIN e, app, tr)
    BY DEF Counts
  <2> DEFINE m == With(s.buffers, b, NoLayout)
  <2>1. Counted(k, m, dyn, DOMAIN dyn, app, tr)
           = Counted(k, s.buffers, dyn, DOMAIN dyn, app, tr) + IF NoLayout = k THEN 1 ELSE 0
    BY <1>3, CountedBuffer
  <2>2. m \in Some(Buffers, AnyLayout)
    <3>1. s.buffers \in Some(Buffers, AnyLayout) BY <1>3, FieldsOf
    <3> QED BY <3>1, SomeMore DEF AnyLayout
  <2> HIDE DEF m
  <2>3. CountsOf(m, dyn, DOMAIN dyn, app, tr) BY <1>3, <2>2 DEF CountsOf
  <2>4. Counted(k, m, e, DOMAIN e, app, tr)
           = Counted(k, m, dyn, DOMAIN dyn, app, tr) + IF v.layout = k THEN 1 ELSE 0
    <3>1. Counted(k, m, With(dyn, d, v), DOMAIN dyn \union {d}, app, tr)
             = Counted(k, m, dyn, DOMAIN dyn, app, tr) + IF v.layout = k THEN 1 ELSE 0
      BY <2>3, CountedDynamic
    <3> QED BY <1>8, <3>1 DEF e
  <2>5. v.layout = l /\ NoLayout # k BY NoLayoutAssumption DEF v
  <2>6. t.buffers = m /\ t.ref[k] = s.ref[k] + IF k = l THEN 1 ELSE 0 BY <1>7 DEF m
  <2>7. s.ref[k] = Counted(k, s.buffers, dyn, DOMAIN dyn, app, tr) /\ s.ref[k] \in Int
    BY <1>3 DEF Counts, States
  <2> QED BY <2>1, <2>4, <2>5, <2>6, <2>7
<1>10. Owners(t, e, fd, aB)
  <2> DEFINE q == t.frame.freeVertexBuffer
  <2>1. q = s.frame.freeVertexBuffer BY <1>7
  <2>2. /\ DOMAIN t.buffers = DOMAIN s.buffers \union {b} /\ t.buffers[b] = NoLayout
        /\ \A y \in DOMAIN s.buffers : t.buffers[y] = s.buffers[y]
    BY <1>7 DEF With
  <2>3. v.buffer = b BY DEF v
  <2> HIDE DEF q
  <2>4. Transient \in DOMAIN t.buffers /\ Transient \notin aB \union ToSet(q)
    BY <1>3, <2>1, <2>2 DEF Owners
  <2>5. \A y \in DOMAIN dyn : dyn[y].buffer # b BY <1>3 DEF Owners
  <2>6. ASSUME NEW y \in DOMAIN e
        PROVE  /\ e[y].buffer \in DOMAIN t.buffers /\ t.buffers[e[y].buffer] = NoLayout
               /\ e[y].buffer \notin aB \union ToSet(q) \union {Transient}
    <3>1. CASE y = d BY <1>3, <1>8, <2>1, <2>2, <2>3, <3>1 DEF Owners
    <3>2. CASE y \in DOMAIN dyn BY <1>3, <1>8, <2>1, <2>2, <3>2 DEF Owners
    <3> QED BY <1>8, <3>1, <3>2
  <2>7. ASSUME NEW y \in DOMAIN e, NEW z \in DOMAIN e, e[z].buffer = e[y].buffer PROVE y = z
    <3>1. CASE y \in DOMAIN dyn /\ z \in DOMAIN dyn BY <1>3, <1>8, <2>7, <3>1 DEF Owners
    <3>2. CASE y = d \/ z = d BY <1>8, <2>3, <2>5, <2>7, <3>2
    <3> QED BY <1>8, <3>1, <3>2
  <2>8. fd \in Seq(DOMAIN e) /\ IsInjective(fd)
    <3>1. fd \in Seq(DOMAIN dyn) /\ IsInjective(fd) BY <1>3 DEF Owners
    <3>2. DOMAIN dyn \subseteq DOMAIN e BY <1>8
    <3> HIDE DEF e
    <3>3. fd \in Seq(DOMAIN e) BY <3>1, <3>2
    <3> QED BY <3>1, <3>3
  <2>9. aB \subseteq DOMAIN t.buffers /\ \A a \in aB : t.buffers[a] \in Layouts
    BY <1>3, <2>2 DEF Owners
  <2>10. IsInjective(q) /\ ToSet(q) \subseteq DOMAIN t.buffers \ aB BY <1>3, <2>1, <2>2 DEF Owners
  <2> QED BY <2>4, <2>6, <2>7, <2>8, <2>9, <2>10 DEF Owners, q
<1>11. Posts(t.frame) BY <1>3, <1>7 DEF Posts
<1>12. DrawsFind(t, V) BY <1>4, <1>6 DEF DrawsFind, Counting
<1>13. ApiHolds(t, base, e, fd, aB, app, tr)
  BY <1>3, <1>6, <1>7, <1>8, <1>9, <1>10, <1>11, <1>12 DEF ApiHolds, DrawsFind, V
<1> QED BY <1>13 DEF t, e, c, r, l, v

\* A layout found for a buffer that cannot be created.
LEMMA FailsHolds ==
    ASSUME NEW s, NEW base, NEW dyn, NEW fd, NEW aB, NEW app, NEW tr,
           ApiHolds(s, base, dyn, fd, aB, app, tr),
           NEW h \in Hashes, h \in DOMAIN s.map \/ NewInVain, NEW f \in FindOrCreate(s, h)
    PROVE  ApiHolds(f.s, base, dyn, fd, aB, app, tr)
<1> DEFINE t == f.s
           l == f.layout
           W == Recorded(s, base)
           V == Recorded(t, base)
<1>1. Finds(s, W, t, V, l, h) /\ DrawsFind(t, V) BY FoundHolds
<1>2. /\ DOMAIN dyn \subseteq Dynamics /\ dyn \in [DOMAIN dyn -> [buffer : Buffers, layout : Layouts]]
      /\ app \in [Layouts -> Nat] /\ tr \subseteq Layouts /\ base \in Renderers
      /\ Counts(s, dyn, DOMAIN dyn, app, tr) /\ Owners(s, dyn, fd, aB) /\ Posts(s.frame)
      /\ Core(s, W, {}) /\ s.next = <<>>
  BY ApiFacts
<1>3. CASE h \in DOMAIN s.map
  <2>1. t = s BY <1>1, <1>3 DEF Finds
  <2> QED BY <2>1
<1>4. CASE h \notin DOMAIN s.map
  <2>1. NewInVain BY <1>4
  <2> HIDE DEF t, l, W, V
  <2>2. Core(t, V, {l}) BY <1>1 DEF Finds
  <2>3. Core(t, V, {}) BY <2>1, <2>2 DEF Core, Waits
  <2>4. /\ t.buffers = s.buffers /\ V.buffers = s.buffers /\ t.ref = s.ref /\ t.next = s.next
        /\ t.frame.post = s.frame.post
        /\ t.frame.freeVertexBuffer = s.frame.freeVertexBuffer
    BY <1>1 DEF Finds
  <2>5. Counts(t, dyn, DOMAIN dyn, app, tr) BY <1>2, <2>4 DEF Counts
  <2>6. Owners(t, dyn, fd, aB) BY <1>2, <2>4 DEF Owners
  <2>7. Posts(t.frame) BY <1>2, <2>4 DEF Posts
  <2>8. ApiHolds(t, base, dyn, fd, aB, app, tr)
    BY <1>1, <1>2, <2>3, <2>4, <2>5, <2>6, <2>7 DEF ApiHolds, DrawsFind, V
  <2> QED BY <2>8 DEF t
<1> QED BY <1>3, <1>4

LEMMA DestroyDynamicHolds ==
    ASSUME NEW s, NEW base, NEW dyn, NEW fd, NEW aB, NEW app, NEW tr,
           ApiHolds(s, base, dyn, fd, aB, app, tr), NEW d \in DOMAIN dyn \ ToSet(fd)
    PROVE  ApiHolds(s, base, dyn, Append(fd, d), aB, app, tr)
<1> DEFINE p == Append(fd, d)
<1>1. Owners(s, dyn, fd, aB) BY ApiFacts
<1>2. fd \in Seq(DOMAIN dyn) /\ IsInjective(fd) BY <1>1 DEF Owners
<1>3. p \in Seq(DOMAIN dyn) /\ IsInjective(p) BY <1>2, AppendOnce
<1> HIDE DEF p
<1>4. Owners(s, dyn, p, aB) BY <1>1, <1>3 DEF Owners
<1>5. ApiHolds(s, base, dyn, p, aB, app, tr) BY <1>4 DEF ApiHolds
<1> QED BY <1>5 DEF p

LEMMA DrawHolds ==
    ASSUME NEW s, NEW base, NEW dyn, NEW fd, NEW aB, NEW app, NEW tr,
           ApiHolds(s, base, dyn, fd, aB, app, tr),
           NEW b \in Buffers, NEW l \in AnyLayout, NEW h \in Hashes,
           NEW d, d = [buffer |-> b, layout |-> l, hash |-> h],
           DrawFinds(d, Recorded(s, base)), DrawnLayout(d, Recorded(s, base)) \in s.layouts
    PROVE  ApiHolds(Drawing(s, b, l, h), base, dyn, fd, aB, app, tr)
<1> DEFINE t == Drawing(s, b, l, h)
           W == Recorded(s, base)
           V == Recorded(t, base)
<1>1. /\ DOMAIN dyn \subseteq Dynamics /\ dyn \in [DOMAIN dyn -> [buffer : Buffers, layout : Layouts]]
      /\ app \in [Layouts -> Nat] /\ tr \subseteq Layouts /\ base \in Renderers
      /\ Counts(s, dyn, DOMAIN dyn, app, tr) /\ Owners(s, dyn, fd, aB) /\ Posts(s.frame)
      /\ s \in States /\ s.next = <<>>
      /\ Core(s, W, {}) /\ W.buffers = s.buffers /\ W \in Renderers /\ W.ok
      /\ \A e \in s.frame.draws : DrawFinds(e, W) /\ DrawnLayout(e, W) \in s.layouts
  BY ApiFacts
<1>2. /\ t \in States
      /\ t.buffers = s.buffers /\ t.layouts = s.layouts /\ t.ref = s.ref
      /\ t.map = s.map /\ t.next = s.next
      /\ t.frame.pre = s.frame.pre /\ t.frame.post = s.frame.post
      /\ t.frame.draws = s.frame.draws \union {d}
      /\ t.frame.freeVertexBuffer = s.frame.freeVertexBuffer
      /\ t.frame.freeVertexLayout = s.frame.freeVertexLayout
  BY <1>1, DrawingDoes
<1>3. V = W BY <1>2 DEF Recorded
<1>4. DrawFinds(d, W) /\ DrawnLayout(d, W) \in s.layouts OBVIOUS
<1> HIDE DEF t, V, W
<1>5. Core(t, V, {}) BY <1>1, <1>2, <1>3, CoreSame
<1>6. Counts(t, dyn, DOMAIN dyn, app, tr) BY <1>1, <1>2 DEF Counts
<1>7. Owners(t, dyn, fd, aB) BY <1>1, <1>2 DEF Owners
<1>8. Posts(t.frame) BY <1>1, <1>2 DEF Posts
<1>9. DrawsFind(t, V) BY <1>1, <1>2, <1>3, <1>4 DEF DrawsFind
<1>10. ApiHolds(t, base, dyn, fd, aB, app, tr)
  BY <1>1, <1>2, <1>3, <1>5, <1>6, <1>7, <1>8, <1>9 DEF ApiHolds, DrawsFind, V
<1> QED BY <1>10 DEF t

\* The layout of transient vertices: counted if it is new.
LEMMA NewTransientHolds ==
    ASSUME NEW s, NEW base, NEW dyn, NEW fd, NEW aB, NEW app, NEW tr,
           ApiHolds(s, base, dyn, fd, aB, app, tr),
           NEW h \in Hashes, h \notin DOMAIN s.map, NEW f \in FindOrCreate(s, h)
    PROVE  /\ ApiHolds(Add(f.s, f.layout, h), base, dyn, fd, aB, app, tr \union {f.layout})
           /\ h \in DOMAIN Add(f.s, f.layout, h).map
           /\ f.layout = Add(f.s, f.layout, h).map[h]
<1> DEFINE r == f.s
           l == f.layout
           t == Add(r, l, h)
           W == Recorded(s, base)
           V == Recorded(r, base)
           U == Recorded(t, base)
<1>1. Finds(s, W, r, V, l, h) /\ DrawsFind(r, V) BY FoundHolds
<1>2. l \in Layouts /\ Core(r, V, {l}) /\ Ready(r, V, l, h) BY <1>1 DEF Finds
<1>3. Core(t, U, {}) /\ Counting(r, t, l) /\ U = V
  <2> HIDE DEF r, l
  <2> QED BY <1>2, AddHolds
<1>4. /\ DOMAIN dyn \subseteq Dynamics /\ dyn \in [DOMAIN dyn -> [buffer : Buffers, layout : Layouts]]
      /\ app \in [Layouts -> Nat] /\ tr \subseteq Layouts /\ base \in Renderers
      /\ Counts(s, dyn, DOMAIN dyn, app, tr) /\ Owners(s, dyn, fd, aB) /\ Posts(s.frame)
      /\ CountsOf(s.buffers, dyn, DOMAIN dyn, app, tr) /\ s \in States /\ s.next = <<>>
  BY ApiFacts
<1>5. l \notin s.layouts
  <2>1. l \in Layouts \ s.layouts BY <1>4, FoundDoes
  <2> QED BY <2>1
<1>6. l \notin tr BY <1>2, <1>5, NamedInUse
<1>7. h \in DOMAIN t.map /\ t.map[h] = l
  <2>1. r \in States BY <1>2, CoreFacts
  <2> HIDE DEF r, l
  <2>2. t.map = IF h \in DOMAIN r.map THEN r.map ELSE With(r.map, h, l) BY <1>2, <2>1, AddDoes
  <2> HIDE DEF t
  <2>3. CASE h \in DOMAIN r.map BY <1>2, <2>2, <2>3 DEF Ready
  <2>4. CASE h \notin DOMAIN r.map BY <2>2, <2>4 DEF With
  <2> QED BY <2>3, <2>4
<1> HIDE DEF r, l, t, V, U, W
<1>8. /\ t.buffers = s.buffers /\ U.buffers = s.buffers /\ t.next = s.next
      /\ t.frame.post = s.frame.post /\ t.frame.freeVertexBuffer = s.frame.freeVertexBuffer
      /\ \A k \in Layouts : t.ref[k] = s.ref[k] + IF k = l THEN 1 ELSE 0
  BY <1>1, <1>3 DEF Finds, Counting
<1> DEFINE T == tr \union {l}
<1>9. Counts(t, dyn, DOMAIN dyn, app, T)
  <2> SUFFICES ASSUME NEW k \in Layouts
               PROVE  t.ref[k] = Counted(k, t.buffers, dyn, DOMAIN dyn, app, T)
    BY DEF Counts
  <2>1. Counted(k, s.buffers, dyn, DOMAIN dyn, app, T)
          = Counted(k, s.buffers, dyn, DOMAIN dyn, app, tr) + IF l = k THEN 1 ELSE 0
    BY <1>4, <1>6, CountedTransient
  <2> HIDE DEF T
  <2> QED BY <1>4, <1>8, <2>1 DEF Counts
<1>10. Owners(t, dyn, fd, aB) BY <1>4, <1>8 DEF Owners
<1>11. Posts(t.frame) BY <1>4, <1>8 DEF Posts
<1>12. DrawsFind(t, U) BY <1>1, <1>3 DEF DrawsFind, Counting
<1>13. T \subseteq Layouts BY <1>2, <1>4
<1> HIDE DEF T
<1>14. ApiHolds(t, base, dyn, fd, aB, app, T)
  BY <1>3, <1>4, <1>8, <1>9, <1>10, <1>11, <1>12, <1>13 DEF ApiHolds, DrawsFind, U
<1> QED BY <1>7, <1>14 DEF t, r, l, T

\* The part of the transient buffer and the draw.
LEMMA DrawTransientHolds ==
    ASSUME NEW s, NEW base, NEW dyn, NEW fd, NEW aB, NEW app, NEW tr,
           ApiHolds(s, base, dyn, fd, aB, app, tr),
           NEW h \in DOMAIN s.map, NEW num \in Nat, NEW stride \in Nat \ {0}
    PROVE  ApiHolds(Drawing(TakeVertices(s, num, stride), Transient, s.map[h], h),
                    base, dyn, fd, aB, app, tr)
<1> DEFINE t == TakeVertices(s, num, stride)
           l == s.map[h]
           W == Recorded(s, base)
           d == [buffer |-> Transient, layout |-> l, hash |-> h]
<1>1. s \in States /\ Core(s, W, {}) /\ W.buffers = s.buffers /\ Owners(s, dyn, fd, aB) BY ApiFacts
<1>2. /\ t \in States
      /\ t.buffers = s.buffers /\ t.layouts = s.layouts /\ t.ref = s.ref
      /\ t.map = s.map /\ t.next = s.next
      /\ SameFrame(t.frame, s.frame)
  BY <1>1, TakeVerticesDoes
<1>3. Recorded(t, base) = W BY <1>2 DEF SameFrame, Recorded
<1> HIDE DEF t, W
<1>4. ApiHolds(t, base, dyn, fd, aB, app, tr) BY <1>2, SameHolds
<1>5. h \in Hashes /\ l \in Layouts /\ s.ref[l] > 0 /\ l \in DOMAIN W.layouts /\ W.layouts[l] = h
  BY <1>1, KnownFinds
<1>6. l \in s.layouts BY <1>1, <1>5, CoreFacts
<1> HIDE DEF l
<1>7. d.layout # NoLayout /\ d.layout = l /\ d.buffer = Transient /\ d.hash = h
  BY <1>5, NoLayoutAssumption
<1> HIDE DEF d
<1>8. DrawFinds(d, W) /\ DrawnLayout(d, W) \in t.layouts
  BY <1>1, <1>2, <1>5, <1>6, <1>7 DEF DrawFinds, DrawnLayout, Owners
<1>9. Transient \in Buffers /\ l \in AnyLayout BY <1>5, TransientAssumption DEF AnyLayout
<1>10. ApiHolds(Drawing(t, Transient, l, h), base, dyn, fd, aB, app, tr)
  BY <1>3, <1>4, <1>5, <1>8, <1>9, DrawHolds DEF d
<1> QED BY <1>10 DEF t, l

-----------------------------------------------------------------------------
(* The calls as actions.                                                    *)

LEMMA StateFields ==
    /\ State.buffers = bufferRef /\ State.layouts = layouts /\ State.ref = refCount
    /\ State.map = layoutMap /\ State.frame = submit /\ State.next = render.freeVertexLayout
  BY DEF State

LEMMA BecomesIs ==
    ASSUME NEW t \in States, Becomes(t), t.next = render'.freeVertexLayout
    PROVE  State' = t
<1>1. t = [buffers |-> t.buffers, layouts |-> t.layouts, ref |-> t.ref, map |-> t.map,
           frame |-> t.frame, next |-> t.next]
  BY DEF States
<1>2. State' = [buffers |-> bufferRef', layouts |-> layouts', ref |-> refCount', map |-> layoutMap',
                frame |-> submit', next |-> render'.freeVertexLayout]
  BY Zenon DEF State
<1>3. State' = [buffers |-> t.buffers, layouts |-> t.layouts, ref |-> t.ref, map |-> t.map,
                frame |-> t.frame, next |-> t.next]
  BY <1>2, Zenon DEF Becomes
<1> QED BY <1>1, <1>3, Zenon

LEMMA RenderKept ==
    ASSUME RenderInv, UNCHANGED rendVars, calls' \in 0 .. MaxCalls
    PROVE  RenderInv' /\ Base' = Base
<1>1. render' = render /\ rendering' = rendering /\ rBuffers' = rBuffers /\ rLayouts' = rLayouts
  BY DEF rendVars
<1>2. Renderer' = Renderer BY <1>1 DEF Renderer
<1>3. WhenDrawing' = WhenDrawing BY <1>1, <1>2 DEF WhenDrawing
<1>4. WhenDone' = WhenDone BY <1>1, <1>3 DEF WhenDone
<1>5. Base' = Base BY <1>1, <1>2, <1>4, Zenon DEF Base
<1>6. RenderInv' BY <1>1, <1>2, <1>3, <1>4 DEF RenderInv
<1> QED BY <1>5, <1>6

\* A call that leaves the renderer alone.
LEMMA CallHolds ==
    ASSUME LayoutInv, MayCall, UNCHANGED rendVars,
           NEW t, Becomes(t), NEW dyn, NEW fd, NEW aB, NEW app, NEW tr,
           ApiHolds(t, Base, dyn, fd, aB, app, tr),
           dvb' = dyn, freeDynamic' = fd, appBuffers' = aB, appLayouts' = app, transient' = tr
    PROVE  LayoutInv'
<1>1. ApiInv /\ RenderInv BY DEF LayoutInv
<1>2. calls' \in 0 .. MaxCalls BY <1>1, BoundsAssumption DEF RenderInv, MayCall
<1>3. RenderInv' /\ Base' = Base BY <1>1, <1>2, RenderKept
<1>4. t \in States /\ t.next = <<>> BY ApiFacts
<1>5. State.next = <<>> BY <1>1, ApiFacts DEF ApiInv
<1>6. render'.freeVertexLayout = <<>> BY <1>5, StateFields DEF rendVars
<1>7. State' = t BY <1>4, <1>6, BecomesIs
<1> DEFINE B == Base
<1>8. ApiHolds(t, B, dyn, fd, aB, app, tr) OBVIOUS
<1> HIDE DEF B
<1>9. Base' = B BY <1>3 DEF B
<1>10. ApiInv' BY <1>7, <1>8, <1>9, Zenon DEF ApiInv
<1> QED BY <1>3, <1>10 DEF LayoutInv

LEMMA CreateVertexLayoutStep ==
    ASSUME LayoutInv, NEW h \in Hashes, CreateVertexLayout(h) PROVE LayoutInv'
<1>1. PICK f \in FindOrCreate(State, h) :
         /\ Becomes(Add(f.s, f.layout, h))
         /\ appLayouts' = [appLayouts EXCEPT ![f.layout] = @ + 1]
  BY DEF CreateVertexLayout
<1>2. ApiHolds(State, Base, dvb, freeDynamic, appBuffers, appLayouts, transient)
  BY DEF LayoutInv, ApiInv
<1>3. ApiHolds(Add(f.s, f.layout, h), Base, dvb, freeDynamic, appBuffers,
               [appLayouts EXCEPT ![f.layout] = @ + 1], transient)
  BY <1>2, CreateVertexLayoutHolds
<1>4. /\ MayCall /\ UNCHANGED rendVars /\ dvb' = dvb /\ freeDynamic' = freeDynamic
      /\ appBuffers' = appBuffers /\ transient' = transient
  BY DEF CreateVertexLayout
<1> DEFINE t == Add(f.s, f.layout, h)
           a == [appLayouts EXCEPT ![f.layout] = @ + 1]
<1>5. ApiHolds(t, Base, dvb, freeDynamic, appBuffers, a, transient) /\ Becomes(t) /\ appLayouts' = a
  BY <1>1, <1>3
<1> HIDE DEF t, a
<1> QED BY <1>4, <1>5, CallHolds

LEMMA DestroyVertexLayoutStep ==
    ASSUME LayoutInv, NEW l \in Layouts, DestroyVertexLayout(l) PROVE LayoutInv'
<1> DEFINE r == Release(State, l)
           t == IF r.ref[l] > 0 THEN r ELSE [r EXCEPT !.frame.freeVertexLayout = Append(@, l)]
           a == [appLayouts EXCEPT ![l] = @ - 1]
<1>1. /\ MayCall /\ UNCHANGED rendVars /\ dvb' = dvb /\ freeDynamic' = freeDynamic
      /\ appBuffers' = appBuffers /\ transient' = transient
      /\ appLayouts[l] > 0 /\ Becomes(t) /\ appLayouts' = a
  BY DEF DestroyVertexLayout
<1>2. ApiHolds(State, Base, dvb, freeDynamic, appBuffers, appLayouts, transient)
  BY DEF LayoutInv, ApiInv
<1>3. ApiHolds(t, Base, dvb, freeDynamic, appBuffers, a, transient)
  BY <1>1, <1>2, DestroyVertexLayoutHolds
<1> HIDE DEF t, a
<1> QED BY <1>1, <1>3, CallHolds

LEMMA CreateVertexBufferStep ==
    ASSUME LayoutInv, NEW h \in Hashes, NEW b \in Buffers, CreateVertexBuffer(b, h) PROVE LayoutInv'
<1>1. PICK f \in FindOrCreate(State, h) : Becomes(NewBuffer(Add(f.s, f.layout, h), b, f.layout))
  BY DEF CreateVertexBuffer
<1> DEFINE t == NewBuffer(Add(f.s, f.layout, h), b, f.layout)
           a == appBuffers \union {b}
<1>2. ApiHolds(State, Base, dvb, freeDynamic, appBuffers, appLayouts, transient)
  BY DEF LayoutInv, ApiInv
<1>3. b \notin DOMAIN State.buffers BY StateFields DEF CreateVertexBuffer, buffers
<1>4. ApiHolds(t, Base, dvb, freeDynamic, a, appLayouts, transient)
  BY <1>2, <1>3, CreateVertexBufferHolds
<1>5. /\ MayCall /\ UNCHANGED rendVars /\ dvb' = dvb /\ freeDynamic' = freeDynamic
      /\ appBuffers' = a /\ appLayouts' = appLayouts /\ transient' = transient
      /\ Becomes(t)
  BY <1>1 DEF CreateVertexBuffer
<1> HIDE DEF t, a
<1> QED BY <1>4, <1>5, CallHolds

LEMMA DestroyVertexBufferStep ==
    ASSUME LayoutInv, NEW b \in Buffers, DestroyVertexBuffer(b) PROVE LayoutInv'
<1> DEFINE t == Destroy(State, b)
           a == appBuffers \ {b}
<1>1. /\ MayCall /\ UNCHANGED rendVars /\ dvb' = dvb /\ freeDynamic' = freeDynamic
      /\ appBuffers' = a /\ appLayouts' = appLayouts /\ transient' = transient
      /\ b \in appBuffers /\ Becomes(t)
  BY DEF DestroyVertexBuffer
<1>2. ApiHolds(State, Base, dvb, freeDynamic, appBuffers, appLayouts, transient)
  BY DEF LayoutInv, ApiInv
<1>3. ApiHolds(t, Base, dvb, freeDynamic, a, appLayouts, transient)
  BY <1>1, <1>2, DestroyVertexBufferHolds
<1> HIDE DEF t, a
<1> QED BY <1>1, <1>3, CallHolds

LEMMA CreateDynamicStep ==
    ASSUME LayoutInv, NEW h \in Hashes, NEW d \in Dynamics, CreateDynamicVertexBuffer(d, h) PROVE LayoutInv'
<1>1. PICK f \in FindOrCreate(State, h), b \in Buffers \ buffers :
         /\ Becomes(Add(NewBuffer(f.s, b, NoLayout), f.layout, h))
         /\ dvb' = With(dvb, d, [buffer |-> b, layout |-> f.layout])
  BY DEF CreateDynamicVertexBuffer
<1> DEFINE t == Add(NewBuffer(f.s, b, NoLayout), f.layout, h)
           e == With(dvb, d, [buffer |-> b, layout |-> f.layout])
<1>2. ApiHolds(State, Base, dvb, freeDynamic, appBuffers, appLayouts, transient)
  BY DEF LayoutInv, ApiInv
<1>3. b \in Buffers \ DOMAIN State.buffers /\ d \in Dynamics \ DOMAIN dvb
  BY <1>1, StateFields DEF CreateDynamicVertexBuffer, buffers, dynamics
<1>4. ApiHolds(t, Base, e, freeDynamic, appBuffers, appLayouts, transient)
  BY <1>2, <1>3, CreateDynamicHolds
<1>5. /\ MayCall /\ UNCHANGED rendVars /\ dvb' = e /\ freeDynamic' = freeDynamic
      /\ appBuffers' = appBuffers /\ appLayouts' = appLayouts /\ transient' = transient
      /\ Becomes(t)
  BY <1>1 DEF CreateDynamicVertexBuffer, appVars
<1> HIDE DEF t, e
<1> QED BY <1>4, <1>5, CallHolds

LEMMA CreateDynamicFailsStep ==
    ASSUME LayoutInv, NEW h \in Hashes, CreateDynamicVertexBufferFails(h) PROVE LayoutInv'
<1>1. PICK f \in FindOrCreate(State, h) : Becomes(f.s)
  BY DEF CreateDynamicVertexBufferFails
<1> DEFINE t == f.s
<1>2. ApiHolds(State, Base, dvb, freeDynamic, appBuffers, appLayouts, transient)
  BY DEF LayoutInv, ApiInv
<1>3. h \in DOMAIN State.map \/ NewInVain
  BY StateFields DEF CreateDynamicVertexBufferFails, Known
<1>4. ApiHolds(t, Base, dvb, freeDynamic, appBuffers, appLayouts, transient)
  BY <1>2, <1>3, FailsHolds
<1>5. /\ MayCall /\ UNCHANGED rendVars /\ dvb' = dvb /\ freeDynamic' = freeDynamic
      /\ appBuffers' = appBuffers /\ appLayouts' = appLayouts /\ transient' = transient
      /\ Becomes(t)
  BY <1>1 DEF CreateDynamicVertexBufferFails, appVars
<1> HIDE DEF t
<1> QED BY <1>4, <1>5, CallHolds

LEMMA DestroyDynamicStep ==
    ASSUME LayoutInv, NEW d \in Dynamics, DestroyDynamicVertexBuffer(d) PROVE LayoutInv'
<1> DEFINE p == Append(freeDynamic, d)
<1>1. ApiHolds(State, Base, dvb, freeDynamic, appBuffers, appLayouts, transient)
  BY DEF LayoutInv, ApiInv
<1>2. /\ MayCall /\ UNCHANGED rendVars /\ dvb' = dvb /\ freeDynamic' = p
      /\ appBuffers' = appBuffers /\ appLayouts' = appLayouts /\ transient' = transient
      /\ d \in DOMAIN dvb \ ToSet(freeDynamic)
  BY DEF DestroyDynamicVertexBuffer, appVars, dynamics
<1>3. ApiHolds(State, Base, dvb, p, appBuffers, appLayouts, transient)
  BY <1>1, <1>2, DestroyDynamicHolds
<1>4. Becomes(State) BY StateFields DEF Becomes, DestroyDynamicVertexBuffer, layoutVars
<1> HIDE DEF p
<1> DEFINE s == State
<1>5. ApiHolds(s, Base, dvb, p, appBuffers, appLayouts, transient) /\ Becomes(s) BY <1>3, <1>4
<1> HIDE DEF s
<1> QED BY <1>2, <1>5, CallHolds

-----------------------------------------------------------------------------

LEMMA HashOfIs ==
    ASSUME NEW l, l \in Range(layoutMap)
    PROVE  HashOf(l) \in DOMAIN layoutMap /\ layoutMap[HashOf(l)] = l
<1>1. \E h \in DOMAIN layoutMap : layoutMap[h] = l BY DEF Range
<1> QED BY <1>1, Zenon DEF HashOf

\* A draw of a buffer in use and a layout that is counted.
LEMMA DrawNamedHolds ==
    ASSUME LayoutInv, NEW b \in DOMAIN bufferRef, NEW l \in AnyLayout,
           NEW k \in Layouts, k = IF l = NoLayout THEN bufferRef[b] ELSE l, refCount[k] > 0
    PROVE  ApiHolds(Drawing(State, b, l, HashOf(k)), Base, dvb, freeDynamic,
                    appBuffers, appLayouts, transient)
<1> DEFINE s == State
           W == Recorded(s, Base)
           h == HashOf(k)
           d == [buffer |-> b, layout |-> l, hash |-> h]
<1>1. ApiHolds(s, Base, dvb, freeDynamic, appBuffers, appLayouts, transient)
  BY DEF LayoutInv, ApiInv
<1>2. s \in States /\ Core(s, W, {}) /\ W.buffers = s.buffers BY <1>1, ApiFacts
<1>3. s.buffers = bufferRef /\ s.ref = refCount /\ s.map = layoutMap BY StateFields
<1>4. h \in DOMAIN s.map /\ s.map[h] = k
  <2>1. k \in Range(layoutMap) BY <1>2, <1>3 DEF Core, Maps
  <2> QED BY <1>3, <2>1, HashOfIs
<1>5. b \in Buffers
  <2>1. s.buffers \in Some(Buffers, AnyLayout) BY <1>2, FieldsOf
  <2> QED BY <1>3, <2>1, SomeIs
<1> HIDE DEF s, W, h
<1>6. h \in Hashes /\ k \in DOMAIN W.layouts /\ W.layouts[k] = h BY <1>2, <1>4, KnownFinds
<1>7. k \in s.layouts BY <1>2, <1>3, CoreFacts
<1>8. d.layout = l /\ d.buffer = b /\ d.hash = h OBVIOUS
<1> HIDE DEF d
<1>9. DrawnLayout(d, W) = k BY <1>2, <1>3, <1>8 DEF DrawnLayout
<1>10. DrawFinds(d, W) BY <1>2, <1>3, <1>6, <1>8 DEF DrawFinds
<1>11. ApiHolds(Drawing(s, b, l, h), Base, dvb, freeDynamic, appBuffers, appLayouts, transient)
  BY <1>1, <1>5, <1>6, <1>7, <1>9, <1>10, DrawHolds DEF W, d
<1> QED BY <1>11 DEF s, h

LEMMA DrawStaticStep ==
    ASSUME LayoutInv, NEW b \in Buffers, NEW l \in Layouts \union {NoLayout}, DrawStatic(b, l) PROVE LayoutInv'
<1> DEFINE k == IF l = NoLayout THEN bufferRef[b] ELSE l
           t == Drawing(State, b, l, HashOf(k))
<1>1. /\ MayCall /\ UNCHANGED rendVars /\ dvb' = dvb /\ freeDynamic' = freeDynamic
      /\ appBuffers' = appBuffers /\ appLayouts' = appLayouts /\ transient' = transient
      /\ b \in appBuffers /\ (l # NoLayout => appLayouts[l] > 0) /\ Becomes(t)
  BY DEF DrawStatic, appVars
<1>2. ApiHolds(State, Base, dvb, freeDynamic, appBuffers, appLayouts, transient)
  BY DEF LayoutInv, ApiInv
<1>3. b \in DOMAIN State.buffers /\ State.buffers[b] \in Layouts
  BY <1>1, <1>2, ApiFacts DEF Owners
<1>4. State.buffers = bufferRef /\ State.ref = refCount BY StateFields
<1>5. k \in Layouts BY <1>3, <1>4
<1>6. refCount[k] > 0
  <2>1. (\E c \in DOMAIN State.buffers : State.buffers[c] = k) \/ appLayouts[k] > 0
    BY <1>1, <1>3, <1>4
  <2> HIDE DEF k
  <2> QED BY <1>2, <1>4, <1>5, <2>1, NamedInUse
<1>7. l \in AnyLayout BY DEF AnyLayout
<1>8. k = IF l = NoLayout THEN bufferRef[b] ELSE l OBVIOUS
<1> HIDE DEF k
<1>9. ApiHolds(t, Base, dvb, freeDynamic, appBuffers, appLayouts, transient)
  BY <1>3, <1>4, <1>5, <1>6, <1>7, <1>8, DrawNamedHolds
<1> HIDE DEF t
<1> QED BY <1>1, <1>9, CallHolds

LEMMA DrawDynamicStep ==
    ASSUME LayoutInv, NEW d \in Dynamics, DrawDynamic(d) PROVE LayoutInv'
<1> DEFINE b == dvb[d].buffer
           l == dvb[d].layout
           t == Drawing(State, b, l, HashOf(l))
<1>1. /\ MayCall /\ UNCHANGED rendVars /\ dvb' = dvb /\ freeDynamic' = freeDynamic
      /\ appBuffers' = appBuffers /\ appLayouts' = appLayouts /\ transient' = transient
      /\ d \in DOMAIN dvb /\ Becomes(t)
  BY DEF DrawDynamic, appVars, dynamics
<1>2. ApiHolds(State, Base, dvb, freeDynamic, appBuffers, appLayouts, transient)
  BY DEF LayoutInv, ApiInv
<1>3. b \in DOMAIN State.buffers /\ l \in Layouts
  <2>1. Owners(State, dvb, freeDynamic, appBuffers)
        /\ dvb \in [DOMAIN dvb -> [buffer : Buffers, layout : Layouts]]
    BY <1>2, ApiFacts
  <2> QED BY <1>1, <2>1 DEF Owners
<1>4. State.buffers = bufferRef /\ State.ref = refCount BY StateFields
<1>5. refCount[l] > 0
  <2>1. \E e \in DOMAIN dvb : dvb[e].layout = l BY <1>1
  <2> HIDE DEF l
  <2> QED BY <1>2, <1>3, <1>4, <2>1, NamedInUse
<1>6. l \in AnyLayout /\ l = IF l = NoLayout THEN bufferRef[b] ELSE l
  BY <1>3, NoLayoutAssumption DEF AnyLayout
<1> HIDE DEF l, b
<1>7. ApiHolds(t, Base, dvb, freeDynamic, appBuffers, appLayouts, transient)
  BY <1>3, <1>4, <1>5, <1>6, DrawNamedHolds
<1> HIDE DEF t
<1> QED BY <1>1, <1>7, CallHolds

LEMMA DrawTransientStep ==
    ASSUME LayoutInv, NEW h \in Hashes, NEW num \in Nums, DrawTransient(h, num) PROVE LayoutInv'
<1> DEFINE s(f) == IF Known(h) THEN f.s ELSE Add(f.s, f.layout, h)
           T(f) == IF Known(h) THEN transient ELSE transient \union {f.layout}
<1>1. PICK f \in FindOrCreate(State, h) :
         /\ Becomes(Drawing(TakeVertices(s(f), num, Stride[h]), Transient, f.layout, h))
         /\ transient' = T(f)
  BY DEF DrawTransient
<1>2. ApiHolds(State, Base, dvb, freeDynamic, appBuffers, appLayouts, transient)
  BY DEF LayoutInv, ApiInv
<1>3. State \in States /\ State.map = layoutMap BY <1>2, ApiFacts, StateFields
<1> DEFINE r == s(f)
           l == f.layout
           U == T(f)
<1>4. /\ ApiHolds(r, Base, dvb, freeDynamic, appBuffers, appLayouts, U)
      /\ h \in DOMAIN r.map /\ l = r.map[h]
  <2>1. CASE Known(h)
    <3>1. h \in DOMAIN State.map BY <1>3, <2>1 DEF Known
    <3>2. l = State.map[h] /\ f.s = State BY <1>3, <3>1, FoundDoes
    <3> QED BY <1>2, <2>1, <3>1, <3>2
  <2>2. CASE ~Known(h)
    <3>1. h \notin DOMAIN State.map BY <1>3, <2>2 DEF Known
    <3>2. /\ ApiHolds(Add(f.s, f.layout, h), Base, dvb, freeDynamic, appBuffers, appLayouts,
                      transient \union {f.layout})
          /\ h \in DOMAIN Add(f.s, f.layout, h).map
          /\ f.layout = Add(f.s, f.layout, h).map[h]
      BY <1>2, <3>1, NewTransientHolds
    <3> QED BY <2>2, <3>2
  <2> QED BY <2>1, <2>2
<1> DEFINE t == Drawing(TakeVertices(r, num, Stride[h]), Transient, l, h)
<1>5. Becomes(t) /\ transient' = U BY <1>1
<1> HIDE DEF r, l, U, s, T
<1>6. num \in Nat /\ Stride[h] \in Nat \ {0} BY SizesAssumption, StrideAssumption
<1>7. ApiHolds(t, Base, dvb, freeDynamic, appBuffers, appLayouts, U)
  <2> DEFINE k == Stride[h]
             m == r.map[h]
  <2>1. num \in Nat /\ k \in Nat \ {0} BY <1>6
  <2>2. l = m BY <1>4
  <2>3. t = Drawing(TakeVertices(r, num, k), Transient, m, h) BY <2>2
  <2> HIDE DEF k, t
  <2>4. ApiHolds(Drawing(TakeVertices(r, num, k), Transient, m, h),
                 Base, dvb, freeDynamic, appBuffers, appLayouts, U)
    BY <1>4, <2>1, DrawTransientHolds
  <2> QED BY <2>3, <2>4
<1>8. /\ MayCall /\ UNCHANGED rendVars /\ dvb' = dvb /\ freeDynamic' = freeDynamic
      /\ appBuffers' = appBuffers /\ appLayouts' = appLayouts
  BY DEF DrawTransient
<1> HIDE DEF t
<1> QED BY <1>5, <1>7, <1>8, CallHolds

LEMMA AllocStep ==
    ASSUME LayoutInv, NEW num \in Nums,
           AllocInstanceData(num) \/ \E size \in {2, 4} : AllocTransientIndices(num, size)
    PROVE  LayoutInv'
<1>1. ApiHolds(State, Base, dvb, freeDynamic, appBuffers, appLayouts, transient)
  BY DEF LayoutInv, ApiInv
<1> DEFINE s == State
<1>2. s \in States BY <1>1, ApiFacts
<1>3. num \in Nat BY SizesAssumption
<1>4. PICK t : /\ Becomes(t) /\ t \in States
               /\ t.buffers = s.buffers /\ t.layouts = s.layouts /\ t.ref = s.ref
               /\ t.map = s.map /\ t.next = s.next
               /\ SameFrame(t.frame, s.frame)
  <2>1. CASE AllocInstanceData(num)
    <3> DEFINE t == TakeVertices(s, num, 16)
    <3>1. /\ t \in States
          /\ t.buffers = s.buffers /\ t.layouts = s.layouts /\ t.ref = s.ref
          /\ t.map = s.map /\ t.next = s.next
          /\ SameFrame(t.frame, s.frame)
      BY <1>2, <1>3, TakeVerticesDoes
    <3>2. Becomes(t) BY <2>1 DEF AllocInstanceData
    <3> HIDE DEF t
    <3> QED BY <3>1, <3>2
  <2>2. ASSUME NEW size \in {2, 4}, AllocTransientIndices(num, size)
        PROVE  \E t : /\ Becomes(t) /\ t \in States
                      /\ t.buffers = s.buffers /\ t.layouts = s.layouts /\ t.ref = s.ref
                      /\ t.map = s.map /\ t.next = s.next
                      /\ SameFrame(t.frame, s.frame)
    <3> DEFINE t == TakeIndices(s, num, size)
    <3>1. size \in Nat \ {0} OBVIOUS
    <3>2. /\ t \in States
          /\ t.buffers = s.buffers /\ t.layouts = s.layouts /\ t.ref = s.ref
          /\ t.map = s.map /\ t.next = s.next
          /\ SameFrame(t.frame, s.frame)
      BY <1>2, <1>3, <3>1, TakeIndicesDoes
    <3>3. Becomes(t) BY <2>2 DEF AllocTransientIndices
    <3> HIDE DEF t
    <3> QED BY <3>2, <3>3
  <2> QED BY <2>1, <2>2
<1> HIDE DEF s
<1>5. ApiHolds(t, Base, dvb, freeDynamic, appBuffers, appLayouts, transient)
  BY <1>1, <1>4, SameHolds DEF s
<1>6. /\ MayCall /\ UNCHANGED rendVars /\ dvb' = dvb /\ freeDynamic' = freeDynamic
      /\ appBuffers' = appBuffers /\ appLayouts' = appLayouts /\ transient' = transient
  BY DEF AllocInstanceData, AllocTransientIndices, appVars
<1> QED BY <1>4, <1>5, <1>6, CallHolds

-----------------------------------------------------------------------------
(* The renderer is done with a frame.                                       *)

LEMMA EmptyFrameIs ==
    /\ EmptyFrame \in AnyFrames
    /\ EmptyFrame.pre = <<>> /\ EmptyFrame.post = <<>> /\ EmptyFrame.draws = {}
    /\ EmptyFrame.freeVertexBuffer = <<>> /\ EmptyFrame.freeVertexLayout = <<>>
<1>1. <<>> \in Seq(Cmds) /\ <<>> \in Seq(Buffers) /\ <<>> \in Seq(Layouts) OBVIOUS
<1>2. {} \in SUBSET Draws /\ {} \in SUBSET [first : Int, end : Int] /\ 0 \in Int OBVIOUS
<1> QED BY <1>1, <1>2, Zenon DEF EmptyFrame, AnyFrames

LEMMA RendererIs ==
    ASSUME RenderInv, rendering
    PROVE  WhenDone \in Renderers /\ WhenDrawing \in Renderers
<1>1. render.pre \in Seq(Cmds) /\ render.post \in Seq(Cmds) BY DEF RenderInv, AnyFrames
<1>2. Renderer \in Renderers BY DEF RenderInv
<1>3. WhenDrawing \in Renderers BY <1>1, <1>2, ExecutedType DEF WhenDrawing
<1> QED BY <1>1, <1>3, ExecutedType DEF WhenDone

LEMMA RenderFrameStep ==
    ASSUME LayoutInv, RenderFrame PROVE LayoutInv'
<1>1. RenderInv /\ rendering BY DEF LayoutInv, RenderFrame
<1>2. WhenDone \in Renderers /\ WhenDone.ok BY <1>1, RendererIs DEF RenderInv
<1>3. Base = WhenDone BY <1>1 DEF Base
<1> DEFINE W == WhenDone
<1>4. W = [buffers |-> W.buffers, layouts |-> W.layouts, ok |-> W.ok] BY <1>2 DEF Renderers
<1>5. W.ok = TRUE BY <1>2 DEF Renderers
<1>6. rBuffers' = W.buffers /\ rLayouts' = W.layouts /\ ~rendering' /\ rendering' \in BOOLEAN
      /\ render' = EmptyFrame
  BY DEF RenderFrame
<1>7. W \in Renderers BY <1>2
<1> HIDE DEF W
<1>8. Renderer' = W
  <2>1. Renderer' = [buffers |-> W.buffers, layouts |-> W.layouts, ok |-> TRUE]
    BY <1>6, Zenon DEF Renderer
  <2> QED BY <1>4, <1>5, <2>1
<1>9. Base' = W BY <1>6, <1>8, Zenon DEF Base
<1>10. State.next = <<>> BY ApiFacts DEF LayoutInv, ApiInv
<1>11. State' = State
  <2>1. render'.freeVertexLayout = render.freeVertexLayout
    BY <1>6, <1>10, EmptyFrameIs, StateFields
  <2>2. /\ bufferRef' = bufferRef /\ layouts' = layouts /\ refCount' = refCount
        /\ layoutMap' = layoutMap /\ submit' = submit
    BY DEF RenderFrame, bufferVars, layoutVars
  <2> QED BY <2>1, <2>2, Zenon DEF State
<1>12. ApiHolds(State, W, dvb, freeDynamic, appBuffers, appLayouts, transient)
  BY <1>3 DEF LayoutInv, ApiInv, W
<1>13. ApiInv'
  <2>1. dvb' = dvb /\ freeDynamic' = freeDynamic /\ appBuffers' = appBuffers
        /\ appLayouts' = appLayouts /\ transient' = transient
    BY DEF RenderFrame, bufferVars, appVars
  <2> QED BY <1>9, <1>11, <1>12, <2>1, Zenon DEF ApiInv
<1>14. calls' = calls BY DEF RenderFrame
<1>15. RenderInv' BY <1>1, <1>6, <1>7, <1>8, <1>14, EmptyFrameIs DEF RenderInv
<1> QED BY <1>13, <1>15 DEF LayoutInv

-----------------------------------------------------------------------------
(* After init.                                                              *)

LEMMA InitHolds == ASSUME Init PROVE LayoutInv
<1> DEFINE B == [b \in {Transient} |-> NoLayout]
           W == [buffers |-> B, layouts |-> << >>, ok |-> TRUE]
           Z == [l \in Layouts |-> 0]
           s == State
<1>1. /\ bufferRef = B /\ dvb = << >> /\ freeDynamic = <<>> /\ layouts = {} /\ refCount = Z
      /\ layoutMap = << >> /\ appBuffers = {} /\ appLayouts = Z /\ transient = {}
      /\ submit = EmptyFrame /\ render = EmptyFrame /\ ~rendering /\ rendering \in BOOLEAN
      /\ rBuffers = B /\ rLayouts = << >> /\ calls = 0
  BY DEF Init
<1>2. B \in Some(Buffers, AnyLayout)
  <2>1. B \in [{Transient} -> AnyLayout] BY DEF AnyLayout
  <2>2. {Transient} \in SUBSET Buffers BY TransientAssumption
  <2> HIDE DEF B
  <2> QED BY <2>1, <2>2, IsSome
<1>3. << >> \in Some(Layouts, Hashes) /\ << >> \in Some(Hashes, Layouts) /\ DOMAIN << >> = {}
  <2>1. \A T : << >> \in [{} -> T] OBVIOUS
  <2>2. {} \in SUBSET Layouts /\ {} \in SUBSET Hashes OBVIOUS
  <2>3. DOMAIN << >> = {} OBVIOUS
  <2>4. << >> \in Some(Layouts, Hashes) BY <2>1, <2>2, IsSome
  <2>5. << >> \in Some(Hashes, Layouts) BY <2>1, <2>2, IsSome
  <2> QED BY <2>3, <2>4, <2>5
<1>4. Z \in [Layouts -> Int] /\ Z \in [Layouts -> Nat] /\ \A l \in Layouts : Z[l] = 0 OBVIOUS
<1>5. DOMAIN B = {Transient} /\ B[Transient] = NoLayout OBVIOUS
<1> HIDE DEF B, Z
<1>6. Renderer = W BY <1>1 DEF Renderer
<1>7. W \in Renderers /\ W.ok /\ W.buffers = B /\ W.layouts = << >>
  BY <1>2, <1>3 DEF Renderers
<1> HIDE DEF W
<1>8. Base = W BY <1>1, <1>6 DEF Base
<1>9. /\ s.buffers = B /\ s.layouts = {} /\ s.ref = Z /\ s.map = << >> /\ s.frame = EmptyFrame
      /\ s.next = <<>>
  BY <1>1, EmptyFrameIs, StateFields
<1>10. s \in States
  <2>1. State = [buffers |-> B, layouts |-> {}, ref |-> Z, map |-> << >>, frame |-> EmptyFrame,
                 next |-> <<>>]
    BY <1>1, EmptyFrameIs, Zenon DEF State
  <2>2. {} \in SUBSET Layouts /\ <<>> \in Seq(Layouts) OBVIOUS
  <2> QED BY <1>2, <1>3, <1>4, <2>1, <2>2, EmptyFrameIs DEF States
<1> HIDE DEF s
<1>11. Recorded(s, W) = W BY <1>7, <1>9, EmptyFrameIs, ExecutedNone DEF Recorded
<1>12. ToSet(<<>>) = {} /\ IsInjective(<<>>) BY DEF ToSet, IsInjective
<1>13. Core(s, W, {})
  <2>1. Maps(s)
    <3>1. Range(<< >>) = {} BY <1>3 DEF Range
    <3> QED BY <1>4, <1>9, <1>12, <3>1 DEF Maps
  <2>2. Waits(s, {}) BY <1>9, <1>12, EmptyFrameIs DEF Waits, Leaving
  <2>3. Knows(s, W) BY <1>4, <1>7, <1>9 DEF Knows
  <2> QED BY <1>10, <2>1, <2>2, <2>3 DEF Core
<1>14. Owners(s, << >>, <<>>, {})
  BY <1>3, <1>5, <1>9, <1>12, EmptyFrameIs DEF Owners
<1>15. Counts(s, << >>, DOMAIN << >>, Z, {})
  <2> SUFFICES ASSUME NEW l \in Layouts PROVE s.ref[l] = Counted(l, s.buffers, << >>, DOMAIN << >>, Z, {})
    BY DEF Counts
  <2>1. {b \in DOMAIN s.buffers : s.buffers[b] = l} = {} BY <1>5, <1>9, NoLayoutAssumption
  <2>2. {d \in DOMAIN << >> : << >>[d].layout = l} = {} BY <1>3
  <2>3. Cardinality({}) = 0 BY FS_EmptySet
  <2>4. Counted(l, s.buffers, << >>, DOMAIN << >>, Z, {})
           = Cardinality({}) + Cardinality({}) + Z[l] + (IF l \in {} THEN 1 ELSE 0)
    BY <2>1, <2>2, Zenon DEF Counted
  <2> QED BY <1>4, <1>9, <2>3, <2>4
<1>16. Posts(s.frame)
  <2>1. Len(<<>>) = 0 OBVIOUS
  <2> QED BY <1>9, <2>1, EmptyFrameIs DEF Posts
<1>17. ApiHolds(s, W, << >>, <<>>, {}, Z, {})
  <2>1. \A d \in s.frame.draws : DrawFinds(d, W) /\ DrawnLayout(d, W) \in s.layouts
    BY <1>9, EmptyFrameIs
  <2>2. DOMAIN << >> \subseteq Dynamics /\ << >> \in [DOMAIN << >> -> [buffer : Buffers, layout : Layouts]]
    BY <1>3
  <2> QED BY <1>4, <1>7, <1>9, <1>11, <1>13, <1>14, <1>15, <1>16, <2>1, <2>2 DEF ApiHolds
<1>18. ApiInv BY <1>1, <1>8, <1>17 DEF ApiInv, s
<1>19. RenderInv
  <2>1. 0 \in 0 .. MaxCalls BY BoundsAssumption
  <2> QED BY <1>1, <1>6, <1>7, <2>1, EmptyFrameIs DEF RenderInv
<1> QED BY <1>18, <1>19 DEF LayoutInv

-----------------------------------------------------------------------------
(* A layout released for a buffer that is gone.                             *)

LEMMA ReleaseOfBufferDoes ==
    ASSUME NEW s \in States, NEW l \in AnyLayout, NEW t, t = ReleaseOfBuffer(s, l)
    PROVE  \/ l = NoLayout /\ t = s
           \/ /\ l \in Layouts /\ Release(s, l).ref[l] > 0 /\ t = Release(s, l)
           \/ LET r == Release(s, l)
              IN  /\ l \in Layouts /\ ~(r.ref[l] > 0) /\ t \in States
                  /\ t.buffers = r.buffers /\ t.layouts = r.layouts /\ t.ref = r.ref /\ t.map = r.map
                  /\ t.next = Append(r.next, l)
                  /\ t.frame.pre = r.frame.pre /\ t.frame.draws = r.frame.draws
                  /\ t.frame.post = Append(r.frame.post, [op |-> "DestroyLayout", layout |-> l])
                  /\ t.frame.freeVertexBuffer = r.frame.freeVertexBuffer
                  /\ t.frame.freeVertexLayout = r.frame.freeVertexLayout
<1>1. CASE l = NoLayout BY <1>1 DEF ReleaseOfBuffer
<1>2. CASE l # NoLayout
  <2> DEFINE r == Release(s, l)
             c == [op |-> "DestroyLayout", layout |-> l]
             f == r.frame
             w == Append(f.post, c)
             n == Append(r.next, l)
             g == [f EXCEPT !.post = w]
             u == [r EXCEPT !.frame.post = Append(@, c), !.next = Append(@, l)]
  <2>1. l \in Layouts BY <1>2 DEF AnyLayout
  <2>2. r \in States BY <2>1, ReleaseDoes
  <2>3. t = IF r.ref[l] > 0 THEN r ELSE u BY <1>2 DEF ReleaseOfBuffer
  <2> HIDE DEF r
  <2>4. CASE r.ref[l] > 0 BY <2>1, <2>3, <2>4 DEF r
  <2>5. CASE ~(r.ref[l] > 0)
    <3>1. t = u BY <2>3, <2>5
    <3>2. u = [r EXCEPT !.frame = g, !.next = n] BY <2>2, Zenon DEF States
    <3>3. f \in AnyFrames BY <2>2 DEF States
    <3>4. c \in Cmds BY <2>1 DEF Cmds
    <3> HIDE DEF c
    <3>5. w \in Seq(Cmds) BY <3>3, <3>4 DEF AnyFrames
    <3>6. n \in Seq(Layouts) BY <2>1, <2>2 DEF States
    <3> HIDE DEF w, f, n
    <3>7. g \in AnyFrames /\ g.pre = f.pre /\ g.post = w /\ g.draws = f.draws
          /\ g.freeVertexBuffer = f.freeVertexBuffer /\ g.freeVertexLayout = f.freeVertexLayout
      BY <3>3, <3>5 DEF AnyFrames
    <3> HIDE DEF g, u
    <3>8. u \in States /\ u.buffers = r.buffers /\ u.layouts = r.layouts /\ u.ref = r.ref
          /\ u.map = r.map /\ u.next = n /\ u.frame = g
      BY <2>2, <3>2, <3>6, <3>7 DEF States
    <3> QED BY <2>1, <2>5, <3>1, <3>7, <3>8 DEF r, c, w, f, n
  <2> QED BY <2>4, <2>5
<1> QED BY <1>1, <1>2

\* The renderer after the commands for the end of the frame.
Ended(s, V) == FoldLeft(Execute, V, s.frame.post)

LEMMA EndedOne ==
    ASSUME NEW V \in Renderers, NEW s \in States, NEW c \in Cmds,
           NEW t, t.frame.post = Append(s.frame.post, c)
    PROVE  Ended(t, V) = Execute(Ended(s, V), c) /\ Ended(s, V) \in Renderers
<1> DEFINE w == s.frame.post
<1>1. w \in Seq(Cmds) BY FieldsOf
<1> HIDE DEF w
<1>2. FoldLeft(Execute, V, Append(w, c)) = Execute(FoldLeft(Execute, V, w), c)
      /\ FoldLeft(Execute, V, w) \in Renderers
  BY <1>1, ExecutedOne, ExecutedType
<1> QED BY <1>2 DEF w, Ended

\* One reference to l less.
Released(s, W, t, U, l) ==
    /\ Core(t, U, {}) /\ U.buffers = W.buffers
    /\ t.buffers = s.buffers /\ t.layouts = s.layouts
    /\ t.frame.freeVertexBuffer = s.frame.freeVertexBuffer
    /\ t.frame.freeVertexLayout = s.frame.freeVertexLayout
    /\ \A k \in Layouts : t.ref[k] = s.ref[k] - IF l = k THEN 1 ELSE 0

LEMMA ReleaseOfBufferCore ==
    ASSUME NEW V \in Renderers, NEW s, Core(s, Ended(s, V), {}),
           NEW l \in AnyLayout, l \in Layouts => s.ref[l] > 0
    PROVE  LET t == ReleaseOfBuffer(s, l)
           IN  Released(s, Ended(s, V), t, Ended(t, V), l)
<1> DEFINE t == ReleaseOfBuffer(s, l)
           W == Ended(s, V)
           U == Ended(t, V)
           r == Release(s, l)
           c == [op |-> "DestroyLayout", layout |-> l]
<1>1. s \in States /\ W \in Renderers /\ W.ok /\ \A k \in Layouts : s.ref[k] \in Nat BY CoreFacts
<1>2. Core(s, W, {}) OBVIOUS
<1>3. CASE l = NoLayout
  <2>1. t = s BY <1>3 DEF ReleaseOfBuffer
  <2>2. \A k \in Layouts : s.ref[k] = s.ref[k] - IF l = k THEN 1 ELSE 0
    BY <1>1, <1>3, NoLayoutAssumption
  <2> HIDE DEF t, W
  <2> QED BY <1>2, <2>1, <2>2 DEF Released, t, W
<1>4. CASE l # NoLayout
  <2>1. l \in Layouts /\ s.ref[l] > 0 BY <1>4 DEF AnyLayout
  <2>2. /\ r \in States /\ r.buffers = s.buffers /\ r.layouts = s.layouts
        /\ r.ref = [s.ref EXCEPT ![l] = s.ref[l] - 1]
        /\ r.next = s.next /\ r.frame = s.frame
    BY <1>1, <2>1, ReleaseDoes
  <2>3. /\ Core(r, W, {l}) /\ l \in r.layouts /\ l \notin Leaving(r)
        /\ r.ref[l] > 0 => Core(r, W, {})
        /\ r.ref[l] \in Nat
    <3> HIDE DEF W
    <3> QED BY <1>2, <2>1, ReleaseCore
  <2>4. \A k \in Layouts : r.ref[k] = s.ref[k] - IF l = k THEN 1 ELSE 0
    BY <1>1, <2>2 DEF States
  <2>5. \/ r.ref[l] > 0 /\ t = r
        \/ /\ ~(r.ref[l] > 0) /\ t \in States
           /\ t.buffers = r.buffers /\ t.layouts = r.layouts /\ t.ref = r.ref /\ t.map = r.map
           /\ t.next = Append(r.next, l)
           /\ t.frame.post = Append(r.frame.post, c)
           /\ t.frame.freeVertexBuffer = r.frame.freeVertexBuffer
           /\ t.frame.freeVertexLayout = r.frame.freeVertexLayout
    <3>1. t = ReleaseOfBuffer(s, l) /\ s \in States BY <1>1
    <3> HIDE DEF t
    <3>2. \/ l = NoLayout /\ t = s
          \/ l \in Layouts /\ r.ref[l] > 0 /\ t = r
          \/ /\ l \in Layouts /\ ~(r.ref[l] > 0) /\ t \in States
             /\ t.buffers = r.buffers /\ t.layouts = r.layouts /\ t.ref = r.ref /\ t.map = r.map
             /\ t.next = Append(r.next, l)
             /\ t.frame.pre = r.frame.pre /\ t.frame.draws = r.frame.draws
             /\ t.frame.post = Append(r.frame.post, c)
             /\ t.frame.freeVertexBuffer = r.frame.freeVertexBuffer
             /\ t.frame.freeVertexLayout = r.frame.freeVertexLayout
      BY <3>1, ReleaseOfBufferDoes
    <3> HIDE DEF r, c
    <3> QED BY <1>4, <3>2
  <2> HIDE DEF t, r
  <2>6. CASE r.ref[l] > 0
    <3>1. t = r BY <2>5, <2>6
    <3>2. U = W BY <2>2, <3>1 DEF Ended
    <3> HIDE DEF W, U
    <3> QED BY <2>2, <2>3, <2>4, <2>6, <3>1, <3>2 DEF Released, t, W, U
  <2>7. CASE ~(r.ref[l] > 0)
    <3>1. c \in Cmds BY <2>1 DEF Cmds
    <3>2. t.frame.post = Append(s.frame.post, c) BY <2>2, <2>5, <2>7
    <3> HIDE DEF c
    <3>3. U = Execute(W, c) BY <1>1, <3>1, <3>2, EndedOne
    <3> HIDE DEF W, U
    <3> USE DEF c
    <3>4. /\ U \in Renderers /\ U.buffers = W.buffers
          /\ DOMAIN U.layouts = DOMAIN W.layouts \ {l}
          /\ \A k \in DOMAIN W.layouts \ {l} : U.layouts[k] = W.layouts[k]
          /\ U.ok = (W.ok /\ l \in DOMAIN W.layouts)
      BY <1>1, <2>1, <3>3, DestroyLayoutDoes
    <3>5. l \in DOMAIN W.layouts BY <1>2, <2>1 DEF Core, Knows
    <3>6. U.ok BY <1>1, <3>4, <3>5
    <3>7. Gone(r, W, t, U, l) BY <2>5, <2>7, <3>4, <3>6 DEF Gone
    <3>8. r.ref[l] = 0 BY <2>3, <2>7
    <3>9. Core(t, U, {}) BY <2>1, <2>3, <3>7, <3>8, GoneCore
    <3> QED BY <2>2, <2>4, <2>5, <2>7, <3>4, <3>9 DEF Released, t, W, U
  <2> QED BY <2>6, <2>7
<1> QED BY <1>3, <1>4

LEMMA ReleaseOfBufferType ==
    ASSUME NEW s \in States, NEW l \in AnyLayout
    PROVE  /\ ReleaseOfBuffer(s, l) \in States
           /\ ReleaseOfBuffer(s, l).buffers = s.buffers
<1> DEFINE t == ReleaseOfBuffer(s, l)
           r == Release(s, l)
<1>1. \/ l = NoLayout /\ t = s
      \/ l \in Layouts /\ t = r
      \/ l \in Layouts /\ t \in States /\ t.buffers = r.buffers
  BY ReleaseOfBufferDoes
<1>2. l \in Layouts => r \in States /\ r.buffers = s.buffers BY ReleaseDoes
<1> HIDE DEF t, r
<1>3. t \in States /\ t.buffers = s.buffers BY <1>1, <1>2
<1> QED BY <1>3 DEF t

\* The dynamic buffers name vertex buffers and layouts.
DynamicsNamed == dvb \in [DOMAIN dvb -> [buffer : Buffers, layout : Layouts]]

LEMMA DestroyDynamicType ==
    ASSUME DynamicsNamed, NEW s \in States, NEW d \in DOMAIN dvb
    PROVE  DestroyDynamic(s, d) \in States
<1>1. dvb[d].layout \in AnyLayout /\ dvb[d].buffer \in Buffers BY DEF DynamicsNamed, AnyLayout
<1>2. ReleaseOfBuffer(s, dvb[d].layout) \in States BY <1>1, ReleaseOfBufferType
<1> QED BY <1>1, <1>2, DestroyDoes DEF DestroyDynamic

LEMMA LayoutOfType ==
    ASSUME NEW s \in States, NEW b
    PROVE  LayoutOf(s, b) \in AnyLayout
<1>1. s.buffers \in Some(Buffers, AnyLayout) BY FieldsOf
<1>2. b \in DOMAIN s.buffers => s.buffers[b] \in AnyLayout BY <1>1, SomeIs
<1> QED BY <1>2 DEF LayoutOf, AnyLayout

LEMMA FreeBufferDoes ==
    ASSUME NEW s \in States, NEW b \in Buffers
    PROVE  LET t == FreeBuffer(s, b)
               r == ReleaseOfBuffer(s, LayoutOf(s, b))
           IN  /\ t \in States /\ t.buffers = Restrict(s.buffers, DOMAIN s.buffers \ {b})
               /\ t.layouts = r.layouts /\ t.ref = r.ref /\ t.map = r.map /\ t.next = r.next
               /\ t.frame = r.frame
<1> DEFINE r == ReleaseOfBuffer(s, LayoutOf(s, b))
           t == FreeBuffer(s, b)
           m == Restrict(s.buffers, DOMAIN s.buffers \ {b})
<1>1. r \in States /\ r.buffers = s.buffers BY LayoutOfType, ReleaseOfBufferType
<1>2. t = [r EXCEPT !.buffers = m] BY <1>1 DEF FreeBuffer
<1>3. m \in Some(Buffers, AnyLayout)
  <2>1. s.buffers \in Some(Buffers, AnyLayout) BY FieldsOf
  <2> QED BY <2>1, SomeLess
<1> HIDE DEF r, m, t
<1>4. t \in States /\ t.buffers = m /\ t.layouts = r.layouts /\ t.ref = r.ref /\ t.map = r.map
      /\ t.next = r.next /\ t.frame = r.frame
  BY <1>1, <1>2, <1>3 DEF States
<1> QED BY <1>4 DEF r, m, t

LEMMA FreeBufferType ==
    ASSUME NEW s \in States, NEW b \in Buffers
    PROVE  FreeBuffer(s, b) \in States
  BY FreeBufferDoes

-----------------------------------------------------------------------------
(* What FoldLeft makes of the dynamic buffers and of the buffers queued.    *)

DestroyDynamics(g, r, w) ==
    /\ g \in [0 .. Len(w) -> States] /\ g[0] = r
    /\ \A k \in 1 .. Len(w) : g[k] = DestroyDynamic(g[k - 1], w[k])

LEMMA DestroyDynamicsAre ==
    ASSUME NEW r \in States, NEW w \in Seq(DOMAIN dvb), DynamicsNamed
    PROVE  \E g : DestroyDynamics(g, r, w) /\ g[Len(w)] = FoldLeft(DestroyDynamic, r, w)
<1> DEFINE n == Len(w)
           Is(it) == it = [s \in SUBSET DOMAIN w |->
                              IF s = {} THEN r ELSE DestroyDynamic(it[s \ {Max(s)}], w[Max(s)])]
           G == [p \in States \X (1 .. n) |-> DestroyDynamic(p[1], w[p[2]])]
<1>1. \A x \in States, i \in 1 .. n : G[<<x, i>>] = DestroyDynamic(x, w[i]) OBVIOUS
<1>2. n \in Nat /\ DOMAIN w = 1 .. n /\ \A i \in 1 .. n : w[i] \in DOMAIN dvb BY LenProperties
<1>3. G \in [States \X (1 .. n) -> States] BY <1>2, DestroyDynamicType
<1> HIDE DEF G, n
<1>4. \A s \in SUBSET (1 .. n) : s # {} => Max(s) \in 1 .. n BY <1>2, MaxIn
<1>5. \E it : Is(it)
  <2>1. PICK it : Unfolds(it, States, r, n, G) BY <1>2, <1>3, FoldExists
  <2>2. ASSUME NEW s \in SUBSET (1 .. n), s # {}
        PROVE  it[s] = DestroyDynamic(it[s \ {Max(s)}], w[Max(s)])
    <3>1. it[s \ {Max(s)}] \in States BY <2>1 DEF Unfolds
    <3>2. it[s] = G[<<it[s \ {Max(s)}], Max(s)>>] BY <2>1, <2>2 DEF Unfolds
    <3> QED BY <1>1, <1>4, <2>2, <3>1, <3>2
  <2>3. it = [s \in SUBSET (1 .. n) |-> it[s]] /\ it[{}] = r BY <2>1 DEF Unfolds
  <2>4. [s \in SUBSET (1 .. n) |-> it[s]]
            = [s \in SUBSET (1 .. n) |->
                  IF s = {} THEN r ELSE DestroyDynamic(it[s \ {Max(s)}], w[Max(s)])]
    BY <2>2, <2>3, Zenon
  <2>5. Is(it) BY <1>2, <2>3, <2>4, Zenon
  <2> QED BY <2>5, Zenon
<1> DEFINE it == CHOOSE it : Is(it)
<1>6. Is(it) BY <1>5, Zenon
<1>7. FoldLeft(DestroyDynamic, r, w) = it[1 .. n] BY <1>2, Zenon DEF FoldLeft, MapThenFoldSet
<1> HIDE DEF it
<1>8. Follows(it, States, r, n, G)
  <2>1. it[{}] = r /\ \A s \in SUBSET (1 .. n) :
                         s # {} => it[s] = DestroyDynamic(it[s \ {Max(s)}], w[Max(s)])
    BY <1>2, <1>6
  <2> HIDE DEF Is
  <2> QED BY <1>1, <1>4, <2>1 DEF Follows
<1> HIDE DEF Is
<1>9. PICK g : IsChain(g, States, r, n, G, it[1 .. n]) BY <1>2, <1>3, <1>8, FoldChain
<1>10. ASSUME NEW k \in 1 .. n PROVE g[k] = DestroyDynamic(g[k - 1], w[k])
  <2>1. g[k - 1] \in States BY <1>2, <1>9 DEF IsChain
  <2>2. g[k] = G[<<g[k - 1], k>>] BY <1>9 DEF IsChain
  <2> QED BY <1>1, <2>1, <2>2
<1>11. DestroyDynamics(g, r, w) BY <1>9, <1>10 DEF IsChain, n, DestroyDynamics
<1>12. g[n] = it[1 .. n] BY <1>9 DEF IsChain
<1> QED BY <1>7, <1>11, <1>12 DEF n

FreeBuffers(g, r, w) ==
    /\ g \in [0 .. Len(w) -> States] /\ g[0] = r
    /\ \A k \in 1 .. Len(w) : g[k] = FreeBuffer(g[k - 1], w[k])

LEMMA FreeBuffersAre ==
    ASSUME NEW r \in States, NEW w \in Seq(Buffers)
    PROVE  \E g : FreeBuffers(g, r, w) /\ g[Len(w)] = FoldLeft(FreeBuffer, r, w)
<1> DEFINE n == Len(w)
           Is(it) == it = [s \in SUBSET DOMAIN w |->
                              IF s = {} THEN r ELSE FreeBuffer(it[s \ {Max(s)}], w[Max(s)])]
           G == [p \in States \X (1 .. n) |-> FreeBuffer(p[1], w[p[2]])]
<1>1. \A x \in States, i \in 1 .. n : G[<<x, i>>] = FreeBuffer(x, w[i]) OBVIOUS
<1>2. n \in Nat /\ DOMAIN w = 1 .. n /\ \A i \in 1 .. n : w[i] \in Buffers BY LenProperties
<1>3. G \in [States \X (1 .. n) -> States] BY <1>2, FreeBufferType
<1> HIDE DEF G, n
<1>4. \A s \in SUBSET (1 .. n) : s # {} => Max(s) \in 1 .. n BY <1>2, MaxIn
<1>5. \E it : Is(it)
  <2>1. PICK it : Unfolds(it, States, r, n, G) BY <1>2, <1>3, FoldExists
  <2>2. ASSUME NEW s \in SUBSET (1 .. n), s # {}
        PROVE  it[s] = FreeBuffer(it[s \ {Max(s)}], w[Max(s)])
    <3>1. it[s \ {Max(s)}] \in States BY <2>1 DEF Unfolds
    <3>2. it[s] = G[<<it[s \ {Max(s)}], Max(s)>>] BY <2>1, <2>2 DEF Unfolds
    <3> QED BY <1>1, <1>4, <2>2, <3>1, <3>2
  <2>3. it = [s \in SUBSET (1 .. n) |-> it[s]] /\ it[{}] = r BY <2>1 DEF Unfolds
  <2>4. [s \in SUBSET (1 .. n) |-> it[s]]
            = [s \in SUBSET (1 .. n) |->
                  IF s = {} THEN r ELSE FreeBuffer(it[s \ {Max(s)}], w[Max(s)])]
    BY <2>2, <2>3, Zenon
  <2>5. Is(it) BY <1>2, <2>3, <2>4, Zenon
  <2> QED BY <2>5, Zenon
<1> DEFINE it == CHOOSE it : Is(it)
<1>6. Is(it) BY <1>5, Zenon
<1>7. FoldLeft(FreeBuffer, r, w) = it[1 .. n] BY <1>2, Zenon DEF FoldLeft, MapThenFoldSet
<1> HIDE DEF it
<1>8. Follows(it, States, r, n, G)
  <2>1. it[{}] = r /\ \A s \in SUBSET (1 .. n) :
                         s # {} => it[s] = FreeBuffer(it[s \ {Max(s)}], w[Max(s)])
    BY <1>2, <1>6
  <2> HIDE DEF Is
  <2> QED BY <1>1, <1>4, <2>1 DEF Follows
<1> HIDE DEF Is
<1>9. PICK g : IsChain(g, States, r, n, G, it[1 .. n]) BY <1>2, <1>3, <1>8, FoldChain
<1>10. ASSUME NEW k \in 1 .. n PROVE g[k] = FreeBuffer(g[k - 1], w[k])
  <2>1. g[k - 1] \in States BY <1>2, <1>9 DEF IsChain
  <2>2. g[k] = G[<<g[k - 1], k>>] BY <1>9 DEF IsChain
  <2> QED BY <1>1, <2>1, <2>2
<1>11. FreeBuffers(g, r, w) BY <1>9, <1>10 DEF IsChain, n, FreeBuffers
<1>12. g[n] = it[1 .. n] BY <1>9 DEF IsChain
<1> QED BY <1>7, <1>11, <1>12 DEF n

-----------------------------------------------------------------------------
(* The dynamic buffers.                                                     *)

\* A dynamic buffer is gone, and the buffer behind it queued.
Dropped(s, W, t, U, d) ==
    /\ Core(t, U, {})
    /\ U.buffers = Restrict(W.buffers, DOMAIN W.buffers \ {dvb[d].buffer})
    /\ t.buffers = s.buffers /\ t.layouts = s.layouts
    /\ t.frame.freeVertexBuffer = Append(s.frame.freeVertexBuffer, dvb[d].buffer)
    /\ t.frame.freeVertexLayout = s.frame.freeVertexLayout
    /\ \A k \in Layouts : t.ref[k] = s.ref[k] - IF dvb[d].layout = k THEN 1 ELSE 0

LEMMA DestroyDynamicCore ==
    ASSUME DynamicsNamed, NEW V \in Renderers, NEW s, Core(s, Ended(s, V), {}),
           NEW d \in DOMAIN dvb, s.ref[dvb[d].layout] > 0,
           dvb[d].buffer \in DOMAIN Ended(s, V).buffers
    PROVE  Dropped(s, Ended(s, V), DestroyDynamic(s, d), Ended(DestroyDynamic(s, d), V), d)
<1> DEFINE l == dvb[d].layout
           b == dvb[d].buffer
           r == ReleaseOfBuffer(s, l)
           t == Destroy(r, b)
           W == Ended(s, V)
           R == Ended(r, V)
           U == Ended(t, V)
           c == [op |-> "DestroyBuffer", buffer |-> b]
<1>1. l \in AnyLayout /\ l \in Layouts /\ b \in Buffers BY DEF DynamicsNamed, AnyLayout
<1>2. s.ref[l] > 0 /\ b \in DOMAIN W.buffers OBVIOUS
<1>3. DestroyDynamic(s, d) = t BY DEF DestroyDynamic
<1> HIDE DEF l, b
<1>4. Released(s, W, r, R, l) BY <1>1, <1>2, ReleaseOfBufferCore
<1> HIDE DEF r
<1>5. r \in States /\ R \in Renderers /\ R.ok BY <1>4, CoreFacts DEF Released
<1>6. /\ t \in States
      /\ t.buffers = r.buffers /\ t.layouts = r.layouts /\ t.ref = r.ref
      /\ t.map = r.map /\ t.next = r.next
      /\ t.frame.post = Append(r.frame.post, c)
      /\ t.frame.freeVertexBuffer = Append(r.frame.freeVertexBuffer, b)
      /\ t.frame.freeVertexLayout = r.frame.freeVertexLayout
  BY <1>1, <1>5, DestroyDoes
<1>7. c \in Cmds BY <1>1 DEF Cmds
<1> HIDE DEF c, t
<1>8. U = Execute(R, c) BY <1>5, <1>6, <1>7, EndedOne
<1> HIDE DEF U, R, W
<1>9. /\ U \in Renderers /\ U.layouts = R.layouts
      /\ U.buffers = Restrict(R.buffers, DOMAIN R.buffers \ {b})
      /\ U.ok = (R.ok /\ b \in DOMAIN R.buffers)
  BY <1>1, <1>5, <1>8, DestroyBufferDoes DEF c
<1>10. R.buffers = W.buffers BY <1>4 DEF Released
<1>11. U.ok BY <1>2, <1>5, <1>9, <1>10
<1>12. Core(r, R, {}) BY <1>4 DEF Released
<1>13. Core(t, U, {}) BY <1>6, <1>9, <1>11, <1>12, CoreSame
<1>14. Dropped(s, W, t, U, d)
  BY <1>4, <1>6, <1>9, <1>10, <1>13 DEF Dropped, Released, l, b
<1> QED BY <1>3, <1>14 DEF W, U

\* After the first k of them, if V is the renderer when it draws the frame.
DynamicsFreed(s, V, k) ==
    LET q == s.frame.freeVertexBuffer
    IN  /\ Core(s, Ended(s, V), {})
        /\ s.buffers = bufferRef /\ s.layouts = layouts
        /\ s.frame.freeVertexLayout = submit.freeVertexLayout
        /\ IsInjective(q)
        /\ ToSet(q) = ToSet(submit.freeVertexBuffer) \union {dvb[freeDynamic[i]].buffer : i \in 1 .. k}
        /\ Ended(s, V).buffers = Restrict(bufferRef, DOMAIN bufferRef \ ToSet(q))
        /\ Counts(s, dvb, DOMAIN dvb \ {freeDynamic[i] : i \in 1 .. k}, appLayouts, transient)

\* What the invariant says of the variables.
Sorted ==
    /\ DynamicsNamed /\ DOMAIN dvb \subseteq Dynamics
    /\ appLayouts \in [Layouts -> Nat]
    /\ bufferRef \in Some(Buffers, AnyLayout)
    /\ Owners(State, dvb, freeDynamic, appBuffers)

LEMMA DynamicsFreedNext ==
    ASSUME Sorted, NEW V \in Renderers, NEW n, n = Len(freeDynamic), NEW k \in 0 .. n - 1,
           NEW s, DynamicsFreed(s, V, k)
    PROVE  DynamicsFreed(DestroyDynamic(s, freeDynamic[k + 1]), V, k + 1)
<1> DEFINE d == freeDynamic[k + 1]
           D == DOMAIN dvb \ {freeDynamic[i] : i \in 1 .. k}
           E == DOMAIN dvb \ {freeDynamic[i] : i \in 1 .. k + 1}
           l == dvb[d].layout
           b == dvb[d].buffer
           q == s.frame.freeVertexBuffer
           t == DestroyDynamic(s, d)
           p == t.frame.freeVertexBuffer
           W == Ended(s, V)
           U == Ended(t, V)
           Q(j) == {dvb[freeDynamic[i]].buffer : i \in 1 .. j}
<1>1. freeDynamic \in Seq(DOMAIN dvb) /\ IsInjective(freeDynamic) BY DEF Sorted, Owners
<1>2. n \in Nat /\ DOMAIN freeDynamic = 1 .. n /\ \A i \in 1 .. n : freeDynamic[i] \in DOMAIN dvb
  BY <1>1, LenProperties
<1>3. k + 1 \in 1 .. n /\ 1 .. k + 1 = (1 .. k) \union {k + 1} /\ 1 .. k \subseteq 1 .. n
      /\ k + 1 \notin 1 .. k
  BY <1>2
<1>4. \A i \in 1 .. k : freeDynamic[i] # d
  BY <1>1, <1>2, <1>3 DEF IsInjective
<1>5. d \in D /\ d \in DOMAIN dvb /\ E = D \ {d} BY <1>2, <1>3, <1>4
<1>6. /\ Core(s, W, {}) /\ s.buffers = bufferRef /\ s.layouts = layouts
      /\ s.frame.freeVertexLayout = submit.freeVertexLayout
      /\ IsInjective(q)
      /\ ToSet(q) = ToSet(submit.freeVertexBuffer) \union Q(k)
      /\ W.buffers = Restrict(bufferRef, DOMAIN bufferRef \ ToSet(q))
      /\ Counts(s, dvb, D, appLayouts, transient)
  BY DEF DynamicsFreed
<1>7. Q(k + 1) = Q(k) \union {b} BY <1>3
<1>8. /\ b \in DOMAIN bufferRef /\ b \notin ToSet(submit.freeVertexBuffer)
      /\ \A e \in DOMAIN dvb : dvb[e].buffer = b => e = d
  BY <1>5, StateFields DEF Sorted, Owners
<1>9. b \notin Q(k)
  <2> SUFFICES ASSUME NEW i \in 1 .. k, dvb[freeDynamic[i]].buffer = b PROVE FALSE OBVIOUS
  <2> QED BY <1>2, <1>3, <1>4, <1>8
<1>10. l \in Layouts /\ b \in Buffers BY <1>5 DEF Sorted, DynamicsNamed
<1> HIDE DEF Q, D, E, W, U
<1>11. CountsOf(s.buffers, dvb, D, appLayouts, transient)
  BY <1>6 DEF CountsOf, Sorted, D
<1>12. s.ref[l] > 0
  <2>1. \E e \in D : dvb[e].layout = l BY <1>5
  <2> HIDE DEF l
  <2>2. Counted(l, s.buffers, dvb, D, appLayouts, transient) > 0 BY <1>10, <1>11, <2>1, CountedNat
  <2> QED BY <1>6, <1>10, <2>2 DEF Counts
<1>13. DOMAIN W.buffers = DOMAIN bufferRef \ ToSet(q) BY <1>6 DEF Restrict
<1>14. b \in DOMAIN W.buffers BY <1>6, <1>8, <1>9, <1>13
<1>15. Dropped(s, W, t, U, d)
  <2> HIDE DEF d, t
  <2> QED BY <1>5, <1>6, <1>12, <1>14, DestroyDynamicCore DEF Sorted, W, U, t
<1>16. s \in States BY <1>6, CoreFacts
<1> HIDE DEF t
<1>17. q \in Seq(Buffers) /\ p = Append(q, b) BY <1>15, <1>16, FieldsOf DEF Dropped
<1>18. ToSet(p) = ToSet(q) \union {b} /\ IsInjective(p)
  <2> HIDE DEF p, q, b
  <2>1. b \notin ToSet(q) BY <1>6, <1>8, <1>9
  <2> QED BY <1>6, <1>10, <1>17, <2>1, AppendOnce
<1>19. ToSet(p) = ToSet(submit.freeVertexBuffer) \union Q(k + 1) BY <1>6, <1>7, <1>18
<1>20. U.buffers = Restrict(bufferRef, DOMAIN bufferRef \ ToSet(p))
  <2> HIDE DEF p, q, b
  <2>1. U.buffers = Restrict(W.buffers, DOMAIN W.buffers \ {b}) BY <1>15 DEF Dropped, b
  <2>2. DOMAIN W.buffers \ {b} = DOMAIN bufferRef \ ToSet(p) BY <1>13, <1>18
  <2>3. DOMAIN bufferRef \ ToSet(p) \subseteq DOMAIN bufferRef \ ToSet(q) BY <1>18
  <2> DEFINE Y == DOMAIN bufferRef \ ToSet(q)
             Z == DOMAIN bufferRef \ ToSet(p)
  <2>4. \A x \in Z : x \in Y BY <2>3
  <2>5. W.buffers = [x \in Y |-> bufferRef[x]] BY <1>6 DEF Restrict
  <2>6. Restrict(W.buffers, Z) = [x \in Z |-> W.buffers[x]] BY DEF Restrict
  <2>7. Restrict(bufferRef, Z) = [x \in Z |-> bufferRef[x]] BY DEF Restrict
  <2> HIDE DEF Y, Z
  <2>8. \A x \in Z : W.buffers[x] = bufferRef[x] BY <2>4, <2>5
  <2>9. Restrict(W.buffers, Z) = Restrict(bufferRef, Z) BY <2>6, <2>7, <2>8
  <2> QED BY <2>1, <2>2, <2>9 DEF Z
<1>21. Counts(t, dvb, E, appLayouts, transient)
  <2> SUFFICES ASSUME NEW m \in Layouts
               PROVE  t.ref[m] = Counted(m, t.buffers, dvb, E, appLayouts, transient)
    BY DEF Counts
  <2>1. Counted(m, s.buffers, dvb, D \ {d}, appLayouts, transient)
           = Counted(m, s.buffers, dvb, D, appLayouts, transient) - IF dvb[d].layout = m THEN 1 ELSE 0
    BY <1>5, <1>11, CountedLessDynamic
  <2>2. s.ref[m] = Counted(m, s.buffers, dvb, D, appLayouts, transient) BY <1>6 DEF Counts
  <2>3. t.ref[m] = s.ref[m] - (IF dvb[d].layout = m THEN 1 ELSE 0) /\ t.buffers = s.buffers
    BY <1>15 DEF Dropped
  <2> QED BY <1>5, <2>1, <2>2, <2>3
<1>22. DynamicsFreed(t, V, k + 1)
  BY <1>6, <1>15, <1>18, <1>19, <1>20, <1>21 DEF DynamicsFreed, Dropped, Q, E, U
<1> QED BY <1>22 DEF t

-----------------------------------------------------------------------------
(* The buffers that are queued.                                             *)

\* After the first k of the queue q.
BuffersFreed(s, V, q, k) ==
    /\ Core(s, Ended(s, V), {})
    /\ s.buffers = Restrict(bufferRef, DOMAIN bufferRef \ {q[i] : i \in 1 .. k})
    /\ s.layouts = layouts
    /\ s.frame.freeVertexLayout = submit.freeVertexLayout
    /\ Ended(s, V).buffers = Restrict(bufferRef, DOMAIN bufferRef \ ToSet(q))
    /\ Counts(s, dvb, DOMAIN dvb \ ToSet(freeDynamic), appLayouts, transient)

LEMMA BuffersFreedNext ==
    ASSUME Sorted, NEW V \in Renderers, NEW q \in Seq(Buffers), IsInjective(q),
           ToSet(q) \subseteq DOMAIN bufferRef, NEW n, n = Len(q), NEW k \in 0 .. n - 1,
           NEW s, BuffersFreed(s, V, q, k)
    PROVE  BuffersFreed(FreeBuffer(s, q[k + 1]), V, q, k + 1)
<1> DEFINE b == q[k + 1]
           D == DOMAIN dvb \ ToSet(freeDynamic)
           l == LayoutOf(s, b)
           r == ReleaseOfBuffer(s, l)
           t == FreeBuffer(s, b)
           W == Ended(s, V)
           R == Ended(r, V)
           U == Ended(t, V)
           Y == DOMAIN bufferRef \ {q[i] : i \in 1 .. k}
           Z == DOMAIN bufferRef \ {q[i] : i \in 1 .. k + 1}
           fixed == Restrict(bufferRef, DOMAIN bufferRef \ ToSet(q))
<1>1. n \in Nat /\ DOMAIN q = 1 .. n /\ \A i \in 1 .. n : q[i] \in Buffers BY LenProperties
<1>2. k + 1 \in 1 .. n /\ 1 .. k + 1 = (1 .. k) \union {k + 1} /\ 1 .. k \subseteq 1 .. n
      /\ k + 1 \notin 1 .. k
  BY <1>1
<1>3. \A i \in 1 .. k : q[i] # b BY <1>1, <1>2 DEF IsInjective
<1>4. b \in DOMAIN bufferRef /\ b \in Buffers BY <1>1, <1>2 DEF ToSet
<1>5. b \in Y /\ Z = Y \ {b} BY <1>2, <1>3, <1>4
<1>6. /\ Core(s, W, {}) /\ s.buffers = Restrict(bufferRef, Y) /\ s.layouts = layouts
      /\ s.frame.freeVertexLayout = submit.freeVertexLayout
      /\ W.buffers = fixed
      /\ Counts(s, dvb, D, appLayouts, transient)
  BY DEF BuffersFreed
<1>7. s \in States BY <1>6, CoreFacts
<1> HIDE DEF b, W, Y, Z, D, fixed
<1>8. DOMAIN s.buffers = Y /\ b \in DOMAIN s.buffers BY <1>5, <1>6 DEF Restrict
<1>9. l = s.buffers[b] /\ l \in AnyLayout BY <1>7, <1>8, LayoutOfType DEF LayoutOf
<1>10. CountsOf(s.buffers, dvb, D, appLayouts, transient)
  <2>1. s.buffers \in Some(Buffers, AnyLayout) BY <1>7, FieldsOf
  <2> QED BY <2>1 DEF CountsOf, Sorted, D
<1>11. ASSUME l \in Layouts PROVE s.ref[l] > 0
  <2>1. \E c \in DOMAIN s.buffers : s.buffers[c] = l BY <1>8, <1>9
  <2> HIDE DEF l
  <2>2. Counted(l, s.buffers, dvb, D, appLayouts, transient) > 0 BY <1>10, <1>11, <2>1, CountedNat
  <2> QED BY <1>6, <1>11, <2>2 DEF Counts
<1>12. /\ t \in States /\ t.buffers = Restrict(s.buffers, DOMAIN s.buffers \ {b})
       /\ t.layouts = r.layouts /\ t.ref = r.ref /\ t.map = r.map /\ t.next = r.next
       /\ t.frame = r.frame
  BY <1>4, <1>7, FreeBufferDoes
<1> HIDE DEF l
<1>13. Released(s, W, r, R, l) BY <1>6, <1>9, <1>11, ReleaseOfBufferCore DEF W
<1> HIDE DEF t, r
<1>14. U = R BY <1>12 DEF Ended
<1> HIDE DEF U, R
<1>15. Core(r, R, {}) BY <1>13 DEF Released
<1>16. U \in Renderers /\ U.ok BY <1>14, <1>15, CoreFacts
<1>17. Core(t, U, {}) BY <1>12, <1>14, <1>15, <1>16, CoreSame
<1>18. t.buffers = Restrict(bufferRef, Z)
  <2>1. s.buffers = [x \in Y |-> bufferRef[x]] BY <1>6 DEF Restrict
  <2>2. t.buffers = [x \in Z |-> s.buffers[x]] BY <1>5, <1>8, <1>12 DEF Restrict
  <2>3. Restrict(bufferRef, Z) = [x \in Z |-> bufferRef[x]] BY DEF Restrict
  <2>4. \A x \in Z : s.buffers[x] = bufferRef[x] BY <1>5, <2>1
  <2> QED BY <2>2, <2>3, <2>4
<1>19. Counts(t, dvb, D, appLayouts, transient)
  <2> SUFFICES ASSUME NEW m \in Layouts
               PROVE  t.ref[m] = Counted(m, t.buffers, dvb, D, appLayouts, transient)
    BY DEF Counts
  <2>1. Counted(m, Restrict(s.buffers, DOMAIN s.buffers \ {b}), dvb, D, appLayouts, transient)
           = Counted(m, s.buffers, dvb, D, appLayouts, transient)
             - IF s.buffers[b] = m THEN 1 ELSE 0
    BY <1>8, <1>10, CountedLessBuffer
  <2>2. s.ref[m] = Counted(m, s.buffers, dvb, D, appLayouts, transient) BY <1>6 DEF Counts
  <2>3. t.ref[m] = s.ref[m] - IF s.buffers[b] = m THEN 1 ELSE 0
    BY <1>9, <1>12, <1>13 DEF Released
  <2> QED BY <1>12, <2>1, <2>2, <2>3
<1>20. U.buffers = fixed BY <1>6, <1>13, <1>14 DEF Released
<1>21. t.layouts = layouts /\ t.frame.freeVertexLayout = submit.freeVertexLayout
  BY <1>6, <1>12, <1>13 DEF Released
<1>22. BuffersFreed(t, V, q, k + 1)
  BY <1>17, <1>18, <1>19, <1>20, <1>21 DEF BuffersFreed, Z, D, U, fixed
<1> QED BY <1>22 DEF t, b

-----------------------------------------------------------------------------
(* All that frame releases.                                                 *)

\* After both loops.
Swept(s, V, q) ==
    /\ Core(s, Ended(s, V), {})
    /\ s.buffers = Restrict(bufferRef, DOMAIN bufferRef \ ToSet(q))
    /\ s.layouts = layouts
    /\ s.frame.freeVertexLayout = submit.freeVertexLayout
    /\ Ended(s, V).buffers = s.buffers
    /\ Counts(s, dvb, DOMAIN dvb \ ToSet(freeDynamic), appLayouts, transient)
    /\ IsInjective(q)
    /\ ToSet(q) = ToSet(submit.freeVertexBuffer)
                  \union {dvb[d].buffer : d \in ToSet(freeDynamic)}

LEMMA LoopsDo ==
    ASSUME Sorted, NEW V \in Renderers, State \in States, DynamicsFreed(State, V, 0),
           ToSet(submit.freeVertexBuffer) \subseteq DOMAIN bufferRef
    PROVE  LET dynamic == FoldLeft(DestroyDynamic, State, freeDynamic)
               q       == dynamic.frame.freeVertexBuffer
           IN  Swept(FoldLeft(FreeBuffer, dynamic, q), V, q)
<1> DEFINE fd == freeDynamic
           n == Len(fd)
           dynamic == FoldLeft(DestroyDynamic, State, fd)
           q == dynamic.frame.freeVertexBuffer
           m == Len(q)
           static == FoldLeft(FreeBuffer, dynamic, q)
<1>1. fd \in Seq(DOMAIN dvb) /\ IsInjective(fd) BY DEF Sorted, Owners
<1>2. DynamicsNamed BY DEF Sorted
<1>3. PICK g : DestroyDynamics(g, State, fd) /\ g[n] = dynamic BY <1>1, <1>2, DestroyDynamicsAre
<1>4. n \in Nat /\ DOMAIN fd = 1 .. n BY <1>1, LenProperties
<1>5. DynamicsFreed(dynamic, V, n)
  <2> DEFINE S == {k \in 0 .. n : DynamicsFreed(g[k], V, k)}
  <2>1. 0 \in S BY <1>3, <1>4 DEF DestroyDynamics
  <2>2. ASSUME NEW k \in 0 .. n - 1, k \in S PROVE k + 1 \in S
    <3>1. k + 1 \in 1 .. n /\ k + 1 \in 0 .. n /\ (k + 1) - 1 = k BY <1>4
    <3>2. g[k + 1] = DestroyDynamic(g[k], fd[k + 1]) BY <1>3, <3>1 DEF DestroyDynamics
    <3> DEFINE s == g[k]
    <3>3. DynamicsFreed(s, V, k) BY <2>2
    <3> HIDE DEF s
    <3>4. DynamicsFreed(DestroyDynamic(s, fd[k + 1]), V, k + 1) BY <3>3, DynamicsFreedNext
    <3> QED BY <3>1, <3>2, <3>4 DEF s
  <2> HIDE DEF S
  <2>3. \A k \in 0 .. n : k \in S BY <1>4, <2>1, <2>2, UpTo
  <2>4. n \in 0 .. n BY <1>4
  <2> QED BY <1>3, <2>3, <2>4 DEF S
<1>6. ToSet(fd) = {fd[i] : i \in 1 .. n} BY <1>4 DEF ToSet
<1> DEFINE D == DOMAIN dvb \ ToSet(fd)
           QD == {dvb[d].buffer : d \in ToSet(fd)}
<1>7. {dvb[fd[i]].buffer : i \in 1 .. n} = QD BY <1>6
<1>8. /\ Core(dynamic, Ended(dynamic, V), {})
      /\ dynamic.buffers = bufferRef /\ dynamic.layouts = layouts
      /\ dynamic.frame.freeVertexLayout = submit.freeVertexLayout
      /\ IsInjective(q)
      /\ ToSet(q) = ToSet(submit.freeVertexBuffer) \union {dvb[fd[i]].buffer : i \in 1 .. n}
      /\ Ended(dynamic, V).buffers = Restrict(bufferRef, DOMAIN bufferRef \ ToSet(q))
      /\ Counts(dynamic, dvb, DOMAIN dvb \ {fd[i] : i \in 1 .. n}, appLayouts, transient)
  BY <1>5 DEF DynamicsFreed
<1> HIDE DEF dynamic, QD
<1>9. dynamic \in States BY <1>8, CoreFacts
<1>10. q \in Seq(Buffers) BY <1>9, FieldsOf
<1>11. ToSet(q) = ToSet(submit.freeVertexBuffer) \union QD BY <1>7, <1>8
<1>12. ToSet(q) \subseteq DOMAIN bufferRef
  <2>1. \A d \in DOMAIN dvb : dvb[d].buffer \in DOMAIN bufferRef BY StateFields DEF Sorted, Owners
  <2>2. ToSet(fd) \subseteq DOMAIN dvb BY <1>1, <1>4 DEF ToSet
  <2>3. QD \subseteq DOMAIN bufferRef BY <2>1, <2>2 DEF QD
  <2> QED BY <1>11, <2>3
<1>13. Counts(dynamic, dvb, D, appLayouts, transient) BY <1>6, <1>8
<1> HIDE DEF D, q
<1>14. PICK e : FreeBuffers(e, dynamic, q) /\ e[m] = static BY <1>9, <1>10, FreeBuffersAre
<1>15. m \in Nat /\ DOMAIN q = 1 .. m BY <1>10, LenProperties
<1>16. BuffersFreed(dynamic, V, q, 0)
  <2>1. {q[i] : i \in 1 .. 0} = {} OBVIOUS
  <2>2. bufferRef = Restrict(bufferRef, DOMAIN bufferRef \ {})
    <3>1. bufferRef \in [DOMAIN bufferRef -> AnyLayout] BY SomeIs DEF Sorted
    <3> QED BY <3>1 DEF Restrict
  <2> QED BY <1>8, <1>13, <2>1, <2>2 DEF BuffersFreed, q, D
<1>17. BuffersFreed(static, V, q, m)
  <2> DEFINE S == {k \in 0 .. m : BuffersFreed(e[k], V, q, k)}
  <2>1. 0 \in S BY <1>14, <1>15, <1>16 DEF FreeBuffers
  <2>2. ASSUME NEW k \in 0 .. m - 1, k \in S PROVE k + 1 \in S
    <3>1. k + 1 \in 1 .. m /\ k + 1 \in 0 .. m /\ (k + 1) - 1 = k BY <1>15
    <3>2. e[k + 1] = FreeBuffer(e[k], q[k + 1]) BY <1>14, <3>1 DEF FreeBuffers
    <3> DEFINE s == e[k]
    <3>3. BuffersFreed(s, V, q, k) BY <2>2
    <3> HIDE DEF s
    <3>4. IsInjective(q) BY <1>8 DEF q
    <3>5. BuffersFreed(FreeBuffer(s, q[k + 1]), V, q, k + 1)
      BY <1>10, <1>12, <3>3, <3>4, BuffersFreedNext
    <3> QED BY <3>1, <3>2, <3>5 DEF s
  <2> HIDE DEF S
  <2>3. \A k \in 0 .. m : k \in S BY <1>15, <2>1, <2>2, UpTo
  <2>4. m \in 0 .. m BY <1>15
  <2> QED BY <1>14, <2>3, <2>4 DEF S
<1>18. ToSet(q) = {q[i] : i \in 1 .. m} BY <1>15 DEF ToSet
<1> HIDE DEF static, m
<1>19. Swept(static, V, q)
  BY <1>8, <1>11, <1>17, <1>18 DEF Swept, BuffersFreed, q, QD
<1> QED BY <1>19 DEF static, q, dynamic

-----------------------------------------------------------------------------
(* The frame is handed over.                                                *)

LEMMA CountedKept ==
    ASSUME NEW l, NEW bufs, NEW dyn, NEW D, NEW app, NEW tr
    PROVE  Counted(l, bufs, Restrict(dyn, D), D, app, tr) = Counted(l, bufs, dyn, D, app, tr)
<1>1. \A d \in D : Restrict(dyn, D)[d] = dyn[d] BY DEF Restrict
<1>2. {d \in D : Restrict(dyn, D)[d].layout = l} = {d \in D : dyn[d].layout = l} BY <1>1
<1> QED BY <1>2, Zenon DEF Counted

\* The renderer when it draws what has been recorded, and before the end of the frame.
LEMMA SweepStarts ==
    ASSUME LayoutInv, NEW V, V = Recorded(State, Base)
    PROVE  /\ V \in Renderers /\ State \in States /\ DynamicsFreed(State, V, 0) /\ Sorted
           /\ ToSet(submit.freeVertexBuffer) \subseteq DOMAIN bufferRef
           /\ \A d \in submit.draws : DrawFinds(d, V)
<1> DEFINE s == State
           w == submit.post
           q == submit.freeVertexBuffer
           U == Ended(s, V)
<1>1. ApiHolds(s, Base, dvb, freeDynamic, appBuffers, appLayouts, transient)
  BY DEF LayoutInv, ApiInv
<1>2. /\ s \in States /\ Core(s, V, {}) /\ V \in Renderers /\ V.ok /\ V.buffers = s.buffers
      /\ DOMAIN dvb \subseteq Dynamics /\ dvb \in [DOMAIN dvb -> [buffer : Buffers, layout : Layouts]]
      /\ appLayouts \in [Layouts -> Nat]
      /\ Counts(s, dvb, DOMAIN dvb, appLayouts, transient)
      /\ Owners(s, dvb, freeDynamic, appBuffers) /\ Posts(s.frame)
      /\ \A d \in s.frame.draws : DrawFinds(d, V)
  BY <1>1, ApiFacts
<1>3. s.buffers = bufferRef /\ s.layouts = layouts /\ s.frame = submit BY StateFields
<1>4. s.buffers \in Some(Buffers, AnyLayout) BY <1>2, FieldsOf
<1>5. Sorted BY <1>2, <1>3, <1>4 DEF Sorted, DynamicsNamed
<1>6. q \in Seq(Buffers) /\ w \in Seq(Cmds)
  <2>1. s.frame.freeVertexBuffer \in Seq(Buffers) /\ s.frame.post \in Seq(Cmds) BY <1>2, FieldsOf
  <2> QED BY <1>3, <2>1
<1>7. IsInjective(q) /\ ToSet(q) \subseteq DOMAIN s.buffers BY <1>2, <1>3 DEF Owners
<1>8. /\ Len(w) = Len(q)
      /\ \A i \in 1 .. Len(w) : w[i] = [op |-> "DestroyBuffer", buffer |-> q[i]]
  BY <1>2, <1>3 DEF Posts
<1>9. U = FoldLeft(Execute, V, w) BY <1>3 DEF Ended
<1> HIDE DEF s, w, q, U
<1>10. /\ U \in Renderers /\ U.layouts = V.layouts /\ U.ok = V.ok
       /\ U.buffers = Restrict(V.buffers, DOMAIN V.buffers \ ToSet(q))
  BY <1>2, <1>6, <1>7, <1>8, <1>9, DestroyRun
<1>11. Core(s, U, {}) BY <1>2, <1>10, CoreSame
<1>12. DynamicsFreed(s, V, 0)
  <2>1. {dvb[freeDynamic[i]].buffer : i \in 1 .. 0} = {} /\ {freeDynamic[i] : i \in 1 .. 0} = {}
    OBVIOUS
  <2>2. s.frame.freeVertexBuffer = q BY <1>3 DEF q
  <2>3. Counts(s, dvb, DOMAIN dvb \ {freeDynamic[i] : i \in 1 .. 0}, appLayouts, transient)
    BY <1>2, <2>1
  <2> QED BY <1>2, <1>3, <1>7, <1>10, <1>11, <2>1, <2>2, <2>3 DEF DynamicsFreed, q, U
<1> QED BY <1>2, <1>3, <1>5, <1>7, <1>12 DEF s, q

\* What is left is what the invariant says of a new frame.
LEMMA SweptHolds ==
    ASSUME Sorted, transient \subseteq Layouts, NEW V \in Renderers, NEW q, NEW s, Swept(s, V, q),
           NEW t, NEW e, e = Restrict(dvb, dynamics \ ToSet(freeDynamic)),
           t = [buffers |-> s.buffers, layouts |-> s.layouts \ ToSet(s.frame.freeVertexLayout),
                ref |-> s.ref, map |-> s.map,
                frame |-> [EmptyFrame EXCEPT !.freeVertexLayout = s.next], next |-> <<>>]
    PROVE  ApiHolds(t, Ended(s, V), e, <<>>, appBuffers, appLayouts, transient)
<1> DEFINE W == Ended(s, V)
           f == t.frame
           D == DOMAIN dvb \ ToSet(freeDynamic)
           away == s.frame.freeVertexLayout
<1>1. /\ Core(s, W, {})
      /\ s.buffers = Restrict(bufferRef, DOMAIN bufferRef \ ToSet(q))
      /\ W.buffers = s.buffers
      /\ Counts(s, dvb, D, appLayouts, transient)
      /\ IsInjective(q)
      /\ ToSet(q) = ToSet(submit.freeVertexBuffer)
                    \union {dvb[d].buffer : d \in ToSet(freeDynamic)}
  BY DEF Swept
<1>2. s \in States /\ W \in Renderers /\ W.ok /\ Maps(s) /\ Waits(s, {}) /\ Knows(s, W)
  BY <1>1, CoreFacts DEF Core
<1>3. f \in AnyFrames /\ f.pre = <<>> /\ f.post = <<>> /\ f.draws = {}
      /\ f.freeVertexBuffer = <<>> /\ f.freeVertexLayout = s.next
  <2> DEFINE g == [EmptyFrame EXCEPT !.freeVertexLayout = s.next]
  <2>1. s.next \in Seq(Layouts) BY <1>2, FieldsOf
  <2>2. g \in AnyFrames /\ g.pre = EmptyFrame.pre /\ g.post = EmptyFrame.post
        /\ g.draws = EmptyFrame.draws /\ g.freeVertexBuffer = EmptyFrame.freeVertexBuffer
        /\ g.freeVertexLayout = s.next
    BY <2>1, EmptyFrameIs DEF AnyFrames
  <2>3. f = g OBVIOUS
  <2> HIDE DEF f, g
  <2> QED BY <2>2, <2>3, EmptyFrameIs
<1>4. /\ t.buffers = s.buffers /\ t.layouts = s.layouts \ ToSet(away)
      /\ t.ref = s.ref /\ t.map = s.map /\ t.next = <<>>
  OBVIOUS
<1>5. t \in States
  <2>1. t = [buffers |-> t.buffers, layouts |-> t.layouts, ref |-> t.ref, map |-> t.map,
             frame |-> f, next |-> t.next]
    OBVIOUS
  <2>2. s.layouts \ ToSet(away) \in SUBSET Layouts BY <1>2, FieldsOf
  <2>3. <<>> \in Seq(Layouts) OBVIOUS
  <2> HIDE DEF f, away
  <2>4. /\ t.buffers \in Some(Buffers, AnyLayout) /\ t.layouts \in SUBSET Layouts
        /\ t.ref \in [Layouts -> Int] /\ t.map \in Some(Hashes, Layouts) /\ t.next \in Seq(Layouts)
    BY <1>2, <1>4, <2>2, <2>3, FieldsOf
  <2> QED BY <1>3, <2>1, <2>4 DEF States
<1> HIDE DEF W, f, D
<1>6. Recorded(t, W) = W BY <1>2, <1>3, ExecutedNone DEF Recorded, f
<1>7. ToSet(<<>>) = {} /\ IsInjective(<<>>) BY DEF ToSet, IsInjective
<1>8. Core(t, W, {})
  <2>1. Leaving(t) = ToSet(s.next) BY <1>3, <1>4, <1>7 DEF Leaving, f
  <2>2. Leaving(s) = ToSet(away) \union ToSet(s.next) BY DEF Leaving
  <2>3. ToSet(away) \intersect ToSet(s.next) = {} /\ IsInjective(s.next) BY <1>2 DEF Waits
  <2>4. \A l \in Leaving(s) : l \in s.layouts /\ s.ref[l] = 0 BY <1>2 DEF Waits
  <2> HIDE DEF away
  <2>5. Maps(t)
    <3>1. \A l \in Layouts : s.ref[l] > 0 => l \notin ToSet(away) BY <2>2, <2>4
    <3> QED BY <1>2, <1>4, <3>1 DEF Maps
  <2>6. \A l \in Leaving(t) : l \in t.layouts /\ t.ref[l] = 0 BY <1>4, <2>1, <2>2, <2>3, <2>4
  <2>7. ASSUME ~NewInVain, NEW l \in t.layouts, t.ref[l] = 0 PROVE l \in Leaving(t)
    <3>1. l \in s.layouts /\ l \notin ToSet(away) BY <1>4, <2>7
    <3>2. l \in Leaving(s) BY <1>2, <1>4, <2>7, <3>1 DEF Waits
    <3> QED BY <2>1, <2>2, <3>1, <3>2
  <2>8. Waits(t, {}) BY <1>3, <1>4, <1>7, <2>3, <2>6, <2>7 DEF Waits, f
  <2>9. Knows(t, W) BY <1>2, <1>4 DEF Knows
  <2> QED BY <1>5, <2>5, <2>8, <2>9 DEF Core
<1>9. DOMAIN e = D /\ \A d \in D : e[d] = dvb[d] BY DEF Restrict, D, dynamics
<1>10. e \in [DOMAIN e -> [buffer : Buffers, layout : Layouts]] /\ DOMAIN e \subseteq Dynamics
  <2>1. e = [d \in D |-> dvb[d]] BY DEF Restrict, D, dynamics
  <2>2. D \subseteq DOMAIN dvb BY DEF D
  <2> QED BY <1>9, <2>1, <2>2 DEF Sorted, DynamicsNamed
<1>11. Counts(t, e, DOMAIN e, appLayouts, transient)
  <2> SUFFICES ASSUME NEW l \in Layouts
               PROVE  t.ref[l] = Counted(l, t.buffers, e, DOMAIN e, appLayouts, transient)
    BY DEF Counts
  <2>1. s.ref[l] = Counted(l, s.buffers, dvb, D, appLayouts, transient) BY <1>1 DEF Counts
  <2>2. Counted(l, s.buffers, Restrict(dvb, D), D, appLayouts, transient)
           = Counted(l, s.buffers, dvb, D, appLayouts, transient)
    BY CountedKept
  <2>3. e = Restrict(dvb, D) BY DEF D, dynamics
  <2> QED BY <1>4, <1>9, <2>1, <2>2, <2>3
<1>12. Owners(t, e, <<>>, appBuffers)
  <2> DEFINE Q == ToSet(submit.freeVertexBuffer)
             QD == {dvb[d].buffer : d \in ToSet(freeDynamic)}
  <2>1. /\ DOMAIN t.buffers = DOMAIN bufferRef \ (Q \union QD)
        /\ \A b \in DOMAIN t.buffers : t.buffers[b] = bufferRef[b]
    BY <1>1, <1>4 DEF Restrict
  <2>2. /\ Transient \in DOMAIN bufferRef /\ Transient \notin appBuffers \union Q
        /\ \A d \in DOMAIN dvb :
              /\ dvb[d].buffer \in DOMAIN bufferRef /\ bufferRef[dvb[d].buffer] = NoLayout
              /\ dvb[d].buffer \notin appBuffers \union Q \union {Transient}
              /\ \A c \in DOMAIN dvb : dvb[c].buffer = dvb[d].buffer => d = c
        /\ freeDynamic \in Seq(DOMAIN dvb)
        /\ appBuffers \subseteq DOMAIN bufferRef /\ \A b \in appBuffers : bufferRef[b] \in Layouts
        /\ Q \subseteq DOMAIN bufferRef \ appBuffers
    BY StateFields DEF Sorted, Owners
  <2>3. ToSet(freeDynamic) \subseteq DOMAIN dvb
    <3>1. \A i \in DOMAIN freeDynamic : freeDynamic[i] \in DOMAIN dvb BY <2>2, LenProperties
    <3> QED BY <3>1 DEF ToSet
  <2>4. Transient \notin QD /\ \A b \in appBuffers : b \notin QD BY <2>2, <2>3
  <2>5. \A d \in D : dvb[d].buffer \notin QD /\ d \in DOMAIN dvb BY <2>2, <2>3 DEF D
  <2> HIDE DEF Q, QD
  <2>6. Transient \in DOMAIN t.buffers BY <2>1, <2>2, <2>4
  <2>7. ASSUME NEW d \in DOMAIN e
        PROVE  /\ e[d].buffer \in DOMAIN t.buffers /\ t.buffers[e[d].buffer] = NoLayout
               /\ e[d].buffer \notin appBuffers \union {} \union {Transient}
               /\ \A c \in DOMAIN e : e[c].buffer = e[d].buffer => d = c
    <3>1. d \in DOMAIN dvb /\ e[d] = dvb[d] /\ dvb[d].buffer \notin QD BY <1>9, <2>5
    <3>2. dvb[d].buffer \in DOMAIN t.buffers BY <2>1, <2>2, <3>1
    <3>3. \A c \in DOMAIN e : c \in DOMAIN dvb /\ e[c] = dvb[c] BY <1>9, <2>5
    <3> QED BY <2>1, <2>2, <3>1, <3>2, <3>3
  <2>8. appBuffers \subseteq DOMAIN t.buffers /\ \A b \in appBuffers : t.buffers[b] \in Layouts
    BY <2>1, <2>2, <2>4
  <2>9. <<>> \in Seq(DOMAIN e) OBVIOUS
  <2>10. f.freeVertexBuffer = <<>> /\ Transient \notin appBuffers BY <1>3, <2>2
  <2> QED BY <1>7, <2>6, <2>7, <2>8, <2>9, <2>10 DEF Owners, f
<1>13. Posts(f)
  <2>1. Len(<<>>) = 0 OBVIOUS
  <2> QED BY <1>3, <2>1 DEF Posts
<1>14. appLayouts \in [Layouts -> Nat] BY DEF Sorted
<1>15. \A d \in f.draws : DrawFinds(d, W) /\ DrawnLayout(d, W) \in t.layouts BY <1>3
<1>16. ApiHolds(t, W, e, <<>>, appBuffers, appLayouts, transient)
  BY <1>1, <1>2, <1>4, <1>6, <1>8, <1>10, <1>11, <1>12, <1>13, <1>14, <1>15 DEF ApiHolds, f
<1> QED BY <1>16 DEF W

LEMMA FrameStep == ASSUME LayoutInv, Frame PROVE LayoutInv'
<1> DEFINE V == Recorded(State, Base)
           dynamic == FoldLeft(DestroyDynamic, State, freeDynamic)
           q == dynamic.frame.freeVertexBuffer
           static == FoldLeft(FreeBuffer, dynamic, q)
           W == Ended(static, V)
           e == Restrict(dvb, dynamics \ ToSet(freeDynamic))
           F == [static EXCEPT !.layouts = @ \ ToSet(static.frame.freeVertexLayout)]
<1>1. ~rendering BY DEF Frame
<1>2. /\ V \in Renderers /\ State \in States /\ DynamicsFreed(State, V, 0) /\ Sorted
      /\ ToSet(submit.freeVertexBuffer) \subseteq DOMAIN bufferRef
      /\ \A d \in submit.draws : DrawFinds(d, V)
  BY SweepStarts
<1>3. transient \subseteq Layouts BY ApiFacts DEF LayoutInv, ApiInv
<1>4. Freed = F BY DEF Freed
<1> HIDE DEF V
<1>5. Swept(static, V, q) BY <1>2, LoopsDo
<1> HIDE DEF static, dynamic, q, e
<1>6. static \in States /\ Core(static, W, {}) BY <1>5, CoreFacts DEF Swept
<1>7. /\ F.buffers = static.buffers /\ F.layouts = static.layouts \ ToSet(static.frame.freeVertexLayout)
      /\ F.ref = static.ref /\ F.map = static.map /\ F.next = static.next /\ F.frame = static.frame
  BY <1>6 DEF States
<1> HIDE DEF F
<1>8. /\ bufferRef' = F.buffers
      /\ layouts' = F.layouts /\ refCount' = F.ref /\ layoutMap' = F.map
      /\ dvb' = e /\ freeDynamic' = <<>>
      /\ submit' = [EmptyFrame EXCEPT !.freeVertexLayout = F.next]
      /\ render' = [submit EXCEPT !.post = F.frame.post, !.freeVertexBuffer = <<>>,
                                  !.freeVertexLayout = <<>>]
      /\ rendering' = TRUE /\ calls' = 0
      /\ appBuffers' = appBuffers /\ appLayouts' = appLayouts /\ transient' = transient
      /\ rBuffers' = rBuffers /\ rLayouts' = rLayouts
  BY <1>4, Zenon DEF Frame, appVars, e
<1> DEFINE g == render'
<1>9. submit \in AnyFrames
  <2>1. State.frame \in AnyFrames BY <1>2, FieldsOf
  <2> QED BY <2>1, StateFields
<1>10. /\ g \in AnyFrames /\ g.pre = submit.pre /\ g.post = static.frame.post /\ g.draws = submit.draws
       /\ g.freeVertexLayout = <<>>
  <2> DEFINE p == static.frame.post
  <2>1. p \in Seq(Cmds) BY <1>6, FieldsOf
  <2>2. g = [submit EXCEPT !.post = p, !.freeVertexBuffer = <<>>, !.freeVertexLayout = <<>>]
    BY <1>7, <1>8
  <2> HIDE DEF p, g
  <2>3. <<>> \in Seq(Buffers) /\ <<>> \in Seq(Layouts) OBVIOUS
  <2>4. g \in AnyFrames /\ g.pre = submit.pre /\ g.post = p /\ g.draws = submit.draws
        /\ g.freeVertexLayout = <<>>
    BY <1>9, <2>1, <2>2, <2>3 DEF AnyFrames
  <2> QED BY <2>4 DEF p
<1>11. Renderer' = Renderer BY <1>8 DEF Renderer
<1>12. WhenDrawing' = V
  <2>1. V = FoldLeft(Execute, Renderer, submit.pre)
    BY <1>1, StateFields DEF V, Recorded, Base
  <2>2. WhenDrawing' = FoldLeft(Execute, Renderer', g.pre) BY DEF WhenDrawing
  <2> HIDE DEF g
  <2> QED BY <1>10, <1>11, <2>1, <2>2
<1>13. WhenDone' = W
  <2>1. WhenDone' = FoldLeft(Execute, WhenDrawing', g.post) BY DEF WhenDone
  <2> HIDE DEF g
  <2> QED BY <1>10, <1>12, <2>1 DEF Ended
<1>14. Base' = W BY <1>8, <1>13, Zenon DEF Base
<1>15. State' = [buffers |-> static.buffers,
                 layouts |-> static.layouts \ ToSet(static.frame.freeVertexLayout),
                 ref |-> static.ref, map |-> static.map,
                 frame |-> [EmptyFrame EXCEPT !.freeVertexLayout = static.next], next |-> <<>>]
  BY <1>7, <1>8, <1>10, Zenon DEF State
<1>16. ApiInv'
  <2> DEFINE s == State'
  <2>1. s = [buffers |-> static.buffers,
             layouts |-> static.layouts \ ToSet(static.frame.freeVertexLayout),
             ref |-> static.ref, map |-> static.map,
             frame |-> [EmptyFrame EXCEPT !.freeVertexLayout = static.next], next |-> <<>>]
    BY <1>15
  <2> HIDE DEF s, W
  <2>2. e = Restrict(dvb, dynamics \ ToSet(freeDynamic)) BY DEF e
  <2>3. ApiHolds(s, Ended(static, V), e, <<>>, appBuffers, appLayouts, transient)
    BY <1>2, <1>3, <1>5, <2>1, <2>2, SweptHolds
  <2>4. ApiHolds(s, W, e, <<>>, appBuffers, appLayouts, transient) BY <2>3 DEF W
  <2> QED BY <1>8, <1>14, <2>4, Zenon DEF ApiInv, s
<1>17. W.ok BY <1>6, CoreFacts
<1>18. RenderInv'
  <2>1. Renderer \in Renderers BY DEF LayoutInv, RenderInv
  <2>2. 0 \in 0 .. MaxCalls BY BoundsAssumption
  <2>3. WhenDone'.ok BY <1>13, <1>17
  <2>4. \A d \in g.draws : DrawFinds(d, V) BY <1>2, <1>10
  <2> QED BY <1>8, <1>10, <1>11, <1>12, <2>1, <2>2, <2>3, <2>4, Zenon DEF RenderInv
<1> QED BY <1>16, <1>18 DEF LayoutInv

LEMMA StutterStep ==
    ASSUME LayoutInv, UNCHANGED vars PROVE LayoutInv'
<1>1. /\ UNCHANGED rendVars /\ UNCHANGED bufferVars /\ UNCHANGED layoutVars /\ UNCHANGED appVars
      /\ submit' = submit /\ calls' = calls
  BY DEF vars
<1>2. RenderInv' /\ Base' = Base BY <1>1, RenderKept DEF LayoutInv, RenderInv
<1>3. State' = State
  <2>1. /\ bufferRef' = bufferRef /\ layouts' = layouts /\ refCount' = refCount
        /\ layoutMap' = layoutMap /\ submit' = submit
        /\ render'.freeVertexLayout = render.freeVertexLayout
    BY <1>1 DEF bufferVars, layoutVars, rendVars
  <2> QED BY <2>1, Zenon DEF State
<1>4. dvb' = dvb /\ freeDynamic' = freeDynamic /\ appBuffers' = appBuffers
      /\ appLayouts' = appLayouts /\ transient' = transient
  BY <1>1 DEF bufferVars, appVars
<1>5. ApiInv' BY <1>2, <1>3, <1>4, Zenon DEF LayoutInv, ApiInv
<1> QED BY <1>2, <1>5 DEF LayoutInv

LEMMA InvNext == ASSUME LayoutInv, [Next]_vars PROVE LayoutInv'
<1>1. CASE \E h \in Hashes : CreateVertexLayout(h) BY <1>1, CreateVertexLayoutStep
<1>2. CASE \E h \in Hashes, b \in Buffers : CreateVertexBuffer(b, h)
  BY <1>2, CreateVertexBufferStep
<1>3. CASE \E h \in Hashes, d \in Dynamics : CreateDynamicVertexBuffer(d, h)
  BY <1>3, CreateDynamicStep
<1>4. CASE \E h \in Hashes : CreateDynamicVertexBufferFails(h) BY <1>4, CreateDynamicFailsStep
<1>5. CASE \E h \in Hashes, num \in Nums : DrawTransient(h, num) BY <1>5, DrawTransientStep
<1>6. CASE \E num \in Nums : AllocInstanceData(num)
                              \/ \E size \in {2, 4} : AllocTransientIndices(num, size)
  BY <1>6, AllocStep
<1>7. CASE \E l \in Layouts : DestroyVertexLayout(l) BY <1>7, DestroyVertexLayoutStep
<1>8. CASE \E b \in Buffers : DestroyVertexBuffer(b) BY <1>8, DestroyVertexBufferStep
<1>9. CASE \E b \in Buffers, l \in Layouts \union {NoLayout} : DrawStatic(b, l)
  BY <1>9, DrawStaticStep
<1>10. CASE \E d \in Dynamics : DestroyDynamicVertexBuffer(d) BY <1>10, DestroyDynamicStep
<1>11. CASE \E d \in Dynamics : DrawDynamic(d) BY <1>11, DrawDynamicStep
<1>12. CASE Frame BY <1>12, FrameStep
<1>13. CASE RenderFrame BY <1>13, RenderFrameStep
<1>14. CASE UNCHANGED vars BY <1>14, StutterStep
<1> QED BY <1>1, <1>2, <1>3, <1>4, <1>5, <1>6, <1>7, <1>8, <1>9, <1>10, <1>11, <1>12, <1>13,
           <1>14 DEF Next

\* The inductive invariant of layouts and buffers, for any number of handles, hashes and
\* calls, and whatever the sizes of the transient buffers are.
THEOREM LayoutsInvariance == Spec => []LayoutInv
<1>1. Init => LayoutInv BY InitHolds
<1>2. LayoutInv /\ [Next]_vars => LayoutInv' BY InvNext
<1> QED BY <1>1, <1>2, PTL DEF Spec

-----------------------------------------------------------------------------
(* The positions of an element in a queue without repetitions.              *)

LEMMA Positions ==
    ASSUME NEW S, NEW q \in Seq(S), IsInjective(q), NEW l
    PROVE  Cardinality({i \in DOMAIN q : q[i] = l}) = IF l \in ToSet(q) THEN 1 ELSE 0
<1> DEFINE A == {i \in DOMAIN q : q[i] = l}
<1>1. CASE l \in ToSet(q)
  <2>1. PICK i \in DOMAIN q : q[i] = l BY <1>1 DEF ToSet
  <2>2. A = {i} BY <2>1 DEF IsInjective
  <2> HIDE DEF A
  <2>3. Cardinality(A) = 1 BY <2>2, FS_Singleton
  <2> QED BY <1>1, <2>3 DEF A
<1>2. CASE l \notin ToSet(q)
  <2>1. A = {} BY <1>2 DEF ToSet
  <2> HIDE DEF A
  <2>2. Cardinality(A) = 0 BY <2>1, FS_EmptySet
  <2> QED BY <1>2, <2>2 DEF A
<1> QED BY <1>1, <1>2

\* What LayoutInv says of the variables.
LEMMA ApiSays ==
    ASSUME LayoutInv
    PROVE  /\ State \in States /\ Core(State, Recorded(State, Base), {})
           /\ bufferRef \in Some(Buffers, AnyLayout) /\ layouts \subseteq Layouts
           /\ refCount \in [Layouts -> Nat] /\ layoutMap \in Some(Hashes, Layouts)
           /\ submit \in AnyFrames /\ render.freeVertexLayout = <<>>
           /\ DOMAIN dvb \subseteq Dynamics /\ dvb \in [DOMAIN dvb -> [buffer : Buffers, layout : Layouts]]
           /\ appLayouts \in [Layouts -> Nat] /\ transient \subseteq Layouts
           /\ Counts(State, dvb, DOMAIN dvb, appLayouts, transient)
           /\ Owners(State, dvb, freeDynamic, appBuffers)
           /\ IsInjective(submit.freeVertexLayout) /\ submit.freeVertexLayout \in Seq(Layouts)
           /\ Leaving(State) = ToSet(submit.freeVertexLayout)
<1>1. ApiHolds(State, Base, dvb, freeDynamic, appBuffers, appLayouts, transient)
  BY DEF LayoutInv, ApiInv
<1>2. /\ State.buffers = bufferRef /\ State.layouts = layouts /\ State.ref = refCount
      /\ State.map = layoutMap /\ State.frame = submit /\ State.next = render.freeVertexLayout
  BY StateFields
<1>3. State \in States /\ State.next = <<>> /\ Core(State, Recorded(State, Base), {})
  BY <1>1, ApiFacts
<1> DEFINE s == State
<1>4. s \in States BY <1>3
<1> HIDE DEF s
<1>5. /\ s.buffers \in Some(Buffers, AnyLayout) /\ s.layouts \subseteq Layouts
      /\ s.ref \in [Layouts -> Int] /\ s.map \in Some(Hashes, Layouts) /\ s.frame \in AnyFrames
  BY <1>4 DEF States
<1>6. \A l \in Layouts : s.ref[l] \in Nat BY <1>3, CoreFacts DEF s
<1>7. s.ref \in [Layouts -> Nat] BY <1>5, <1>6
<1>8. IsInjective(s.frame.freeVertexLayout) BY <1>3 DEF Core, Waits, s
<1>9. s.frame.freeVertexLayout \in Seq(Layouts) BY <1>5 DEF AnyFrames
<1>10. Leaving(s) = ToSet(s.frame.freeVertexLayout)
  <2>1. ToSet(<<>>) = {} BY DEF ToSet
  <2> QED BY <1>3, <2>1 DEF Leaving, s
<1>11. /\ DOMAIN dvb \subseteq Dynamics /\ dvb \in [DOMAIN dvb -> [buffer : Buffers, layout : Layouts]]
       /\ appLayouts \in [Layouts -> Nat] /\ transient \subseteq Layouts
       /\ Counts(State, dvb, DOMAIN dvb, appLayouts, transient)
       /\ Owners(State, dvb, freeDynamic, appBuffers)
  BY <1>1, ApiFacts
<1> QED BY <1>2, <1>3, <1>5, <1>7, <1>8, <1>9, <1>10, <1>11 DEF s

-----------------------------------------------------------------------------
(* What the invariant implies.                                              *)

LEMMA LayoutCounts ==
    ASSUME LayoutInv, ~NewInVain, NEW l \in Layouts
    PROVE  /\ refCount[l] = References(l)
           /\ refCount[l] > 0 <=> l \in Range(layoutMap)
           /\ refCount[l] > 0 => l \in layouts
           /\ Queued(l) = IF l \in layouts /\ refCount[l] = 0 THEN 1 ELSE 0
<1> DEFINE s == State
           W == Recorded(s, Base)
<1>1. Core(s, W, {}) /\ Counts(s, dvb, DOMAIN dvb, appLayouts, transient) BY ApiSays
<1>2. /\ s.buffers = bufferRef /\ s.layouts = layouts /\ s.ref = refCount
      /\ s.map = layoutMap /\ s.frame = submit /\ s.next = render.freeVertexLayout
  BY StateFields
<1>3. Maps(s) /\ Waits(s, {}) BY <1>1 DEF Core
<1> HIDE DEF s, W
<1>4. refCount[l] = References(l)
  <2>1. s.ref[l] = Counted(l, s.buffers, dvb, DOMAIN dvb, appLayouts, transient) BY <1>1 DEF Counts
  <2>2. Counted(l, bufferRef, dvb, DOMAIN dvb, appLayouts, transient) = References(l)
    BY Zenon DEF Counted, References, buffers, dynamics
  <2> QED BY <1>2, <2>1, <2>2
<1>5. (refCount[l] > 0 <=> l \in Range(layoutMap)) /\ (refCount[l] > 0 => l \in layouts)
  BY <1>2, <1>3 DEF Maps
<1> DEFINE q == submit.freeVertexLayout
<1>6. Queued(l) = IF l \in ToSet(q) THEN 1 ELSE 0
  <2>1. IsInjective(q) /\ q \in Seq(Layouts) /\ render.freeVertexLayout = <<>> BY ApiSays
  <2>2. Cardinality({i \in DOMAIN q : q[i] = l}) = IF l \in ToSet(q) THEN 1 ELSE 0
    BY <2>1, Positions
  <2> DEFINE A == {i \in DOMAIN <<>> : <<>>[i] = l}
  <2>3. A = {} OBVIOUS
  <2>4. Queued(l) = Cardinality({i \in DOMAIN q : q[i] = l}) + Cardinality(A)
    BY <2>1, Zenon DEF Queued
  <2> HIDE DEF A
  <2>5. Cardinality(A) = 0 BY <2>3, FS_EmptySet
  <2> QED BY <2>2, <2>4, <2>5
<1> HIDE DEF q
<1>7. l \in ToSet(q) <=> l \in layouts /\ refCount[l] = 0
  <2>1. Leaving(s) = ToSet(q) BY ApiSays DEF q, s
  <2>2. \A k \in Leaving(s) : k \in s.layouts /\ s.ref[k] = 0 BY <1>3 DEF Waits
  <2>3. \A k \in s.layouts \ {} : s.ref[k] = 0 => k \in Leaving(s) BY <1>3 DEF Waits
  <2> QED BY <1>2, <2>1, <2>2, <2>3
<1> QED BY <1>4, <1>5, <1>6, <1>7

\* The map, which names a layout under one hash, is as large as the set of layouts
\* that are counted.
LEMMA MapExact ==
    ASSUME LayoutInv, ~NewInVain PROVE NoMismatch
<1> SUFFICES ASSUME submit.freeVertexLayout \o render.freeVertexLayout = <<>>
             PROVE  Cardinality(layouts) = Cardinality(DOMAIN layoutMap)
  BY DEF NoMismatch
<1> DEFINE D == DOMAIN layoutMap
<1>1. /\ submit.freeVertexLayout \in Seq(Layouts) /\ render.freeVertexLayout = <<>>
      /\ layouts \subseteq Layouts /\ layoutMap \in Some(Hashes, Layouts)
      /\ refCount \in [Layouts -> Nat]
      /\ State \in States /\ Core(State, Recorded(State, Base), {})
      /\ Leaving(State) = ToSet(submit.freeVertexLayout)
  BY ApiSays
<1>2. submit.freeVertexLayout = <<>> BY <1>1
<1>3. \A l \in layouts : refCount[l] > 0
  <2>1. Waits(State, {}) BY <1>1 DEF Core
  <2>2. Leaving(State) = {}
    <3>1. ToSet(<<>>) = {} BY DEF ToSet
    <3> QED BY <1>1, <1>2, <3>1
  <2>3. State.layouts = layouts /\ State.ref = refCount BY StateFields
  <2>4. \A l \in State.layouts \ {} : State.ref[l] = 0 => l \in Leaving(State)
    BY <2>1 DEF Waits
  <2> QED BY <1>1, <2>2, <2>3, <2>4
<1>4. \A l \in Layouts : (refCount[l] > 0 <=> l \in Range(layoutMap))
                          /\ (refCount[l] > 0 => l \in layouts)
  BY LayoutCounts
<1>5. \A h \in D : layoutMap[h] \in layouts
  <2>1. \A h \in D : layoutMap[h] \in Layouts BY <1>1, SomeIs
  <2>2. \A h \in D : layoutMap[h] \in Range(layoutMap) BY DEF Range
  <2> QED BY <1>4, <2>1, <2>2
<1>6. layoutMap \in [D -> layouts]
  <2>1. layoutMap \in [D -> Layouts] BY <1>1, SomeIs
  <2> QED BY <1>5, <2>1
<1>7. IsInjective(layoutMap)
  <2>1. Maps(State) BY <1>1 DEF Core
  <2>2. State.map = layoutMap BY StateFields
  <2> QED BY <2>1, <2>2 DEF Maps
<1>8. \A l \in layouts : \E h \in D : layoutMap[h] = l BY <1>1, <1>3, <1>4 DEF Range
<1>9. layoutMap \in Injection(D, layouts) /\ layoutMap \in Surjection(D, layouts)
  BY <1>6, <1>7, <1>8 DEF Injection, Surjection
<1>10. IsFiniteSet(layouts) BY <1>1, HandlesAssumption, FS_Subset
<1> HIDE DEF D
<1> DEFINE f == layoutMap
<1>11. f \in Injection(D, layouts) /\ f \in Surjection(D, layouts) BY <1>9
<1> HIDE DEF f
<1>12. Cardinality(D) = Cardinality(layouts) BY <1>10, <1>11, FS_Injection
<1> QED BY <1>12 DEF D

\* The counts, the map and the queues agree, and what shutdown asserts holds, if the
\* application creates no dynamic buffer of a new layout in vain.
THEOREM LayoutsCounted == ASSUME NewInVain = FALSE PROVE Spec => []LayoutsExact
<1>1. LayoutInv => LayoutsExact
  <2> SUFFICES ASSUME LayoutInv PROVE LayoutsExact OBVIOUS
  <2>1. \A l \in Layouts :
           /\ refCount[l] = References(l)
           /\ refCount[l] > 0 <=> l \in Range(layoutMap)
           /\ refCount[l] > 0 => l \in layouts
           /\ Queued(l) = IF l \in layouts /\ refCount[l] = 0 THEN 1 ELSE 0
    BY LayoutCounts
  <2>2. layouts \subseteq Layouts /\ refCount \in [Layouts -> Nat]
        /\ layoutMap \in Some(Hashes, Layouts)
    BY ApiSays
  <2>3. \A l \in layouts :
           /\ refCount[l] = References(l)
           /\ refCount[l] > 0 <=> l \in Range(layoutMap)
           /\ Queued(l) = IF refCount[l] = 0 THEN 1 ELSE 0
    BY <2>1, <2>2
  <2>4. \A l \in Layouts \ layouts : refCount[l] = 0 /\ Queued(l) = 0
    <3> TAKE l \in Layouts \ layouts
    <3>1. refCount[l] \in Nat /\ ~(refCount[l] > 0) BY <2>1, <2>2
    <3>2. Queued(l) = 0 BY <2>1
    <3> QED BY <3>1, <3>2
  <2>5. Range(layoutMap) \subseteq layouts
    <3>1. Range(layoutMap) \subseteq Layouts BY <2>2, SomeIs DEF Range
    <3> QED BY <2>1, <3>1
  <2>6. NoMismatch BY MapExact
  <2> QED BY <2>3, <2>4, <2>5, <2>6 DEF LayoutsExact
<1> QED BY <1>1, LayoutsInvariance, PTL

\* No command of the renderer lacks what it needs and no draw its buffer or the layout
\* it was made with; with the sizes of the transient buffers that suit the strides, the
\* transient data of a frame lies side by side.
THEOREM RendererFindsAll == ASSUME SizesSuit PROVE Spec => []RendererSafe
<1>1. LayoutInv => CommandsApply BY DEF LayoutInv, RenderInv, CommandsApply
<1>2. LayoutInv => DrawsFindLayouts
  BY Zenon DEF LayoutInv, RenderInv, DrawFinds, DrawsFindLayouts
<1>3. Spec => []TransientsApart BY PartsApart
<1> QED BY <1>1, <1>2, <1>3, LayoutsInvariance, PTL DEF RendererSafe

LEMMA FrameIs ==
    ASSUME NEW f \in AnyFrames, Sound(f) PROVE f \in Frames
  BY DEF AnyFrames, Sound, Frames

\* Types, of any number of handles and calls.
THEOREM TypesCorrect == ASSUME SizesSuit PROVE Spec => []TypeOK
<1>1. LayoutInv /\ TransientInv => TypeOK
  <2> SUFFICES ASSUME LayoutInv, TransientInv PROVE TypeOK OBVIOUS
  <2>1. /\ bufferRef \in Some(Buffers, AnyLayout) /\ layouts \subseteq Layouts
        /\ refCount \in [Layouts -> Nat] /\ layoutMap \in Some(Hashes, Layouts)
        /\ submit \in AnyFrames
        /\ DOMAIN dvb \subseteq Dynamics /\ dvb \in [DOMAIN dvb -> [buffer : Buffers, layout : Layouts]]
        /\ appLayouts \in [Layouts -> Nat] /\ transient \subseteq Layouts
        /\ Owners(State, dvb, freeDynamic, appBuffers)
        /\ Core(State, Recorded(State, Base), {})
    BY ApiSays
  <2>2. State.buffers = bufferRef /\ State.layouts = layouts /\ State.ref = refCount
        /\ State.map = layoutMap
    BY StateFields
  <2>3. buffers \subseteq Buffers /\ bufferRef \in [buffers -> Layouts \union {NoLayout}]
    BY <2>1, SomeIs DEF buffers, AnyLayout
  <2>4. /\ dynamics \subseteq Dynamics /\ dvb \in [dynamics -> [buffer : Buffers, layout : Layouts]]
        /\ freeDynamic \in Seq(dynamics)
    BY <2>1 DEF dynamics, Owners
  <2>5. Maps(State) BY <2>1 DEF Core
  <2>6. DOMAIN layoutMap \subseteq Hashes /\ layoutMap \in [DOMAIN layoutMap -> layouts]
    <3>1. DOMAIN layoutMap \subseteq Hashes /\ layoutMap \in [DOMAIN layoutMap -> Layouts]
      BY <2>1, SomeIs
    <3>2. \A l \in Range(layoutMap) \intersect Layouts : l \in layouts BY <2>2, <2>5 DEF Maps
    <3>3. \A h \in DOMAIN layoutMap : layoutMap[h] \in layouts BY <3>1, <3>2 DEF Range
    <3> QED BY <3>1, <3>3
  <2>7. IsInjective(layoutMap) BY <2>2, <2>5 DEF Maps
  <2>8. appBuffers \subseteq buffers BY <2>1, <2>2 DEF Owners, buffers
  <2>9. transient \subseteq layouts
    <3>1. ApiHolds(State, Base, dvb, freeDynamic, appBuffers, appLayouts, transient)
      BY DEF LayoutInv, ApiInv
    <3> SUFFICES ASSUME NEW l \in transient PROVE l \in layouts OBVIOUS
    <3>2. l \in Layouts BY <2>1
    <3> QED BY <2>2, <3>1, <3>2, NamedInUse
  <2>10. submit \in Frames /\ render \in Frames
    BY <2>1, FrameIs DEF TransientInv, LayoutInv, RenderInv
  <2>11. rendering \in BOOLEAN /\ calls \in 0 .. MaxCalls BY DEF LayoutInv, RenderInv
  <2>12. rBuffers \in Some(Buffers, AnyLayout) /\ rLayouts \in Some(Layouts, Hashes)
    BY DEF LayoutInv, RenderInv, Renderer, Renderers
  <2>13. DOMAIN rBuffers \subseteq Buffers /\ rBuffers \in [DOMAIN rBuffers -> Layouts \union {NoLayout}]
    BY <2>12, SomeIs DEF AnyLayout
  <2>14. DOMAIN rLayouts \subseteq Layouts /\ rLayouts \in [DOMAIN rLayouts -> Hashes]
    BY <2>12, SomeIs
  <2> QED BY <2>1, <2>3, <2>4, <2>6, <2>7, <2>8, <2>9, <2>10, <2>11, <2>13, <2>14 DEF TypeOK
<1> QED BY <1>1, LayoutsInvariance, Invariance, PTL
=============================================================================
