-------------------------- MODULE FrameBuffersProofs --------------------------
(***************************************************************************)
(* Reference counts are exact, and the renderer finds the textures and      *)
(* frame buffers its commands name, if the application gives away no        *)
(* texture that it has destroyed before (AdoptShared).                      *)
(*                                                                         *)
(* The invariant has three parts.  Counted relates m_refCount to who holds  *)
(* a texture and to the queue of handles.  Each of the two Frames runs:     *)
(* its commands, one after the other, find what they need from the objects  *)
(* there are when it starts.  And what the renderer has when it is done     *)
(* with m_render is what the API thread knows, but for the objects that     *)
(* m_submit creates.                                                        *)
(***************************************************************************)
EXTENDS FrameBuffers, FoldProofs, FiniteSetTheorems, SequenceTheorems

-----------------------------------------------------------------------------
(* Command buffers that run.                                                *)

\* The object a command is about.
Object(c) == IF c.op \in {"CreateFrameBuffer", "DestroyFrameBuffer"} THEN c.fb ELSE c.th

\* The objects of the first n commands of a kind.
Named(p, n, op) == {Object(p[i]) : i \in {j \in 1 .. n : p[j].op = op}}
All(p, op) == Named(p, Len(p), op)

\* What a command needs where there are the textures X and the frame buffers Y, of which
\* the pairs of L refer to textures.
PreFits(c, X, Y) ==
    \/ c.op = "CreateTexture" /\ c.th \notin X
    \/ c.op \in {"UpdateTexture", "ResizeTexture"} /\ c.th \in X
    \/ c.op = "CreateFrameBuffer" /\ c.fb \notin Y /\ ToSet(c.with) \subseteq X

PostFits(c, X, Y, L) ==
    \/ c.op = "ReadTexture" /\ c.th \in X
    \/ c.op = "DestroyTexture" /\ c.th \in X /\ \A l \in L : l[2] = c.th => l[1] \notin Y
    \/ c.op = "DestroyFrameBuffer" /\ c.fb \in Y

PreRuns(p, X, Y) ==
    \A i \in 1 .. Len(p) :
        PreFits(p[i], X \union Named(p, i - 1, "CreateTexture"),
                      Y \union Named(p, i - 1, "CreateFrameBuffer"))

PostRuns(p, X, Y, L) ==
    \A i \in 1 .. Len(p) :
        PostFits(p[i], X \ Named(p, i - 1, "DestroyTexture"),
                       Y \ Named(p, i - 1, "DestroyFrameBuffer"), L)

\* The frame buffers Y and the textures they refer to.
LinksMade(p) ==
    {l \in FrameBuffers \X Textures :
        \E i \in 1 .. Len(p) : p[i].op = "CreateFrameBuffer" /\ p[i].fb = l[1] /\ l[2] \in ToSet(p[i].with)}

-----------------------------------------------------------------------------
(* The invariant.                                                           *)

RefRecords == [ref : [Textures -> [refCount : Int, owned : BOOLEAN, kind : AllKinds]],
               memory : Int, frame : Frames]

Links(Y, att) == {l \in FrameBuffers \X Textures : l[1] \in Y /\ l[2] \in ToSet(att[l[1]])}

\* The attachments that count: P are positions in the frame buffers' attachments.
Positions(fs, att) == {p \in fs \X (1 .. MaxAttachments) : p[2] \in DOMAIN att[p[1]]}
Held(P, att, t) == {p \in P : att[p[1]][p[2]] = t}

\* The counts, if the application has the textures A of those in use, X.
Counted(r, P, att, A, X) ==
    /\ P \subseteq FrameBuffers \X (1 .. MaxAttachments)
    /\ A \subseteq X /\ X \subseteq Textures
    /\ \A t \in X :
          /\ r.ref[t].refCount = Cardinality(Held(P, att, t)) + IF t \in A THEN 1 ELSE 0
          /\ r.ref[t].refCount = 0 <=> t \in ToSet(r.frame.freeTexture)
    /\ \A t \in A : ~r.ref[t].owned
    /\ IsInjective(r.frame.freeTexture) /\ ToSet(r.frame.freeTexture) \subseteq X
    /\ r.memory = Cardinality(X \ ToSet(r.frame.freeTexture))

\* The commands at the end of the frame run; a frame buffer in use counts with all its
\* attachments unless it is among those destroyed.
Queued(r, P, att, X, Y) ==
    /\ PostRuns(r.frame.post, X, Y, Links(Y, att))
    /\ All(r.frame.post, "DestroyTexture") = ToSet(r.frame.freeTexture)
    /\ \A f \in Y : \/ f \in All(r.frame.post, "DestroyFrameBuffer")
                    \/ \A i \in DOMAIN att[f] : <<f, i>> \in P

RefInv(r, P, att, A, X, Y) ==
    r \in RefRecords /\ Counted(r, P, att, A, X) /\ Queued(r, P, att, X, Y)

ApiInv ==
    /\ RefInv(Refs, Positions(appFrameBuffers, attachments), attachments,
              appTextures, textures, frameBuffers)
    /\ \A f \in frameBuffers : ToSet(attachments[f]) \subseteq textures
    /\ IsInjective(submit.freeFrameBuffer)
    /\ ToSet(submit.freeFrameBuffer) = frameBuffers \ appFrameBuffers
    /\ All(submit.post, "DestroyFrameBuffer") = ToSet(submit.freeFrameBuffer)

NewTextures == All(submit.pre, "CreateTexture")
NewFrameBuffers == All(submit.pre, "CreateFrameBuffer")

SubmitInv ==
    /\ NewTextures \subseteq textures /\ NewFrameBuffers \subseteq frameBuffers
    /\ PreRuns(submit.pre, textures \ NewTextures, frameBuffers \ NewFrameBuffers)
    /\ LinksMade(submit.pre) \subseteq Links(frameBuffers, attachments)
    /\ submit.draws \subseteq textures

\* What the renderer has before the end of the frame, and what of it refers to what.
XDrawn == rTextures \union All(render.pre, "CreateTexture")
YDrawn == rFrameBuffers \union All(render.pre, "CreateFrameBuffer")
LinksDrawn == {l \in FrameBuffers \X Textures : l[1] \in rFrameBuffers /\ l[2] \in rAttachments[l[1]]}
              \union LinksMade(render.pre)

RenderInv ==
    /\ PreRuns(render.pre, rTextures, rFrameBuffers)
    /\ render.draws \subseteq XDrawn
    /\ PostRuns(render.post, XDrawn, YDrawn, LinksDrawn)
    /\ stage \in {"submit", "post", "idle"} => render.pre = <<>>
    /\ stage = "idle" => render.post = <<>>
    /\ stage \in {"post", "idle"} => render.draws = {}
    /\ AttachmentsLive

Agreement ==
    /\ XDrawn \ All(render.post, "DestroyTexture") = textures \ NewTextures
    /\ YDrawn \ All(render.post, "DestroyFrameBuffer") = frameBuffers \ NewFrameBuffers
    /\ \A l \in LinksDrawn : l[1] \notin All(render.post, "DestroyFrameBuffer")
                               => l \in Links(frameBuffers, attachments)

Inv == TypeOK /\ ApiInv /\ SubmitInv /\ RenderInv /\ Agreement

-----------------------------------------------------------------------------
(* Command buffers that grow at the end and are executed from the start.    *)

LEMMA NamedAppend ==
    ASSUME NEW C, NEW q \in Seq(C), NEW c \in C, NEW op
    PROVE  /\ \A n \in 0 .. Len(q) : Named(Append(q, c), n, op) = Named(q, n, op)
           /\ All(Append(q, c), op) = All(q, op) \union {x \in {Object(c)} : c.op = op}
<1> DEFINE r == Append(q, c)
<1>1. /\ Len(q) \in Nat /\ Len(r) = Len(q) + 1
      /\ \A i \in 1 .. Len(q) : r[i] = q[i]
      /\ r[Len(q) + 1] = c
  BY AppendProperties, LenProperties
<1> HIDE DEF r
<1>2. ASSUME NEW n \in 0 .. Len(q) PROVE Named(r, n, op) = Named(q, n, op)
  <2>1. \A i \in 1 .. n : r[i] = q[i] BY <1>1
  <2>2. {j \in 1 .. n : r[j].op = op} = {j \in 1 .. n : q[j].op = op} BY <2>1
  <2> QED BY <2>1, <2>2 DEF Named
<1>3. Named(r, Len(q) + 1, op) = Named(r, Len(q), op) \union {x \in {Object(c)} : c.op = op}
  <2>1. 1 .. Len(q) + 1 = (1 .. Len(q)) \union {Len(q) + 1} BY <1>1
  <2>2. {j \in 1 .. Len(q) + 1 : r[j].op = op}
            = {j \in 1 .. Len(q) : r[j].op = op} \union {j \in {Len(q) + 1} : r[j].op = op}
    BY <2>1
  <2>3. {Object(r[i]) : i \in {j \in {Len(q) + 1} : r[j].op = op}} = {x \in {Object(c)} : c.op = op}
    BY <1>1
  <2> QED BY <2>2, <2>3, Zenon DEF Named
<1>4. Len(q) \in 0 .. Len(q) BY <1>1
<1> QED BY <1>1, <1>2, <1>3, <1>4 DEF All, r

LEMMA NamedTail ==
    ASSUME NEW C, NEW q \in Seq(C), q # <<>>, NEW op, NEW n \in 0 .. Len(q) - 1
    PROVE  Named(q, n + 1, op) = Named(Tail(q), n, op) \union {x \in {Object(Head(q))} : Head(q).op = op}
<1> DEFINE r == Tail(q)
<1>1. /\ Len(q) \in Nat /\ Len(r) = Len(q) - 1
      /\ \A i \in 1 .. Len(r) : r[i] = q[i + 1]
      /\ Head(q) = q[1]
  BY HeadTailProperties, LenProperties
<1> HIDE DEF r
<1>2. ASSUME NEW x
      PROVE  x \in Named(q, n + 1, op)
                <=> x \in Named(r, n, op) \/ (x = Object(q[1]) /\ q[1].op = op)
  <2>1. ASSUME NEW i \in 1 .. n + 1 PROVE i = 1 \/ (i - 1 \in 1 .. n /\ q[i] = r[i - 1])
    <3>1. i # 1 => i - 1 \in 1 .. Len(r) /\ i - 1 \in 1 .. n /\ (i - 1) + 1 = i BY <1>1
    <3> QED BY <1>1, <3>1
  <2>2. ASSUME NEW i \in 1 .. n PROVE i + 1 \in 1 .. n + 1 /\ q[i + 1] = r[i] BY <1>1
  <2>3. 1 \in 1 .. n + 1 OBVIOUS
  <2>4. ASSUME x \in Named(q, n + 1, op)
        PROVE  x \in Named(r, n, op) \/ (x = Object(q[1]) /\ q[1].op = op)
    <3>1. PICK i \in 1 .. n + 1 : q[i].op = op /\ x = Object(q[i]) BY <2>4 DEF Named
    <3> QED BY <2>1, <3>1 DEF Named
  <2>5. ASSUME x \in Named(r, n, op) PROVE x \in Named(q, n + 1, op)
    <3>1. PICK i \in 1 .. n : r[i].op = op /\ x = Object(r[i]) BY <2>5 DEF Named
    <3> QED BY <2>2, <3>1 DEF Named
  <2>6. x = Object(q[1]) /\ q[1].op = op => x \in Named(q, n + 1, op) BY <2>3 DEF Named
  <2> QED BY <2>4, <2>5, <2>6
<1> DEFINE first == {y \in {Object(q[1])} : q[1].op = op}
<1>3. \A x : x \in first <=> x = Object(q[1]) /\ q[1].op = op OBVIOUS
<1> HIDE DEF first
<1>4. Named(q, n + 1, op) = Named(r, n, op) \union first BY <1>2, <1>3, Zenon
<1> QED BY <1>1, <1>4, Zenon DEF r, first

LEMMA NamedNone ==
    ASSUME NEW p, NEW op PROVE Named(p, 0, op) = {}
  BY DEF Named

LEMMA NamedEmpty ==
    ASSUME NEW op PROVE All(<<>>, op) = {}
  BY DEF All, Named

LEMMA NamedGrows ==
    ASSUME NEW p, NEW op, NEW m \in Nat, NEW n \in Nat, m <= n
    PROVE  Named(p, m, op) \subseteq Named(p, n, op)
  BY DEF Named
LEMMA NamedAll ==
    ASSUME NEW C, NEW p \in Seq(C), NEW op, NEW n \in 0 .. Len(p)
    PROVE  Named(p, n, op) \subseteq All(p, op)
  BY LenProperties, NamedGrows DEF All

\* A command that fits after the others is added.
LEMMA PreRunsAppend ==
    ASSUME NEW C, NEW q \in Seq(C), NEW c \in C, NEW X, NEW Y, PreRuns(q, X, Y),
           PreFits(c, X \union All(q, "CreateTexture"), Y \union All(q, "CreateFrameBuffer"))
    PROVE  PreRuns(Append(q, c), X, Y)
<1>1. /\ Len(q) \in Nat /\ Len(Append(q, c)) = Len(q) + 1
      /\ \A i \in 1 .. Len(q) : Append(q, c)[i] = q[i]
      /\ Append(q, c)[Len(q) + 1] = c
  BY AppendProperties, LenProperties
<1>2. \A op : \A n \in 0 .. Len(q) : Named(Append(q, c), n, op) = Named(q, n, op)
  BY NamedAppend
<1> SUFFICES ASSUME NEW i \in 1 .. Len(q) + 1
             PROVE  PreFits(Append(q, c)[i], X \union Named(Append(q, c), i - 1, "CreateTexture"),
                                             Y \union Named(Append(q, c), i - 1, "CreateFrameBuffer"))
  BY <1>1, Zenon DEF PreRuns
<1>3. i - 1 \in 0 .. Len(q) BY <1>1
<1>4. CASE i \in 1 .. Len(q) BY <1>1, <1>2, <1>3, <1>4 DEF PreRuns
<1>5. CASE i = Len(q) + 1
  <2>1. i - 1 = Len(q) BY <1>1, <1>5
  <2> QED BY <1>1, <1>2, <1>3, <1>5, <2>1 DEF All
<1> QED BY <1>1, <1>4, <1>5

LEMMA PostRunsAppend ==
    ASSUME NEW C, NEW q \in Seq(C), NEW c \in C, NEW X, NEW Y, NEW L, PostRuns(q, X, Y, L),
           PostFits(c, X \ All(q, "DestroyTexture"), Y \ All(q, "DestroyFrameBuffer"), L)
    PROVE  PostRuns(Append(q, c), X, Y, L)
<1>1. /\ Len(q) \in Nat /\ Len(Append(q, c)) = Len(q) + 1
      /\ \A i \in 1 .. Len(q) : Append(q, c)[i] = q[i]
      /\ Append(q, c)[Len(q) + 1] = c
  BY AppendProperties, LenProperties
<1>2. \A op : \A n \in 0 .. Len(q) : Named(Append(q, c), n, op) = Named(q, n, op)
  BY NamedAppend
<1> SUFFICES ASSUME NEW i \in 1 .. Len(q) + 1
             PROVE  PostFits(Append(q, c)[i], X \ Named(Append(q, c), i - 1, "DestroyTexture"),
                             Y \ Named(Append(q, c), i - 1, "DestroyFrameBuffer"), L)
  BY <1>1, Zenon DEF PostRuns
<1>3. i - 1 \in 0 .. Len(q) BY <1>1
<1>4. CASE i \in 1 .. Len(q) BY <1>1, <1>2, <1>3, <1>4 DEF PostRuns
<1>5. CASE i = Len(q) + 1
  <2>1. i - 1 = Len(q) BY <1>1, <1>5
  <2> QED BY <1>1, <1>2, <1>3, <1>5, <2>1 DEF All
<1> QED BY <1>1, <1>4, <1>5

\* The first command fits, and when it is done the others run.
LEMMA PreRunsTail ==
    ASSUME NEW C, NEW q \in Seq(C), q # <<>>, NEW X, NEW Y, PreRuns(q, X, Y)
    PROVE  /\ PreFits(Head(q), X, Y)
           /\ PreRuns(Tail(q),
                      X \union {x \in {Object(Head(q))} : Head(q).op = "CreateTexture"},
                      Y \union {x \in {Object(Head(q))} : Head(q).op = "CreateFrameBuffer"})
<1> DEFINE r == Tail(q)
           X2 == X \union {x \in {Object(Head(q))} : Head(q).op = "CreateTexture"}
           Y2 == Y \union {x \in {Object(Head(q))} : Head(q).op = "CreateFrameBuffer"}
<1>1. /\ Len(q) \in Nat /\ Len(r) = Len(q) - 1 /\ 1 \in 1 .. Len(q)
      /\ \A i \in 1 .. Len(r) : r[i] = q[i + 1]
      /\ Head(q) = q[1]
  BY HeadTailProperties, LenProperties, EmptySeq
<1>2. PreFits(Head(q), X, Y)
  <2>1. PreFits(q[1], X \union Named(q, 0, "CreateTexture"), Y \union Named(q, 0, "CreateFrameBuffer"))
    BY <1>1 DEF PreRuns
  <2> QED BY <1>1, <2>1, NamedNone
<1>3. ASSUME NEW i \in 1 .. Len(r)
      PROVE  PreFits(r[i], X2 \union Named(r, i - 1, "CreateTexture"),
                           Y2 \union Named(r, i - 1, "CreateFrameBuffer"))
  <2>1. i + 1 \in 1 .. Len(q) /\ (i + 1) - 1 = i /\ (i - 1) + 1 = i /\ i - 1 \in 0 .. Len(q) - 1
    BY <1>1
  <2>2. PreFits(q[i + 1], X \union Named(q, i, "CreateTexture"), Y \union Named(q, i, "CreateFrameBuffer"))
    BY <2>1 DEF PreRuns
  <2>3. ASSUME NEW op
        PROVE  Named(q, i, op) = Named(r, i - 1, op) \union {x \in {Object(Head(q))} : Head(q).op = op}
    <3>1. Named(q, (i - 1) + 1, op)
              = Named(r, i - 1, op) \union {x \in {Object(Head(q))} : Head(q).op = op}
      BY <2>1, NamedTail
    <3> QED BY <2>1, <3>1
  <2>4. X \union Named(q, i, "CreateTexture") = X2 \union Named(r, i - 1, "CreateTexture") BY <2>3
  <2>5. Y \union Named(q, i, "CreateFrameBuffer") = Y2 \union Named(r, i - 1, "CreateFrameBuffer")
    BY <2>3
  <2> HIDE DEF r, X2, Y2
  <2>6. r[i] = q[i + 1] BY <1>1
  <2> QED BY <2>2, <2>4, <2>5, <2>6
<1> HIDE DEF r, X2, Y2
<1>4. PreRuns(r, X2, Y2) BY <1>3 DEF PreRuns
<1> QED BY <1>2, <1>4 DEF r, X2, Y2

LEMMA PostRunsTail ==
    ASSUME NEW C, NEW q \in Seq(C), q # <<>>, NEW X, NEW Y, NEW L, PostRuns(q, X, Y, L)
    PROVE  /\ PostFits(Head(q), X, Y, L)
           /\ PostRuns(Tail(q),
                       X \ {x \in {Object(Head(q))} : Head(q).op = "DestroyTexture"},
                       Y \ {x \in {Object(Head(q))} : Head(q).op = "DestroyFrameBuffer"}, L)
<1> DEFINE r == Tail(q)
           X2 == X \ {x \in {Object(Head(q))} : Head(q).op = "DestroyTexture"}
           Y2 == Y \ {x \in {Object(Head(q))} : Head(q).op = "DestroyFrameBuffer"}
<1>1. /\ Len(q) \in Nat /\ Len(r) = Len(q) - 1 /\ 1 \in 1 .. Len(q)
      /\ \A i \in 1 .. Len(r) : r[i] = q[i + 1]
      /\ Head(q) = q[1]
  BY HeadTailProperties, LenProperties, EmptySeq
<1>2. PostFits(Head(q), X, Y, L)
  <2>1. PostFits(q[1], X \ Named(q, 0, "DestroyTexture"), Y \ Named(q, 0, "DestroyFrameBuffer"), L)
    BY <1>1 DEF PostRuns
  <2> QED BY <1>1, <2>1, NamedNone
<1>3. ASSUME NEW i \in 1 .. Len(r)
      PROVE  PostFits(r[i], X2 \ Named(r, i - 1, "DestroyTexture"),
                            Y2 \ Named(r, i - 1, "DestroyFrameBuffer"), L)
  <2>1. i + 1 \in 1 .. Len(q) /\ (i + 1) - 1 = i /\ (i - 1) + 1 = i /\ i - 1 \in 0 .. Len(q) - 1
    BY <1>1
  <2>2. PostFits(q[i + 1], X \ Named(q, i, "DestroyTexture"), Y \ Named(q, i, "DestroyFrameBuffer"), L)
    BY <2>1 DEF PostRuns
  <2>3. ASSUME NEW op
        PROVE  Named(q, i, op) = Named(r, i - 1, op) \union {x \in {Object(Head(q))} : Head(q).op = op}
    <3>1. Named(q, (i - 1) + 1, op)
              = Named(r, i - 1, op) \union {x \in {Object(Head(q))} : Head(q).op = op}
      BY <2>1, NamedTail
    <3> QED BY <2>1, <3>1
  <2>4. X \ Named(q, i, "DestroyTexture") = X2 \ Named(r, i - 1, "DestroyTexture") BY <2>3
  <2>5. Y \ Named(q, i, "DestroyFrameBuffer") = Y2 \ Named(r, i - 1, "DestroyFrameBuffer")
    BY <2>3
  <2> HIDE DEF r, X2, Y2
  <2>6. r[i] = q[i + 1] BY <1>1
  <2> QED BY <2>2, <2>4, <2>5, <2>6
<1> HIDE DEF r, X2, Y2
<1>4. PostRuns(r, X2, Y2, L) BY <1>3 DEF PostRuns
<1> QED BY <1>2, <1>4 DEF r, X2, Y2

\* More objects do no harm, as long as those that are new do not refer to a texture that
\* is destroyed.
LEMMA PostRunsMore ==
    ASSUME NEW C, NEW q \in Seq(C), NEW X, NEW Y, NEW L, PostRuns(q, X, Y, L),
           NEW X2, X \subseteq X2, NEW Y2, NEW L2, Y \subseteq Y2,
           \A l \in L2 : l[2] \in All(q, "DestroyTexture") => l \in L /\ l[1] \notin Y2 \ Y
    PROVE  PostRuns(q, X2, Y2, L2)
<1> SUFFICES ASSUME NEW i \in 1 .. Len(q)
             PROVE  PostFits(q[i], X2 \ Named(q, i - 1, "DestroyTexture"),
                             Y2 \ Named(q, i - 1, "DestroyFrameBuffer"), L2)
  BY DEF PostRuns
<1>1. PostFits(q[i], X \ Named(q, i - 1, "DestroyTexture"), Y \ Named(q, i - 1, "DestroyFrameBuffer"), L)
  BY DEF PostRuns
<1>2. CASE q[i].op = "DestroyTexture"
  <2>1. Object(q[i]) \in All(q, "DestroyTexture") BY <1>2 DEF All, Named
  <2>2. q[i].th \in All(q, "DestroyTexture") BY <1>2, <2>1 DEF Object
  <2>3. \A l \in L2 : l[2] = q[i].th => l \in L /\ l[1] \notin Y2 \ Y BY <2>2
  <2>4. \A l \in L : l[2] = q[i].th => l[1] \notin Y \ Named(q, i - 1, "DestroyFrameBuffer")
    BY <1>1, <1>2 DEF PostFits
  <2>5. q[i].th \in X2 \ Named(q, i - 1, "DestroyTexture") BY <1>1, <1>2 DEF PostFits
  <2> QED BY <1>2, <2>3, <2>4, <2>5, Zenon DEF PostFits
<1>3. CASE q[i].op # "DestroyTexture" BY <1>1, <1>3 DEF PostFits
<1> QED BY <1>2, <1>3

-----------------------------------------------------------------------------
(* One step on a record of reference counts.                                *)

LEMMA IncRefType ==
    ASSUME NEW r \in RefRecords, NEW t \in Textures
    PROVE  TextureIncRef(r, t) \in RefRecords
  BY DEF TextureIncRef, RefRecords

LEMMA DecRefType ==
    ASSUME NEW r \in RefRecords, NEW t \in Textures
    PROVE  TextureDecRef(r, t) \in RefRecords
<1> DEFINE cmd == [op |-> "DestroyTexture", th |-> t]
           low == [r EXCEPT !.ref[t].refCount = 0, !.memory = @ - 1]
<1>1. cmd \in Cmds BY DEF Cmds, TextureCmds
<1>2. [r EXCEPT !.ref[t].refCount = @ - 1] \in RefRecords BY DEF RefRecords
<1>3. low \in RefRecords
  <2> DEFINE zero == [r EXCEPT !.ref[t].refCount = 0]
  <2>1. zero \in RefRecords BY DEF RefRecords
  <2>2. low = [zero EXCEPT !.memory = @ - 1] OBVIOUS
  <2> HIDE DEF zero, low
  <2>3. [zero EXCEPT !.memory = @ - 1] \in RefRecords BY <2>1 DEF RefRecords
  <2> QED BY <2>2, <2>3
<1>4. [r EXCEPT !.ref[t].refCount = 0, !.memory = @ - 1,
                !.frame.freeTexture = Append(@, t), !.frame.post = Append(@, cmd)]
        = [low EXCEPT !.frame.freeTexture = Append(@, t), !.frame.post = Append(@, cmd)]
  BY Zenon DEF RefRecords
<1> HIDE DEF low, cmd
<1>5. Append(low.frame.freeTexture, t) \in Seq(Textures) /\ Append(low.frame.post, cmd) \in Seq(Cmds)
  BY <1>1, <1>3 DEF RefRecords, Frames
<1>6. [low EXCEPT !.frame.freeTexture = Append(@, t), !.frame.post = Append(@, cmd)] \in RefRecords
  BY <1>3, <1>5 DEF RefRecords, Frames
<1>7. CASE r.ref[t].refCount # 1 BY <1>2, <1>7, Zenon DEF TextureDecRef
<1>8. CASE r.ref[t].refCount = 1 BY <1>4, <1>6, <1>8, Zenon DEF TextureDecRef, cmd
<1> QED BY <1>7, <1>8

LEMMA OwnedType ==
    ASSUME NEW r \in RefRecords, NEW t \in Textures
    PROVE  [r EXCEPT !.ref[t].owned = TRUE] \in RefRecords
  BY DEF RefRecords

LEMMA TakeOwnershipType ==
    ASSUME NEW r \in RefRecords, NEW t \in Textures
    PROVE  TextureTakeOwnership(r, t) \in RefRecords
  BY OwnedType, DecRefType DEF TextureTakeOwnership

\* The count of t goes down by one, and with the last reference t is queued.
Drops(r, d, t) ==
    /\ d \in RefRecords
    /\ \A u \in Textures : d.ref[u].refCount = IF u = t THEN r.ref[u].refCount - 1 ELSE r.ref[u].refCount
    /\ \A u \in Textures \ {t} : d.ref[u].owned = r.ref[u].owned
    /\ d.frame.pre = r.frame.pre /\ d.frame.draws = r.frame.draws
    /\ d.frame.freeFrameBuffer = r.frame.freeFrameBuffer
    /\ r.ref[t].refCount # 1 =>
          /\ d.memory = r.memory
          /\ d.frame.freeTexture = r.frame.freeTexture /\ d.frame.post = r.frame.post
    /\ r.ref[t].refCount = 1 =>
          /\ d.memory = r.memory - 1
          /\ d.frame.freeTexture = Append(r.frame.freeTexture, t)
          /\ d.frame.post = Append(r.frame.post, [op |-> "DestroyTexture", th |-> t])

LEMMA DecRefDrops ==
    ASSUME NEW r \in RefRecords, NEW t \in Textures
    PROVE  /\ Drops(r, TextureDecRef(r, t), t)
           /\ TextureDecRef(r, t).ref[t].owned = r.ref[t].owned
<1> DEFINE d == TextureDecRef(r, t)
           cmd == [op |-> "DestroyTexture", th |-> t]
<1>1. d \in RefRecords BY DecRefType
<1>2. \A u \in Textures : /\ d.ref[u].refCount = IF u = t THEN r.ref[u].refCount - 1
                                                        ELSE r.ref[u].refCount
                          /\ d.ref[u].owned = r.ref[u].owned
  BY DEF TextureDecRef, RefRecords
<1>3. /\ d.frame.pre = r.frame.pre /\ d.frame.draws = r.frame.draws
      /\ d.frame.freeFrameBuffer = r.frame.freeFrameBuffer
  BY DEF TextureDecRef, RefRecords, Frames
<1>4. r.ref[t].refCount # 1 =>
          /\ d.memory = r.memory
          /\ d.frame.freeTexture = r.frame.freeTexture /\ d.frame.post = r.frame.post
  BY DEF TextureDecRef, RefRecords, Frames
<1>5. r.ref[t].refCount = 1 =>
          /\ d.memory = r.memory - 1
          /\ d.frame.freeTexture = Append(r.frame.freeTexture, t)
          /\ d.frame.post = Append(r.frame.post, cmd)
  BY DEF TextureDecRef, RefRecords, Frames
<1> HIDE DEF d
<1> QED BY <1>1, <1>2, <1>3, <1>4, <1>5 DEF Drops, d

LEMMA TakeOwnershipDrops ==
    ASSUME NEW r \in RefRecords, NEW t \in Textures
    PROVE  /\ r.ref[t].owned => TextureTakeOwnership(r, t) = r
           /\ ~r.ref[t].owned => /\ Drops(r, TextureTakeOwnership(r, t), t)
                                 /\ TextureTakeOwnership(r, t).ref[t].owned
<1> DEFINE o == [r EXCEPT !.ref[t].owned = TRUE]
           d == TextureDecRef(o, t)
<1>1. o \in RefRecords BY OwnedType
<1>2. /\ \A u \in Textures : o.ref[u].refCount = r.ref[u].refCount
      /\ \A u \in Textures \ {t} : o.ref[u].owned = r.ref[u].owned
      /\ o.ref[t].owned
      /\ o.memory = r.memory /\ o.frame = r.frame
  BY DEF RefRecords
<1> HIDE DEF o
<1>3. Drops(o, d, t) /\ d.ref[t].owned = o.ref[t].owned BY <1>1, DecRefDrops
<1> HIDE DEF d
<1>4. Drops(r, d, t) BY <1>2, <1>3 DEF Drops
<1> QED BY <1>2, <1>3, <1>4 DEF TextureTakeOwnership, o, d

\* The count of t goes up by one.
LEMMA IncRefRaises ==
    ASSUME NEW r \in RefRecords, NEW t \in Textures
    PROVE  LET d == TextureIncRef(r, t)
           IN  /\ \A u \in Textures : /\ d.ref[u].refCount = IF u = t THEN r.ref[u].refCount + 1
                                                                     ELSE r.ref[u].refCount
                                      /\ d.ref[u].owned = r.ref[u].owned
               /\ d.memory = r.memory /\ d.frame = r.frame
  BY DEF TextureIncRef, RefRecords

-----------------------------------------------------------------------------
(* What FoldLeft makes of each of the three steps: a chain of values, one   *)
(* step for each position.                                                  *)
IncRefs(g, r, w) ==
    /\ g \in [0 .. Len(w) -> RefRecords] /\ g[0] = r
    /\ \A k \in 1 .. Len(w) : g[k] = TextureIncRef(g[k - 1], w[k])

LEMMA IncRefsAre ==
    ASSUME NEW r \in RefRecords, NEW w \in Seq(Textures)
    PROVE  \E g : IncRefs(g, r, w) /\ g[Len(w)] = FoldLeft(TextureIncRef, r, w)
<1> DEFINE n == Len(w)
           Is(it) == it = [s \in SUBSET DOMAIN w |->
                              IF s = {} THEN r ELSE TextureIncRef(it[s \ {Max(s)}], w[Max(s)])]
           G == [p \in RefRecords \X (1 .. n) |-> TextureIncRef(p[1], w[p[2]])]
<1>1. \A x \in RefRecords, i \in 1 .. n : G[<<x, i>>] = TextureIncRef(x, w[i]) OBVIOUS
<1>2. n \in Nat /\ DOMAIN w = 1 .. n /\ \A i \in 1 .. n : w[i] \in Textures BY LenProperties
<1>3. G \in [RefRecords \X (1 .. n) -> RefRecords] BY <1>2, IncRefType
<1> HIDE DEF G, n
<1>4. \A s \in SUBSET (1 .. n) : s # {} => Max(s) \in 1 .. n BY <1>2, MaxIn
<1>5. \E it : Is(it)
  <2>1. PICK it : Unfolds(it, RefRecords, r, n, G) BY <1>2, <1>3, FoldExists
  <2>2. ASSUME NEW s \in SUBSET (1 .. n), s # {}
        PROVE  it[s] = TextureIncRef(it[s \ {Max(s)}], w[Max(s)])
    <3>1. it[s \ {Max(s)}] \in RefRecords BY <2>1 DEF Unfolds
    <3>2. it[s] = G[<<it[s \ {Max(s)}], Max(s)>>] BY <2>1, <2>2 DEF Unfolds
    <3> QED BY <1>1, <1>4, <2>2, <3>1, <3>2
  <2>3. it = [s \in SUBSET (1 .. n) |-> it[s]] /\ it[{}] = r BY <2>1 DEF Unfolds
  <2>4. [s \in SUBSET (1 .. n) |-> it[s]]
            = [s \in SUBSET (1 .. n) |->
                  IF s = {} THEN r ELSE TextureIncRef(it[s \ {Max(s)}], w[Max(s)])]
    BY <2>2, <2>3, Zenon
  <2>5. Is(it) BY <1>2, <2>3, <2>4, Zenon
  <2> QED BY <2>5, Zenon
<1> DEFINE it == CHOOSE it : Is(it)
<1>6. Is(it) BY <1>5, Zenon
<1>7. FoldLeft(TextureIncRef, r, w) = it[1 .. n] BY <1>2, Zenon DEF FoldLeft, MapThenFoldSet
<1> HIDE DEF it
<1>8. Follows(it, RefRecords, r, n, G)
  <2>1. it[{}] = r /\ \A s \in SUBSET (1 .. n) :
                         s # {} => it[s] = TextureIncRef(it[s \ {Max(s)}], w[Max(s)])
    BY <1>2, <1>6
  <2> HIDE DEF Is
  <2> QED BY <1>1, <1>4, <2>1 DEF Follows
<1> HIDE DEF Is
<1>9. PICK g : IsChain(g, RefRecords, r, n, G, it[1 .. n]) BY <1>2, <1>3, <1>8, FoldChain
<1>10. ASSUME NEW k \in 1 .. n PROVE g[k] = TextureIncRef(g[k - 1], w[k])
  <2>1. g[k - 1] \in RefRecords BY <1>2, <1>9 DEF IsChain
  <2>2. g[k] = G[<<g[k - 1], k>>] BY <1>9 DEF IsChain
  <2> QED BY <1>1, <2>1, <2>2
<1>11. IncRefs(g, r, w) BY <1>9, <1>10 DEF IsChain, n, IncRefs
<1>12. g[n] = it[1 .. n] BY <1>9 DEF IsChain
<1> QED BY <1>7, <1>11, <1>12 DEF n

DecRefs(g, r, w) ==
    /\ g \in [0 .. Len(w) -> RefRecords] /\ g[0] = r
    /\ \A k \in 1 .. Len(w) : g[k] = TextureDecRef(g[k - 1], w[k])

LEMMA DecRefsAre ==
    ASSUME NEW r \in RefRecords, NEW w \in Seq(Textures)
    PROVE  \E g : DecRefs(g, r, w) /\ g[Len(w)] = FoldLeft(TextureDecRef, r, w)
<1> DEFINE n == Len(w)
           Is(it) == it = [s \in SUBSET DOMAIN w |->
                              IF s = {} THEN r ELSE TextureDecRef(it[s \ {Max(s)}], w[Max(s)])]
           G == [p \in RefRecords \X (1 .. n) |-> TextureDecRef(p[1], w[p[2]])]
<1>1. \A x \in RefRecords, i \in 1 .. n : G[<<x, i>>] = TextureDecRef(x, w[i]) OBVIOUS
<1>2. n \in Nat /\ DOMAIN w = 1 .. n /\ \A i \in 1 .. n : w[i] \in Textures BY LenProperties
<1>3. G \in [RefRecords \X (1 .. n) -> RefRecords] BY <1>2, DecRefType
<1> HIDE DEF G, n
<1>4. \A s \in SUBSET (1 .. n) : s # {} => Max(s) \in 1 .. n BY <1>2, MaxIn
<1>5. \E it : Is(it)
  <2>1. PICK it : Unfolds(it, RefRecords, r, n, G) BY <1>2, <1>3, FoldExists
  <2>2. ASSUME NEW s \in SUBSET (1 .. n), s # {}
        PROVE  it[s] = TextureDecRef(it[s \ {Max(s)}], w[Max(s)])
    <3>1. it[s \ {Max(s)}] \in RefRecords BY <2>1 DEF Unfolds
    <3>2. it[s] = G[<<it[s \ {Max(s)}], Max(s)>>] BY <2>1, <2>2 DEF Unfolds
    <3> QED BY <1>1, <1>4, <2>2, <3>1, <3>2
  <2>3. it = [s \in SUBSET (1 .. n) |-> it[s]] /\ it[{}] = r BY <2>1 DEF Unfolds
  <2>4. [s \in SUBSET (1 .. n) |-> it[s]]
            = [s \in SUBSET (1 .. n) |->
                  IF s = {} THEN r ELSE TextureDecRef(it[s \ {Max(s)}], w[Max(s)])]
    BY <2>2, <2>3, Zenon
  <2>5. Is(it) BY <1>2, <2>3, <2>4, Zenon
  <2> QED BY <2>5, Zenon
<1> DEFINE it == CHOOSE it : Is(it)
<1>6. Is(it) BY <1>5, Zenon
<1>7. FoldLeft(TextureDecRef, r, w) = it[1 .. n] BY <1>2, Zenon DEF FoldLeft, MapThenFoldSet
<1> HIDE DEF it
<1>8. Follows(it, RefRecords, r, n, G)
  <2>1. it[{}] = r /\ \A s \in SUBSET (1 .. n) :
                         s # {} => it[s] = TextureDecRef(it[s \ {Max(s)}], w[Max(s)])
    BY <1>2, <1>6
  <2> HIDE DEF Is
  <2> QED BY <1>1, <1>4, <2>1 DEF Follows
<1> HIDE DEF Is
<1>9. PICK g : IsChain(g, RefRecords, r, n, G, it[1 .. n]) BY <1>2, <1>3, <1>8, FoldChain
<1>10. ASSUME NEW k \in 1 .. n PROVE g[k] = TextureDecRef(g[k - 1], w[k])
  <2>1. g[k - 1] \in RefRecords BY <1>2, <1>9 DEF IsChain
  <2>2. g[k] = G[<<g[k - 1], k>>] BY <1>9 DEF IsChain
  <2> QED BY <1>1, <2>1, <2>2
<1>11. DecRefs(g, r, w) BY <1>9, <1>10 DEF IsChain, n, DecRefs
<1>12. g[n] = it[1 .. n] BY <1>9 DEF IsChain
<1> QED BY <1>7, <1>11, <1>12 DEF n

Adopts(g, r, w) ==
    /\ g \in [0 .. Len(w) -> RefRecords] /\ g[0] = r
    /\ \A k \in 1 .. Len(w) : g[k] = TextureTakeOwnership(g[k - 1], w[k])

LEMMA AdoptsAre ==
    ASSUME NEW r \in RefRecords, NEW w \in Seq(Textures)
    PROVE  \E g : Adopts(g, r, w) /\ g[Len(w)] = FoldLeft(TextureTakeOwnership, r, w)
<1> DEFINE n == Len(w)
           Is(it) == it = [s \in SUBSET DOMAIN w |->
                              IF s = {} THEN r ELSE TextureTakeOwnership(it[s \ {Max(s)}], w[Max(s)])]
           G == [p \in RefRecords \X (1 .. n) |-> TextureTakeOwnership(p[1], w[p[2]])]
<1>1. \A x \in RefRecords, i \in 1 .. n : G[<<x, i>>] = TextureTakeOwnership(x, w[i]) OBVIOUS
<1>2. n \in Nat /\ DOMAIN w = 1 .. n /\ \A i \in 1 .. n : w[i] \in Textures BY LenProperties
<1>3. G \in [RefRecords \X (1 .. n) -> RefRecords] BY <1>2, TakeOwnershipType
<1> HIDE DEF G, n
<1>4. \A s \in SUBSET (1 .. n) : s # {} => Max(s) \in 1 .. n BY <1>2, MaxIn
<1>5. \E it : Is(it)
  <2>1. PICK it : Unfolds(it, RefRecords, r, n, G) BY <1>2, <1>3, FoldExists
  <2>2. ASSUME NEW s \in SUBSET (1 .. n), s # {}
        PROVE  it[s] = TextureTakeOwnership(it[s \ {Max(s)}], w[Max(s)])
    <3>1. it[s \ {Max(s)}] \in RefRecords BY <2>1 DEF Unfolds
    <3>2. it[s] = G[<<it[s \ {Max(s)}], Max(s)>>] BY <2>1, <2>2 DEF Unfolds
    <3> QED BY <1>1, <1>4, <2>2, <3>1, <3>2
  <2>3. it = [s \in SUBSET (1 .. n) |-> it[s]] /\ it[{}] = r BY <2>1 DEF Unfolds
  <2>4. [s \in SUBSET (1 .. n) |-> it[s]]
            = [s \in SUBSET (1 .. n) |->
                  IF s = {} THEN r ELSE TextureTakeOwnership(it[s \ {Max(s)}], w[Max(s)])]
    BY <2>2, <2>3, Zenon
  <2>5. Is(it) BY <1>2, <2>3, <2>4, Zenon
  <2> QED BY <2>5, Zenon
<1> DEFINE it == CHOOSE it : Is(it)
<1>6. Is(it) BY <1>5, Zenon
<1>7. FoldLeft(TextureTakeOwnership, r, w) = it[1 .. n] BY <1>2, Zenon DEF FoldLeft, MapThenFoldSet
<1> HIDE DEF it
<1>8. Follows(it, RefRecords, r, n, G)
  <2>1. it[{}] = r /\ \A s \in SUBSET (1 .. n) :
                         s # {} => it[s] = TextureTakeOwnership(it[s \ {Max(s)}], w[Max(s)])
    BY <1>2, <1>6
  <2> HIDE DEF Is
  <2> QED BY <1>1, <1>4, <2>1 DEF Follows
<1> HIDE DEF Is
<1>9. PICK g : IsChain(g, RefRecords, r, n, G, it[1 .. n]) BY <1>2, <1>3, <1>8, FoldChain
<1>10. ASSUME NEW k \in 1 .. n PROVE g[k] = TextureTakeOwnership(g[k - 1], w[k])
  <2>1. g[k - 1] \in RefRecords BY <1>2, <1>9 DEF IsChain
  <2>2. g[k] = G[<<g[k - 1], k>>] BY <1>9 DEF IsChain
  <2> QED BY <1>1, <2>1, <2>2
<1>11. Adopts(g, r, w) BY <1>9, <1>10 DEF IsChain, n, Adopts
<1>12. g[n] = it[1 .. n] BY <1>9 DEF IsChain
<1> QED BY <1>7, <1>11, <1>12 DEF n

-----------------------------------------------------------------------------
(* Who holds a texture.                                                     *)

LEMMA AppendSet ==
    ASSUME NEW S, NEW s \in Seq(S), NEW x \in S
    PROVE  /\ ToSet(Append(s, x)) = ToSet(s) \union {x}
           /\ IsInjective(s) /\ x \notin ToSet(s) => IsInjective(Append(s, x))
<1> DEFINE u == Append(s, x)
<1>1. /\ Len(s) \in Nat /\ DOMAIN s = 1 .. Len(s) /\ DOMAIN u = 1 .. Len(s) + 1
      /\ \A i \in 1 .. Len(s) : u[i] = s[i]
      /\ u[Len(s) + 1] = x
  <2>1. u \in Seq(S) /\ Len(u) = Len(s) + 1 BY AppendProperties
  <2> QED BY <2>1, AppendProperties, LenProperties
<1> HIDE DEF u
<1>2. 1 .. Len(s) + 1 = (1 .. Len(s)) \union {Len(s) + 1} BY <1>1
<1>3. ToSet(u) = ToSet(s) \union {x} BY <1>1, <1>2 DEF ToSet
<1>4. ASSUME IsInjective(s), x \notin ToSet(s) PROVE IsInjective(u)
  <2> SUFFICES ASSUME NEW a \in 1 .. Len(s) + 1, NEW b \in 1 .. Len(s) + 1, u[a] = u[b] PROVE a = b
    BY <1>1 DEF IsInjective
  <2>1. \A i \in 1 .. Len(s) : u[i] # x BY <1>1, <1>4 DEF ToSet
  <2>2. CASE a \in 1 .. Len(s) /\ b \in 1 .. Len(s) BY <1>1, <1>4, <2>2 DEF IsInjective
  <2>3. CASE a = Len(s) + 1 \/ b = Len(s) + 1 BY <1>1, <1>2, <2>1, <2>3
  <2> QED BY <1>2, <2>2, <2>3
<1> QED BY <1>3, <1>4 DEF u

LEMMA PositionsFinite ==
    ASSUME NEW P, P \subseteq FrameBuffers \X (1 .. MaxAttachments)
    PROVE  IsFiniteSet(P)
<1>1. IsFiniteSet(1 .. MaxAttachments) BY BoundsAssumption, FS_Interval
<1>2. IsFiniteSet(FrameBuffers \X (1 .. MaxAttachments)) BY <1>1, HandlesAssumption, FS_Product
<1> QED BY <1>2, FS_Subset

LEMMA OneLess ==
    ASSUME NEW S, IsFiniteSet(S), NEW x \in S
    PROVE  Cardinality(S \ {x}) = Cardinality(S) - 1
  BY FS_RemoveElement

LEMMA OneMore ==
    ASSUME NEW S, IsFiniteSet(S), NEW x, x \notin S
    PROVE  Cardinality(S \union {x}) = Cardinality(S) + 1
  BY FS_AddElement

LEMMA HeldCount ==
    ASSUME NEW P, P \subseteq FrameBuffers \X (1 .. MaxAttachments), NEW att, NEW t
    PROVE  /\ IsFiniteSet(Held(P, att, t)) /\ Cardinality(Held(P, att, t)) \in Nat
           /\ Cardinality(Held(P, att, t)) = 0 <=> Held(P, att, t) = {}
<1>1. IsFiniteSet(Held(P, att, t)) BY PositionsFinite DEF Held
<1> QED BY <1>1, FS_CardinalityType, FS_EmptySet

\* One position fewer, one more.
LEMMA HeldLess ==
    ASSUME NEW P, P \subseteq FrameBuffers \X (1 .. MaxAttachments), NEW att, NEW p \in P, NEW t
    PROVE  Cardinality(Held(P \ {p}, att, t))
             = IF att[p[1]][p[2]] = t THEN Cardinality(Held(P, att, t)) - 1
                                     ELSE Cardinality(Held(P, att, t))
<1>1. CASE att[p[1]][p[2]] = t
  <2>1. Held(P \ {p}, att, t) = Held(P, att, t) \ {p} /\ p \in Held(P, att, t) BY <1>1 DEF Held
  <2> QED BY <1>1, <2>1, HeldCount, OneLess
<1>2. CASE att[p[1]][p[2]] # t
  <2>1. Held(P \ {p}, att, t) = Held(P, att, t) BY <1>2 DEF Held
  <2> QED BY <1>2, <2>1
<1> QED BY <1>1, <1>2

LEMMA HeldMore ==
    ASSUME NEW P, P \subseteq FrameBuffers \X (1 .. MaxAttachments), NEW att, NEW p, p \notin P, NEW t
    PROVE  Cardinality(Held(P \union {p}, att, t))
             = IF att[p[1]][p[2]] = t THEN Cardinality(Held(P, att, t)) + 1
                                     ELSE Cardinality(Held(P, att, t))
<1>1. CASE att[p[1]][p[2]] = t
  <2>1. Held(P \union {p}, att, t) = Held(P, att, t) \union {p} /\ p \notin Held(P, att, t)
    BY <1>1 DEF Held
  <2> QED BY <1>1, <2>1, HeldCount, OneMore
<1>2. CASE att[p[1]][p[2]] # t
  <2>1. Held(P \union {p}, att, t) = Held(P, att, t) BY <1>2 DEF Held
  <2> QED BY <1>2, <2>1
<1> QED BY <1>1, <1>2

\* The textures in use that are not queued are a finite set.
LEMMA KeptFinite ==
    ASSUME NEW X, X \subseteq Textures, NEW F
    PROVE  IsFiniteSet(X \ F) /\ Cardinality(X \ F) \in Nat
<1>1. IsFiniteSet(X) BY HandlesAssumption, FS_Subset
<1> QED BY <1>1, FS_Difference, FS_CardinalityType

-----------------------------------------------------------------------------
(* One step keeps the counts exact and the commands in order.               *)

\* Of those who refer to t one less is left: the application or one attachment.
Released(r, d, t, P, P2, att, A, A2) ==
    \/ t \in A /\ P2 = P /\ A2 = A \ {t}
    \/ /\ \E p \in P : att[p[1]][p[2]] = t /\ P2 = P \ {p}
       /\ A2 = A /\ d.ref[t].owned = r.ref[t].owned

LEMMA DropKeepsCounted ==
    ASSUME NEW X, NEW r \in RefRecords, NEW d, NEW t \in X, NEW P, NEW P2, NEW att, NEW A, NEW A2,
           Counted(r, P, att, A, X), Drops(r, d, t),
           Released(r, d, t, P, P2, att, A, A2)
    PROVE  /\ Counted(d, P2, att, A2, X)
           /\ t \notin ToSet(r.frame.freeTexture) /\ r.ref[t].refCount >= 1
           /\ d.ref[t].refCount = Cardinality(Held(P2, att, t)) + IF t \in A2 THEN 1 ELSE 0
<1> DEFINE app(S, u) == IF u \in S THEN 1 ELSE 0
           F == ToSet(r.frame.freeTexture)
           G == ToSet(d.frame.freeTexture)
<1>1. /\ t \in Textures /\ P \subseteq FrameBuffers \X (1 .. MaxAttachments)
      /\ X \subseteq Textures /\ A \subseteq X /\ A2 \subseteq A /\ P2 \subseteq P
  BY DEF Counted, Released
<1>2. \A u \in X : Cardinality(Held(P, att, u)) \in Nat /\ Cardinality(Held(P2, att, u)) \in Nat
  BY <1>1, HeldCount
<1>3. \A u \in X : Cardinality(Held(P2, att, u)) + app(A2, u)
                      = Cardinality(Held(P, att, u)) + app(A, u) - IF u = t THEN 1 ELSE 0
  <2> TAKE u \in X
  <2>1. CASE t \in A /\ P2 = P /\ A2 = A \ {t} BY <1>2, <2>1
  <2>2. CASE (\E p \in P : att[p[1]][p[2]] = t /\ P2 = P \ {p}) /\ A2 = A
    <3>1. PICK p \in P : att[p[1]][p[2]] = t /\ P2 = P \ {p} BY <2>2
    <3>2. Cardinality(Held(P2, att, u)) = IF t = u THEN Cardinality(Held(P, att, u)) - 1
                                                  ELSE Cardinality(Held(P, att, u))
      BY <1>1, <3>1, HeldLess
    <3> QED BY <1>2, <2>2, <3>2
  <2> QED BY <2>1, <2>2 DEF Released
<1>4. \A u \in X : /\ r.ref[u].refCount = Cardinality(Held(P, att, u)) + app(A, u)
                   /\ r.ref[u].refCount = 0 <=> u \in F
                   /\ d.ref[u].refCount = IF u = t THEN r.ref[u].refCount - 1 ELSE r.ref[u].refCount
  BY <1>1 DEF Counted, Drops
<1>5. \A u \in X : d.ref[u].refCount = Cardinality(Held(P2, att, u)) + app(A2, u)
  BY <1>2, <1>3, <1>4
<1>6. r.ref[t].refCount >= 1 /\ t \notin F
  <2>1. r.ref[t].refCount = Cardinality(Held(P2, att, t)) + app(A2, t) + 1 BY <1>2, <1>3, <1>4
  <2>2. r.ref[t].refCount # 0 /\ r.ref[t].refCount >= 1 BY <1>2, <2>1
  <2> QED BY <1>4, <2>2
<1>7. \A u \in A2 : ~d.ref[u].owned BY <1>1 DEF Counted, Drops, Released
<1>8. /\ \A u \in X : d.ref[u].refCount = 0 <=> u \in G
      /\ IsInjective(d.frame.freeTexture) /\ G \subseteq X
      /\ d.memory = Cardinality(X \ G)
  <2>1. F \subseteq X /\ IsInjective(r.frame.freeTexture) /\ r.memory = Cardinality(X \ F)
    BY DEF Counted
  <2>2. CASE r.ref[t].refCount # 1
    <3>1. G = F /\ d.memory = r.memory /\ d.frame.freeTexture = r.frame.freeTexture
      BY <2>2 DEF Drops
    <3>2. d.ref[t].refCount # 0 BY <1>2, <1>4, <2>2
    <3> HIDE DEF F, G
    <3> QED BY <1>4, <1>6, <2>1, <3>1, <3>2
  <2>3. CASE r.ref[t].refCount = 1
    <3>1. d.memory = r.memory - 1 /\ d.frame.freeTexture = Append(r.frame.freeTexture, t)
      BY <2>3 DEF Drops
    <3>2. r.frame.freeTexture \in Seq(Textures) BY DEF RefRecords, Frames
    <3>3. G = F \union {t} /\ IsInjective(d.frame.freeTexture)
      BY <1>1, <1>6, <2>1, <3>1, <3>2, AppendSet
    <3> HIDE DEF F, G
    <3>4. X \ G = (X \ F) \ {t} /\ t \in X \ F BY <1>6, <3>3
    <3>5. d.memory = Cardinality(X \ G) BY <1>1, <2>1, <3>1, <3>4, KeptFinite, OneLess
    <3>6. d.ref[t].refCount = 0 BY <1>4, <2>3
    <3> QED BY <1>4, <2>1, <3>3, <3>5, <3>6
  <2> QED BY <2>2, <2>3
<1>9. Counted(d, P2, att, A2, X)
  BY <1>1, <1>5, <1>7, <1>8 DEF Counted
<1> QED BY <1>5, <1>6, <1>9

LEMMA DropKeepsQueued ==
    ASSUME NEW X, NEW Y, NEW r \in RefRecords, NEW d, NEW t \in X, NEW P, NEW P2, NEW att,
           NEW A, NEW A2, Queued(r, P, att, X, Y), Drops(r, d, t), Counted(d, P2, att, A2, X),
           t \notin ToSet(r.frame.freeTexture),
           d.ref[t].refCount = Cardinality(Held(P2, att, t)) + IF t \in A2 THEN 1 ELSE 0,
           \A f \in Y : \/ f \in All(r.frame.post, "DestroyFrameBuffer")
                        \/ \A i \in DOMAIN att[f] : <<f, i>> \in P2
    PROVE  Queued(d, P2, att, X, Y)
<1> DEFINE q == r.frame.post
           L == Links(Y, att)
           cmd == [op |-> "DestroyTexture", th |-> t]
<1>0. t \in Textures /\ P2 \subseteq FrameBuffers \X (1 .. MaxAttachments) BY DEF Counted
<1>1. CASE r.ref[t].refCount # 1
  <2>1. d.frame.freeTexture = r.frame.freeTexture /\ d.frame.post = q BY <1>1 DEF Drops
  <2> QED BY <2>1 DEF Queued
<1>2. CASE r.ref[t].refCount = 1
  <2>1. d.frame.freeTexture = Append(r.frame.freeTexture, t) /\ d.frame.post = Append(q, cmd)
    BY <1>2 DEF Drops
  <2>2. d.ref[t].refCount = 0 BY <1>0, <1>2 DEF Drops
  <2>3. Held(P2, att, t) = {} BY <1>0, <2>2, HeldCount
  <2>4. q \in Seq(Cmds) /\ cmd \in Cmds /\ r.frame.freeTexture \in Seq(Textures)
    BY <1>0 DEF RefRecords, Frames, Cmds, TextureCmds
  <2>5. PostFits(cmd, X \ All(q, "DestroyTexture"), Y \ All(q, "DestroyFrameBuffer"), L)
    <3>1. All(q, "DestroyTexture") = ToSet(r.frame.freeTexture) BY DEF Queued
    <3>2. ASSUME NEW l \in L, l[2] = t, l[1] \in Y, l[1] \notin All(q, "DestroyFrameBuffer")
          PROVE  FALSE
      <4>1. PICK i \in DOMAIN att[l[1]] : att[l[1]][i] = t BY <3>2 DEF Links, ToSet
      <4>2. <<l[1], i>> \in P2 BY <3>2
      <4>3. <<l[1], i>> \in Held(P2, att, t) BY <4>1, <4>2 DEF Held
      <4> QED BY <2>3, <4>3
    <3> HIDE DEF q, L
    <3> QED BY <3>1, <3>2 DEF PostFits
  <2>6. PostRuns(Append(q, cmd), X, Y, L)
    <3> HIDE DEF L, cmd
    <3> QED BY <2>4, <2>5, PostRunsAppend DEF Queued, L
  <2>7. /\ All(Append(q, cmd), "DestroyTexture") = All(q, "DestroyTexture") \union {t}
        /\ All(Append(q, cmd), "DestroyFrameBuffer") = All(q, "DestroyFrameBuffer")
    <3>1. Object(cmd) = t BY DEF Object
    <3>2. \A op : All(Append(q, cmd), op) = All(q, op) \union {x \in {Object(cmd)} : cmd.op = op}
      <4> HIDE DEF cmd, q
      <4> QED BY <2>4, NamedAppend
    <3> HIDE DEF q
    <3> QED BY <3>1, <3>2
  <2>8. ToSet(Append(r.frame.freeTexture, t)) = ToSet(r.frame.freeTexture) \union {t}
    BY <1>0, <2>4, AppendSet
  <2> HIDE DEF cmd, q
  <2> QED BY <2>1, <2>6, <2>7, <2>8 DEF Queued, q, L
<1> QED BY <1>1, <1>2

\* A reference is dropped: the application's, or that of one attachment.
LEMMA DropKeeps ==
    ASSUME NEW X, NEW Y, NEW r, NEW d, NEW t \in X, NEW P, NEW P2, NEW att, NEW A, NEW A2,
           RefInv(r, P, att, A, X, Y), Drops(r, d, t),
           Released(r, d, t, P, P2, att, A, A2),
           \A f \in Y : \/ f \in All(r.frame.post, "DestroyFrameBuffer")
                        \/ \A i \in DOMAIN att[f] : <<f, i>> \in P2
    PROVE  RefInv(d, P2, att, A2, X, Y)
<1>1. r \in RefRecords /\ Counted(r, P, att, A, X) /\ Queued(r, P, att, X, Y) BY DEF RefInv
<1>2. d \in RefRecords BY DEF Drops
<1>3. /\ Counted(d, P2, att, A2, X)
      /\ t \notin ToSet(r.frame.freeTexture)
      /\ d.ref[t].refCount = Cardinality(Held(P2, att, t)) + IF t \in A2 THEN 1 ELSE 0
  BY <1>1, DropKeepsCounted
<1>4. Queued(d, P2, att, X, Y) BY <1>1, <1>3, DropKeepsQueued
<1> QED BY <1>2, <1>3, <1>4 DEF RefInv

-----------------------------------------------------------------------------
(* The three folds.                                                         *)

\* What a step on reference counts leaves alone in the frame.
Untouched(r, d) ==
    /\ d.frame.pre = r.frame.pre /\ d.frame.draws = r.frame.draws
    /\ d.frame.freeFrameBuffer = r.frame.freeFrameBuffer
    /\ All(d.frame.post, "DestroyFrameBuffer") = All(r.frame.post, "DestroyFrameBuffer")

LEMMA DropUntouched ==
    ASSUME NEW r \in RefRecords, NEW d, NEW t \in Textures, Drops(r, d, t)
    PROVE  Untouched(r, d)
<1> DEFINE q == r.frame.post
           cmd == [op |-> "DestroyTexture", th |-> t]
<1>1. q \in Seq(Cmds) /\ cmd \in Cmds BY DEF RefRecords, Frames, Cmds, TextureCmds
<1>2. All(Append(q, cmd), "DestroyFrameBuffer")
        = All(q, "DestroyFrameBuffer") \union {x \in {Object(cmd)} : cmd.op = "DestroyFrameBuffer"}
  <2> HIDE DEF q, cmd
  <2> QED BY <1>1, NamedAppend
<1>3. All(Append(q, cmd), "DestroyFrameBuffer") = All(q, "DestroyFrameBuffer")
  <2> HIDE DEF q
  <2> QED BY <1>2
<1>4. d.frame.post = q \/ d.frame.post = Append(q, cmd) BY DEF Drops
<1> HIDE DEF cmd
<1> QED BY <1>3, <1>4 DEF Untouched, Drops

\* The attachments of f up to the kth.
Until(f, k) == {<<f, i>> : i \in 1 .. k}

\* createFrameBuffer holds its attachments one after the other.
LEMMA RaiseKeeps ==
    ASSUME NEW X, NEW Y, NEW r, NEW t \in X, NEW P, NEW p, NEW att, NEW A,
           RefInv(r, P, att, A, X, Y), t \notin ToSet(r.frame.freeTexture),
           p \in FrameBuffers \X (1 .. MaxAttachments), p \notin P, att[p[1]][p[2]] = t
    PROVE  RefInv(TextureIncRef(r, t), P \union {p}, att, A, X, Y)
<1> DEFINE d == TextureIncRef(r, t)
           app(u) == IF u \in A THEN 1 ELSE 0
           P2 == P \union {p}
<1>1. r \in RefRecords /\ Counted(r, P, att, A, X) /\ Queued(r, P, att, X, Y) BY DEF RefInv
<1>2. t \in Textures /\ X \subseteq Textures /\ A \subseteq X /\ P \subseteq FrameBuffers \X (1 .. MaxAttachments)
  BY <1>1 DEF Counted
<1>3. /\ \A u \in X : /\ d.ref[u].refCount = IF u = t THEN r.ref[u].refCount + 1 ELSE r.ref[u].refCount
                      /\ d.ref[u].owned = r.ref[u].owned
      /\ d.memory = r.memory /\ d.frame = r.frame
  BY <1>1, <1>2, IncRefRaises
<1>4. d \in RefRecords BY <1>1, <1>2, IncRefType
<1> HIDE DEF d
<1>5. \A u \in X : Cardinality(Held(P2, att, u))
                     = IF u = t THEN Cardinality(Held(P, att, u)) + 1 ELSE Cardinality(Held(P, att, u))
  BY <1>2, HeldMore
<1>6. \A u \in X : Cardinality(Held(P, att, u)) \in Nat BY <1>2, HeldCount
<1>7. \A u \in X : /\ r.ref[u].refCount = Cardinality(Held(P, att, u)) + app(u)
                   /\ r.ref[u].refCount = 0 <=> u \in ToSet(r.frame.freeTexture)
  BY <1>1 DEF Counted
<1>8. \A u \in X : /\ d.ref[u].refCount = Cardinality(Held(P2, att, u)) + app(u)
                   /\ d.ref[u].refCount = 0 <=> u \in ToSet(d.frame.freeTexture)
  <2> HIDE DEF P2
  <2> QED BY <1>3, <1>5, <1>6, <1>7
<1>9. Counted(d, P2, att, A, X) BY <1>1, <1>2, <1>3, <1>8 DEF Counted
<1>10. Queued(d, P2, att, X, Y) BY <1>1, <1>3 DEF Queued
<1> QED BY <1>4, <1>9, <1>10 DEF RefInv, d

LEMMA HoldKeeps ==
    ASSUME NEW X, NEW Y, NEW r, NEW P, NEW att, NEW A, NEW w \in Seq(Textures), NEW f \in FrameBuffers,
           RefInv(r, P, att, A, X, Y), ToSet(w) \subseteq X \ ToSet(r.frame.freeTexture),
           att[f] = w, Len(w) <= MaxAttachments, \A p \in P : p[1] # f
    PROVE  LET d == FoldLeft(TextureIncRef, r, w)
           IN  RefInv(d, P \union Until(f, Len(w)), att, A, X, Y) /\ d.frame = r.frame
                 /\ \A t \in Textures : d.ref[t].owned = r.ref[t].owned
<1> DEFINE n == Len(w)
<1>1. r \in RefRecords BY DEF RefInv
<1>2. PICK g : IncRefs(g, r, w) /\ g[n] = FoldLeft(TextureIncRef, r, w) BY <1>1, IncRefsAre
<1>3. n \in Nat /\ n <= MaxAttachments /\ \A k \in 1 .. n : w[k] \in ToSet(w) /\ w[k] \in Textures
  BY LenProperties DEF ToSet
<1> HIDE DEF n
<1> DEFINE S == {k \in 0 .. n : /\ RefInv(g[k], P \union Until(f, k), att, A, X, Y)
                                /\ g[k].frame = r.frame
                                /\ \A t \in Textures : g[k].ref[t].owned = r.ref[t].owned}
<1>4. 0 \in S
  <2>1. g[0] = r BY <1>2 DEF IncRefs
  <2>2. P \union Until(f, 0) = P BY DEF Until
  <2>3. RefInv(g[0], P \union Until(f, 0), att, A, X, Y) BY <2>1, <2>2
  <2> QED BY <1>3, <2>1, <2>3
<1>5. ASSUME NEW k \in 0 .. n - 1, k \in S PROVE k + 1 \in S
  <2>1. k + 1 \in 1 .. n /\ k + 1 \in 0 .. n /\ (k + 1) - 1 = k BY <1>3
  <2>2. RefInv(g[k], P \union Until(f, k), att, A, X, Y) /\ g[k].frame = r.frame
        /\ \A t \in Textures : g[k].ref[t].owned = r.ref[t].owned
    BY <1>5
  <2> HIDE DEF S
  <2>3. g[k + 1] = TextureIncRef(g[k], w[k + 1])
    <3>1. \A j \in 1 .. n : g[j] = TextureIncRef(g[j - 1], w[j]) BY <1>2 DEF IncRefs, n
    <3> QED BY <2>1, <3>1
  <2>4. /\ w[k + 1] \in X /\ w[k + 1] \in Textures
        /\ w[k + 1] \notin ToSet(g[k].frame.freeTexture) /\ w[k + 1] = att[f][k + 1]
    BY <1>3, <2>1, <2>2
  <2> DEFINE p == <<f, k + 1>>
  <2>5. p \in FrameBuffers \X (1 .. MaxAttachments) BY <1>3, <2>1, BoundsAssumption
  <2>6. p[1] = f /\ p[2] = k + 1 /\ p \notin P OBVIOUS
  <2>7. p \notin Until(f, k) BY DEF Until
  <2>8. Until(f, k + 1) = Until(f, k) \union {p}
    <3>1. 1 .. k + 1 = (1 .. k) \union {k + 1} OBVIOUS
    <3> QED BY <3>1 DEF Until
  <2> HIDE DEF p
  <2>9. RefInv(g[k + 1], (P \union Until(f, k)) \union {p}, att, A, X, Y)
    <3> DEFINE Pk == P \union Until(f, k)
    <3>1. p \notin Pk BY <2>6, <2>7
    <3>2. RefInv(g[k], Pk, att, A, X, Y) BY <2>2
    <3>3. att[p[1]][p[2]] = w[k + 1] BY <2>4, <2>6
    <3> HIDE DEF Pk
    <3>4. RefInv(TextureIncRef(g[k], w[k + 1]), Pk \union {p}, att, A, X, Y)
      BY <2>4, <2>5, <3>1, <3>2, <3>3, RaiseKeeps
    <3> QED BY <2>3, <3>4 DEF Pk
  <2>10. (P \union Until(f, k)) \union {p} = P \union Until(f, k + 1) BY <2>8
  <2>11. g[k] \in RefRecords BY <2>2 DEF RefInv
  <2>12. /\ g[k + 1].frame = g[k].frame
         /\ \A t \in Textures : g[k + 1].ref[t].owned = g[k].ref[t].owned
    BY <2>3, <2>4, <2>11, IncRefRaises
  <2> QED BY <2>1, <2>2, <2>9, <2>10, <2>12 DEF S
<1>6. n \in S
  <2> HIDE DEF S
  <2>1. \A k \in 0 .. n : k \in S BY <1>3, <1>4, <1>5, UpTo
  <2> QED BY <1>3, <2>1
<1> QED BY <1>2, <1>6 DEF n

\* destroyFrameBuffer drops its attachments one after the other.
LEMMA ReleaseKeeps ==
    ASSUME NEW X, NEW Y, NEW r, NEW P, NEW att, NEW A, NEW w \in Seq(Textures), NEW f,
           RefInv(r, P, att, A, X, Y), ToSet(w) \subseteq X, att[f] = w,
           Until(f, Len(w)) \subseteq P, f \in All(r.frame.post, "DestroyFrameBuffer")
    PROVE  LET d == FoldLeft(TextureDecRef, r, w)
           IN  RefInv(d, P \ Until(f, Len(w)), att, A, X, Y) /\ Untouched(r, d)
<1> DEFINE n == Len(w)
<1>1. r \in RefRecords BY DEF RefInv
<1>2. PICK g : DecRefs(g, r, w) /\ g[n] = FoldLeft(TextureDecRef, r, w) BY <1>1, DecRefsAre
<1>3. n \in Nat /\ \A k \in 1 .. n : w[k] \in ToSet(w) /\ w[k] \in Textures
  BY LenProperties DEF ToSet
<1>4. Until(f, n) \subseteq P OBVIOUS
<1> HIDE DEF n
<1> DEFINE S == {k \in 0 .. n : RefInv(g[k], P \ Until(f, k), att, A, X, Y) /\ Untouched(r, g[k])}
<1>5. 0 \in S
  <2>1. g[0] = r BY <1>2 DEF DecRefs
  <2>2. P \ Until(f, 0) = P BY DEF Until
  <2>3. RefInv(g[0], P \ Until(f, 0), att, A, X, Y) BY <2>1, <2>2
  <2>4. Untouched(r, g[0]) BY <2>1 DEF Untouched
  <2> QED BY <1>3, <2>3, <2>4
<1>6. ASSUME NEW k \in 0 .. n - 1, k \in S PROVE k + 1 \in S
  <2>1. k + 1 \in 1 .. n /\ k + 1 \in 0 .. n /\ (k + 1) - 1 = k BY <1>3
  <2>2. RefInv(g[k], P \ Until(f, k), att, A, X, Y) /\ Untouched(r, g[k]) BY <1>6
  <2> HIDE DEF S
  <2>3. g[k + 1] = TextureDecRef(g[k], w[k + 1])
    <3>1. \A j \in 1 .. n : g[j] = TextureDecRef(g[j - 1], w[j]) BY <1>2 DEF DecRefs, n
    <3> QED BY <2>1, <3>1
  <2> DEFINE p == <<f, k + 1>>
             t == w[k + 1]
             Pk == P \ Until(f, k)
             P2 == Pk \ {p}
             d == g[k + 1]
  <2>4. t \in X /\ t \in Textures /\ t = att[f][k + 1] BY <1>3, <2>1
  <2>5. g[k] \in RefRecords BY <2>2 DEF RefInv
  <2>6. Drops(g[k], d, t) /\ d.ref[t].owned = g[k].ref[t].owned BY <2>3, <2>4, <2>5, DecRefDrops
  <2>7. p \in Pk
    <3>1. p \in Until(f, n) BY <2>1 DEF Until
    <3>2. p \notin Until(f, k) BY DEF Until
    <3> QED BY <1>4, <3>1, <3>2
  <2>8. Released(g[k], d, t, Pk, P2, att, A, A)
    <3>1. p[1] = f /\ p[2] = k + 1 OBVIOUS
    <3>2. att[p[1]][p[2]] = t BY <2>4, <3>1
    <3> HIDE DEF p, t, Pk, d
    <3> QED BY <2>6, <2>7, <3>2 DEF Released
  <2>9. ASSUME NEW e \in Y
        PROVE  \/ e \in All(g[k].frame.post, "DestroyFrameBuffer")
               \/ \A i \in DOMAIN att[e] : <<e, i>> \in P2
    <3>1. \/ e \in All(g[k].frame.post, "DestroyFrameBuffer")
          \/ \A i \in DOMAIN att[e] : <<e, i>> \in Pk
      BY <2>2 DEF RefInv, Queued
    <3>2. f \in All(g[k].frame.post, "DestroyFrameBuffer") BY <2>2 DEF Untouched
    <3>3. CASE e = f BY <3>2, <3>3
    <3>4. CASE e # f
      <4>1. \A i : <<e, i>> # p BY <3>4
      <4> HIDE DEF p, Pk
      <4> QED BY <3>1, <4>1
    <3> QED BY <3>3, <3>4
  <2>10. RefInv(g[k], Pk, att, A, X, Y) BY <2>2
  <2>11. P2 = P \ Until(f, k + 1)
    <3>1. 1 .. k + 1 = (1 .. k) \union {k + 1} OBVIOUS
    <3>2. Until(f, k + 1) = Until(f, k) \union {p} BY <3>1 DEF Until
    <3> QED BY <3>2
  <2> HIDE DEF p, t, Pk, P2, d
  <2>12. RefInv(d, P2, att, A, X, Y)
    BY <2>4, <2>6, <2>8, <2>9, <2>10, DropKeeps
  <2>13. Untouched(g[k], d) BY <2>4, <2>5, <2>6, DropUntouched
  <2>14. Untouched(r, d) BY <2>2, <2>13 DEF Untouched
  <2>15. RefInv(g[k + 1], P \ Until(f, k + 1), att, A, X, Y) BY <2>11, <2>12 DEF d
  <2> QED BY <2>1, <2>14, <2>15 DEF S, d
<1>7. n \in S
  <2> HIDE DEF S
  <2>1. \A k \in 0 .. n : k \in S BY <1>3, <1>5, <1>6, UpTo
  <2> QED BY <1>3, <2>1
<1> QED BY <1>2, <1>7 DEF n

\* createFrameBuffer lets go of what the application gives away: each texture once,
\* though it may be attached twice.
LEMMA AdoptKeeps ==
    ASSUME NEW X, NEW Y, NEW r, NEW P, NEW att, NEW A, NEW w \in Seq(Textures),
           RefInv(r, P, att, A, X, Y), ToSet(w) \subseteq X,
           \A t \in ToSet(w) : t \in A \/ r.ref[t].owned
    PROVE  LET d == Adopt(r, w)
           IN  RefInv(d, P, att, A \ ToSet(w), X, Y) /\ Untouched(r, d)
<1> DEFINE n == Len(w)
           Given(k) == {w[j] : j \in 1 .. k}
<1>1. r \in RefRecords BY DEF RefInv
<1>2. PICK g : Adopts(g, r, w) /\ g[n] = FoldLeft(TextureTakeOwnership, r, w) BY <1>1, AdoptsAre
<1>3. /\ n \in Nat /\ \A k \in 1 .. n : w[k] \in ToSet(w) /\ w[k] \in Textures
      /\ ToSet(w) = Given(n)
  BY LenProperties DEF ToSet
<1> HIDE DEF n
<1> DEFINE S == {k \in 0 .. n : /\ RefInv(g[k], P, att, A \ Given(k), X, Y)
                                /\ Untouched(r, g[k])
                                /\ \A t \in ToSet(w) : t \in A \ Given(k) \/ g[k].ref[t].owned}
<1>5. 0 \in S
  <2>1. g[0] = r BY <1>2 DEF Adopts
  <2>2. A \ Given(0) = A OBVIOUS
  <2> HIDE DEF Given
  <2>3. RefInv(g[0], P, att, A \ Given(0), X, Y) BY <2>1, <2>2
  <2>4. Untouched(r, g[0]) BY <2>1 DEF Untouched
  <2> QED BY <1>3, <2>1, <2>2, <2>3, <2>4
<1>6. ASSUME NEW k \in 0 .. n - 1, k \in S PROVE k + 1 \in S
  <2> DEFINE t == w[k + 1]
             Ak == A \ Given(k)
             A2 == Ak \ {t}
             d == g[k + 1]
  <2>1. k + 1 \in 1 .. n /\ k + 1 \in 0 .. n /\ (k + 1) - 1 = k BY <1>3
  <2>2. /\ RefInv(g[k], P, att, Ak, X, Y) /\ Untouched(r, g[k])
        /\ \A u \in ToSet(w) : u \in Ak \/ g[k].ref[u].owned
    BY <1>6
  <2>3. d = TextureTakeOwnership(g[k], t)
    <3>1. \A j \in 1 .. n : g[j] = TextureTakeOwnership(g[j - 1], w[j]) BY <1>2 DEF Adopts, n
    <3> QED BY <2>1, <3>1
  <2>4. A2 = A \ Given(k + 1)
    <3>1. 1 .. k + 1 = (1 .. k) \union {k + 1} OBVIOUS
    <3> QED BY <3>1
  <2>5. t \in X /\ t \in Textures /\ t \in ToSet(w) /\ ToSet(w) \subseteq Textures
    BY <1>3, <2>1 DEF ToSet
  <2> HIDE DEF S, t, Ak, A2, d, Given
  <2>6. g[k] \in RefRecords BY <2>2 DEF RefInv
  <2>7. RefInv(d, P, att, A2, X, Y) /\ Untouched(g[k], d)
        /\ \A u \in ToSet(w) : u \in A2 \/ d.ref[u].owned
    <3>1. CASE g[k].ref[t].owned
      <4>1. d = g[k] BY <2>3, <2>5, <2>6, <3>1, TakeOwnershipDrops
      <4>2. t \notin Ak BY <2>2, <3>1 DEF RefInv, Counted
      <4>3. A2 = Ak BY <4>2 DEF A2
      <4> QED BY <2>2, <4>1, <4>3 DEF Untouched
    <3>2. CASE ~g[k].ref[t].owned
      <4>1. Drops(g[k], d, t) /\ d.ref[t].owned BY <2>3, <2>5, <2>6, <3>2, TakeOwnershipDrops
      <4>2. t \in Ak BY <2>2, <2>5, <3>2
      <4>3. Released(g[k], d, t, P, P, att, Ak, A2) BY <4>2 DEF Released, A2
      <4>4. \A e \in Y : \/ e \in All(g[k].frame.post, "DestroyFrameBuffer")
                         \/ \A i \in DOMAIN att[e] : <<e, i>> \in P
        BY <2>2 DEF RefInv, Queued
      <4>5. RefInv(d, P, att, A2, X, Y) BY <2>2, <2>5, <4>1, <4>3, <4>4, DropKeeps
      <4>6. Untouched(g[k], d) BY <2>5, <2>6, <4>1, DropUntouched
      <4>7. ASSUME NEW u \in ToSet(w) PROVE u \in A2 \/ d.ref[u].owned
        <5>1. u # t => d.ref[u].owned = g[k].ref[u].owned BY <2>5, <4>1 DEF Drops
        <5> QED BY <2>2, <4>1, <5>1 DEF A2
      <4> QED BY <4>5, <4>6, <4>7
    <3> QED BY <3>1, <3>2
  <2>8. Untouched(r, d) BY <2>2, <2>7 DEF Untouched
  <2>9. RefInv(g[k + 1], P, att, A \ Given(k + 1), X, Y) BY <2>4, <2>7 DEF d
  <2> QED BY <2>1, <2>4, <2>7, <2>8, <2>9 DEF S, d
<1>7. n \in S
  <2> HIDE DEF S
  <2>1. \A k \in 0 .. n : k \in S BY <1>3, <1>5, <1>6, UpTo
  <2> QED BY <1>3, <2>1
<1> QED BY <1>2, <1>3, <1>7 DEF n, Adopt

-----------------------------------------------------------------------------
(* Records of the reference counts and the state they stand for.            *)

LEMMA RefsType ==
    ASSUME TypeOK
    PROVE  /\ Refs \in RefRecords /\ Refs.ref = textureRef /\ Refs.memory = memoryUsed
           /\ Refs.frame = submit
<1>1. memoryUsed \in Int
  <2>1. IsFiniteSet(Textures) /\ Cardinality(Textures) \in Nat BY HandlesAssumption, FS_CardinalityType
  <2> QED BY <2>1 DEF TypeOK
<1> QED BY <1>1 DEF TypeOK, Refs, RefRecords

LEMMA BecomesRefs ==
    ASSUME NEW d \in RefRecords, Becomes(d)
    PROVE  Refs' = d
  BY DEF Becomes, Refs, RefRecords

\* Nothing the invariant looks at has changed.
LEMMA RefInvSame ==
    ASSUME NEW r, NEW d \in RefRecords, NEW P, NEW att, NEW A, NEW X, NEW Y,
           RefInv(r, P, att, A, X, Y), d.ref = r.ref, d.memory = r.memory,
           d.frame.freeTexture = r.frame.freeTexture, d.frame.post = r.frame.post
    PROVE  RefInv(d, P, att, A, X, Y)
  BY DEF RefInv, Counted, Queued

\* The object of c, if c is a command of this kind.
Made(c, op) == {x \in {Object(c)} : c.op = op}

\* A command at the end of the frame that destroys no texture.
Recorded(r, d, c) ==
    /\ d.ref = r.ref /\ d.memory = r.memory
    /\ d.frame.freeTexture = r.frame.freeTexture /\ d.frame.post = Append(r.frame.post, c)
    /\ c.op # "DestroyTexture"

LEMMA PostKeeps ==
    ASSUME NEW r, NEW d \in RefRecords, NEW P, NEW att, NEW A, NEW X, NEW Y, NEW c \in Cmds,
           RefInv(r, P, att, A, X, Y), Recorded(r, d, c),
           PostFits(c, X \ All(r.frame.post, "DestroyTexture"),
                       Y \ All(r.frame.post, "DestroyFrameBuffer"), Links(Y, att))
    PROVE  RefInv(d, P, att, A, X, Y)
<1> DEFINE q == r.frame.post
           L == Links(Y, att)
<1>1. r \in RefRecords /\ Counted(r, P, att, A, X) /\ Queued(r, P, att, X, Y) BY DEF RefInv
<1>2. q \in Seq(Cmds) BY <1>1 DEF RefRecords, Frames
<1> HIDE DEF q, L
<1>3. PostRuns(q, X, Y, L) BY <1>1 DEF Queued, q, L
<1>4. PostRuns(Append(q, c), X, Y, L) BY <1>2, <1>3, PostRunsAppend DEF q, L
<1>5. \A op : All(Append(q, c), op) = All(q, op) \union {x \in {Object(c)} : c.op = op}
  BY <1>2, NamedAppend
<1>6. Counted(d, P, att, A, X) BY <1>1 DEF Counted, Recorded
<1>7. All(Append(q, c), "DestroyTexture") = All(q, "DestroyTexture") BY <1>5 DEF Recorded
<1>8. Queued(d, P, att, X, Y) BY <1>1, <1>4, <1>5, <1>7 DEF Queued, Recorded, q, L
<1> QED BY <1>6, <1>8 DEF RefInv

\* What the application can name is not queued for its release, nor what a frame buffer
\* is made of that it has not destroyed.
LEMMA UsableLive ==
    ASSUME TypeOK, ApiInv
    PROVE  /\ Usable \subseteq textures \ ToSet(submit.freeTexture)
           /\ \A f \in appFrameBuffers :
                 ToSet(attachments[f]) \subseteq textures \ ToSet(submit.freeTexture)
<1> DEFINE P == Positions(appFrameBuffers, attachments)
<1>1. /\ P \subseteq FrameBuffers \X (1 .. MaxAttachments)
      /\ \A t \in textures :
            /\ textureRef[t].refCount
                 = Cardinality(Held(P, attachments, t)) + IF t \in appTextures THEN 1 ELSE 0
            /\ textureRef[t].refCount = 0 <=> t \in ToSet(submit.freeTexture)
      /\ \A f \in appFrameBuffers : ToSet(attachments[f]) \subseteq textures
  <2>1. RefInv(Refs, P, attachments, appTextures, textures, frameBuffers) BY DEF ApiInv
  <2>2. Counted(Refs, P, attachments, appTextures, textures) BY <2>1 DEF RefInv
  <2>3. appFrameBuffers \subseteq frameBuffers BY DEF TypeOK
  <2> HIDE DEF P
  <2> QED BY <2>2, <2>3, RefsType DEF ApiInv, Counted
<1>2. \A t \in textures : Cardinality(Held(P, attachments, t)) \in Nat
  <2> HIDE DEF P
  <2> QED BY <1>1, HeldCount
<1>3. ASSUME NEW t \in appTextures PROVE t \in textures \ ToSet(submit.freeTexture)
  <2>1. t \in textures BY DEF TypeOK
  <2> HIDE DEF P
  <2> QED BY <1>1, <1>2, <2>1
<1>4. ASSUME NEW f \in appFrameBuffers, NEW t \in ToSet(attachments[f])
      PROVE  t \in textures \ ToSet(submit.freeTexture)
  <2>1. t \in textures BY <1>1
  <2>2. PICK i \in DOMAIN attachments[f] : attachments[f][i] = t BY DEF ToSet
  <2>3. i \in 1 .. MaxAttachments
    <3>1. attachments[f] \in Attachments BY DEF TypeOK
    <3>2. PICK m \in 0 .. MaxAttachments : attachments[f] \in [1 .. m -> Textures]
      BY <3>1 DEF Attachments, BoundedSeq, SeqOf
    <3> QED BY <3>2, BoundsAssumption
  <2>4. <<f, i>> \in P BY <2>2, <2>3 DEF Positions
  <2>5. <<f, i>> \in Held(P, attachments, t) BY <2>2, <2>4 DEF Held
  <2> HIDE DEF P
  <2>6. Cardinality(Held(P, attachments, t)) # 0 BY <1>1, <2>5, HeldCount
  <2> QED BY <1>1, <1>2, <2>1, <2>6
<1> HIDE DEF P
<1>5. \A f \in appFrameBuffers : ToSet(attachments[f]) \subseteq textures \ ToSet(submit.freeTexture)
  BY <1>4
<1>6. Usable \subseteq textures \ ToSet(submit.freeTexture) BY <1>3, <1>5 DEF Usable
<1> QED BY <1>5, <1>6

\* The sequences of at most MaxAttachments textures.
LEMMA AttachmentsType ==
    ASSUME NEW w
    PROVE  w \in Attachments <=> w \in Seq(Textures) /\ Len(w) <= MaxAttachments
<1>1. ASSUME w \in Attachments PROVE w \in Seq(Textures) /\ Len(w) <= MaxAttachments
  <2>1. PICK m \in 0 .. MaxAttachments : w \in [1 .. m -> Textures]
    BY <1>1 DEF Attachments, BoundedSeq, SeqOf
  <2>2. m \in Nat /\ m <= MaxAttachments BY BoundsAssumption
  <2>3. w \in Seq(Textures) BY <2>1, <2>2
  <2>4. Len(w) = m BY <2>1, <2>2
  <2> QED BY <2>2, <2>3, <2>4
<1>2. ASSUME w \in Seq(Textures), Len(w) <= MaxAttachments PROVE w \in Attachments
  <2>1. w \in [1 .. Len(w) -> Textures] /\ Len(w) \in 0 .. MaxAttachments
    BY <1>2, LenProperties, BoundsAssumption
  <2> QED BY <2>1 DEF Attachments, BoundedSeq, SeqOf
<1> QED BY <1>1, <1>2

-----------------------------------------------------------------------------
(* What a call does to the commands of the start of the frame.              *)

LinkedBy(c) ==
    {l \in FrameBuffers \X Textures : c.op = "CreateFrameBuffer" /\ c.fb = l[1] /\ l[2] \in ToSet(c.with)}

LEMMA LinksAppend ==
    ASSUME NEW C, NEW q \in Seq(C), NEW c \in C
    PROVE  LinksMade(Append(q, c)) = LinksMade(q) \union LinkedBy(c)
<1> DEFINE u == Append(q, c)
<1>1. /\ Len(q) \in Nat /\ Len(u) = Len(q) + 1
      /\ \A i \in 1 .. Len(q) : u[i] = q[i]
      /\ u[Len(q) + 1] = c
  BY AppendProperties, LenProperties
<1>2. 1 .. Len(q) + 1 = (1 .. Len(q)) \union {Len(q) + 1} BY <1>1
<1> HIDE DEF u
<1>3. \A l \in FrameBuffers \X Textures : l \in LinksMade(u) <=> (l \in LinksMade(q) \/ l \in LinkedBy(c))
  BY <1>1, <1>2 DEF LinksMade, LinkedBy
<1>4. /\ LinksMade(u) \subseteq FrameBuffers \X Textures
      /\ LinksMade(q) \subseteq FrameBuffers \X Textures
      /\ LinkedBy(c) \subseteq FrameBuffers \X Textures
  BY DEF LinksMade, LinkedBy
<1>5. LinksMade(u) = LinksMade(q) \union LinkedBy(c) BY <1>3, <1>4
<1> QED BY <1>5 DEF u

LEMMA LinksTail ==
    ASSUME NEW C, NEW q \in Seq(C), q # <<>>
    PROVE  LinksMade(q) = LinkedBy(Head(q)) \union LinksMade(Tail(q))
<1> DEFINE r == Tail(q)
           h == Head(q)
<1>1. /\ Len(q) \in Nat /\ Len(q) >= 1 /\ Len(r) = Len(q) - 1
      /\ \A i \in 1 .. Len(r) : r[i] = q[i + 1]
      /\ h = q[1]
  BY HeadTailProperties, LenProperties, EmptySeq
<1> HIDE DEF r, h
<1>2. ASSUME NEW l \in FrameBuffers \X Textures, l \in LinksMade(q)
      PROVE  l \in LinkedBy(h) \/ l \in LinksMade(r)
  <2>1. PICK i \in 1 .. Len(q) : q[i].op = "CreateFrameBuffer" /\ q[i].fb = l[1] /\ l[2] \in ToSet(q[i].with)
    BY <1>2 DEF LinksMade
  <2>2. CASE i = 1 BY <1>1, <2>1, <2>2 DEF LinkedBy
  <2>3. CASE i # 1
    <3>1. i - 1 \in 1 .. Len(r) /\ (i - 1) + 1 = i BY <1>1, <2>3
    <3>2. r[i - 1] = q[i] BY <1>1, <3>1
    <3> QED BY <2>1, <3>1, <3>2 DEF LinksMade
  <2> QED BY <2>2, <2>3
<1>3. ASSUME NEW l \in FrameBuffers \X Textures, l \in LinkedBy(h) \/ l \in LinksMade(r)
      PROVE  l \in LinksMade(q)
  <2>1. CASE l \in LinkedBy(h)
    <3>1. 1 \in 1 .. Len(q) BY <1>1
    <3> QED BY <1>1, <2>1, <3>1 DEF LinkedBy, LinksMade
  <2>2. CASE l \in LinksMade(r)
    <3>1. PICK i \in 1 .. Len(r) : r[i].op = "CreateFrameBuffer" /\ r[i].fb = l[1] /\ l[2] \in ToSet(r[i].with)
      BY <2>2 DEF LinksMade
    <3>2. i + 1 \in 1 .. Len(q) /\ q[i + 1] = r[i] BY <1>1
    <3> QED BY <3>1, <3>2 DEF LinksMade
  <2> QED BY <1>3, <2>1, <2>2
<1>4. /\ LinksMade(q) \subseteq FrameBuffers \X Textures
      /\ LinksMade(r) \subseteq FrameBuffers \X Textures
      /\ LinkedBy(h) \subseteq FrameBuffers \X Textures
  BY DEF LinksMade, LinkedBy
<1>5. LinksMade(q) = LinkedBy(h) \union LinksMade(r) BY <1>2, <1>3, <1>4
<1> QED BY <1>5 DEF r, h

LEMMA LinksNone == LinksMade(<<>>) = {}
<1>1. Len(<<>>) = 0 BY EmptySeq
<1> QED BY <1>1 DEF LinksMade

\* What a call adds to what the frame in m_submit creates is new.
Old == <<textures \ NewTextures, frameBuffers \ NewFrameBuffers>>

LEMMA PreStep ==
    ASSUME TypeOK, SubmitInv, NEW c \in Cmds, submit'.pre = Append(submit.pre, c),
           PreFits(c, textures, frameBuffers),
           textures' = textures \union Made(c, "CreateTexture"),
           frameBuffers' = frameBuffers \union Made(c, "CreateFrameBuffer"),
           LinksMade(submit.pre) \union LinkedBy(c) \subseteq Links(frameBuffers, attachments)',
           submit'.draws \subseteq textures'
    PROVE  SubmitInv' /\ Old' = Old
<1> DEFINE q == submit.pre
           X == textures \ NewTextures
           Y == frameBuffers \ NewFrameBuffers
<1>1. q \in Seq(Cmds) BY DEF TypeOK, Frames
<1>2. \A op : All(submit'.pre, op) = All(q, op) \union Made(c, op)
  <2> HIDE DEF q
  <2>1. \A op : All(Append(q, c), op) = All(q, op) \union Made(c, op)
    BY <1>1, NamedAppend DEF Made
  <2> QED BY <2>1 DEF q
<1>3. /\ NewTextures' = NewTextures \union Made(c, "CreateTexture")
      /\ NewFrameBuffers' = NewFrameBuffers \union Made(c, "CreateFrameBuffer")
  <2>1. NewTextures' = All(submit'.pre, "CreateTexture") /\ NewTextures = All(q, "CreateTexture")
        /\ NewFrameBuffers' = All(submit'.pre, "CreateFrameBuffer")
        /\ NewFrameBuffers = All(q, "CreateFrameBuffer")
    BY DEF NewTextures, NewFrameBuffers
  <2> HIDE DEF q
  <2> QED BY <1>2, <2>1
<1>4. NewTextures \subseteq textures /\ NewFrameBuffers \subseteq frameBuffers BY DEF SubmitInv
<1>5. /\ Made(c, "CreateTexture") \intersect textures = {}
      /\ Made(c, "CreateFrameBuffer") \intersect frameBuffers = {}
  BY DEF PreFits, Made, Object
<1>6. X' = X /\ Y' = Y BY <1>3, <1>4, <1>5
<1>7. X \union All(q, "CreateTexture") = textures /\ Y \union All(q, "CreateFrameBuffer") = frameBuffers
  BY <1>4 DEF NewTextures, NewFrameBuffers
<1>8. PreRuns(q, X, Y) BY DEF SubmitInv
<1>9. PreRuns(Append(q, c), X, Y)
  <2> HIDE DEF q, X, Y
  <2> QED BY <1>1, <1>7, <1>8, PreRunsAppend
<1>10. PreRuns(submit'.pre, X', Y') BY <1>6, <1>9
<1>11. LinksMade(submit'.pre) = LinksMade(q) \union LinkedBy(c)
  <2> HIDE DEF q
  <2>1. LinksMade(Append(q, c)) = LinksMade(q) \union LinkedBy(c) BY <1>1, LinksAppend
  <2> QED BY <2>1 DEF q
<1>12. NewTextures' \subseteq textures' /\ NewFrameBuffers' \subseteq frameBuffers'
  BY <1>3, <1>4
<1> QED BY <1>6, <1>10, <1>11, <1>12 DEF SubmitInv, Old

\* A call that records nothing at the start of the frame.
LEMMA SameStep ==
    ASSUME SubmitInv, submit'.pre = submit.pre, UNCHANGED <<handleVars, attachments>>,
           submit'.draws \subseteq textures
    PROVE  SubmitInv' /\ Old' = Old
<1>1. NewTextures' = NewTextures /\ NewFrameBuffers' = NewFrameBuffers
  BY DEF NewTextures, NewFrameBuffers
<1>2. textures' = textures /\ frameBuffers' = frameBuffers /\ attachments' = attachments
  BY DEF handleVars
<1>3. Links(frameBuffers, attachments)' = Links(frameBuffers, attachments) BY <1>2 DEF Links
<1> QED BY <1>1, <1>2, <1>3 DEF SubmitInv, Old

\* The renderer has not moved and the API thread knows what it knew.
LEMMA ApiKeepsRenderer ==
    ASSUME RenderInv, Agreement, UNCHANGED rendVars, Old' = Old,
           Links(frameBuffers, attachments) \subseteq Links(frameBuffers, attachments)'
    PROVE  RenderInv' /\ Agreement'
<1>1. UNCHANGED <<render, stage, rTextures, rFrameBuffers, rAttachments>> BY DEF rendVars
<1>2. XDrawn' = XDrawn /\ YDrawn' = YDrawn /\ LinksDrawn' = LinksDrawn
  BY <1>1 DEF XDrawn, YDrawn, LinksDrawn
<1>3. RenderInv' BY <1>1, <1>2 DEF RenderInv, AttachmentsLive
<1>4. /\ (textures \ NewTextures)' = textures \ NewTextures
      /\ (frameBuffers \ NewFrameBuffers)' = frameBuffers \ NewFrameBuffers
  BY DEF Old
<1>5. Agreement' BY <1>1, <1>2, <1>4 DEF Agreement
<1> QED BY <1>3, <1>5

-----------------------------------------------------------------------------
(* The calls.                                                               *)

LEMMA ApiStep ==
    ASSUME TypeOK, RenderInv, Agreement, MayCall, UNCHANGED rendVars, ApiInv', SubmitInv',
           Old' = Old, Links(frameBuffers, attachments) \subseteq Links(frameBuffers, attachments)',
           frameBuffers' \subseteq FrameBuffers, attachments' \in [FrameBuffers -> Attachments],
           appFrameBuffers' \subseteq frameBuffers'
    PROVE  Inv'
<1>1. RefInv(Refs, Positions(appFrameBuffers, attachments), attachments,
             appTextures, textures, frameBuffers)'
  BY DEF ApiInv
<1>2. Refs' \in RefRecords
      /\ Counted(Refs, Positions(appFrameBuffers, attachments), attachments, appTextures, textures)'
  BY <1>1 DEF RefInv
<1>3. /\ textureRef' \in [Textures -> [refCount : Int, owned : BOOLEAN, kind : AllKinds]]
      /\ submit' \in Frames
  BY <1>2 DEF Refs, RefRecords
<1>4. textures' \subseteq Textures /\ appTextures' \subseteq textures' BY <1>2 DEF Counted
<1>5. memoryUsed' \in 0 .. Cardinality(Textures)
  <2>1. memoryUsed' = Cardinality(textures' \ ToSet(submit'.freeTexture))
    BY <1>2 DEF Counted, Refs
  <2>2. IsFiniteSet(Textures) /\ Cardinality(Textures) \in Nat BY HandlesAssumption, FS_CardinalityType
  <2> DEFINE K == textures' \ ToSet(submit'.freeTexture)
  <2>3. K \subseteq Textures BY <1>4
  <2> HIDE DEF K
  <2>4. IsFiniteSet(K) /\ Cardinality(K) <= Cardinality(Textures) /\ Cardinality(K) \in Nat
    BY <2>2, <2>3, FS_Subset, FS_CardinalityType
  <2> QED BY <2>1, <2>2, <2>4 DEF K
<1>6. calls' \in 0 .. MaxCalls BY BoundsAssumption DEF MayCall, TypeOK
<1>7. UNCHANGED <<render, stage, rTextures, rFrameBuffers, rAttachments>> BY DEF rendVars
<1>8. TypeOK' BY <1>3, <1>4, <1>5, <1>6, <1>7 DEF TypeOK
<1>9. RenderInv' /\ Agreement' BY ApiKeepsRenderer
<1> QED BY <1>8, <1>9 DEF Inv

\* The part of ApiInv about the frame buffers waiting for their release is as it was.
LEMMA ApiSame ==
    ASSUME ApiInv, UNCHANGED <<frameBuffers, attachments, appFrameBuffers>>,
           textures \subseteq textures',
           submit'.freeFrameBuffer = submit.freeFrameBuffer,
           All(submit'.post, "DestroyFrameBuffer") = All(submit.post, "DestroyFrameBuffer"),
           RefInv(Refs', Positions(appFrameBuffers, attachments), attachments,
                  appTextures', textures', frameBuffers)
    PROVE  ApiInv'
<1>1. \A f \in frameBuffers : ToSet(attachments[f]) \subseteq textures' BY DEF ApiInv
<1> QED BY <1>1 DEF ApiInv

LEMMA DestroyTextureKeeps ==
    ASSUME Inv, NEW t \in Textures, DestroyTexture(t)
    PROVE  Inv'
<1> DEFINE P == Positions(appFrameBuffers, attachments)
           d == TextureDecRef(Refs, t)
<1>1. TypeOK /\ ApiInv /\ SubmitInv /\ RenderInv /\ Agreement BY DEF Inv
<1>2. /\ MayCall /\ t \in appTextures /\ Becomes(d) /\ appTextures' = appTextures \ {t}
      /\ UNCHANGED <<textures, frameBuffers, attachments, appFrameBuffers>> /\ UNCHANGED rendVars
  BY DEF DestroyTexture, handleVars
<1>3. t \in textures /\ appFrameBuffers \subseteq frameBuffers /\ frameBuffers \subseteq FrameBuffers
      /\ attachments \in [FrameBuffers -> Attachments] /\ submit.draws \subseteq textures
  BY <1>1, <1>2 DEF TypeOK, SubmitInv
<1>4. Refs \in RefRecords /\ Refs.frame = submit BY <1>1, RefsType
<1>5. Drops(Refs, d, t) /\ d \in RefRecords BY <1>4, DecRefDrops, DecRefType
<1> HIDE DEF d, P
<1>6. Refs' = d /\ submit' = d.frame
  <2>1. Refs' = d BY <1>2, <1>5, BecomesRefs
  <2> QED BY <1>2, <2>1 DEF Becomes
<1>7. RefInv(Refs, P, attachments, appTextures, textures, frameBuffers) BY <1>1 DEF ApiInv, P
<1>8. Released(Refs, d, t, P, P, attachments, appTextures, appTextures \ {t})
  BY <1>2 DEF Released
<1>9. \A f \in frameBuffers : \/ f \in All(Refs.frame.post, "DestroyFrameBuffer")
                              \/ \A i \in DOMAIN attachments[f] : <<f, i>> \in P
  BY <1>7 DEF RefInv, Queued
<1>10. RefInv(d, P, attachments, appTextures \ {t}, textures, frameBuffers)
  BY <1>3, <1>5, <1>7, <1>8, <1>9, DropKeeps
<1>11. Untouched(Refs, d) BY <1>4, <1>5, DropUntouched
<1>12. /\ submit'.freeFrameBuffer = submit.freeFrameBuffer
       /\ All(submit'.post, "DestroyFrameBuffer") = All(submit.post, "DestroyFrameBuffer")
       /\ submit'.pre = submit.pre /\ submit'.draws = submit.draws
  BY <1>4, <1>6, <1>11 DEF Untouched
<1>13. ApiInv' BY <1>1, <1>2, <1>6, <1>10, <1>12, ApiSame DEF P
<1>14. SubmitInv' /\ Old' = Old BY <1>1, <1>2, <1>3, <1>12, SameStep DEF handleVars
<1>15. Links(frameBuffers, attachments) \subseteq Links(frameBuffers, attachments)'
  BY <1>2 DEF Links
<1> QED BY <1>1, <1>2, <1>3, <1>13, <1>14, <1>15, ApiStep

\* Calls that only record a command or a draw.
LEMMA RecordKeeps ==
    ASSUME Inv, MayCall, UNCHANGED <<handleVars, refVars, appVars, rendVars>>, submit' \in Frames,
           submit'.freeTexture = submit.freeTexture,
           submit'.freeFrameBuffer = submit.freeFrameBuffer,
           All(submit'.post, "DestroyFrameBuffer") = All(submit.post, "DestroyFrameBuffer"),
           RefInv(Refs', Positions(appFrameBuffers, attachments), attachments,
                  appTextures, textures, frameBuffers),
           SubmitInv', Old' = Old
    PROVE  Inv'
<1>1. TypeOK /\ ApiInv /\ RenderInv /\ Agreement BY DEF Inv
<1>2. /\ UNCHANGED <<textures, frameBuffers, attachments, appTextures, appFrameBuffers>>
      /\ UNCHANGED rendVars
  BY DEF handleVars, refVars, appVars
<1>3. ApiInv' BY <1>1, <1>2, ApiSame
<1>4. Links(frameBuffers, attachments)' = Links(frameBuffers, attachments) BY <1>2 DEF Links
<1>5. /\ frameBuffers' \subseteq FrameBuffers /\ attachments' \in [FrameBuffers -> Attachments]
      /\ appFrameBuffers' \subseteq frameBuffers'
  BY <1>1, <1>2 DEF TypeOK
<1> QED BY <1>1, <1>2, <1>3, <1>4, <1>5, ApiStep

LEMMA RefsNext ==
    ASSUME TypeOK, submit' \in Frames, UNCHANGED refVars
    PROVE  /\ Refs' \in RefRecords /\ Refs'.ref = Refs.ref /\ Refs'.memory = Refs.memory
           /\ Refs'.frame = submit' /\ Refs.frame = submit
<1>1. /\ Refs \in RefRecords /\ Refs.ref = textureRef /\ Refs.memory = memoryUsed
      /\ Refs.frame = submit
  BY RefsType
<1>2. textureRef' = textureRef /\ memoryUsed' = memoryUsed BY DEF refVars
<1>3. Refs' = [ref |-> textureRef', memory |-> memoryUsed', frame |-> submit'] BY DEF Refs
<1>4. textureRef \in [Textures -> [refCount : Int, owned : BOOLEAN, kind : AllKinds]] /\ memoryUsed \in Int
  BY <1>1 DEF RefRecords
<1>5. Refs' \in RefRecords BY <1>2, <1>3, <1>4 DEF RefRecords
<1> QED BY <1>1, <1>2, <1>3, <1>5

LEMMA UpdateTextureKeeps ==
    ASSUME Inv, NEW t \in Textures, UpdateTexture(t)
    PROVE  Inv'
<1> DEFINE P == Positions(appFrameBuffers, attachments)
           c == [op |-> "UpdateTexture", th |-> t]
<1>1. TypeOK /\ ApiInv /\ SubmitInv BY DEF Inv
<1>2. /\ MayCall /\ t \in Usable /\ UNCHANGED <<handleVars, refVars, appVars, rendVars>>
      /\ submit' = [submit EXCEPT !.pre = Append(@, c)]
  BY DEF UpdateTexture
<1>3. t \in textures BY <1>1, <1>2, UsableLive
<1>4. submit \in Frames /\ submit.pre \in Seq(Cmds) /\ c \in Cmds
  BY <1>1 DEF TypeOK, Frames, Cmds, TextureCmds
<1>5. Append(submit.pre, c) \in Seq(Cmds) BY <1>4, AppendProperties
<1>6. PreFits(c, textures, frameBuffers) BY <1>3 DEF PreFits
<1>7. LinkedBy(c) = {} /\ Made(c, "CreateTexture") = {} /\ Made(c, "CreateFrameBuffer") = {}
  BY DEF LinkedBy, Made
<1> HIDE DEF c, P
<1>8. /\ submit' \in Frames /\ submit'.pre = Append(submit.pre, c)
      /\ submit'.post = submit.post /\ submit'.draws = submit.draws
      /\ submit'.freeTexture = submit.freeTexture
      /\ submit'.freeFrameBuffer = submit.freeFrameBuffer
  BY <1>2, <1>4, <1>5 DEF Frames
<1>9. UNCHANGED <<textures, frameBuffers, attachments>> BY <1>2 DEF handleVars, refVars
<1>10. SubmitInv' /\ Old' = Old
  <2>1. LinksMade(submit.pre) \union LinkedBy(c) \subseteq Links(frameBuffers, attachments)'
    BY <1>1, <1>7, <1>9 DEF SubmitInv, Links
  <2>2. submit'.draws \subseteq textures' BY <1>1, <1>8, <1>9 DEF SubmitInv
  <2>3. /\ textures' = textures \union Made(c, "CreateTexture")
        /\ frameBuffers' = frameBuffers \union Made(c, "CreateFrameBuffer")
    BY <1>7, <1>9
  <2> QED BY <1>1, <1>4, <1>6, <1>8, <2>1, <2>2, <2>3, PreStep
<1>11. RefInv(Refs, P, attachments, appTextures, textures, frameBuffers) BY <1>1 DEF ApiInv, P
<1>12. RefInv(Refs', P, attachments, appTextures, textures, frameBuffers)
  BY <1>1, <1>2, <1>8, <1>11, RefsNext, RefInvSame
<1> QED BY <1>2, <1>8, <1>10, <1>12, RecordKeeps DEF P

LEMMA ReadTextureKeeps ==
    ASSUME Inv, NEW t \in Textures, ReadTexture(t)
    PROVE  Inv'
<1> DEFINE P == Positions(appFrameBuffers, attachments)
           c == [op |-> "ReadTexture", th |-> t]
<1>1. TypeOK /\ ApiInv /\ SubmitInv BY DEF Inv
<1>2. /\ MayCall /\ t \in Usable /\ UNCHANGED <<handleVars, refVars, appVars, rendVars>>
      /\ submit' = [submit EXCEPT !.post = Append(@, c)]
  BY DEF ReadTexture
<1>3. t \in textures \ ToSet(submit.freeTexture) BY <1>1, <1>2, UsableLive
<1>4. submit \in Frames /\ submit.post \in Seq(Cmds) /\ c \in Cmds
  BY <1>1 DEF TypeOK, Frames, Cmds, TextureCmds
<1>5. Append(submit.post, c) \in Seq(Cmds) BY <1>4, AppendProperties
<1>6. RefInv(Refs, P, attachments, appTextures, textures, frameBuffers) /\ Refs.frame = submit
  BY <1>1, RefsType DEF ApiInv
<1>7. All(submit.post, "DestroyTexture") = ToSet(submit.freeTexture)
  BY <1>6 DEF RefInv, Queued
<1>8. /\ c.op # "DestroyTexture" /\ Made(c, "DestroyFrameBuffer") = {}
      /\ PostFits(c, textures \ All(submit.post, "DestroyTexture"),
                     frameBuffers \ All(submit.post, "DestroyFrameBuffer"),
                     Links(frameBuffers, attachments))
  <2>1. c.op = "ReadTexture" /\ c.th = t OBVIOUS
  <2>2. Made(c, "DestroyFrameBuffer") = {} BY DEF Made
  <2> HIDE DEF c
  <2> QED BY <1>3, <1>7, <2>1, <2>2 DEF PostFits
<1> HIDE DEF c, P
<1>9. /\ submit' \in Frames /\ submit'.post = Append(submit.post, c)
      /\ submit'.pre = submit.pre /\ submit'.draws = submit.draws
      /\ submit'.freeTexture = submit.freeTexture
      /\ submit'.freeFrameBuffer = submit.freeFrameBuffer
  BY <1>2, <1>4, <1>5 DEF Frames
<1>10. /\ Refs' \in RefRecords /\ Refs'.ref = Refs.ref /\ Refs'.memory = Refs.memory
       /\ Refs'.frame = submit'
  BY <1>1, <1>2, <1>9, RefsNext
<1>11. RefInv(Refs', P, attachments, appTextures, textures, frameBuffers)
  <2>1. /\ Recorded(Refs, Refs', c)
        /\ PostFits(c, textures \ All(Refs.frame.post, "DestroyTexture"),
                       frameBuffers \ All(Refs.frame.post, "DestroyFrameBuffer"),
                       Links(frameBuffers, attachments))
    BY <1>6, <1>8, <1>9, <1>10 DEF Recorded
  <2> QED BY <1>4, <1>6, <1>10, <2>1, PostKeeps
<1>15. All(submit'.post, "DestroyFrameBuffer") = All(submit.post, "DestroyFrameBuffer")
  <2>1. \A op : All(Append(submit.post, c), op) = All(submit.post, op) \union Made(c, op)
    BY <1>4, NamedAppend DEF Made
  <2> QED BY <1>8, <1>9, <2>1
<1>12. UNCHANGED <<handleVars, attachments>> BY <1>2 DEF refVars
<1>13. submit'.draws \subseteq textures BY <1>1, <1>9 DEF SubmitInv
<1>14. SubmitInv' /\ Old' = Old BY <1>1, <1>9, <1>12, <1>13, SameStep
<1> QED BY <1>2, <1>9, <1>11, <1>15, <1>14, RecordKeeps DEF P

LEMMA DrawKeeps ==
    ASSUME Inv, NEW t \in Textures, Draw(t)
    PROVE  Inv'
<1> DEFINE P == Positions(appFrameBuffers, attachments)
<1>1. TypeOK /\ ApiInv /\ SubmitInv BY DEF Inv
<1>2. /\ MayCall /\ t \in Usable /\ UNCHANGED <<handleVars, refVars, appVars, rendVars>>
      /\ submit' = [submit EXCEPT !.draws = @ \union {t}]
  BY DEF Draw
<1>3. t \in textures BY <1>1, <1>2, UsableLive
<1>4. /\ submit' \in Frames /\ submit'.post = submit.post
      /\ submit'.pre = submit.pre /\ submit'.draws = submit.draws \union {t}
      /\ submit'.freeTexture = submit.freeTexture
      /\ submit'.freeFrameBuffer = submit.freeFrameBuffer
  BY <1>1, <1>2 DEF TypeOK, Frames
<1> HIDE DEF P
<1>5. RefInv(Refs, P, attachments, appTextures, textures, frameBuffers) BY <1>1 DEF ApiInv, P
<1>6. RefInv(Refs', P, attachments, appTextures, textures, frameBuffers)
  BY <1>1, <1>2, <1>4, <1>5, RefsNext, RefInvSame
<1>7. submit'.draws \subseteq textures BY <1>1, <1>3, <1>4 DEF SubmitInv
<1>8. UNCHANGED <<handleVars, attachments>> BY <1>2 DEF refVars
<1>9. SubmitInv' /\ Old' = Old BY <1>1, <1>4, <1>7, <1>8, SameStep
<1> QED BY <1>2, <1>4, <1>6, <1>9, RecordKeeps DEF P

\* Resizing what is there changes no set of objects.
LEMMA ResizeRuns ==
    ASSUME NEW p \in Seq(Cmds), NEW s \in Seq(Cmds), NEW X, NEW Y, PreRuns(p, X, Y),
           \A i \in 1 .. Len(s) : s[i].op = "ResizeTexture" /\ s[i].th \in X \union All(p, "CreateTexture")
    PROVE  /\ PreRuns(p \o s, X, Y)
           /\ \A op \in {"CreateTexture", "CreateFrameBuffer"} : All(p \o s, op) = All(p, op)
           /\ LinksMade(p \o s) = LinksMade(p)
<1> DEFINE u == p \o s
           m == Len(p)
           n == Len(s)
<1>1. /\ m \in Nat /\ n \in Nat /\ Len(u) = m + n
      /\ \A i \in 1 .. m : u[i] = p[i]
      /\ \A i \in m + 1 .. m + n : u[i].op = "ResizeTexture"
                                   /\ u[i].th \in X \union All(p, "CreateTexture")
  <2>1. m \in Nat /\ n \in Nat BY LenProperties
  <2>2. /\ Len(u) = m + n
        /\ \A i \in 1 .. m + n : u[i] = IF i <= m THEN p[i] ELSE s[i - m]
    BY ConcatProperties
  <2> HIDE DEF u, m, n
  <2>3. \A i \in 1 .. m : u[i] = p[i] BY <2>1, <2>2
  <2>4. \A i \in m + 1 .. m + n : u[i] = s[i - m] /\ i - m \in 1 .. n BY <2>1, <2>2
  <2> QED BY <2>1, <2>2, <2>3, <2>4 DEF n
<1> HIDE DEF u, m, n
<1>2. ASSUME NEW op \in {"CreateTexture", "CreateFrameBuffer"}, NEW k \in 0 .. m + n
      PROVE  Named(u, k, op) = Named(p, IF k <= m THEN k ELSE m, op)
  <2>1. \A j \in 1 .. k : u[j].op = op <=> (j <= m /\ p[j].op = op) BY <1>1
  <2>2. \A j \in 1 .. k : j <= m => u[j] = p[j] BY <1>1
  <2> DEFINE e == IF k <= m THEN k ELSE m
  <2>3. {j \in 1 .. k : u[j].op = op} = {j \in 1 .. e : p[j].op = op} BY <1>1, <2>1
  <2>4. \A j \in {i \in 1 .. k : u[i].op = op} : u[j] = p[j] BY <2>1, <2>2
  <2> QED BY <2>3, <2>4 DEF Named
<1>3. \A op \in {"CreateTexture", "CreateFrameBuffer"} : All(u, op) = All(p, op)
  <2>1. m + n \in 0 .. m + n /\ (IF m + n <= m THEN m + n ELSE m) = m BY <1>1
  <2>2. \A op \in {"CreateTexture", "CreateFrameBuffer"} : Named(u, m + n, op) = Named(p, m, op)
    BY <1>2, <2>1
  <2> QED BY <1>1, <2>2 DEF All, m
<1>4. PreRuns(u, X, Y)
  <2> SUFFICES ASSUME NEW i \in 1 .. m + n
               PROVE  PreFits(u[i], X \union Named(u, i - 1, "CreateTexture"),
                                    Y \union Named(u, i - 1, "CreateFrameBuffer"))
    BY <1>1 DEF PreRuns
  <2>1. CASE i \in 1 .. m
    <3>1. i - 1 \in 0 .. m + n /\ i - 1 <= m BY <1>1, <2>1
    <3>2. /\ Named(u, i - 1, "CreateTexture") = Named(p, i - 1, "CreateTexture")
          /\ Named(u, i - 1, "CreateFrameBuffer") = Named(p, i - 1, "CreateFrameBuffer")
      BY <1>2, <3>1
    <3>3. PreFits(p[i], X \union Named(p, i - 1, "CreateTexture"),
                        Y \union Named(p, i - 1, "CreateFrameBuffer"))
      BY <2>1 DEF PreRuns, m
    <3> QED BY <1>1, <2>1, <3>2, <3>3
  <2>2. CASE i \notin 1 .. m
    <3>1. i \in m + 1 .. m + n /\ i - 1 \in 0 .. m + n
          /\ (IF i - 1 <= m THEN i - 1 ELSE m) = m
      BY <1>1, <2>2
    <3>2. Named(u, i - 1, "CreateTexture") = All(p, "CreateTexture")
      BY <1>2, <3>1 DEF All, m
    <3>3. u[i].op = "ResizeTexture" /\ u[i].th \in X \union All(p, "CreateTexture") BY <1>1, <3>1
    <3> QED BY <3>2, <3>3 DEF PreFits
  <2> QED BY <2>1, <2>2
<1>5. LinksMade(u) = LinksMade(p)
  <2>1. \A i \in 1 .. m + n : u[i].op = "CreateFrameBuffer" => i \in 1 .. m BY <1>1
  <2>2. 1 .. m \subseteq 1 .. m + n BY <1>1
  <2>3. \A l \in FrameBuffers \X Textures :
           (\E i \in 1 .. m + n : u[i].op = "CreateFrameBuffer" /\ u[i].fb = l[1] /\ l[2] \in ToSet(u[i].with))
           <=> (\E i \in 1 .. m : p[i].op = "CreateFrameBuffer" /\ p[i].fb = l[1] /\ l[2] \in ToSet(p[i].with))
    BY <1>1, <2>1, <2>2
  <2>4. Len(u) = m + n /\ Len(p) = m BY <1>1 DEF m
  <2> QED BY <2>3, <2>4 DEF LinksMade
<1> QED BY <1>3, <1>4, <1>5 DEF u

LEMMA ResetKeeps ==
    ASSUME Inv, Reset
    PROVE  Inv'
<1> DEFINE P == Positions(appFrameBuffers, attachments)
           T == {t \in textures : textureRef[t].kind = "target"}
           p == submit.pre
           X == textures \ NewTextures
           Y == frameBuffers \ NewFrameBuffers
<1>1. TypeOK /\ ApiInv /\ SubmitInv BY DEF Inv
<1>2. MayCall /\ UNCHANGED <<handleVars, refVars, appVars, rendVars>> BY DEF Reset
<1>3. PICK order \in SetToSeqs(T) :
         submit' = [submit EXCEPT !.pre =
                      @ \o [i \in DOMAIN order |-> [op |-> "ResizeTexture", th |-> order[i]]]]
  BY DEF Reset
<1> DEFINE n == Cardinality(T)
           s == [i \in DOMAIN order |-> [op |-> "ResizeTexture", th |-> order[i]]]
<1>4. n \in Nat /\ order \in [1 .. n -> T]
  <2>1. T \subseteq Textures BY <1>1 DEF TypeOK
  <2> HIDE DEF T
  <2>2. IsFiniteSet(T) BY <2>1, HandlesAssumption, FS_Subset
  <2> QED BY <1>3, <2>2, FS_CardinalityType DEF SetToSeqs
<1>5. T \subseteq textures /\ textures \subseteq Textures BY <1>1 DEF TypeOK
<1>6. /\ s \in Seq(Cmds) /\ Len(s) = n
      /\ \A i \in 1 .. n : s[i].op = "ResizeTexture" /\ s[i].th \in textures
  <2> HIDE DEF n, T
  <2>1. DOMAIN order = 1 .. n BY <1>4
  <2>2. \A i \in 1 .. n : [op |-> "ResizeTexture", th |-> order[i]] \in Cmds
    BY <1>4, <1>5 DEF Cmds, TextureCmds
  <2>3. s \in [1 .. n -> Cmds] BY <2>1, <2>2
  <2>4. s \in Seq(Cmds) BY <1>4, <2>3
  <2>5. Len(s) = n BY <1>4, <2>1
  <2>6. \A i \in 1 .. n : s[i].op = "ResizeTexture" /\ s[i].th = order[i] BY <2>1
  <2> QED BY <1>4, <1>5, <2>4, <2>5, <2>6
<1>7. submit \in Frames /\ p \in Seq(Cmds) BY <1>1 DEF TypeOK, Frames
<1>8. submit' = [submit EXCEPT !.pre = p \o s] BY <1>3
<1> HIDE DEF n, T, s
<1>9. p \o s \in Seq(Cmds) BY <1>6, <1>7, ConcatProperties
<1> HIDE DEF p
<1>10. /\ submit' \in Frames /\ submit'.pre = p \o s
       /\ submit'.post = submit.post /\ submit'.draws = submit.draws
       /\ submit'.freeTexture = submit.freeTexture
       /\ submit'.freeFrameBuffer = submit.freeFrameBuffer
  BY <1>7, <1>8, <1>9 DEF Frames
<1>11. /\ PreRuns(p \o s, X, Y)
       /\ All(p \o s, "CreateTexture") = All(p, "CreateTexture")
       /\ All(p \o s, "CreateFrameBuffer") = All(p, "CreateFrameBuffer")
       /\ LinksMade(p \o s) = LinksMade(p)
  <2>1. X \union All(p, "CreateTexture") = textures BY <1>1 DEF SubmitInv, NewTextures, p
  <2>2. PreRuns(p, X, Y) BY <1>1 DEF SubmitInv, p
  <2>3. \A i \in 1 .. Len(s) : s[i].op = "ResizeTexture" /\ s[i].th \in X \union All(p, "CreateTexture")
    BY <1>6, <2>1
  <2> HIDE DEF X, Y
  <2> QED BY <1>6, <1>7, <2>2, <2>3, ResizeRuns
<1>12. UNCHANGED <<textures, frameBuffers, attachments>> BY <1>2 DEF handleVars, refVars
<1>13. NewTextures' = NewTextures /\ NewFrameBuffers' = NewFrameBuffers
  BY <1>10, <1>11 DEF NewTextures, NewFrameBuffers, p
<1>14. SubmitInv'
  <2>1. PreRuns(submit'.pre, X', Y') BY <1>10, <1>11, <1>12, <1>13
  <2>2. LinksMade(submit'.pre) = LinksMade(submit.pre) BY <1>10, <1>11 DEF p
  <2>3. Links(frameBuffers, attachments)' = Links(frameBuffers, attachments) BY <1>12 DEF Links
  <2> QED BY <1>1, <1>10, <1>12, <1>13, <2>1, <2>2, <2>3 DEF SubmitInv
<1>15. Old' = Old BY <1>12, <1>13 DEF Old
<1> HIDE DEF P
<1>16. RefInv(Refs, P, attachments, appTextures, textures, frameBuffers) BY <1>1 DEF ApiInv, P
<1>17. RefInv(Refs', P, attachments, appTextures, textures, frameBuffers)
  BY <1>1, <1>2, <1>10, <1>16, RefsNext, RefInvSame
<1> QED BY <1>2, <1>10, <1>14, <1>15, <1>17, RecordKeeps DEF P

-----------------------------------------------------------------------------
(* New objects.                                                             *)

LEMMA TextureAdded ==
    ASSUME NEW r, NEW d \in RefRecords, NEW t \in Textures, NEW P, NEW att, NEW A, NEW X, NEW Y,
           RefInv(r, P, att, A, X, Y), t \notin X, \A p \in P : att[p[1]][p[2]] \in X,
           d.ref[t].refCount = 1, ~d.ref[t].owned,
           \A u \in Textures \ {t} : d.ref[u] = r.ref[u],
           d.memory = r.memory + 1, d.frame.freeTexture = r.frame.freeTexture,
           d.frame.post = r.frame.post
    PROVE  RefInv(d, P, att, A \union {t}, X \union {t}, Y)
<1> DEFINE F == ToSet(r.frame.freeTexture)
           X2 == X \union {t}
           A2 == A \union {t}
           q == r.frame.post
           L == Links(Y, att)
<1>1. r \in RefRecords /\ Counted(r, P, att, A, X) /\ Queued(r, P, att, X, Y) BY DEF RefInv
<1>2. /\ P \subseteq FrameBuffers \X (1 .. MaxAttachments) /\ A \subseteq X /\ X \subseteq Textures
      /\ \A u \in X : /\ r.ref[u].refCount = Cardinality(Held(P, att, u)) + IF u \in A THEN 1 ELSE 0
                      /\ r.ref[u].refCount = 0 <=> u \in F
      /\ \A u \in A : ~r.ref[u].owned
      /\ IsInjective(r.frame.freeTexture) /\ F \subseteq X
      /\ r.memory = Cardinality(X \ F)
  BY <1>1 DEF Counted
<1>3. Held(P, att, t) = {} BY DEF Held
<1>4. Cardinality(Held(P, att, t)) = 0 BY <1>3, FS_EmptySet
<1> HIDE DEF F
<1>5. ASSUME NEW u \in X2
      PROVE  /\ d.ref[u].refCount = Cardinality(Held(P, att, u)) + IF u \in A2 THEN 1 ELSE 0
             /\ d.ref[u].refCount = 0 <=> u \in F
  <2>1. CASE u = t BY <1>2, <1>4, <2>1
  <2>2. CASE u # t
    <3>1. u \in X /\ u \in Textures \ {t} /\ (u \in A2 <=> u \in A) BY <1>2, <2>2
    <3>2. d.ref[u] = r.ref[u] BY <3>1
    <3> HIDE DEF A2
    <3> QED BY <1>2, <3>1, <3>2
  <2> QED BY <2>1, <2>2
<1>6. \A u \in A2 : ~d.ref[u].owned
  <2> TAKE u \in A2
  <2>1. CASE u = t BY <2>1
  <2>2. CASE u # t
    <3>1. u \in A /\ u \in Textures \ {t} BY <1>2, <2>2
    <3> QED BY <1>2, <3>1
  <2> QED BY <2>1, <2>2
<1>7. d.memory = Cardinality(X2 \ F)
  <2> DEFINE K == X \ F
  <2>1. X2 \ F = K \union {t} /\ t \notin K BY <1>2
  <2>2. IsFiniteSet(K) BY <1>2, KeptFinite
  <2> HIDE DEF K
  <2>3. Cardinality(K \union {t}) = Cardinality(K) + 1 BY <2>1, <2>2, OneMore
  <2> QED BY <1>2, <2>1, <2>3 DEF K
<1>8. Counted(d, P, att, A2, X2)
  <2>1. ToSet(d.frame.freeTexture) = F BY DEF F
  <2>2. A2 \subseteq X2 /\ X2 \subseteq Textures /\ F \subseteq X2 BY <1>2
  <2> HIDE DEF A2, X2
  <2> QED BY <1>2, <1>5, <1>6, <1>7, <2>1, <2>2 DEF Counted
<1>9. Queued(d, P, att, X2, Y)
  <2>1. q \in Seq(Cmds) BY <1>1 DEF RefRecords, Frames
  <2>2. PostRuns(q, X, Y, L) BY <1>1 DEF Queued
  <2>3. X \subseteq X2 OBVIOUS
  <2> HIDE DEF q, L, X2
  <2>4. PostRuns(q, X2, Y, L) BY <2>1, <2>2, <2>3, PostRunsMore
  <2> QED BY <1>1, <2>4 DEF Queued, q, L
<1> QED BY <1>8, <1>9 DEF RefInv

\* A frame buffer that is not there has other attachments.
LEMMA AttachmentsChanged ==
    ASSUME NEW r, NEW P, NEW att \in [FrameBuffers -> Attachments], NEW A, NEW X, NEW Y, NEW f, NEW w,
           Y \subseteq FrameBuffers,
           RefInv(r, P, att, A, X, Y), f \notin Y, \A p \in P : p[1] # f
    PROVE  RefInv(r, P, [att EXCEPT ![f] = w], A, X, Y)
<1> DEFINE att2 == [att EXCEPT ![f] = w]
<1>1. \A g \in FrameBuffers : g # f => att2[g] = att[g] OBVIOUS
<1>2. P \subseteq FrameBuffers \X (1 .. MaxAttachments) BY DEF RefInv, Counted
<1> HIDE DEF att2
<1>3. \A t : Held(P, att2, t) = Held(P, att, t) BY <1>1, <1>2 DEF Held
<1>4. Links(Y, att2) = Links(Y, att) BY <1>1 DEF Links
<1>5. \A g \in Y : att2[g] = att[g] BY <1>1
<1>6. Counted(r, P, att2, A, X) BY <1>3 DEF RefInv, Counted
<1>7. Queued(r, P, att2, X, Y) BY <1>4, <1>5 DEF RefInv, Queued
<1> QED BY <1>6, <1>7 DEF RefInv, att2

\* A frame buffer whose attachments count.
LEMMA FrameBufferAdded ==
    ASSUME NEW r, NEW P, NEW att, NEW A, NEW X, NEW Y, NEW f \in FrameBuffers,
           RefInv(r, P, att, A, X, Y), f \notin Y,
           ToSet(att[f]) \intersect ToSet(r.frame.freeTexture) = {},
           \A i \in DOMAIN att[f] : <<f, i>> \in P
    PROVE  RefInv(r, P, att, A, X, Y \union {f})
<1> DEFINE q == r.frame.post
           L == Links(Y, att)
           Y2 == Y \union {f}
           L2 == Links(Y2, att)
<1>1. r \in RefRecords /\ Counted(r, P, att, A, X) /\ Queued(r, P, att, X, Y) BY DEF RefInv
<1>2. q \in Seq(Cmds) BY <1>1 DEF RefRecords, Frames
<1>3. PostRuns(q, X, Y, L) /\ All(q, "DestroyTexture") = ToSet(r.frame.freeTexture)
  BY <1>1 DEF Queued
<1>4. \A l \in L2 : l[2] \in All(q, "DestroyTexture") => l \in L /\ l[1] \notin Y2 \ Y
  BY <1>3 DEF Links
<1>5. Y \subseteq Y2 OBVIOUS
<1> HIDE DEF q, L, L2, Y2
<1>6. PostRuns(q, X, Y2, L2) BY <1>2, <1>3, <1>4, <1>5, PostRunsMore
<1>7. Queued(r, P, att, X, Y2) BY <1>1, <1>6 DEF Queued, q, L2, Y2
<1> QED BY <1>1, <1>7 DEF RefInv, Y2

\* Only the attachments of frame buffers in use count.
LEMMA PositionsAre ==
    ASSUME TypeOK
    PROVE  LET P == Positions(appFrameBuffers, attachments)
           IN  /\ P \subseteq frameBuffers \X (1 .. MaxAttachments)
               /\ \A p \in P : /\ attachments[p[1]][p[2]] \in ToSet(attachments[p[1]])
                               /\ p[1] \in appFrameBuffers
               /\ \A f \in FrameBuffers : DOMAIN attachments[f] \subseteq 1 .. MaxAttachments
<1>1. appFrameBuffers \subseteq frameBuffers BY DEF TypeOK
<1>2. ASSUME NEW f \in FrameBuffers PROVE DOMAIN attachments[f] \subseteq 1 .. MaxAttachments
  <2>1. attachments[f] \in Attachments BY DEF TypeOK
  <2>2. PICK m \in 0 .. MaxAttachments : attachments[f] \in [1 .. m -> Textures]
    BY <2>1 DEF Attachments, BoundedSeq, SeqOf
  <2> QED BY <2>2, BoundsAssumption
<1> QED BY <1>1, <1>2 DEF Positions, ToSet

LEMMA CreateTextureKeeps ==
    ASSUME Inv, NEW t \in Textures, NEW kind \in Kinds, CreateTexture(t, kind)
    PROVE  Inv'
<1> DEFINE P == Positions(appFrameBuffers, attachments)
           c == [op |-> "CreateTexture", th |-> t]
           v == [refCount |-> 1, owned |-> FALSE, kind |-> kind]
<1>1. TypeOK /\ ApiInv /\ SubmitInv /\ RenderInv /\ Agreement BY DEF Inv
<1>2. /\ MayCall /\ t \notin textures /\ textures' = textures \union {t}
      /\ textureRef' = [textureRef EXCEPT ![t] = v] /\ memoryUsed' = memoryUsed + 1
      /\ submit' = [submit EXCEPT !.pre = Append(@, c)]
      /\ appTextures' = appTextures \union {t}
      /\ UNCHANGED <<frameBuffers, attachments, appFrameBuffers>> /\ UNCHANGED rendVars
  BY DEF CreateTexture
<1>3. submit \in Frames /\ submit.pre \in Seq(Cmds) /\ c \in Cmds
  BY <1>1 DEF TypeOK, Frames, Cmds, TextureCmds
<1>4. Append(submit.pre, c) \in Seq(Cmds) BY <1>3, AppendProperties
<1>5. /\ PreFits(c, textures, frameBuffers) /\ LinkedBy(c) = {}
      /\ Made(c, "CreateTexture") = {t} /\ Made(c, "CreateFrameBuffer") = {}
  BY <1>2 DEF PreFits, LinkedBy, Made, Object
<1>6. v \in [refCount : Int, owned : BOOLEAN, kind : AllKinds] /\ v.refCount = 1 /\ ~v.owned
  BY KindsAssumption
<1> HIDE DEF c, P, v
<1>7. /\ submit' \in Frames /\ submit'.pre = Append(submit.pre, c)
      /\ submit'.post = submit.post /\ submit'.draws = submit.draws
      /\ submit'.freeTexture = submit.freeTexture
      /\ submit'.freeFrameBuffer = submit.freeFrameBuffer
  BY <1>2, <1>3, <1>4 DEF Frames
<1>8. Links(frameBuffers, attachments)' = Links(frameBuffers, attachments) BY <1>2 DEF Links
<1>9. SubmitInv' /\ Old' = Old
  <2>1. LinksMade(submit.pre) \union LinkedBy(c) \subseteq Links(frameBuffers, attachments)'
    BY <1>1, <1>5, <1>8 DEF SubmitInv
  <2>2. submit'.draws \subseteq textures' BY <1>1, <1>2, <1>7 DEF SubmitInv
  <2>3. /\ textures' = textures \union Made(c, "CreateTexture")
        /\ frameBuffers' = frameBuffers \union Made(c, "CreateFrameBuffer")
    BY <1>2, <1>5
  <2> QED BY <1>1, <1>3, <1>5, <1>7, <2>1, <2>2, <2>3, PreStep
<1>10. /\ Refs \in RefRecords /\ Refs.ref = textureRef /\ Refs.memory = memoryUsed
       /\ Refs.frame = submit
  BY <1>1, RefsType
<1>11. /\ Refs' \in RefRecords /\ Refs'.ref = textureRef' /\ Refs'.memory = memoryUsed'
       /\ Refs'.frame = submit'
  <2>1. /\ textureRef \in [Textures -> [refCount : Int, owned : BOOLEAN, kind : AllKinds]]
        /\ memoryUsed \in Int
    BY <1>10 DEF RefRecords
  <2>2. textureRef' \in [Textures -> [refCount : Int, owned : BOOLEAN, kind : AllKinds]]
    BY <1>2, <1>6, <2>1
  <2>3. memoryUsed' \in Int BY <1>2, <2>1
  <2>4. Refs' = [ref |-> textureRef', memory |-> memoryUsed', frame |-> submit'] BY DEF Refs
  <2> QED BY <1>7, <2>2, <2>3, <2>4 DEF RefRecords
<1>12. RefInv(Refs, P, attachments, appTextures, textures, frameBuffers) BY <1>1 DEF ApiInv, P
<1>13. \A p \in P : attachments[p[1]][p[2]] \in textures
  <2>1. \A p \in P : attachments[p[1]][p[2]] \in ToSet(attachments[p[1]]) /\ p[1] \in frameBuffers
    BY <1>1, PositionsAre DEF TypeOK, P
  <2> QED BY <1>1, <2>1 DEF ApiInv
<1>14. /\ Refs'.ref[t].refCount = 1 /\ ~Refs'.ref[t].owned
       /\ \A u \in Textures \ {t} : Refs'.ref[u] = Refs.ref[u]
  <2>1. textureRef \in [Textures -> [refCount : Int, owned : BOOLEAN, kind : AllKinds]]
    BY <1>10 DEF RefRecords
  <2>2. textureRef'[t] = v /\ \A u \in Textures \ {t} : textureRef'[u] = textureRef[u]
    BY <1>2, <2>1
  <2> QED BY <1>6, <1>10, <1>11, <2>2
<1>15. RefInv(Refs', P, attachments, appTextures', textures', frameBuffers)
  <2>1. /\ Refs'.memory = Refs.memory + 1
        /\ Refs'.frame.freeTexture = Refs.frame.freeTexture
        /\ Refs'.frame.post = Refs.frame.post
    BY <1>2, <1>7, <1>10, <1>11
  <2>2. RefInv(Refs', P, attachments, appTextures \union {t}, textures \union {t}, frameBuffers)
    BY <1>2, <1>11, <1>12, <1>13, <1>14, <2>1, TextureAdded
  <2> QED BY <1>2, <2>2
<1>16. ApiInv'
  <2>1. textures \subseteq textures'
        /\ All(submit'.post, "DestroyFrameBuffer") = All(submit.post, "DestroyFrameBuffer")
    BY <1>2, <1>7
  <2> QED BY <1>1, <1>2, <1>7, <1>15, <2>1, ApiSame DEF P
<1>17. /\ frameBuffers' \subseteq FrameBuffers /\ attachments' \in [FrameBuffers -> Attachments]
       /\ appFrameBuffers' \subseteq frameBuffers'
  BY <1>1, <1>2 DEF TypeOK
<1> QED BY <1>1, <1>2, <1>8, <1>9, <1>16, <1>17, ApiStep

\* A frame buffer joins those in use: all there is to show is that the counts are right.
LEMMA FrameBufferJoins ==
    ASSUME Inv, MayCall, UNCHANGED textures, UNCHANGED rendVars,
           NEW f \in FrameBuffers \ frameBuffers, NEW w \in Attachments, ToSet(w) \subseteq textures,
           frameBuffers' = frameBuffers \union {f}, appFrameBuffers' = appFrameBuffers \union {f},
           attachments' = [attachments EXCEPT ![f] = w],
           submit'.pre = Append(submit.pre, [op |-> "CreateFrameBuffer", fb |-> f, with |-> w]),
           submit'.draws = submit.draws, submit'.freeFrameBuffer = submit.freeFrameBuffer,
           All(submit'.post, "DestroyFrameBuffer") = All(submit.post, "DestroyFrameBuffer"),
           RefInv(Refs', Positions(appFrameBuffers', attachments'), attachments',
                  appTextures', textures, frameBuffers')
    PROVE  Inv'
<1> DEFINE c == [op |-> "CreateFrameBuffer", fb |-> f, with |-> w]
<1>1. TypeOK /\ ApiInv /\ SubmitInv /\ RenderInv /\ Agreement BY DEF Inv
<1>2. c \in Cmds BY DEF Cmds, FrameBufferCmds
<1>3. /\ PreFits(c, textures, frameBuffers)
      /\ Made(c, "CreateTexture") = {} /\ Made(c, "CreateFrameBuffer") = {f}
      /\ LinkedBy(c) = {l \in FrameBuffers \X Textures : l[1] = f /\ l[2] \in ToSet(w)}
  BY DEF PreFits, LinkedBy, Made, Object
<1>4. submit'.pre = Append(submit.pre, c) OBVIOUS
<1> HIDE DEF c
<1>5. /\ attachments \in [FrameBuffers -> Attachments] /\ frameBuffers \subseteq FrameBuffers
      /\ appFrameBuffers \subseteq frameBuffers
  BY <1>1 DEF TypeOK
<1>6. /\ attachments'[f] = w /\ \A g \in frameBuffers : attachments'[g] = attachments[g]
      /\ attachments' \in [FrameBuffers -> Attachments]
  BY <1>5
<1>7. Links(frameBuffers, attachments)' = Links(frameBuffers, attachments) \union LinkedBy(c)
  BY <1>3, <1>6 DEF Links
<1>8. SubmitInv' /\ Old' = Old
  <2>1. LinksMade(submit.pre) \union LinkedBy(c) \subseteq Links(frameBuffers, attachments)'
    BY <1>1, <1>7 DEF SubmitInv
  <2>2. submit'.draws \subseteq textures' BY <1>1 DEF SubmitInv
  <2>3. /\ textures' = textures \union Made(c, "CreateTexture")
        /\ frameBuffers' = frameBuffers \union Made(c, "CreateFrameBuffer")
    BY <1>3
  <2> QED BY <1>1, <1>2, <1>3, <1>4, <2>1, <2>2, <2>3, PreStep
<1>9. ApiInv'
  <2>1. \A g \in frameBuffers' : ToSet(attachments'[g]) \subseteq textures'
    BY <1>1, <1>6 DEF ApiInv
  <2>2. frameBuffers' \ appFrameBuffers' = frameBuffers \ appFrameBuffers BY <1>5
  <2> QED BY <1>1, <2>1, <2>2 DEF ApiInv
<1>10. frameBuffers' \subseteq FrameBuffers /\ appFrameBuffers' \subseteq frameBuffers' BY <1>5
<1> QED BY <1>1, <1>6, <1>7, <1>8, <1>9, <1>10, ApiStep

LEMMA PositionsJoin ==
    ASSUME TypeOK, NEW f \in FrameBuffers \ frameBuffers, NEW w \in Attachments
    PROVE  Positions(appFrameBuffers \union {f}, [attachments EXCEPT ![f] = w])
             = Positions(appFrameBuffers, attachments) \union Until(f, Len(w))
<1> DEFINE att2 == [attachments EXCEPT ![f] = w]
           S == Positions(appFrameBuffers \union {f}, att2)
           T == Positions(appFrameBuffers, attachments) \union Until(f, Len(w))
<1>1. /\ att2[f] = w /\ \A g \in appFrameBuffers : att2[g] = attachments[g] /\ g # f
  BY DEF TypeOK
<1>2. DOMAIN w = 1 .. Len(w) /\ Len(w) \in Nat /\ Len(w) <= MaxAttachments
  BY AttachmentsType, LenProperties
<1> HIDE DEF att2
<1>3. \A g, i : <<g, i>> \in S <=> \/ g \in appFrameBuffers /\ i \in 1 .. MaxAttachments
                                      /\ i \in DOMAIN attachments[g]
                                   \/ g = f /\ i \in 1 .. Len(w)
  BY <1>1, <1>2, BoundsAssumption DEF Positions
<1>4. \A g, i : <<g, i>> \in T <=> \/ g \in appFrameBuffers /\ i \in 1 .. MaxAttachments
                                      /\ i \in DOMAIN attachments[g]
                                   \/ g = f /\ i \in 1 .. Len(w)
  BY DEF Positions, Until
<1>5. \A p \in S : \E g, i : p = <<g, i>> BY DEF Positions
<1>6. \A p \in T : \E g, i : p = <<g, i>> BY DEF Positions, Until
<1> HIDE DEF S, T
<1>7. \A p : p \in S <=> p \in T BY <1>3, <1>4, <1>5, <1>6
<1>8. S = T BY <1>7
<1> QED BY <1>8 DEF S, T, att2

LEMMA CreateWindowKeeps ==
    ASSUME Inv, NEW f \in FrameBuffers, CreateWindow(f)
    PROVE  Inv'
<1> DEFINE P == Positions(appFrameBuffers, attachments)
           c == [op |-> "CreateFrameBuffer", fb |-> f, with |-> <<>>]
           w == <<>>
<1>1. TypeOK /\ ApiInv BY DEF Inv
<1>2. /\ MayCall /\ f \notin frameBuffers /\ frameBuffers' = frameBuffers \union {f}
      /\ attachments' = [attachments EXCEPT ![f] = w]
      /\ submit' = [submit EXCEPT !.pre = Append(@, c)]
      /\ appFrameBuffers' = appFrameBuffers \union {f}
      /\ UNCHANGED <<textures, textureRef, memoryUsed, appTextures>> /\ UNCHANGED rendVars
  BY DEF CreateWindow
<1>3. w \in Attachments
  <2>1. w \in Seq(Textures) /\ Len(w) = 0 BY EmptySeq
  <2> HIDE DEF w
  <2>2. Len(w) <= MaxAttachments BY <2>1, BoundsAssumption
  <2> QED BY <2>1, <2>2, AttachmentsType
<1>4. Until(f, Len(w)) = {} /\ ToSet(w) = {} /\ DOMAIN w = {}
  <2>1. Len(w) = 0 /\ DOMAIN w = {} BY EmptySeq
  <2> QED BY <2>1 DEF Until, ToSet
<1>5. submit \in Frames /\ submit.pre \in Seq(Cmds) /\ c \in Cmds
  BY <1>1, <1>3 DEF TypeOK, Frames, Cmds, FrameBufferCmds
<1>6. Append(submit.pre, c) \in Seq(Cmds) BY <1>5, AppendProperties
<1> HIDE DEF c, P, w
<1>7. /\ submit' \in Frames /\ submit'.pre = Append(submit.pre, c)
      /\ submit'.post = submit.post /\ submit'.draws = submit.draws
      /\ submit'.freeTexture = submit.freeTexture
      /\ submit'.freeFrameBuffer = submit.freeFrameBuffer
  BY <1>2, <1>5, <1>6 DEF Frames
<1>8. P = Positions(appFrameBuffers', attachments')
  BY <1>1, <1>2, <1>3, <1>4, PositionsJoin DEF P
<1>9. RefInv(Refs, P, attachments, appTextures, textures, frameBuffers) BY <1>1 DEF ApiInv, P
<1>11. RefInv(Refs', P, attachments, appTextures, textures, frameBuffers)
  <2>1. /\ Refs \in RefRecords /\ Refs.ref = textureRef /\ Refs.memory = memoryUsed
        /\ Refs.frame = submit
    BY <1>1, RefsType
  <2>2. Refs' = [ref |-> textureRef, memory |-> memoryUsed, frame |-> submit'] BY <1>2 DEF Refs
  <2>3. /\ textureRef \in [Textures -> [refCount : Int, owned : BOOLEAN, kind : AllKinds]]
        /\ memoryUsed \in Int
    BY <2>1 DEF RefRecords
  <2>4. Refs' \in RefRecords BY <1>7, <2>2, <2>3 DEF RefRecords
  <2>5. /\ Refs'.ref = Refs.ref /\ Refs'.memory = Refs.memory
        /\ Refs'.frame.freeTexture = Refs.frame.freeTexture
        /\ Refs'.frame.post = Refs.frame.post
    BY <1>7, <2>1, <2>2
  <2> QED BY <1>9, <2>4, <2>5, RefInvSame
<1>12. RefInv(Refs', P, attachments', appTextures, textures, frameBuffers)
  <2>1. \A p \in P : p[1] # f BY <1>1, <1>2, PositionsAre DEF TypeOK, P
  <2>2. attachments \in [FrameBuffers -> Attachments] /\ frameBuffers \subseteq FrameBuffers
    BY <1>1 DEF TypeOK
  <2>3. RefInv(Refs', P, [attachments EXCEPT ![f] = w], appTextures, textures, frameBuffers)
    BY <1>2, <1>11, <2>1, <2>2, AttachmentsChanged
  <2> QED BY <1>2, <2>3
<1>13. RefInv(Refs', P, attachments', appTextures, textures, frameBuffers')
  <2>1. attachments'[f] = w BY <1>1, <1>2 DEF TypeOK
  <2>2. /\ ToSet(attachments'[f]) \intersect ToSet(Refs'.frame.freeTexture) = {}
        /\ \A i \in DOMAIN attachments'[f] : <<f, i>> \in P
    BY <1>4, <2>1
  <2>3. RefInv(Refs', P, attachments', appTextures, textures, frameBuffers \union {f})
    BY <1>2, <1>12, <2>2, FrameBufferAdded
  <2> QED BY <1>2, <2>3
<1>14. submit'.pre = Append(submit.pre, [op |-> "CreateFrameBuffer", fb |-> f, with |-> w])
  BY <1>7 DEF c, w
<1>15. All(submit'.post, "DestroyFrameBuffer") = All(submit.post, "DestroyFrameBuffer") BY <1>7
<1>16. ToSet(w) \subseteq textures BY <1>4
<1>17. RefInv(Refs', Positions(appFrameBuffers', attachments'), attachments', appTextures',
              textures, frameBuffers')
  BY <1>2, <1>8, <1>13
<1> QED BY <1>2, <1>3, <1>7, <1>14, <1>15, <1>16, <1>17, FrameBufferJoins

LEMMA CreateFrameBufferKeeps ==
    ASSUME Inv, AdoptShared = FALSE, NEW f \in FrameBuffers, NEW w \in Attachments,
           NEW destroyTextures \in BOOLEAN, CreateFrameBuffer(f, w, destroyTextures)
    PROVE  Inv'
<1> DEFINE P == Positions(appFrameBuffers, attachments)
           P2 == P \union Until(f, Len(w))
           c == [op |-> "CreateFrameBuffer", fb |-> f, with |-> w]
           r == [Refs EXCEPT !.frame.pre = Append(@, c)]
           held == FoldLeft(TextureIncRef, r, w)
           d == IF destroyTextures THEN Adopt(held, w) ELSE held
           A == appTextures
           A2 == IF destroyTextures THEN A \ ToSet(w) ELSE A
           X == textures
           Y == frameBuffers
           att2 == [attachments EXCEPT ![f] = w]
<1>1. TypeOK /\ ApiInv BY DEF Inv
<1>2. /\ MayCall /\ f \notin Y /\ ValidAttachments(w) /\ (destroyTextures => MayAdopt(w))
      /\ frameBuffers' = Y \union {f} /\ attachments' = att2 /\ Becomes(d)
      /\ appFrameBuffers' = appFrameBuffers \union {f} /\ appTextures' = A2
      /\ UNCHANGED textures /\ UNCHANGED rendVars
  BY DEF CreateFrameBuffer
<1>3. /\ Refs \in RefRecords /\ Refs.ref = textureRef /\ Refs.memory = memoryUsed
      /\ Refs.frame = submit
  BY <1>1, RefsType
<1>4. c \in Cmds BY DEF Cmds, FrameBufferCmds
<1>5. w \in Seq(Textures) /\ Len(w) <= MaxAttachments BY AttachmentsType
<1>6. ToSet(w) \subseteq X \ ToSet(submit.freeTexture)
  BY <1>1, <1>2, UsableLive DEF ValidAttachments
<1>7. /\ attachments \in [FrameBuffers -> Attachments] /\ Y \subseteq FrameBuffers
      /\ att2[f] = w
  BY <1>1 DEF TypeOK
<1>8. P2 = Positions(appFrameBuffers', attachments') BY <1>1, <1>2, PositionsJoin
<1>9. \A p \in P : p[1] # f BY <1>1, <1>2, PositionsAre DEF TypeOK
<1>10. RefInv(Refs, P, attachments, A, X, Y) BY <1>1 DEF ApiInv
<1> HIDE DEF c
<1>11. /\ r \in RefRecords /\ r.ref = Refs.ref /\ r.memory = Refs.memory
       /\ r.frame = [submit EXCEPT !.pre = Append(@, c)]
  <2>1. Append(Refs.frame.pre, c) \in Seq(Cmds) BY <1>3, <1>4 DEF RefRecords, Frames
  <2>2. r.frame = [submit EXCEPT !.pre = Append(@, c)] BY <1>3, Zenon DEF RefRecords
  <2> QED BY <1>3, <2>1, <2>2 DEF RefRecords, Frames
<1> HIDE DEF r, P, P2, X, Y, att2, held, d, A, A2
<1>12. /\ r.frame.pre = Append(submit.pre, c) /\ r.frame.post = submit.post
       /\ r.frame.draws = submit.draws /\ r.frame.freeTexture = submit.freeTexture
       /\ r.frame.freeFrameBuffer = submit.freeFrameBuffer
  <2>1. submit \in Frames BY <1>1 DEF TypeOK
  <2> QED BY <1>11, <2>1 DEF Frames
<1>13. RefInv(r, P, attachments, A, X, Y) BY <1>3, <1>10, <1>11, <1>12, RefInvSame
<1>14. RefInv(r, P, att2, A, X, Y) BY <1>2, <1>7, <1>9, <1>13, AttachmentsChanged DEF att2
<1>15. /\ RefInv(held, P2, att2, A, X, Y) /\ held.frame = r.frame
       /\ \A t \in Textures : held.ref[t].owned = r.ref[t].owned
  BY <1>5, <1>6, <1>7, <1>9, <1>12, <1>14, HoldKeeps DEF held, P2
<1>16. RefInv(held, P2, att2, A, X, Y \union {f})
  <2>1. ToSet(att2[f]) \intersect ToSet(held.frame.freeTexture) = {}
    BY <1>6, <1>7, <1>12, <1>15
  <2>2. \A i \in DOMAIN att2[f] : <<f, i>> \in P2
    BY <1>5, <1>7, LenProperties DEF P2, Until
  <2> QED BY <1>2, <1>15, <2>1, <2>2, FrameBufferAdded
<1>17. RefInv(d, P2, att2, A2, X, Y \union {f}) /\ Untouched(r, d)
  <2>1. CASE ~destroyTextures
    <3>1. d = held /\ A2 = A BY <2>1 DEF d, A2
    <3>2. Untouched(r, held) BY <1>15 DEF Untouched
    <3> QED BY <1>16, <3>1, <3>2
  <2>2. CASE destroyTextures
    <3>1. d = Adopt(held, w) /\ A2 = A \ ToSet(w) BY <2>2 DEF d, A2
    <3>2. \A t \in ToSet(w) : t \in A \/ held.ref[t].owned
      <4>1. \A t \in ToSet(w) : t \in A \/ textureRef[t].owned
        BY <1>2, <2>2 DEF MayAdopt, A
      <4>2. \A t \in ToSet(w) : t \in Textures BY <1>5, LenProperties DEF ToSet
      <4> QED BY <1>3, <1>11, <1>15, <4>1, <4>2
    <3>3. ToSet(w) \subseteq X BY <1>6
    <3>4. RefInv(Adopt(held, w), P2, att2, A \ ToSet(w), X, Y \union {f})
          /\ Untouched(held, Adopt(held, w))
      BY <1>5, <1>16, <3>2, <3>3, AdoptKeeps
    <3>5. Untouched(r, Adopt(held, w)) BY <1>15, <3>4 DEF Untouched
    <3> QED BY <3>1, <3>4, <3>5
  <2> QED BY <2>1, <2>2
<1>18. Refs' = d /\ submit' = d.frame
  <2>1. d \in RefRecords BY <1>17 DEF RefInv
  <2>2. Refs' = d BY <1>2, <2>1, BecomesRefs
  <2> QED BY <1>2, <2>2 DEF Becomes
<1>19. /\ submit'.pre = Append(submit.pre, [op |-> "CreateFrameBuffer", fb |-> f, with |-> w])
       /\ submit'.draws = submit.draws /\ submit'.freeFrameBuffer = submit.freeFrameBuffer
       /\ All(submit'.post, "DestroyFrameBuffer") = All(submit.post, "DestroyFrameBuffer")
  <2>1. /\ submit'.pre = Append(submit.pre, c)
        /\ submit'.draws = submit.draws /\ submit'.freeFrameBuffer = submit.freeFrameBuffer
        /\ All(submit'.post, "DestroyFrameBuffer") = All(submit.post, "DestroyFrameBuffer")
    BY <1>12, <1>17, <1>18 DEF Untouched
  <2> QED BY <2>1 DEF c
<1>20. RefInv(Refs', Positions(appFrameBuffers', attachments'), attachments',
              appTextures', textures, frameBuffers')
  <2>1. RefInv(Refs', P2, att2, A2, X, Y \union {f}) BY <1>17, <1>18
  <2> QED BY <1>2, <1>8, <2>1 DEF X
<1>21. ToSet(w) \subseteq textures BY <1>6 DEF X
<1>22. /\ frameBuffers' = frameBuffers \union {f} /\ f \notin frameBuffers
       /\ attachments' = [attachments EXCEPT ![f] = w]
  BY <1>2 DEF Y, att2
<1> QED BY <1>2, <1>19, <1>20, <1>21, <1>22, FrameBufferJoins

LEMMA CreateFrameBufferFailsKeeps ==
    ASSUME Inv, AdoptShared = FALSE, NEW w \in Attachments, CreateFrameBufferFails(w)
    PROVE  Inv'
<1> DEFINE P == Positions(appFrameBuffers, attachments)
           d == Adopt(Refs, w)
<1>1. TypeOK /\ ApiInv /\ SubmitInv /\ RenderInv /\ Agreement BY DEF Inv
<1>2. /\ MayCall /\ ValidAttachments(w) /\ MayAdopt(w) /\ Becomes(d)
      /\ appTextures' = appTextures \ ToSet(w)
      /\ UNCHANGED <<textures, frameBuffers, attachments, appFrameBuffers>> /\ UNCHANGED rendVars
  BY DEF CreateFrameBufferFails, handleVars
<1>3. /\ Refs \in RefRecords /\ Refs.ref = textureRef /\ Refs.frame = submit
  BY <1>1, RefsType
<1>4. w \in Seq(Textures) BY AttachmentsType
<1>5. ToSet(w) \subseteq textures BY <1>1, <1>2, UsableLive DEF ValidAttachments
<1> HIDE DEF d, P
<1>6. RefInv(Refs, P, attachments, appTextures, textures, frameBuffers) BY <1>1 DEF ApiInv, P
<1>7. \A t \in ToSet(w) : t \in appTextures \/ Refs.ref[t].owned BY <1>2, <1>3 DEF MayAdopt
<1>8. RefInv(d, P, attachments, appTextures \ ToSet(w), textures, frameBuffers) /\ Untouched(Refs, d)
  BY <1>4, <1>5, <1>6, <1>7, AdoptKeeps DEF d
<1>9. Refs' = d /\ submit' = d.frame
  <2>1. d \in RefRecords BY <1>8 DEF RefInv
  <2>2. Refs' = d BY <1>2, <2>1, BecomesRefs
  <2> QED BY <1>2, <2>2 DEF Becomes
<1>10. /\ submit'.freeFrameBuffer = submit.freeFrameBuffer
       /\ All(submit'.post, "DestroyFrameBuffer") = All(submit.post, "DestroyFrameBuffer")
       /\ submit'.pre = submit.pre /\ submit'.draws = submit.draws
  BY <1>3, <1>8, <1>9 DEF Untouched
<1>11. RefInv(Refs', P, attachments, appTextures', textures', frameBuffers) BY <1>2, <1>8, <1>9
<1>12. ApiInv' BY <1>1, <1>2, <1>10, <1>11, ApiSame DEF P
<1>13. submit'.draws \subseteq textures BY <1>1, <1>10 DEF SubmitInv
<1>14. SubmitInv' /\ Old' = Old BY <1>1, <1>2, <1>10, <1>13, SameStep DEF handleVars
<1>15. Links(frameBuffers, attachments)' = Links(frameBuffers, attachments) BY <1>2 DEF Links
<1>16. /\ frameBuffers' \subseteq FrameBuffers /\ attachments' \in [FrameBuffers -> Attachments]
       /\ appFrameBuffers' \subseteq frameBuffers'
  BY <1>1, <1>2 DEF TypeOK
<1> QED BY <1>1, <1>2, <1>12, <1>14, <1>15, <1>16, ApiStep

LEMMA PositionsLeave ==
    ASSUME TypeOK, NEW f \in appFrameBuffers
    PROVE  /\ Until(f, Len(attachments[f])) \subseteq Positions(appFrameBuffers, attachments)
           /\ Positions(appFrameBuffers \ {f}, attachments)
                = Positions(appFrameBuffers, attachments) \ Until(f, Len(attachments[f]))
<1> DEFINE S == Positions(appFrameBuffers \ {f}, attachments)
           P == Positions(appFrameBuffers, attachments)
           U == Until(f, Len(attachments[f]))
<1>1. /\ DOMAIN attachments[f] = 1 .. Len(attachments[f])
      /\ DOMAIN attachments[f] \subseteq 1 .. MaxAttachments
  <2>1. f \in FrameBuffers /\ attachments[f] \in Attachments BY DEF TypeOK
  <2> QED BY <2>1, AttachmentsType, LenProperties, PositionsAre
<1>2. U \subseteq P BY <1>1 DEF Until, Positions
<1>3. \A g, i : <<g, i>> \in S <=> <<g, i>> \in P /\ g # f BY DEF Positions
<1>4. \A g, i : <<g, i>> \in P \ U <=> <<g, i>> \in P /\ g # f
  BY <1>1 DEF Positions, Until
<1>5. \A p \in P : \E g, i : p = <<g, i>> BY DEF Positions
<1>6. \A p \in S : \E g, i : p = <<g, i>> BY DEF Positions
<1> HIDE DEF S, P, U
<1>7. \A p : p \in S <=> p \in P \ U BY <1>3, <1>4, <1>5, <1>6
<1>8. S = P \ U BY <1>7
<1> QED BY <1>2, <1>8 DEF S, P, U

LEMMA DestroyFrameBufferKeeps ==
    ASSUME Inv, NEW f \in FrameBuffers, DestroyFrameBuffer(f)
    PROVE  Inv'
<1> DEFINE P == Positions(appFrameBuffers, attachments)
           w == attachments[f]
           P2 == P \ Until(f, Len(w))
           c == [op |-> "DestroyFrameBuffer", fb |-> f]
           r == [Refs EXCEPT !.frame.freeFrameBuffer = Append(@, f), !.frame.post = Append(@, c)]
           d == FoldLeft(TextureDecRef, r, w)
           A == appTextures
           X == textures
           Y == frameBuffers
<1>1. TypeOK /\ ApiInv /\ SubmitInv /\ RenderInv /\ Agreement BY DEF Inv
<1>2. /\ MayCall /\ f \in appFrameBuffers /\ Becomes(d)
      /\ appFrameBuffers' = appFrameBuffers \ {f}
      /\ UNCHANGED <<textures, frameBuffers, attachments, appTextures>> /\ UNCHANGED rendVars
  BY DEF DestroyFrameBuffer, handleVars
<1>3. /\ Refs \in RefRecords /\ Refs.ref = textureRef /\ Refs.memory = memoryUsed
      /\ Refs.frame = submit
  BY <1>1, RefsType
<1>4. /\ c \in Cmds /\ Made(c, "DestroyFrameBuffer") = {f} /\ c.op # "DestroyTexture"
      /\ c.op = "DestroyFrameBuffer" /\ c.fb = f
  BY DEF Cmds, FrameBufferCmds, Made, Object
<1>5. /\ attachments \in [FrameBuffers -> Attachments] /\ Y \subseteq FrameBuffers
      /\ appFrameBuffers \subseteq Y /\ w \in Seq(Textures)
  BY <1>1, AttachmentsType DEF TypeOK
<1>6. ToSet(w) \subseteq X BY <1>1, <1>2, <1>5 DEF ApiInv
<1>7. Until(f, Len(w)) \subseteq P /\ P2 = Positions(appFrameBuffers', attachments')
  BY <1>1, <1>2, PositionsLeave
<1>8. /\ RefInv(Refs, P, attachments, A, X, Y)
      /\ ToSet(submit.freeFrameBuffer) = Y \ appFrameBuffers
      /\ IsInjective(submit.freeFrameBuffer)
      /\ All(submit.post, "DestroyFrameBuffer") = ToSet(submit.freeFrameBuffer)
  BY <1>1 DEF ApiInv
<1> HIDE DEF c
<1>9. r \in RefRecords /\ r.ref = Refs.ref /\ r.memory = Refs.memory
      /\ r.frame = [submit EXCEPT !.freeFrameBuffer = Append(@, f), !.post = Append(@, c)]
  <2> DEFINE u == [Refs EXCEPT !.frame.freeFrameBuffer = Append(@, f)]
  <2>1. r = [u EXCEPT !.frame.post = Append(@, c)] BY <1>3, Zenon DEF RefRecords
  <2>2. /\ Append(Refs.frame.post, c) \in Seq(Cmds)
        /\ Append(Refs.frame.freeFrameBuffer, f) \in Seq(FrameBuffers)
    BY <1>3, <1>4 DEF RefRecords, Frames
  <2>3. u \in RefRecords BY <1>3, <2>2 DEF RefRecords, Frames
  <2>4. u.frame.post = Refs.frame.post BY <1>3 DEF RefRecords, Frames
  <2>5. r.frame = [submit EXCEPT !.freeFrameBuffer = Append(@, f), !.post = Append(@, c)]
    BY <1>3, Zenon DEF RefRecords
  <2>6. r.ref = Refs.ref /\ r.memory = Refs.memory BY <1>3 DEF RefRecords
  <2> HIDE DEF u, r
  <2>7. r \in RefRecords BY <2>1, <2>2, <2>3, <2>4 DEF RefRecords, Frames
  <2> QED BY <2>5, <2>6, <2>7
<1> HIDE DEF r, P, P2, X, Y, d, A, w
<1>10. /\ r.frame.pre = submit.pre /\ r.frame.post = Append(submit.post, c)
       /\ r.frame.draws = submit.draws /\ r.frame.freeTexture = submit.freeTexture
       /\ r.frame.freeFrameBuffer = Append(submit.freeFrameBuffer, f)
       /\ submit.post \in Seq(Cmds) /\ submit.freeFrameBuffer \in Seq(FrameBuffers)
  <2>1. submit \in Frames BY <1>1 DEF TypeOK
  <2> QED BY <1>9, <2>1 DEF Frames
<1>11. f \notin ToSet(submit.freeFrameBuffer) /\ f \in Y BY <1>2, <1>5, <1>8
<1>12. RefInv(r, P, attachments, A, X, Y)
  <2>1. Recorded(Refs, r, c) BY <1>3, <1>4, <1>9, <1>10 DEF Recorded
  <2>2. PostFits(c, X \ All(Refs.frame.post, "DestroyTexture"),
                    Y \ All(Refs.frame.post, "DestroyFrameBuffer"), Links(Y, attachments))
    BY <1>3, <1>4, <1>8, <1>11 DEF PostFits
  <2> QED BY <1>4, <1>8, <1>9, <2>1, <2>2, PostKeeps
<1>13. All(r.frame.post, "DestroyFrameBuffer") = All(submit.post, "DestroyFrameBuffer") \union {f}
  <2>1. \A op : All(Append(submit.post, c), op) = All(submit.post, op) \union Made(c, op)
    BY <1>4, <1>10, NamedAppend DEF Made
  <2> QED BY <1>4, <1>10, <2>1
<1>14. RefInv(d, P2, attachments, A, X, Y) /\ Untouched(r, d)
  <2>1. f \in All(r.frame.post, "DestroyFrameBuffer") BY <1>13
  <2>2. attachments[f] = w BY DEF w
  <2> QED BY <1>5, <1>6, <1>7, <1>12, <2>1, <2>2, ReleaseKeeps DEF d, P2
<1>15. Refs' = d /\ submit' = d.frame
  <2>1. d \in RefRecords BY <1>14 DEF RefInv
  <2>2. Refs' = d BY <1>2, <2>1, BecomesRefs
  <2> QED BY <1>2, <2>2 DEF Becomes
<1>16. /\ submit'.pre = submit.pre /\ submit'.draws = submit.draws
       /\ submit'.freeFrameBuffer = Append(submit.freeFrameBuffer, f)
       /\ All(submit'.post, "DestroyFrameBuffer") = All(submit.post, "DestroyFrameBuffer") \union {f}
  BY <1>10, <1>13, <1>14, <1>15 DEF Untouched
<1>17. ApiInv'
  <2>1. RefInv(Refs, Positions(appFrameBuffers, attachments), attachments,
               appTextures, textures, frameBuffers)'
    <3>1. RefInv(Refs', P2, attachments, A, X, Y) BY <1>14, <1>15
    <3> QED BY <1>2, <1>7, <3>1 DEF A, X, Y
  <2>2. /\ ToSet(submit'.freeFrameBuffer) = ToSet(submit.freeFrameBuffer) \union {f}
        /\ IsInjective(submit'.freeFrameBuffer)
    BY <1>8, <1>10, <1>11, <1>16, AppendSet
  <2>3. frameBuffers' \ appFrameBuffers' = (Y \ appFrameBuffers) \union {f}
    BY <1>2, <1>11 DEF Y
  <2>4. \A g \in frameBuffers' : ToSet(attachments'[g]) \subseteq textures'
    BY <1>1, <1>2 DEF ApiInv
  <2> QED BY <1>8, <1>16, <2>1, <2>2, <2>3, <2>4 DEF ApiInv
<1>18. submit'.draws \subseteq textures BY <1>1, <1>16 DEF SubmitInv
<1>19. SubmitInv' /\ Old' = Old BY <1>1, <1>2, <1>16, <1>18, SameStep DEF handleVars
<1>20. Links(frameBuffers, attachments)' = Links(frameBuffers, attachments) BY <1>2 DEF Links
<1>21. /\ frameBuffers' \subseteq FrameBuffers /\ attachments' \in [FrameBuffers -> Attachments]
       /\ appFrameBuffers' \subseteq frameBuffers'
  BY <1>1, <1>2 DEF TypeOK
<1> QED BY <1>1, <1>2, <1>17, <1>19, <1>20, <1>21, ApiStep

-----------------------------------------------------------------------------
(* The frame is handed over.                                                *)

LEMMA NothingLeft ==
    /\ \A op : All(<<>>, op) = {}
    /\ ToSet(<<>>) = {} /\ IsInjective(<<>>) /\ LinksMade(<<>>) = {}
    /\ \A X, Y : PreRuns(<<>>, X, Y)
    /\ \A X, Y, L : PostRuns(<<>>, X, Y, L)
    /\ EmptyFrame \in Frames
<1>1. Len(<<>>) = 0 /\ DOMAIN <<>> = {} BY EmptySeq
<1>2. \A op : All(<<>>, op) = {} BY NamedEmpty
<1>3. ToSet(<<>>) = {} /\ IsInjective(<<>>) BY <1>1 DEF ToSet, IsInjective
<1>4. \A X, Y : PreRuns(<<>>, X, Y) BY <1>1 DEF PreRuns
<1>5. \A X, Y, L : PostRuns(<<>>, X, Y, L) BY <1>1 DEF PostRuns
<1>6. EmptyFrame \in Frames
  <2>1. /\ <<>> \in Seq(Cmds) /\ <<>> \in Seq(Textures) /\ <<>> \in Seq(FrameBuffers)
        /\ {} \in SUBSET Textures
    BY EmptySeq
  <2> QED BY <2>1 DEF EmptyFrame, Frames
<1> QED BY <1>2, <1>3, <1>4, <1>5, <1>6, LinksNone

LEMMA FrameKeeps ==
    ASSUME Inv, Frame
    PROVE  Inv'
<1> DEFINE P == Positions(appFrameBuffers, attachments)
           F == ToSet(submit.freeTexture)
           X == textures
           Y == frameBuffers
           L == Links(Y, attachments)
<1>1. TypeOK /\ ApiInv /\ SubmitInv /\ RenderInv /\ Agreement BY DEF Inv
<1>2. /\ stage = "idle" /\ stage' = "pre" /\ textures' = X \ F
      /\ frameBuffers' = Y \ ToSet(submit.freeFrameBuffer)
      /\ render' = [submit EXCEPT !.freeTexture = <<>>, !.freeFrameBuffer = <<>>]
      /\ submit' = EmptyFrame /\ calls' = 0
      /\ UNCHANGED <<textureRef, attachments, memoryUsed, appTextures, appFrameBuffers>>
      /\ UNCHANGED <<rTextures, rFrameBuffers, rAttachments>>
  BY DEF Frame, refVars, appVars
<1>3. submit \in Frames BY <1>1 DEF TypeOK
<1>4. /\ render' \in Frames /\ render'.pre = submit.pre /\ render'.post = submit.post
      /\ render'.draws = submit.draws
  <2>1. <<>> \in Seq(Textures) /\ <<>> \in Seq(FrameBuffers) BY EmptySeq
  <2> QED BY <1>2, <1>3, <2>1 DEF Frames
<1>5. /\ submit'.pre = <<>> /\ submit'.post = <<>> /\ submit'.draws = {}
      /\ submit'.freeTexture = <<>> /\ submit'.freeFrameBuffer = <<>> /\ submit' \in Frames
  BY <1>2, NothingLeft DEF EmptyFrame
<1>6. /\ Refs \in RefRecords /\ Refs.ref = textureRef /\ Refs.memory = memoryUsed
      /\ Refs.frame = submit
  BY <1>1, RefsType
<1>7. /\ Refs' \in RefRecords /\ Refs'.ref = textureRef /\ Refs'.memory = memoryUsed
      /\ Refs'.frame = submit'
  <2>1. /\ textureRef \in [Textures -> [refCount : Int, owned : BOOLEAN, kind : AllKinds]]
        /\ memoryUsed \in Int
    BY <1>6 DEF RefRecords
  <2>2. Refs' = [ref |-> textureRef, memory |-> memoryUsed, frame |-> submit'] BY <1>2 DEF Refs
  <2> QED BY <1>5, <2>1, <2>2 DEF RefRecords
<1>8. RefInv(Refs, P, attachments, appTextures, X, Y)
      /\ Y \ ToSet(submit.freeFrameBuffer) = appFrameBuffers
  <2>1. appFrameBuffers \subseteq Y BY <1>1 DEF TypeOK
  <2> QED BY <1>1, <2>1 DEF ApiInv
<1>9. /\ PostRuns(submit.post, X, Y, L)
      /\ All(submit.post, "DestroyTexture") = F
      /\ All(submit.post, "DestroyFrameBuffer") = ToSet(submit.freeFrameBuffer)
  BY <1>1, <1>6, <1>8 DEF ApiInv, RefInv, Queued
<1>10. \A f \in appFrameBuffers : /\ ToSet(attachments[f]) \subseteq X \ F
                                  /\ \A i \in DOMAIN attachments[f] : <<f, i>> \in P
  <2>1. appFrameBuffers \subseteq FrameBuffers BY <1>1 DEF TypeOK
  <2> QED BY <1>1, <2>1, UsableLive, PositionsAre DEF Positions
<1> HIDE DEF P
<1>11. ApiInv'
  <2>1. Counted(Refs, P, attachments, appTextures, X) BY <1>8 DEF RefInv
  <2>2. appTextures \subseteq X \ F
    <3>1. appTextures \subseteq Usable BY DEF Usable
    <3> QED BY <1>1, <3>1, UsableLive
  <2>3. /\ P \subseteq FrameBuffers \X (1 .. MaxAttachments) /\ X \subseteq Textures
        /\ \A t \in X : /\ textureRef[t].refCount
                             = Cardinality(Held(P, attachments, t)) + IF t \in appTextures THEN 1 ELSE 0
                        /\ textureRef[t].refCount = 0 <=> t \in F
        /\ \A t \in appTextures : ~textureRef[t].owned
        /\ memoryUsed = Cardinality(X \ F)
    BY <1>6, <2>1 DEF Counted
  <2>4. Counted(Refs', P, attachments, appTextures, X \ F)
    <3>1. /\ ToSet(Refs'.frame.freeTexture) = {} /\ IsInjective(Refs'.frame.freeTexture)
      BY <1>5, <1>7, NothingLeft
    <3>2. (X \ F) \ {} = X \ F OBVIOUS
    <3> HIDE DEF X, F
    <3> QED BY <1>7, <2>2, <2>3, <3>1, <3>2 DEF Counted
  <2>5. Queued(Refs', P, attachments, X \ F, appFrameBuffers)
    <3>1. /\ All(Refs'.frame.post, "DestroyTexture") = ToSet(Refs'.frame.freeTexture)
          /\ PostRuns(Refs'.frame.post, X \ F, appFrameBuffers, Links(appFrameBuffers, attachments))
      BY <1>5, <1>7, NothingLeft
    <3> QED BY <1>10, <3>1 DEF Queued
  <2>6. RefInv(Refs', P, attachments, appTextures, X \ F, appFrameBuffers)
    BY <1>7, <2>4, <2>5 DEF RefInv
  <2>7. RefInv(Refs, Positions(appFrameBuffers, attachments), attachments,
               appTextures, textures, frameBuffers)'
    BY <1>2, <1>8, <2>6 DEF P
  <2>8. /\ IsInjective(submit'.freeFrameBuffer) /\ ToSet(submit'.freeFrameBuffer) = {}
        /\ All(submit'.post, "DestroyFrameBuffer") = {}
    BY <1>5, NothingLeft
  <2>9. frameBuffers' = appFrameBuffers BY <1>2, <1>8
  <2>10. \A f \in frameBuffers' : ToSet(attachments'[f]) \subseteq textures'
    BY <1>2, <1>10, <2>9
  <2> QED BY <1>2, <2>7, <2>8, <2>9, <2>10 DEF ApiInv
<1>12. NewTextures' = {} /\ NewFrameBuffers' = {}
  BY <1>5, NothingLeft DEF NewTextures, NewFrameBuffers
<1>13. SubmitInv' BY <1>5, <1>12, NothingLeft DEF SubmitInv
<1>14. render.pre = <<>> /\ render.post = <<>> BY <1>1, <1>2 DEF RenderInv
<1>15. /\ XDrawn = rTextures /\ YDrawn = rFrameBuffers
       /\ rTextures = X \ NewTextures /\ rFrameBuffers = Y \ NewFrameBuffers
       /\ NewTextures \subseteq X /\ NewFrameBuffers \subseteq Y
  BY <1>1, <1>14, NothingLeft DEF XDrawn, YDrawn, Agreement, SubmitInv
<1>16. XDrawn' = X /\ YDrawn' = Y
  BY <1>2, <1>4, <1>15 DEF XDrawn, YDrawn, NewTextures, NewFrameBuffers
<1>17. LinksDrawn' \subseteq L
  <2>1. LinksDrawn \subseteq L BY <1>1, <1>14, NothingLeft DEF Agreement
  <2>2. LinksMade(submit.pre) \subseteq L BY <1>1 DEF SubmitInv
  <2>3. LinksDrawn' \subseteq LinksDrawn \union LinksMade(submit.pre) BY <1>2, <1>4 DEF LinksDrawn
  <2> QED BY <2>1, <2>2, <2>3
<1>18. RenderInv'
  <2>1. PreRuns(render'.pre, rTextures', rFrameBuffers')
    BY <1>1, <1>2, <1>4, <1>15 DEF SubmitInv
  <2>2. render'.draws \subseteq XDrawn' BY <1>1, <1>4, <1>16 DEF SubmitInv
  <2>3. PostRuns(render'.post, XDrawn', YDrawn', LinksDrawn')
    <3>1. submit.post \in Seq(Cmds) BY <1>3 DEF Frames
    <3> DEFINE L2 == LinksDrawn'
    <3> HIDE DEF X, Y, L, L2
    <3>2. \A l \in L2 : l[2] \in All(submit.post, "DestroyTexture") => l \in L /\ l[1] \notin Y \ Y
      BY <1>17 DEF L2
    <3>3. PostRuns(submit.post, X, Y, L2) BY <1>9, <3>1, <3>2, PostRunsMore
    <3> QED BY <1>4, <1>16, <3>3 DEF L2
  <2>4. AttachmentsLive' BY <1>1, <1>2 DEF RenderInv, AttachmentsLive
  <2> QED BY <1>2, <2>1, <2>2, <2>3, <2>4 DEF RenderInv
<1>19. Agreement'
  <2>1. All(render'.post, "DestroyTexture") = F
        /\ All(render'.post, "DestroyFrameBuffer") = ToSet(submit.freeFrameBuffer)
    BY <1>4, <1>9
  <2>2. \A l \in LinksDrawn' : l[1] \notin All(render'.post, "DestroyFrameBuffer")
                                 => l \in Links(frameBuffers', attachments')
    BY <1>2, <1>17, <2>1 DEF Links
  <2> QED BY <1>2, <1>12, <1>16, <2>1, <2>2 DEF Agreement
<1>20. TypeOK'
  <2>1. calls' \in 0 .. MaxCalls BY <1>2, BoundsAssumption
  <2>2. appTextures \subseteq X \ F
    <3>1. appTextures \subseteq Usable BY DEF Usable
    <3> QED BY <1>1, <3>1, UsableLive
  <2> QED BY <1>1, <1>2, <1>4, <1>5, <1>8, <2>1, <2>2 DEF TypeOK
<1> QED BY <1>11, <1>13, <1>18, <1>19, <1>20 DEF Inv

-----------------------------------------------------------------------------
(* The renderer's steps.                                                    *)

LEMMA RendererKeepsApi ==
    ASSUME ApiInv, SubmitInv, UNCHANGED apiVars
    PROVE  /\ ApiInv' /\ SubmitInv' /\ Old' = Old
           /\ Links(frameBuffers, attachments)' = Links(frameBuffers, attachments)
<1>1. UNCHANGED <<textures, frameBuffers, textureRef, attachments, memoryUsed, appTextures,
                  appFrameBuffers, submit, calls>>
  BY DEF apiVars, handleVars, refVars, appVars
<1>2. Refs' = Refs BY <1>1 DEF Refs
<1>3. NewTextures' = NewTextures /\ NewFrameBuffers' = NewFrameBuffers
  BY <1>1 DEF NewTextures, NewFrameBuffers
<1>4. Links(frameBuffers, attachments)' = Links(frameBuffers, attachments) BY <1>1
<1>5. ApiInv' BY <1>1, <1>2 DEF ApiInv
<1>6. SubmitInv' BY <1>1, <1>3, <1>4 DEF SubmitInv
<1> QED BY <1>1, <1>3, <1>4, <1>5, <1>6 DEF Old

LEMMA ExecPreKeeps ==
    ASSUME Inv, ExecPre
    PROVE  Inv'
<1> DEFINE q == render.pre
           h == Head(render.pre)
<1>1. TypeOK /\ ApiInv /\ SubmitInv /\ RenderInv /\ Agreement BY DEF Inv
<1>2. stage = "pre" /\ UNCHANGED apiVars BY DEF ExecPre
<1>3. /\ ApiInv' /\ SubmitInv' /\ Old' = Old
      /\ Links(frameBuffers, attachments)' = Links(frameBuffers, attachments)
  BY <1>1, <1>2, RendererKeepsApi
<1>4. UNCHANGED <<textures, frameBuffers, textureRef, attachments, memoryUsed, appTextures,
                  appFrameBuffers, submit, calls>>
  BY <1>2 DEF apiVars, handleVars, refVars, appVars
<1>5. /\ (textures \ NewTextures)' = textures \ NewTextures
      /\ (frameBuffers \ NewFrameBuffers)' = frameBuffers \ NewFrameBuffers
  BY <1>3 DEF Old
<1>6. CASE q = <<>>
  <2>1. stage' = "submit" /\ UNCHANGED <<render, rTextures, rFrameBuffers, rAttachments>>
    BY <1>6 DEF ExecPre
  <2>2. XDrawn' = XDrawn /\ YDrawn' = YDrawn /\ LinksDrawn' = LinksDrawn
    BY <2>1 DEF XDrawn, YDrawn, LinksDrawn
  <2>3. RenderInv' BY <1>1, <1>6, <2>1, <2>2 DEF RenderInv, AttachmentsLive
  <2>4. Agreement' BY <1>1, <1>3, <1>5, <2>1, <2>2 DEF Agreement
  <2>5. TypeOK' BY <1>1, <1>4, <2>1 DEF TypeOK
  <2> QED BY <1>3, <2>3, <2>4, <2>5 DEF Inv
<1>7. CASE q # <<>>
  <2>1. Execute(h) /\ render' = [render EXCEPT !.pre = Tail(@)] /\ stage' = "pre"
    BY <1>2, <1>7 DEF ExecPre
  <2>2. render \in Frames /\ q \in Seq(Cmds) BY <1>1 DEF TypeOK, Frames
  <2>3. Tail(q) \in Seq(Cmds) /\ h \in Cmds
    <3> HIDE DEF q
    <3> QED BY <1>7, <2>2, HeadTailProperties DEF q
  <2>4. /\ render' \in Frames /\ render'.pre = Tail(q) /\ render'.post = render.post
        /\ render'.draws = render.draws
    BY <2>1, <2>2, <2>3 DEF Frames
  <2>5. /\ PreFits(h, rTextures, rFrameBuffers)
        /\ PreRuns(Tail(q), rTextures \union Made(h, "CreateTexture"),
                            rFrameBuffers \union Made(h, "CreateFrameBuffer"))
    <3>1. PreRuns(q, rTextures, rFrameBuffers) BY <1>1 DEF RenderInv
    <3> HIDE DEF q
    <3>2. /\ PreFits(Head(q), rTextures, rFrameBuffers)
          /\ PreRuns(Tail(q), rTextures \union Made(Head(q), "CreateTexture"),
                              rFrameBuffers \union Made(Head(q), "CreateFrameBuffer"))
      BY <1>7, <2>2, <3>1, PreRunsTail DEF Made
    <3> QED BY <3>2 DEF q
  <2>6. /\ All(q, "CreateTexture") = All(Tail(q), "CreateTexture") \union Made(h, "CreateTexture")
        /\ All(q, "CreateFrameBuffer")
             = All(Tail(q), "CreateFrameBuffer") \union Made(h, "CreateFrameBuffer")
        /\ LinksMade(q) = LinkedBy(h) \union LinksMade(Tail(q))
    <3> HIDE DEF q
    <3>1. Len(q) \in Nat /\ Len(q) >= 1 /\ Len(Tail(q)) = Len(q) - 1
      BY <1>7, <2>2, HeadTailProperties, LenProperties, EmptySeq
    <3>2. Len(Tail(q)) \in 0 .. Len(q) - 1 /\ Len(Tail(q)) + 1 = Len(q) BY <3>1
    <3>3. \A op : Named(q, Len(Tail(q)) + 1, op)
                    = Named(Tail(q), Len(Tail(q)), op) \union {x \in {Object(Head(q))} : Head(q).op = op}
      BY <1>7, <2>2, <3>2, NamedTail
    <3>4. \A op : All(q, op) = All(Tail(q), op) \union Made(Head(q), op)
      BY <3>2, <3>3 DEF All, Made
    <3>5. LinksMade(q) = LinkedBy(Head(q)) \union LinksMade(Tail(q)) BY <1>7, <2>2, LinksTail
    <3> QED BY <3>4, <3>5 DEF q
  <2> HIDE DEF q, h
  <2>7. /\ rTextures' = rTextures \union Made(h, "CreateTexture")
        /\ rFrameBuffers' = rFrameBuffers \union Made(h, "CreateFrameBuffer")
        /\ rAttachments' \in [FrameBuffers -> SUBSET Textures]
        /\ rTextures' \subseteq Textures /\ rFrameBuffers' \subseteq FrameBuffers
        /\ {l \in FrameBuffers \X Textures : l[1] \in rFrameBuffers' /\ l[2] \in rAttachments'[l[1]]}
             = {l \in FrameBuffers \X Textures : l[1] \in rFrameBuffers /\ l[2] \in rAttachments[l[1]]}
                 \union LinkedBy(h)
        /\ AttachmentsLive'
    <3>1. /\ rTextures \subseteq Textures /\ rFrameBuffers \subseteq FrameBuffers
          /\ rAttachments \in [FrameBuffers -> SUBSET Textures] /\ AttachmentsLive
      BY <1>1 DEF TypeOK, RenderInv
    <3>2. CASE h.op = "CreateTexture"
      <4>1. rTextures' = rTextures \union {h.th} /\ UNCHANGED <<rFrameBuffers, rAttachments>>
        BY <2>1, <3>2 DEF Execute
      <4>2. Made(h, "CreateTexture") = {h.th} /\ Made(h, "CreateFrameBuffer") = {} /\ LinkedBy(h) = {}
        BY <3>2 DEF Made, Object, LinkedBy
      <4>3. h.th \in Textures BY <2>3, <3>2 DEF Cmds, TextureCmds, FrameBufferCmds
      <4>4. rTextures' \subseteq Textures BY <3>1, <4>1, <4>3
      <4>5. AttachmentsLive' BY <3>1, <4>1 DEF AttachmentsLive
      <4> QED BY <3>1, <4>1, <4>2, <4>4, <4>5
    <3>3. CASE h.op = "CreateFrameBuffer"
      <4>1. /\ rFrameBuffers' = rFrameBuffers \union {h.fb}
            /\ rAttachments' = [rAttachments EXCEPT ![h.fb] = ToSet(h.with)]
            /\ UNCHANGED rTextures
        BY <2>1, <3>3 DEF Execute
      <4>2. /\ Made(h, "CreateTexture") = {} /\ Made(h, "CreateFrameBuffer") = {h.fb}
            /\ LinkedBy(h) = {l \in FrameBuffers \X Textures : h.fb = l[1] /\ l[2] \in ToSet(h.with)}
        BY <3>3 DEF Made, Object, LinkedBy
      <4>3. h.fb \in FrameBuffers BY <2>3, <3>3 DEF Cmds, TextureCmds, FrameBufferCmds
      <4>4. h.fb \notin rFrameBuffers /\ ToSet(h.with) \subseteq rTextures
        BY <2>5, <3>3 DEF PreFits
      <4>5. /\ rAttachments'[h.fb] = ToSet(h.with)
            /\ \A g \in rFrameBuffers : rAttachments'[g] = rAttachments[g]
            /\ rAttachments' \in [FrameBuffers -> SUBSET Textures]
            /\ rFrameBuffers' \subseteq FrameBuffers
        BY <3>1, <4>1, <4>3, <4>4
      <4>6. AttachmentsLive' BY <3>1, <4>1, <4>4, <4>5 DEF AttachmentsLive
      <4>7. {l \in FrameBuffers \X Textures : l[1] \in rFrameBuffers' /\ l[2] \in rAttachments'[l[1]]}
              = {l \in FrameBuffers \X Textures : l[1] \in rFrameBuffers /\ l[2] \in rAttachments[l[1]]}
                  \union LinkedBy(h)
        BY <4>1, <4>2, <4>5
      <4> QED BY <3>1, <4>1, <4>2, <4>5, <4>6, <4>7
    <3>4. CASE h.op \in {"UpdateTexture", "ResizeTexture"}
      <4>1. UNCHANGED <<rTextures, rFrameBuffers, rAttachments>> BY <2>1, <3>4 DEF Execute
      <4>2. Made(h, "CreateTexture") = {} /\ Made(h, "CreateFrameBuffer") = {} /\ LinkedBy(h) = {}
        BY <3>4 DEF Made, LinkedBy
      <4>3. AttachmentsLive' BY <3>1, <4>1 DEF AttachmentsLive
      <4> QED BY <3>1, <4>1, <4>2, <4>3
    <3> QED BY <2>5, <3>2, <3>3, <3>4 DEF PreFits
  <2>8. XDrawn' = XDrawn /\ YDrawn' = YDrawn
    BY <2>4, <2>6, <2>7 DEF XDrawn, YDrawn, q
  <2>9. LinksDrawn' = LinksDrawn
    <3>1. LinksMade(render.pre) = LinkedBy(h) \union LinksMade(render'.pre)
      BY <2>4, <2>6 DEF q
    <3> QED BY <2>7, <3>1 DEF LinksDrawn
  <2>10. RenderInv' BY <1>1, <1>2, <2>1, <2>4, <2>5, <2>7, <2>8, <2>9 DEF RenderInv
  <2>11. Agreement' BY <1>1, <1>3, <1>5, <2>4, <2>8, <2>9 DEF Agreement
  <2>12. TypeOK' BY <1>1, <1>4, <2>1, <2>4, <2>7 DEF TypeOK
  <2> QED BY <1>3, <2>10, <2>11, <2>12 DEF Inv
<1> QED BY <1>6, <1>7

LEMMA SubmitKeeps ==
    ASSUME Inv, Submit
    PROVE  Inv'
<1>1. TypeOK /\ ApiInv /\ SubmitInv /\ RenderInv /\ Agreement BY DEF Inv
<1>2. /\ stage = "submit" /\ stage' = "post" /\ render' = [render EXCEPT !.draws = {}]
      /\ UNCHANGED <<rTextures, rFrameBuffers, rAttachments>> /\ UNCHANGED apiVars
  BY DEF Submit
<1>3. /\ ApiInv' /\ SubmitInv' /\ Old' = Old
      /\ Links(frameBuffers, attachments)' = Links(frameBuffers, attachments)
  BY <1>1, <1>2, RendererKeepsApi
<1>4. /\ render' \in Frames /\ render'.pre = render.pre /\ render'.post = render.post
      /\ render'.draws = {}
  BY <1>1, <1>2 DEF TypeOK, Frames
<1>5. XDrawn' = XDrawn /\ YDrawn' = YDrawn /\ LinksDrawn' = LinksDrawn
  BY <1>2, <1>4 DEF XDrawn, YDrawn, LinksDrawn
<1>6. RenderInv' BY <1>1, <1>2, <1>4, <1>5 DEF RenderInv, AttachmentsLive
<1>7. /\ (textures \ NewTextures)' = textures \ NewTextures
      /\ (frameBuffers \ NewFrameBuffers)' = frameBuffers \ NewFrameBuffers
  BY <1>3 DEF Old
<1>8. Agreement' BY <1>1, <1>3, <1>4, <1>5, <1>7 DEF Agreement
<1>9. UNCHANGED <<textures, frameBuffers, textureRef, attachments, memoryUsed, appTextures,
                  appFrameBuffers, submit, calls>>
  BY <1>2 DEF apiVars, handleVars, refVars, appVars
<1>10. TypeOK' BY <1>1, <1>2, <1>4, <1>9 DEF TypeOK
<1> QED BY <1>3, <1>6, <1>8, <1>10 DEF Inv

LEMMA ExecPostKeeps ==
    ASSUME Inv, ExecPost
    PROVE  Inv'
<1> DEFINE q == render.post
           h == Head(render.post)
           L == LinksDrawn
           T == rTextures
           U == rFrameBuffers
<1>1. TypeOK /\ ApiInv /\ SubmitInv /\ RenderInv /\ Agreement BY DEF Inv
<1>2. stage = "post" /\ UNCHANGED apiVars BY DEF ExecPost
<1>3. /\ ApiInv' /\ SubmitInv' /\ Old' = Old
      /\ Links(frameBuffers, attachments)' = Links(frameBuffers, attachments)
  BY <1>1, <1>2, RendererKeepsApi
<1>4. UNCHANGED <<textures, frameBuffers, textureRef, attachments, memoryUsed, appTextures,
                  appFrameBuffers, submit, calls>>
  BY <1>2 DEF apiVars, handleVars, refVars, appVars
<1>5. /\ (textures \ NewTextures)' = textures \ NewTextures
      /\ (frameBuffers \ NewFrameBuffers)' = frameBuffers \ NewFrameBuffers
  BY <1>3 DEF Old
<1>6. CASE q = <<>>
  <2>1. stage' = "idle" /\ UNCHANGED <<render, rTextures, rFrameBuffers, rAttachments>>
    BY <1>6 DEF ExecPost
  <2>2. XDrawn' = XDrawn /\ YDrawn' = YDrawn /\ LinksDrawn' = LinksDrawn
    BY <2>1 DEF XDrawn, YDrawn, LinksDrawn
  <2>3. RenderInv' BY <1>1, <1>2, <1>6, <2>1, <2>2 DEF RenderInv, AttachmentsLive
  <2>4. Agreement' BY <1>1, <1>3, <1>5, <2>1, <2>2 DEF Agreement
  <2>5. TypeOK' BY <1>1, <1>4, <2>1 DEF TypeOK
  <2> QED BY <1>3, <2>3, <2>4, <2>5 DEF Inv
<1>7. CASE q # <<>>
  <2>1. Execute(h) /\ render' = [render EXCEPT !.post = Tail(@)] /\ stage' = "post"
    BY <1>2, <1>7 DEF ExecPost
  <2>2. render \in Frames /\ q \in Seq(Cmds) BY <1>1 DEF TypeOK, Frames
  <2>3. Tail(q) \in Seq(Cmds) /\ h \in Cmds
    <3> HIDE DEF q
    <3> QED BY <1>7, <2>2, HeadTailProperties DEF q
  <2>4. /\ render' \in Frames /\ render'.pre = render.pre /\ render'.post = Tail(q)
        /\ render'.draws = render.draws /\ render.pre = <<>>
    BY <1>1, <1>2, <2>1, <2>2, <2>3 DEF Frames, RenderInv
  <2>5. /\ XDrawn = T /\ YDrawn = U
        /\ XDrawn' = rTextures' /\ YDrawn' = rFrameBuffers'
        /\ L = {l \in FrameBuffers \X Textures : l[1] \in U /\ l[2] \in rAttachments[l[1]]}
        /\ LinksDrawn' = {l \in FrameBuffers \X Textures : l[1] \in rFrameBuffers' /\ l[2] \in rAttachments'[l[1]]}
    BY <2>4, NothingLeft DEF XDrawn, YDrawn, LinksDrawn
  <2> HIDE DEF L, T, U
  <2>6. /\ PostFits(h, T, U, L)
        /\ PostRuns(Tail(q), T \ Made(h, "DestroyTexture"), U \ Made(h, "DestroyFrameBuffer"), L)
    <3>1. PostRuns(q, T, U, L) BY <1>1, <2>5 DEF RenderInv, L
    <3> HIDE DEF q
    <3>2. /\ PostFits(Head(q), T, U, L)
          /\ PostRuns(Tail(q), T \ Made(Head(q), "DestroyTexture"),
                               U \ Made(Head(q), "DestroyFrameBuffer"), L)
      BY <1>7, <2>2, <3>1, PostRunsTail DEF Made
    <3> QED BY <3>2 DEF q
  <2>7. /\ All(q, "DestroyTexture") = All(Tail(q), "DestroyTexture") \union Made(h, "DestroyTexture")
        /\ All(q, "DestroyFrameBuffer")
             = All(Tail(q), "DestroyFrameBuffer") \union Made(h, "DestroyFrameBuffer")
    <3> HIDE DEF q
    <3>1. Len(q) \in Nat /\ Len(q) >= 1 /\ Len(Tail(q)) = Len(q) - 1
      BY <1>7, <2>2, HeadTailProperties, LenProperties, EmptySeq
    <3>2. Len(Tail(q)) \in 0 .. Len(q) - 1 /\ Len(Tail(q)) + 1 = Len(q) BY <3>1
    <3>3. \A op : Named(q, Len(Tail(q)) + 1, op)
                    = Named(Tail(q), Len(Tail(q)), op) \union {x \in {Object(Head(q))} : Head(q).op = op}
      BY <1>7, <2>2, <3>2, NamedTail
    <3>4. \A op : All(q, op) = All(Tail(q), op) \union Made(Head(q), op)
      BY <3>2, <3>3 DEF All, Made
    <3> QED BY <3>4 DEF q
  <2> HIDE DEF q, h
  <2>8. /\ rTextures' = T \ Made(h, "DestroyTexture")
        /\ rFrameBuffers' = U \ Made(h, "DestroyFrameBuffer")
        /\ rAttachments' \in [FrameBuffers -> SUBSET Textures]
        /\ \A g \in rFrameBuffers' : rAttachments'[g] = rAttachments[g]
        /\ AttachmentsLive'
    <3>1. /\ T \subseteq Textures /\ U \subseteq FrameBuffers
          /\ rAttachments \in [FrameBuffers -> SUBSET Textures]
          /\ \A g \in U : rAttachments[g] \subseteq T
      BY <1>1 DEF TypeOK, RenderInv, AttachmentsLive, T, U
    <3>2. CASE h.op = "DestroyTexture"
      <4>1. rTextures' = T \ {h.th} /\ rFrameBuffers' = U /\ rAttachments' = rAttachments
        BY <2>1, <3>2 DEF Execute, T, U
      <4>2. Made(h, "DestroyTexture") = {h.th} /\ Made(h, "DestroyFrameBuffer") = {}
        BY <3>2 DEF Made, Object
      <4>3. \A l \in L : l[2] = h.th => l[1] \notin U BY <2>6, <3>2 DEF PostFits
      <4>4. ASSUME NEW g \in U PROVE h.th \notin rAttachments[g]
        <5>1. SUFFICES ASSUME h.th \in rAttachments[g] PROVE FALSE OBVIOUS
        <5>2. <<g, h.th>> \in FrameBuffers \X Textures BY <3>1, <5>1
        <5>3. <<g, h.th>> \in L BY <2>5, <5>1, <5>2
        <5> QED BY <4>3, <5>3
      <4>5. AttachmentsLive' BY <3>1, <4>1, <4>4 DEF AttachmentsLive
      <4> QED BY <3>1, <4>1, <4>2, <4>5
    <3>3. CASE h.op = "DestroyFrameBuffer"
      <4>1. /\ rFrameBuffers' = U \ {h.fb} /\ rAttachments' = [rAttachments EXCEPT ![h.fb] = {}]
            /\ rTextures' = T
        BY <2>1, <3>3 DEF Execute, T, U
      <4>2. Made(h, "DestroyTexture") = {} /\ Made(h, "DestroyFrameBuffer") = {h.fb}
        BY <3>3 DEF Made, Object
      <4>3. /\ \A g \in rFrameBuffers' : rAttachments'[g] = rAttachments[g]
            /\ rAttachments' \in [FrameBuffers -> SUBSET Textures]
        BY <3>1, <4>1
      <4>4. AttachmentsLive' BY <3>1, <4>1, <4>3 DEF AttachmentsLive
      <4> QED BY <4>1, <4>2, <4>3, <4>4
    <3>4. CASE h.op = "ReadTexture"
      <4>1. rTextures' = T /\ rFrameBuffers' = U /\ rAttachments' = rAttachments
        BY <2>1, <3>4 DEF Execute, T, U
      <4>2. Made(h, "DestroyTexture") = {} /\ Made(h, "DestroyFrameBuffer") = {}
        BY <3>4 DEF Made
      <4>3. AttachmentsLive' BY <3>1, <4>1 DEF AttachmentsLive
      <4> QED BY <3>1, <4>1, <4>2, <4>3
    <3> QED BY <2>6, <3>2, <3>3, <3>4 DEF PostFits
  <2>9. LinksDrawn' \subseteq L /\ \A l \in LinksDrawn' : l[1] \in rFrameBuffers'
    BY <2>5, <2>8
  <2>10. RenderInv'
    <3> DEFINE L2 == LinksDrawn'
               T2 == rTextures'
               U2 == rFrameBuffers'
    <3>1. PostRuns(Tail(q), T2, U2, L) BY <2>6, <2>8
    <3>2. \A l \in L2 : l[2] \in All(Tail(q), "DestroyTexture") => l \in L /\ l[1] \notin U2 \ U2
      BY <2>9
    <3> HIDE DEF L2, T2, U2
    <3>3. PostRuns(Tail(q), T2, U2, L2) BY <2>3, <3>1, <3>2, PostRunsMore
    <3>4. PostRuns(render'.post, XDrawn', YDrawn', LinksDrawn')
      BY <2>4, <2>5, <3>3 DEF L2, T2, U2
    <3>5. PreRuns(render'.pre, rTextures', rFrameBuffers') BY <2>4, NothingLeft
    <3>6. render'.draws = {} BY <1>1, <1>2, <2>4 DEF RenderInv
    <3>7. render'.draws \subseteq XDrawn' BY <3>6
    <3> QED BY <2>1, <2>4, <2>8, <3>4, <3>5, <3>6, <3>7 DEF RenderInv
  <2>11. Agreement'
    <3>1. /\ T \ All(q, "DestroyTexture") = textures \ NewTextures
          /\ U \ All(q, "DestroyFrameBuffer") = frameBuffers \ NewFrameBuffers
          /\ \A l \in L : l[1] \notin All(q, "DestroyFrameBuffer")
                            => l \in Links(frameBuffers, attachments)
      BY <1>1, <2>5 DEF Agreement, q, L
    <3>2. /\ XDrawn' \ All(Tail(q), "DestroyTexture") = T \ All(q, "DestroyTexture")
          /\ YDrawn' \ All(Tail(q), "DestroyFrameBuffer") = U \ All(q, "DestroyFrameBuffer")
      BY <2>5, <2>7, <2>8
    <3>3. \A l \in LinksDrawn' : l[1] \notin All(Tail(q), "DestroyFrameBuffer")
                                   => l \in Links(frameBuffers, attachments)
      BY <2>7, <2>8, <2>9, <3>1
    <3>4. /\ XDrawn' \ All(render'.post, "DestroyTexture") = (textures \ NewTextures)'
          /\ YDrawn' \ All(render'.post, "DestroyFrameBuffer") = (frameBuffers \ NewFrameBuffers)'
      BY <1>5, <2>4, <3>1, <3>2
    <3>5. \A l \in LinksDrawn' : l[1] \notin All(render'.post, "DestroyFrameBuffer")
                                   => l \in Links(frameBuffers, attachments)'
      BY <1>3, <2>4, <3>3
    <3> QED BY <3>4, <3>5 DEF Agreement
  <2>12. TypeOK' BY <1>1, <1>4, <2>1, <2>4, <2>8 DEF TypeOK, T, U
  <2> QED BY <1>3, <2>10, <2>11, <2>12 DEF Inv
<1> QED BY <1>6, <1>7

-----------------------------------------------------------------------------
(* The theorems.                                                            *)

LEMMA InitHolds == Init => Inv
<1> SUFFICES ASSUME Init PROVE Inv OBVIOUS
<1> DEFINE P == Positions(appFrameBuffers, attachments)
<1>1. /\ textures = {} /\ frameBuffers = {} /\ appTextures = {} /\ appFrameBuffers = {}
      /\ textureRef = [t \in Textures |-> NoTexture] /\ memoryUsed = 0
      /\ attachments = [f \in FrameBuffers |-> <<>>]
      /\ submit = EmptyFrame /\ render = EmptyFrame /\ stage = "idle" /\ calls = 0
      /\ rTextures = {} /\ rFrameBuffers = {} /\ rAttachments = [f \in FrameBuffers |-> {}]
  BY DEF Init
<1>2. /\ EmptyFrame.pre = <<>> /\ EmptyFrame.post = <<>> /\ EmptyFrame.draws = {}
      /\ EmptyFrame.freeTexture = <<>> /\ EmptyFrame.freeFrameBuffer = <<>>
      /\ EmptyFrame \in Frames
  BY NothingLeft DEF EmptyFrame
<1>3. TypeOK
  <2>1. <<>> \in Attachments
    <3>1. <<>> \in Seq(Textures) /\ Len(<<>>) = 0 BY EmptySeq
    <3>2. Len(<<>>) <= MaxAttachments BY <3>1, BoundsAssumption
    <3> QED BY <3>1, <3>2, AttachmentsType
  <2>2. IsFiniteSet(Textures) /\ Cardinality(Textures) \in Nat BY HandlesAssumption, FS_CardinalityType
  <2>3. memoryUsed \in 0 .. Cardinality(Textures) /\ calls \in 0 .. MaxCalls
    BY <1>1, <2>2, BoundsAssumption
  <2>4. NoTexture \in [refCount : Int, owned : BOOLEAN, kind : AllKinds]
    BY DEF NoTexture, AllKinds
  <2>5. /\ textureRef \in [Textures -> [refCount : Int, owned : BOOLEAN, kind : AllKinds]]
        /\ attachments \in [FrameBuffers -> Attachments]
        /\ rAttachments \in [FrameBuffers -> SUBSET Textures]
    <3> HIDE DEF P
    <3> QED BY <1>1, <2>1, <2>4
  <2> QED BY <1>1, <1>2, <2>3, <2>5 DEF TypeOK
<1>4. ApiInv
  <2>1. /\ Refs \in RefRecords /\ Refs.memory = 0 /\ Refs.frame = EmptyFrame
    BY <1>1, <1>3, RefsType
  <2>2. P = {} BY <1>1 DEF Positions
  <2>3. Counted(Refs, P, attachments, {}, {})
    <3>1. Cardinality({} \ {}) = 0 BY FS_EmptySet
    <3> QED BY <1>2, <2>1, <2>2, <3>1, NothingLeft DEF Counted
  <2>4. Queued(Refs, P, attachments, {}, {})
    BY <1>2, <2>1, NothingLeft DEF Queued
  <2>5. RefInv(Refs, P, attachments, appTextures, textures, frameBuffers)
    BY <1>1, <2>1, <2>3, <2>4 DEF RefInv
  <2> QED BY <1>1, <1>2, <2>5, NothingLeft DEF ApiInv
<1>5. NewTextures = {} /\ NewFrameBuffers = {}
  BY <1>1, <1>2, NothingLeft DEF NewTextures, NewFrameBuffers
<1>6. SubmitInv BY <1>1, <1>2, <1>5, NothingLeft DEF SubmitInv
<1>7. XDrawn = {} /\ YDrawn = {} /\ LinksDrawn = {}
  BY <1>1, <1>2, NothingLeft DEF XDrawn, YDrawn, LinksDrawn
<1>8. RenderInv BY <1>1, <1>2, <1>7, NothingLeft DEF RenderInv, AttachmentsLive
<1>9. Agreement BY <1>1, <1>2, <1>5, <1>7, NothingLeft DEF Agreement
<1> QED BY <1>3, <1>4, <1>6, <1>8, <1>9 DEF Inv

LEMMA NextKeeps ==
    ASSUME AdoptShared = FALSE
    PROVE  Inv /\ [Next]_vars => Inv'
<1> SUFFICES ASSUME Inv, [Next]_vars PROVE Inv' OBVIOUS
<1>1. ASSUME NEW t \in Textures, NEW kind \in Kinds, CreateTexture(t, kind) PROVE Inv'
  BY <1>1, CreateTextureKeeps
<1>2. ASSUME NEW t \in Textures, DestroyTexture(t) PROVE Inv' BY <1>2, DestroyTextureKeeps
<1>3. ASSUME NEW t \in Textures, UpdateTexture(t) PROVE Inv' BY <1>3, UpdateTextureKeeps
<1>4. ASSUME NEW t \in Textures, ReadTexture(t) PROVE Inv' BY <1>4, ReadTextureKeeps
<1>5. ASSUME NEW t \in Textures, Draw(t) PROVE Inv' BY <1>5, DrawKeeps
<1>6. ASSUME NEW f \in FrameBuffers, NEW w \in Attachments, NEW destroyTextures \in BOOLEAN,
             CreateFrameBuffer(f, w, destroyTextures)
      PROVE  Inv'
  BY <1>6, CreateFrameBufferKeeps
<1>7. ASSUME NEW f \in FrameBuffers, CreateWindow(f) PROVE Inv' BY <1>7, CreateWindowKeeps
<1>8. ASSUME NEW f \in FrameBuffers, DestroyFrameBuffer(f) PROVE Inv'
  BY <1>8, DestroyFrameBufferKeeps
<1>9. ASSUME NEW w \in Attachments, CreateFrameBufferFails(w) PROVE Inv'
  BY <1>9, CreateFrameBufferFailsKeeps
<1>10. CASE Reset BY <1>10, ResetKeeps
<1>11. CASE Frame BY <1>11, FrameKeeps
<1>12. CASE ExecPre BY <1>12, ExecPreKeeps
<1>13. CASE Submit BY <1>13, SubmitKeeps
<1>14. CASE ExecPost BY <1>14, ExecPostKeeps
<1>15. CASE UNCHANGED vars
  <2>1. UNCHANGED apiVars /\ UNCHANGED <<render, stage, rTextures, rFrameBuffers, rAttachments>>
    BY <1>15 DEF vars, apiVars, rendVars
  <2>2. /\ ApiInv' /\ SubmitInv' /\ Old' = Old
        /\ Links(frameBuffers, attachments)' = Links(frameBuffers, attachments)
    BY <2>1, RendererKeepsApi DEF Inv
  <2>3. RenderInv' /\ Agreement' BY <2>1, <2>2, ApiKeepsRenderer DEF Inv, rendVars
  <2>4. TypeOK'
    BY <2>1 DEF Inv, TypeOK, apiVars, handleVars, refVars, appVars
  <2> QED BY <2>2, <2>3, <2>4 DEF Inv
<1> QED BY <1>1, <1>2, <1>3, <1>4, <1>5, <1>6, <1>7, <1>8, <1>9, <1>10, <1>11, <1>12, <1>13, <1>14,
           <1>15 DEF Next

\* The inductive invariant: the counts, the commands of both frames and what the renderer
\* has fit together in every reachable state (class Context, and rendererExecCommands).
THEOREM InvHolds == AdoptShared = FALSE => (Spec => []Inv)
<1> SUFFICES ASSUME AdoptShared = FALSE PROVE Spec => []Inv OBVIOUS
<1>1. Init => Inv BY InitHolds
<1>2. Inv /\ [Next]_vars => Inv' BY NextKeeps
<1> QED BY <1>1, <1>2, PTL DEF Spec

\* The variables have their types: reference counts, command buffers and the queues of
\* handles are what class Context declares, and the memory counters do not run below zero
\* or above one texture for each handle.
THEOREM TypeCorrect == AdoptShared = FALSE => (Spec => []TypeOK)
<1>1. Inv => TypeOK BY DEF Inv
<1> QED BY <1>1, InvHolds, PTL

LEMMA InvCounts == Inv => RefCountExact
<1> SUFFICES ASSUME Inv PROVE RefCountExact OBVIOUS
<1> DEFINE P == Positions(appFrameBuffers, attachments)
<1>1. TypeOK /\ ApiInv BY DEF Inv
<1>2. Refs.ref = textureRef /\ Refs.memory = memoryUsed /\ Refs.frame = submit BY <1>1, RefsType
<1>3. Counted(Refs, P, attachments, appTextures, textures) BY <1>1 DEF ApiInv, RefInv
<1>4. \A t : Held(P, attachments, t) = References(t) BY DEF Held, Positions, References
<1>5. /\ IsInjective(submit.freeFrameBuffer)
      /\ ToSet(submit.freeFrameBuffer) = frameBuffers \ appFrameBuffers
  BY <1>1 DEF ApiInv
<1> HIDE DEF P
<1> QED BY <1>2, <1>3, <1>4, <1>5 DEF Counted, RefCountExact

LEMMA InvSafe == Inv => RendererSafe
<1> SUFFICES ASSUME Inv PROVE RendererSafe OBVIOUS
<1>1. render \in Frames /\ RenderInv BY DEF Inv, TypeOK
<1>2. ASSUME stage = "pre", render.pre # <<>> PROVE Applicable(Head(render.pre))
  <2> DEFINE q == render.pre
  <2>1. q \in Seq(Cmds) /\ PreRuns(q, rTextures, rFrameBuffers) BY <1>1 DEF Frames, RenderInv
  <2> HIDE DEF q
  <2>2. PreFits(Head(q), rTextures, rFrameBuffers) BY <1>2, <2>1, PreRunsTail DEF q
  <2>3. Applicable(Head(q)) BY <2>2 DEF PreFits, Applicable
  <2> QED BY <2>3 DEF q
<1>3. ASSUME stage = "post", render.post # <<>> PROVE Applicable(Head(render.post))
  <2> DEFINE q == render.post
  <2>1. XDrawn = rTextures /\ YDrawn = rFrameBuffers
    BY <1>1, <1>3, NothingLeft DEF RenderInv, XDrawn, YDrawn
  <2>2. q \in Seq(Cmds) /\ PostRuns(q, rTextures, rFrameBuffers, LinksDrawn)
    BY <1>1, <2>1 DEF Frames, RenderInv
  <2> HIDE DEF q
  <2>3. PostFits(Head(q), rTextures, rFrameBuffers, LinksDrawn) BY <1>3, <2>2, PostRunsTail DEF q
  <2>4. Applicable(Head(q)) BY <2>3 DEF PostFits, Applicable
  <2> QED BY <2>4 DEF q
<1>4. DrawsFindTextures BY <1>1, NothingLeft DEF RenderInv, XDrawn, DrawsFindTextures
<1> QED BY <1>1, <1>2, <1>3, <1>4 DEF RendererSafe, CommandsApply, RenderInv

LEMMA InvAgrees == Inv => RendererAgrees
<1> SUFFICES ASSUME Inv, stage = "idle"
             PROVE  /\ rTextures = textures \ {c.th : c \in Created("CreateTexture")}
                    /\ rFrameBuffers = frameBuffers \ {c.fb : c \in Created("CreateFrameBuffer")}
  BY DEF RendererAgrees
<1> DEFINE q == submit.pre
<1>1. render.pre = <<>> /\ render.post = <<>> BY DEF Inv, RenderInv
<1>2. /\ rTextures = textures \ NewTextures /\ rFrameBuffers = frameBuffers \ NewFrameBuffers
  BY <1>1, NothingLeft DEF Inv, Agreement, XDrawn, YDrawn
<1>3. q \in Seq(Cmds) BY DEF Inv, TypeOK, Frames
<1>4. DOMAIN q = 1 .. Len(q) BY <1>3, LenProperties
<1> HIDE DEF q
<1>5. NewTextures = {c.th : c \in Created("CreateTexture")}
  <2>1. Created("CreateTexture") = {q[i] : i \in {j \in 1 .. Len(q) : q[j].op = "CreateTexture"}}
    BY <1>4 DEF Created, ToSet, q
  <2>2. NewTextures = {q[i].th : i \in {j \in 1 .. Len(q) : q[j].op = "CreateTexture"}}
    BY DEF NewTextures, All, Named, Object, q
  <2> QED BY <2>1, <2>2
<1>6. NewFrameBuffers = {c.fb : c \in Created("CreateFrameBuffer")}
  <2>1. Created("CreateFrameBuffer")
          = {q[i] : i \in {j \in 1 .. Len(q) : q[j].op = "CreateFrameBuffer"}}
    BY <1>4 DEF Created, ToSet, q
  <2>2. NewFrameBuffers = {q[i].fb : i \in {j \in 1 .. Len(q) : q[j].op = "CreateFrameBuffer"}}
    BY DEF NewFrameBuffers, All, Named, Object, q
  <2> QED BY <2>1, <2>2
<1> QED BY <1>2, <1>5, <1>6

\* textureIncRef, textureDecRef and textureTakeOwnership keep m_refCount equal to the number of
\* those who still refer to a texture, whatever the order of the calls, and each texture and
\* frame buffer is queued for its release once.
THEOREM CountsExact == AdoptShared = FALSE => (Spec => []RefCountExact)
<1> QED BY InvHolds, InvCounts, PTL

\* rendererExecCommands never meets a texture or a frame buffer that is not there, or one that
\* still is there under a handle to be created; draws and attachments find their textures.
THEOREM RendererFinds == AdoptShared = FALSE => (Spec => []RendererSafe)
<1> QED BY InvHolds, InvSafe, PTL

\* When the renderer is done with m_render it has the textures and frame buffers of the API
\* thread, but for those that m_submit creates.
THEOREM RendererCatchesUp == AdoptShared = FALSE => (Spec => []RendererAgrees)
<1> QED BY InvHolds, InvAgrees, PTL
=============================================================================
