---------------------------- MODULE VertexBuffers ----------------------------
(***************************************************************************)
(* Vertex buffers and the vertex layouts they share (src/bgfx/src/bgfx_p.h  *)
(* and bgfx.cpp, class Context and VertexLayoutRef).  A layout is found by  *)
(* its hash and counted: by each buffer, each createVertexLayout, and once  *)
(* for all transient buffers of that layout.  The count of a buffer is      *)
(* dropped when the frame that destroys it is handed over, and the handle   *)
(* of the layout is released one frame after that.  Transient vertices,     *)
(* indices and instance data are parts of two buffers that are filled anew  *)
(* in each frame.                                                           *)
(*                                                                         *)
(* Dynamic vertex buffers here are those for compute shaders, which have a  *)
(* vertex buffer to themselves; IndexBuffers has the ones that share.       *)
(***************************************************************************)
EXTENDS TransientBuffers, SequencesExt, FiniteSetsExt

CONSTANTS
    Buffers,      \* handles of m_vertexBufferHandle
    Transient,    \* the vertex buffer created by init for transient vertices
    Dynamics,     \* handles of m_dynamicVertexBufferHandle
    Layouts,      \* handles of m_layoutHandle
    Hashes,       \* the vertex layouts the application uses
    Stride,       \* VertexLayout::m_stride of each
    VbSize,       \* g_caps.limits.transientVbSize
    IbSize,       \* g_caps.limits.transientIbSize
    Nums,         \* how many transient elements it asks for
    NoLayout,     \* kInvalidHandle
    NewInVain,    \* may it create a dynamic buffer of a layout that is not in
                  \* use when no handle for the buffer is left
    MaxHeld,      \* bound: how often the application holds one layout
    MaxCalls      \* bound: calls the application makes in one frame

ASSUME TransientAssumption == Transient \in Buffers
ASSUME NoLayoutAssumption == NoLayout \notin Layouts
ASSUME HandlesAssumption == IsFiniteSet(Buffers) /\ IsFiniteSet(Dynamics) /\ IsFiniteSet(Layouts)
ASSUME StrideAssumption == Stride \in [Hashes -> Nat \ {0}]
ASSUME SizesAssumption == VbSize \in 0 .. Word - 1 /\ IbSize \in 0 .. Word - 1 /\ Nums \subseteq Nat \ {0}
ASSUME BoundsAssumption == MaxCalls \in Nat /\ MaxHeld \in Nat /\ NewInVain \in BOOLEAN

VARIABLES
    bufferRef,      \* m_vertexBufferRef, of the handles in use
    dvb,            \* m_dynamicVertexBuffers and m_dynamicVertexBufferRef, likewise
    freeDynamic,    \* m_freeDynamicVertexBufferHandle
    layouts,        \* handles in use in m_layoutHandle
    refCount,       \* VertexLayoutRef::m_refCount
    layoutMap,      \* m_vertexLayoutMap
    appBuffers,     \* static buffers the application still has to destroy
    appLayouts,     \* how many times it still has to destroy a layout
    transient,      \* layouts of transient buffers, which are never released
    submit,         \* what m_submit holds, see EmptyFrame
    render,         \* m_render
    rendering,      \* whether the render thread has m_render
    rBuffers,       \* vertex buffers of the renderer and the layouts they name
    rLayouts,       \* vertex layouts of the renderer
    calls           \* calls made since the last frame

bufferVars == <<bufferRef, dvb, freeDynamic>>
layoutVars == <<layouts, refCount, layoutMap>>
appVars    == <<appBuffers, appLayouts, transient>>
rendVars   == <<render, rendering, rBuffers, rLayouts>>
vars == <<bufferVars, layoutVars, appVars, submit, rendVars, calls>>

buffers  == DOMAIN bufferRef
dynamics == DOMAIN dvb

Cmds == [op : {"CreateLayout"}, layout : Layouts, hash : Hashes]
        \union [op : {"DestroyLayout"}, layout : Layouts]
        \union [op : {"CreateBuffer"}, buffer : Buffers, layout : Layouts \union {NoLayout}]
        \union [op : {"DestroyBuffer"}, buffer : Buffers]

\* The layout of a draw is NoLayout if it is to be that of the buffer; hash is what
\* the application means it to be.
Draws == [buffer : Buffers, layout : Layouts \union {NoLayout}, hash : Hashes]

\* vertices and indices are the parts of the transient buffers handed out so far.
EmptyFrame == [pre |-> <<>>, post |-> <<>>, draws |-> {},
               vboffset |-> 0, vertices |-> {}, iboffset |-> 0, indices |-> {},
               freeVertexBuffer |-> <<>>, freeVertexLayout |-> <<>>]

Parts == [first : Nat, end : Nat]

Frames == [pre : Seq(Cmds), post : Seq(Cmds), draws : SUBSET Draws,
           vboffset : 0 .. VbSize, vertices : SUBSET Parts,
           iboffset : 0 .. IbSize, indices : SUBSET Parts,
           freeVertexBuffer : Seq(Buffers), freeVertexLayout : Seq(Layouts)]

TypeOK ==
    /\ buffers \subseteq Buffers /\ bufferRef \in [buffers -> Layouts \union {NoLayout}]
    /\ dynamics \subseteq Dynamics /\ dvb \in [dynamics -> [buffer : Buffers, layout : Layouts]]
    /\ freeDynamic \in Seq(dynamics)
    /\ layouts \subseteq Layouts /\ refCount \in [Layouts -> Nat]
    /\ DOMAIN layoutMap \subseteq Hashes /\ layoutMap \in [DOMAIN layoutMap -> layouts]
    /\ IsInjective(layoutMap)
    /\ appBuffers \subseteq buffers /\ appLayouts \in [Layouts -> Nat]
    /\ transient \subseteq layouts
    /\ submit \in Frames /\ render \in Frames
    /\ rendering \in BOOLEAN
    /\ DOMAIN rBuffers \subseteq Buffers /\ rBuffers \in [DOMAIN rBuffers -> Layouts \union {NoLayout}]
    /\ DOMAIN rLayouts \subseteq Layouts /\ rLayouts \in [DOMAIN rLayouts -> Hashes]
    /\ calls \in 0 .. MaxCalls

\* After Context::init, which has created the transient buffer.
Init ==
    /\ bufferRef = [b \in {Transient} |-> NoLayout]
    /\ dvb = << >> /\ freeDynamic = <<>>
    /\ layouts = {} /\ refCount = [l \in Layouts |-> 0] /\ layoutMap = << >>
    /\ appBuffers = {} /\ appLayouts = [l \in Layouts |-> 0] /\ transient = {}
    /\ submit = EmptyFrame /\ render = EmptyFrame
    /\ rendering = FALSE
    /\ rBuffers = [b \in {Transient} |-> NoLayout] /\ rLayouts = << >>
    /\ calls = 0

-----------------------------------------------------------------------------
(* Steps of a call, on a record of what they change.                        *)

\* The function f with x mapped to y.
With(f, x, y) == [z \in DOMAIN f \union {x} |-> IF z = x THEN y ELSE f[z]]

State == [buffers |-> bufferRef, layouts |-> layouts, ref |-> refCount, map |-> layoutMap,
          frame |-> submit, next |-> render.freeVertexLayout]

Becomes(s) ==
    /\ bufferRef' = s.buffers
    /\ layouts' = s.layouts /\ refCount' = s.ref /\ layoutMap' = s.map
    /\ submit' = s.frame

Record(s, cmd) == [s EXCEPT !.frame.pre = Append(@, cmd)]

Known(h) == h \in DOMAIN layoutMap

\* What findOrCreateVertexLayout may return, and the state it leaves; nothing if it
\* returns an invalid handle.
FindOrCreate(s, h) ==
    IF h \in DOMAIN s.map
       THEN {[layout |-> s.map[h], s |-> s]}
       ELSE {[layout |-> l,
              s |-> [Record(s, [op |-> "CreateLayout", layout |-> l, hash |-> h])
                        EXCEPT !.layouts = @ \union {l}]] : l \in Layouts \ s.layouts}

\* Bug: a layout found again is not counted again.
AddNew(s, l, h) ==
    IF h \in DOMAIN s.map THEN s
       ELSE [s EXCEPT !.ref[l] = @ + 1, !.map = With(@, h, l)]

\* VertexLayoutRef::add; the map keeps what it has.
Add(s, l, h) == [s EXCEPT !.ref[l] = @ + 1, !.map = IF h \in DOMAIN @ THEN @ ELSE With(@, h, l)]

\* Bug: the layout stays in the map.
ReleaseKeepsMap(s, l) == [s EXCEPT !.ref[l] = @ - 1]

\* VertexLayoutRef::release.
Release(s, l) ==
    LET left == {h \in DOMAIN s.map : s.map[h] # l}
    IN  IF s.ref[l] = 1 THEN [s EXCEPT !.ref[l] = 0, !.map = Restrict(@, left)]
                        ELSE [s EXCEPT !.ref[l] = @ - 1]

\* For a buffer that is gone: m_render->free, so that the handle of the layout goes one
\* frame after the command that destroys it.
ReleaseOfBuffer(s, l) ==
    LET r == Release(s, l)
    IN  IF l = NoLayout THEN s
        ELSE IF r.ref[l] > 0 THEN r
        ELSE [r EXCEPT !.frame.post = Append(@, [op |-> "DestroyLayout", layout |-> l]),
                       !.next = Append(@, l)]

NewBuffer(s, b, l) ==
    [Record(s, [op |-> "CreateBuffer", buffer |-> b, layout |-> l])
        EXCEPT !.buffers = With(@, b, l)]

\* destroyVertexBuffer, of the application or of destroyDynamicVertexBufferInternal.
Destroy(s, b) ==
    [s EXCEPT !.frame.freeVertexBuffer = Append(@, b),
              !.frame.post = Append(@, [op |-> "DestroyBuffer", buffer |-> b])]

-----------------------------------------------------------------------------
(* The application's calls.                                                 *)

MayCall == calls < MaxCalls /\ calls' = calls + 1

CreateVertexLayout(h) ==
    /\ MayCall
    /\ \E f \in FindOrCreate(State, h) :
          /\ appLayouts[f.layout] < MaxHeld
          /\ Becomes(Add(f.s, f.layout, h))
          /\ appLayouts' = [appLayouts EXCEPT ![f.layout] = @ + 1]
    /\ UNCHANGED <<dvb, freeDynamic, appBuffers, transient, rendVars>>

\* Bug: the layout is queued whoever else uses it.
DestroyVertexLayoutAlways(l) ==
    LET r == Release(State, l)
    IN  /\ MayCall
        /\ appLayouts[l] > 0
        /\ Becomes([r EXCEPT !.frame.freeVertexLayout = Append(@, l)])
        /\ appLayouts' = [appLayouts EXCEPT ![l] = @ - 1]
        /\ UNCHANGED <<dvb, freeDynamic, appBuffers, transient, rendVars>>

\* No DestroyVertexLayout is recorded: the renderer keeps the layout.
DestroyVertexLayout(l) ==
    LET r == Release(State, l)
    IN  /\ MayCall
        /\ appLayouts[l] > 0
        /\ Becomes(IF r.ref[l] > 0 THEN r ELSE [r EXCEPT !.frame.freeVertexLayout = Append(@, l)])
        /\ appLayouts' = [appLayouts EXCEPT ![l] = @ - 1]
        /\ UNCHANGED <<dvb, freeDynamic, appBuffers, transient, rendVars>>

\* If there is no layout the handle of the buffer is free again.
CreateVertexBuffer(b, h) ==
    /\ MayCall
    /\ b \notin buffers
    /\ \E f \in FindOrCreate(State, h) :
          Becomes(NewBuffer(Add(f.s, f.layout, h), b, f.layout))
    /\ appBuffers' = appBuffers \union {b}
    /\ UNCHANGED <<dvb, freeDynamic, appLayouts, transient, rendVars>>

DestroyVertexBuffer(b) ==
    /\ MayCall
    /\ b \in appBuffers
    /\ Becomes(Destroy(State, b))
    /\ appBuffers' = appBuffers \ {b}
    /\ UNCHANGED <<dvb, freeDynamic, appLayouts, transient, rendVars>>

\* The vertex buffer behind it counts no layout: m_vertexBufferRef stays invalid.
CreateDynamicVertexBuffer(d, h) ==
    /\ MayCall
    /\ d \notin dynamics
    /\ \E f \in FindOrCreate(State, h), b \in Buffers \ buffers :
          /\ Becomes(Add(NewBuffer(f.s, b, NoLayout), f.layout, h))
          /\ dvb' = With(dvb, d, [buffer |-> b, layout |-> f.layout])
    /\ UNCHANGED <<freeDynamic, appVars, rendVars>>

\* No handle is left for the buffer: the layout has been found or created before.
CreateDynamicVertexBufferFails(h) ==
    /\ MayCall
    /\ dynamics = Dynamics \/ buffers = Buffers
    /\ Known(h) \/ NewInVain
    /\ \E f \in FindOrCreate(State, h) : Becomes(f.s)
    /\ UNCHANGED <<dvb, freeDynamic, appVars, rendVars>>

DestroyDynamicVertexBuffer(d) ==
    /\ MayCall
    /\ d \in dynamics \ ToSet(freeDynamic)
    /\ freeDynamic' = Append(freeDynamic, d)
    /\ UNCHANGED <<bufferRef, dvb, layoutVars, appVars, submit, rendVars>>

Drawing(s, b, l, h) ==
    [s EXCEPT !.frame.draws = @ \union {[buffer |-> b, layout |-> l, hash |-> h]}]

HashOf(l) == CHOOSE h \in DOMAIN layoutMap : layoutMap[h] = l

\* setVertexBuffer with a layout of the application or without, and submit.
DrawStatic(b, l) ==
    /\ MayCall
    /\ b \in appBuffers
    /\ l # NoLayout => appLayouts[l] > 0
    /\ Becomes(Drawing(State, b, l, HashOf(IF l = NoLayout THEN bufferRef[b] ELSE l)))
    /\ UNCHANGED <<dvb, freeDynamic, appVars, rendVars>>

DrawDynamic(d) ==
    /\ MayCall
    /\ d \in dynamics \ ToSet(freeDynamic)
    /\ Becomes(Drawing(State, dvb[d].buffer, dvb[d].layout, HashOf(dvb[d].layout)))
    /\ UNCHANGED <<dvb, freeDynamic, appVars, rendVars>>

\* The application asks for what there is room for, as the assertions of the three
\* functions that allocate demand.
RoomForVertices(num, stride) == Available(submit.vboffset, num, stride, VbSize) >= num
RoomForIndices(num, size) == Available(submit.iboffset, num, size, IbSize) >= num

TakeVertices(s, num, stride) ==
    LET t == Taken(s.frame.vboffset, num, stride, VbSize)
    IN  [s EXCEPT !.frame.vboffset = t.offset, !.frame.vertices = @ \union {t.range}]

\* Bug: the offset is that of the last part's start.
TakeIndicesAgain(s, num, size) ==
    LET t == Taken(s.frame.iboffset, num, size, IbSize)
    IN  [s EXCEPT !.frame.iboffset = t.range.first, !.frame.indices = @ \union {t.range}]

TakeIndices(s, num, size) ==
    LET t == Taken(s.frame.iboffset, num, size, IbSize)
    IN  [s EXCEPT !.frame.iboffset = t.offset, !.frame.indices = @ \union {t.range}]

\* allocTransientVertexBuffer, setVertexBuffer and submit.  A layout is counted by the
\* call that creates it, and by no other.
DrawTransient(h, num) ==
    /\ MayCall
    /\ RoomForVertices(num, Stride[h])
    /\ \E f \in FindOrCreate(State, h) :
          LET s == IF Known(h) THEN f.s ELSE Add(f.s, f.layout, h)
          IN  /\ Becomes(Drawing(TakeVertices(s, num, Stride[h]), Transient, f.layout, h))
              /\ transient' = IF Known(h) THEN transient ELSE transient \union {f.layout}
    /\ UNCHANGED <<dvb, freeDynamic, appBuffers, appLayouts, rendVars>>

\* allocInstanceDataBuffer, of elements of 16 bytes.
AllocInstanceData(num) ==
    /\ MayCall
    /\ RoomForVertices(num, 16)
    /\ Becomes(TakeVertices(State, num, 16))
    /\ UNCHANGED <<dvb, freeDynamic, appVars, rendVars>>

\* allocTransientIndexBuffer; allocTransientBuffers is one of each.
AllocTransientIndices(num, size) ==
    /\ MayCall
    /\ RoomForIndices(num, size)
    /\ Becomes(TakeIndices(State, num, size))
    /\ UNCHANGED <<dvb, freeDynamic, appVars, rendVars>>

-----------------------------------------------------------------------------
(* frame.                                                                   *)

DestroyDynamic(s, d) == Destroy(ReleaseOfBuffer(s, dvb[d].layout), dvb[d].buffer)

\* m_vertexBufferRef of a handle that is not in use is invalid.
LayoutOf(s, b) == IF b \in DOMAIN s.buffers THEN s.buffers[b] ELSE NoLayout

FreeBuffer(s, b) ==
    [ReleaseOfBuffer(s, LayoutOf(s, b)) EXCEPT !.buffers = Restrict(@, DOMAIN @ \ {b})]

\* freeDynamicBuffers, then freeAllHandles, buffers before layouts.
Freed ==
    LET dynamic == FoldLeft(DestroyDynamic, State, freeDynamic)
        static  == FoldLeft(FreeBuffer, dynamic, dynamic.frame.freeVertexBuffer)
    IN  [static EXCEPT !.layouts = @ \ ToSet(static.frame.freeVertexLayout)]

\* Bug: the queue of dynamic buffers is not emptied.
FrameKeepsQueue ==
    /\ ~rendering
    /\ bufferRef' = Freed.buffers
    /\ layouts' = Freed.layouts /\ refCount' = Freed.ref /\ layoutMap' = Freed.map
    /\ dvb' = Restrict(dvb, dynamics \ ToSet(freeDynamic))
    /\ submit' = [EmptyFrame EXCEPT !.freeVertexLayout = Freed.next]
    /\ render' = [submit EXCEPT !.post = Freed.frame.post, !.freeVertexBuffer = <<>>,
                                !.freeVertexLayout = <<>>]
    /\ rendering' = TRUE
    /\ calls' = 0
    /\ UNCHANGED <<freeDynamic, appVars, rBuffers, rLayouts>>

\* Once the renderer has let go of m_render.  The queue of m_render becomes that of the
\* frame to be recorded.
Frame ==
    /\ ~rendering
    /\ bufferRef' = Freed.buffers
    /\ layouts' = Freed.layouts /\ refCount' = Freed.ref /\ layoutMap' = Freed.map
    /\ dvb' = Restrict(dvb, dynamics \ ToSet(freeDynamic))
    /\ freeDynamic' = <<>>
    /\ submit' = [EmptyFrame EXCEPT !.freeVertexLayout = Freed.next]
    /\ render' = [submit EXCEPT !.post = Freed.frame.post, !.freeVertexBuffer = <<>>,
                                !.freeVertexLayout = <<>>]
    /\ rendering' = TRUE
    /\ calls' = 0
    /\ UNCHANGED <<appVars, rBuffers, rLayouts>>

-----------------------------------------------------------------------------
(* The renderer.                                                            *)

Renderer == [buffers |-> rBuffers, layouts |-> rLayouts, ok |-> TRUE]

\* One command of rendererExecCommands; ok tells whether it found what it needs.  A
\* layout is never replaced by another under a buffer that names it.
Execute(r, cmd) ==
    CASE cmd.op = "CreateLayout" ->
            [r EXCEPT !.layouts = With(@, cmd.layout, cmd.hash),
                      !.ok = @ /\ \A b \in DOMAIN r.buffers : r.buffers[b] # cmd.layout]
      [] cmd.op = "DestroyLayout" ->
            [r EXCEPT !.layouts = Restrict(@, DOMAIN @ \ {cmd.layout}),
                      !.ok = @ /\ cmd.layout \in DOMAIN r.layouts]
      [] cmd.op = "CreateBuffer" ->
            [r EXCEPT !.buffers = With(@, cmd.buffer, cmd.layout),
                      !.ok = @ /\ cmd.buffer \notin DOMAIN r.buffers
                               /\ cmd.layout \in DOMAIN r.layouts \union {NoLayout}]
      [] cmd.op = "DestroyBuffer" ->
            [r EXCEPT !.buffers = Restrict(@, DOMAIN @ \ {cmd.buffer}),
                      !.ok = @ /\ cmd.buffer \in DOMAIN r.buffers]

\* The renderer when it draws the frame, and when it is done with it.
WhenDrawing == FoldLeft(Execute, Renderer, render.pre)
WhenDone == FoldLeft(Execute, WhenDrawing, render.post)

\* Context::renderFrame: cmdPre, submit, cmdPost.  Nothing of it is shared with the API
\* thread before it has let go of m_render.
RenderFrame ==
    /\ rendering
    /\ rBuffers' = WhenDone.buffers /\ rLayouts' = WhenDone.layouts
    /\ render' = EmptyFrame
    /\ rendering' = FALSE
    /\ UNCHANGED <<bufferVars, layoutVars, appVars, submit, calls>>

Next ==
    \/ \E h \in Hashes :
          \/ CreateVertexLayout(h)
          \/ \E b \in Buffers : CreateVertexBuffer(b, h)
          \/ \E d \in Dynamics : CreateDynamicVertexBuffer(d, h)
          \/ CreateDynamicVertexBufferFails(h)
          \/ \E num \in Nums : DrawTransient(h, num)
    \/ \E num \in Nums : AllocInstanceData(num) \/ \E size \in {2, 4} : AllocTransientIndices(num, size)
    \/ \E l \in Layouts : DestroyVertexLayout(l)
    \/ \E b \in Buffers :
          \/ DestroyVertexBuffer(b)
          \/ \E l \in Layouts \union {NoLayout} : DrawStatic(b, l)
    \/ \E d \in Dynamics :
          \/ DestroyDynamicVertexBuffer(d)
          \/ DrawDynamic(d)
    \/ Frame
    \/ RenderFrame

Spec == Init /\ [][Next]_vars

-----------------------------------------------------------------------------
(* Properties.                                                              *)

\* Who counts a layout: buffers not yet released, the application, transient buffers.
References(l) ==
    Cardinality({b \in buffers : bufferRef[b] = l})
    + Cardinality({d \in dynamics : dvb[d].layout = l})
    + appLayouts[l] + (IF l \in transient THEN 1 ELSE 0)

Queued(l) ==
    Cardinality({i \in DOMAIN submit.freeVertexLayout : submit.freeVertexLayout[i] = l})
    + Cardinality({i \in DOMAIN render.freeVertexLayout : render.freeVertexLayout[i] = l})

\* Context::shutdown asserts that the number of layout handles is that of the map,
\* "VertexLayoutRef mismatch, num handles %d, handles in hash map %d.": so it is
\* whenever no handle waits for its release.
NoMismatch ==
    submit.freeVertexLayout \o render.freeVertexLayout = <<>> =>
        Cardinality(layouts) = Cardinality(DOMAIN layoutMap)

\* m_refCount is the number of references, the map has the layouts that have one, each
\* under one hash, and a handle in use without a reference is queued for its release,
\* once, in one of the two Frames; so the assertion of shutdown holds.
LayoutsExact ==
    /\ \A l \in layouts :
          /\ refCount[l] = References(l)
          /\ refCount[l] > 0 <=> l \in Range(layoutMap)
          /\ Queued(l) = IF refCount[l] = 0 THEN 1 ELSE 0
    /\ \A l \in Layouts \ layouts : refCount[l] = 0 /\ Queued(l) = 0
    /\ Range(layoutMap) \subseteq layouts
    /\ NoMismatch

CommandsApply == rendering => WhenDone.ok

DrawsFindLayouts ==
    rendering =>
        \A d \in render.draws :
            LET r == WhenDrawing
                l == IF d.layout = NoLayout THEN r.buffers[d.buffer] ELSE d.layout
            IN  /\ d.buffer \in DOMAIN r.buffers
                /\ l \in DOMAIN r.layouts /\ r.layouts[l] = d.hash

\* The renderer uploads the first bytes of a transient buffer, up to the offset reached.
Apart(parts, offset) ==
    \A r, t \in parts : r.end <= offset /\ (r = t \/ r.end <= t.first \/ t.end <= r.first)

TransientsApart ==
    rendering => Apart(render.vertices, render.vboffset) /\ Apart(render.indices, render.iboffset)

\* Every command of the renderer finds what it needs although handles are released
\* while the commands of the frame are still to be executed; a draw finds its
\* vertex buffer and the layout the application meant, whoever has destroyed the one
\* or the other in the same frame; and the transient data of a frame, of elements of
\* different sizes, lies side by side in what is uploaded.
RendererSafe == CommandsApply /\ DrawsFindLayouts /\ TransientsApart

\* bgfx.h on getAvailTransientVertexBuffer: "Returns number of requested or maximum
\* available vertices."
AvailableAtMostRequested ==
    \A h \in Hashes, num \in Nums : Available(submit.vboffset, num, Stride[h], VbSize) <= num
=============================================================================
