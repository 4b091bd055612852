----------------------------- MODULE IndexBuffers -----------------------------
(***************************************************************************)
(* Static and dynamic index buffers (src/bgfx/src/bgfx_p.h and bgfx.cpp,    *)
(* class Context).  Dynamic buffers are blocks of larger buffers, the       *)
(* pages, which NonLocalAllocator cuts up; a buffer that compute shaders    *)
(* read has an index buffer to itself.  An update may grow a buffer, which  *)
(* moves it; destroying one is put off until the frame is handed over.      *)
(*                                                                         *)
(* Offsets and sizes are bytes.  Of the renderer the model keeps the index   *)
(* buffers that exist.                                                      *)
(***************************************************************************)
EXTENDS NonLocalAllocator

CONSTANTS
    Buffers,      \* handles of m_indexBufferHandle
    Transients,   \* the index buffers created by init for transient indices
    Dynamics,     \* handles of m_dynamicIndexBufferHandle
    PageSize,     \* BGFX_CONFIG_DYNAMIC_INDEX_BUFFER_SIZE
    Sizes,        \* the sizes the application asks for
    Flags,        \* the flags it asks for, sets of AllFlags
    GrowDrawn,    \* may it grow a buffer that this frame already draws
    MaxCalls      \* bound: calls the application makes in one frame

\* BGFX_BUFFER_INDEX32, BGFX_BUFFER_COMPUTE_READ, BGFX_BUFFER_ALLOW_RESIZE
AllFlags == {"INDEX32", "COMPUTE_READ", "ALLOW_RESIZE"}

ASSUME BuffersAssumption == Buffers \subseteq Nat /\ Transients \subseteq Buffers
\* HandleAlloc hands out 0 first, and init asks first.  Removed counts on it.
ASSUME TransientsAssumption == 0 \in Transients
ASSUME SizesAssumption == Sizes \subseteq Nat \ {0} /\ PageSize \in Nat /\ PageSize >= MinSize
ASSUME FlagsAssumption == Flags \subseteq SUBSET AllFlags
ASSUME BoundsAssumption == MaxCalls \in Nat /\ GrowDrawn \in BOOLEAN

VARIABLES
    bufferSize,   \* m_indexBuffers[].m_size, of the handles in use
    allocator,    \* m_dynIndexBufferAllocator
    dib,          \* m_dynamicIndexBuffers, of the handles in use
    freeDynamic,  \* m_freeDynamicIndexBufferHandle
    written,      \* bytes the application has written to a dynamic buffer, at most
    appBuffers,   \* static buffers the application still has to destroy
    submit,       \* what m_submit holds, see EmptyFrame
    render,       \* m_render
    rendering,    \* whether the render thread has m_render
    rBuffers,     \* index buffers that exist in the renderer
    calls         \* calls made since the last frame

bufferVars  == <<bufferSize, allocator>>
dynamicVars == <<dib, freeDynamic, written>>
rendVars    == <<render, rendering, rBuffers>>
vars == <<bufferVars, dynamicVars, appBuffers, submit, rendVars, calls>>

buffers  == DOMAIN bufferSize   \* handles in use in m_indexBufferHandle
dynamics == DOMAIN dib          \* handles in use in m_dynamicIndexBufferHandle

Static == "static"

ASSUME OwnerAssumption == Static \notin Dynamics

\* A part of an index buffer and whose data it is.
Ranges == [buffer : Nat, first : Nat, end : Nat, owner : Dynamics \union {Static}]

Cmds == [op : {"Create", "Destroy"}, buffer : Nat] \union [op : {"Write"}, range : Ranges]

EmptyFrame == [pre |-> <<>>, post |-> <<>>, draws |-> {}, freeIndexBuffer |-> <<>>]

IsFrame(f) == /\ DOMAIN f = DOMAIN EmptyFrame
              /\ f.pre \in Seq(Cmds) /\ f.post \in Seq(Cmds)
              /\ f.draws \subseteq Ranges
              /\ f.freeIndexBuffer \in Seq(Buffers)

DynamicIndexBuffer == [buffer : Nat, offset : Nat, size : Nat, startIndex : Nat,
                       flags : SUBSET AllFlags]

TypeOK ==
    /\ buffers \subseteq Buffers /\ bufferSize \in [buffers -> Nat]
    /\ allocator.free \in Seq(Block) /\ allocator.used \subseteq Block
    /\ dynamics \subseteq Dynamics /\ dib \in [dynamics -> DynamicIndexBuffer]
    /\ written \in [dynamics -> Nat]
    /\ freeDynamic \in Seq(dynamics)
    /\ appBuffers \subseteq buffers
    /\ IsFrame(submit) /\ IsFrame(render)
    /\ rendering \in BOOLEAN
    /\ rBuffers \subseteq Buffers
    /\ calls \in 0 .. MaxCalls

\* After Context::init, which has created the transient buffers.
Init ==
    /\ bufferSize = [b \in Transients |-> 0]
    /\ allocator = NoBlocks
    /\ dib = << >> /\ written = << >>
    /\ freeDynamic = <<>>
    /\ appBuffers = {}
    /\ submit = EmptyFrame /\ render = EmptyFrame
    /\ rendering = FALSE
    /\ rBuffers = Transients
    /\ calls = 0

-----------------------------------------------------------------------------
(* Steps of a call, on a record of what they change.                        *)

State == [size |-> bufferSize, allocator |-> allocator, frame |-> submit]

IndexSize(flags) == IF "INDEX32" \in flags THEN 4 ELSE 2
AlignUp(n, k) == ((n + k - 1) \div k) * k
Max2(m, n) == IF m < n THEN n ELSE m

With(f, x, y) == [z \in DOMAIN f \union {x} |-> IF z = x THEN y ELSE f[z]]

NewBuffer(s, b, size) ==
    [s EXCEPT !.size = With(@, b, size),
              !.frame.pre = Append(@, [op |-> "Create", buffer |-> b])]

Take(s, size) ==
    LET a == Alloc(s.allocator, size)
    IN  [at |-> a.block, s |-> [s EXCEPT !.allocator = a.left]]

\* What allocDynamicIndexBuffer may return, and the state it leaves: a block of a
\* page, of a new one if need be.  Nothing if no handle is left for the page.
AllocDynamicIndexBuffer(s, size) ==
    LET pageSize == Max2(PageSize, size)
        page(b)  == [buffer |-> b, offset |-> 0, size |-> pageSize]
        added(b) == LET n == NewBuffer(s, b, pageSize)
                    IN  [n EXCEPT !.allocator = Add(@, page(b))]
    IN  IF Fits(s.allocator, size) # {}
           THEN {Take(s, size)}
           ELSE {Take(added(b), size) : b \in Buffers \ DOMAIN s.size}

AllocIndexBuffer(s, size) ==
    {[at |-> [buffer |-> b, offset |-> 0, size |-> size], s |-> NewBuffer(s, b, size)] :
        b \in Buffers \ DOMAIN s.size}

AllocFor(s, size, flags) ==
    IF "COMPUTE_READ" \in flags THEN AllocIndexBuffer(s, size)
                                ELSE AllocDynamicIndexBuffer(s, size)

\* The fields of a DynamicIndexBuffer; the data starts at the next whole index.
Placed(block, bytes, flags) ==
    [buffer |-> block.buffer, offset |-> block.offset, size |-> bytes, flags |-> flags,
     startIndex |-> AlignUp(block.offset, IndexSize(flags)) \div IndexSize(flags)]

\* Bug: the handle is released by the call, not by the next frame.
DestroyNow(s, b) ==
    [s EXCEPT !.size = Restrict(@, DOMAIN @ \ {b}),
              !.frame.post = Append(@, [op |-> "Destroy", buffer |-> b])]

\* destroyIndexBuffer, of the application or of destroyDynamicIndexBufferInternal.
Destroy(s, b) ==
    [s EXCEPT !.frame.freeIndexBuffer = Append(@, b),
              !.frame.post = Append(@, [op |-> "Destroy", buffer |-> b])]

DestroyPage(s, block) == Destroy(s, block.buffer)

\* Bug: pages are kept for good.
DestroyDynamicKeepPages(s, d) ==
    IF "COMPUTE_READ" \in dib[d].flags
       THEN Destroy(s, dib[d].buffer)
       ELSE [s EXCEPT !.allocator = Compact(Free(@, dib[d].buffer, dib[d].offset))]

\* Bug: pages are destroyed block by block, without compact.
DestroyDynamicNoCompact(s, d) ==
    LET freed == Free(s.allocator, dib[d].buffer, dib[d].offset)
    IN  IF "COMPUTE_READ" \in dib[d].flags
           THEN Destroy(s, dib[d].buffer)
           ELSE IF freed.used # {}
                   THEN [s EXCEPT !.allocator = freed]
                   ELSE FoldLeft(DestroyPage, [s EXCEPT !.allocator = RemovedAll(freed)],
                                 Removed(freed))

\* destroyDynamicIndexBufferInternal: with the last block in use every page goes.
DestroyDynamic(s, d) ==
    LET freed == Compact(Free(s.allocator, dib[d].buffer, dib[d].offset))
    IN  IF "COMPUTE_READ" \in dib[d].flags
           THEN Destroy(s, dib[d].buffer)
           ELSE IF freed.used # {}
                   THEN [s EXCEPT !.allocator = freed]
                   ELSE FoldLeft(DestroyPage, [s EXCEPT !.allocator = RemovedAll(freed)],
                                 Removed(freed))

-----------------------------------------------------------------------------
(* The application's calls.                                                 *)

MayCall == calls < MaxCalls /\ calls' = calls + 1

appDynamics == dynamics \ ToSet(freeDynamic)

Becomes(s) ==
    /\ bufferSize' = s.size
    /\ allocator' = s.allocator
    /\ submit' = s.frame

CreateIndexBuffer(b, size) ==
    LET data == [buffer |-> b, first |-> 0, end |-> size, owner |-> Static]
        s    == NewBuffer(State, b, size)
    IN  /\ MayCall
        /\ b \notin buffers
        /\ Becomes([s EXCEPT !.frame.pre = Append(@, [op |-> "Write", range |-> data])])
        /\ appBuffers' = appBuffers \union {b}
        /\ UNCHANGED <<dynamicVars, rendVars>>

DestroyIndexBuffer(b) ==
    /\ MayCall
    /\ b \in appBuffers
    /\ Becomes(Destroy(State, b))
    /\ appBuffers' = appBuffers \ {b}
    /\ UNCHANGED <<dynamicVars, rendVars>>

\* Without a handle, for itself or for a page, there is no buffer and no change.
CreateDynamicIndexBuffer(d, bytes, flags) ==
    /\ MayCall
    /\ d \notin dynamics
    /\ bytes % IndexSize(flags) = 0
    /\ \E r \in AllocFor(State, AlignUp(bytes, 16), flags) :
          /\ Becomes(r.s)
          /\ dib' = With(dib, d, Placed(r.at, bytes, flags))
    /\ written' = With(written, d, 0)
    /\ UNCHANGED <<freeDynamic, appBuffers, rendVars>>

Drawn(d) == \E r \in submit.draws : r.owner = d

First(b) == b.startIndex * IndexSize(b.flags)

\* The bytes update passes on, from the start of the buffer.
UpdateEnd(b, bytes, sizes) ==
    LET wanted == First(b) + (IF b.size < bytes THEN b.size ELSE bytes)
    IN  IF sizes[b.buffer] < wanted THEN sizes[b.buffer] ELSE wanted

Updated(s, d, b, bytes) ==
    [s EXCEPT !.frame.pre = Append(@,
        [op |-> "Write", range |-> [buffer |-> b.buffer, first |-> First(b),
                                    end |-> UpdateEnd(b, bytes, s.size), owner |-> d]])]

UpdateInPlace(d, bytes) ==
    /\ MayCall
    /\ d \in appDynamics
    /\ bytes <= dib[d].size
    /\ Becomes(Updated(State, d, dib[d], bytes))
    /\ written' = [written EXCEPT ![d] = Max2(@, bytes)]
    /\ UNCHANGED <<dib, freeDynamic, appBuffers, rendVars>>

\* Bug: the old block is not given back.
UpdateAndGrowKeeps(d, bytes) ==
    /\ MayCall
    /\ d \in appDynamics
    /\ bytes > dib[d].size /\ "ALLOW_RESIZE" \in dib[d].flags
    /\ bytes % IndexSize(dib[d].flags) = 0
    /\ Drawn(d) => GrowDrawn
    /\ \E r \in AllocFor(State, bytes, dib[d].flags) :
          LET b == Placed(r.at, bytes, dib[d].flags)
          IN  /\ Becomes(Updated(r.s, d, b, bytes))
              /\ dib' = [dib EXCEPT ![d] = b]
    /\ written' = [written EXCEPT ![d] = bytes]
    /\ UNCHANGED <<freeDynamic, appBuffers, rendVars>>

\* The old block is free before the new one is looked for.  Where no block can be
\* had the code goes on with kInvalidBlock, outside of m_indexBuffers: not modelled.
UpdateAndGrow(d, bytes) ==
    LET freed == Compact(Free(allocator, dib[d].buffer, dib[d].offset))
    IN  /\ MayCall
        /\ d \in appDynamics
        /\ bytes > dib[d].size /\ "ALLOW_RESIZE" \in dib[d].flags
        /\ bytes % IndexSize(dib[d].flags) = 0
        /\ Drawn(d) => GrowDrawn
        /\ \E r \in AllocFor([State EXCEPT !.allocator = freed], bytes, dib[d].flags) :
              LET b == Placed(r.at, bytes, dib[d].flags)
              IN  /\ Becomes(Updated(r.s, d, b, bytes))
                  /\ dib' = [dib EXCEPT ![d] = b]
        /\ written' = [written EXCEPT ![d] = bytes]
        /\ UNCHANGED <<freeDynamic, appBuffers, rendVars>>

\* Bug: the block goes at once.
DestroyDynamicIndexBufferNow(d) ==
    /\ MayCall
    /\ d \in appDynamics
    /\ Becomes(DestroyDynamic(State, d))
    /\ dib' = Restrict(dib, dynamics \ {d})
    /\ written' = Restrict(written, dynamics \ {d})
    /\ UNCHANGED <<freeDynamic, appBuffers, rendVars>>

DestroyDynamicIndexBuffer(d) ==
    /\ MayCall
    /\ d \in appDynamics
    /\ freeDynamic' = Append(freeDynamic, d)
    /\ UNCHANGED <<bufferVars, dib, written, appBuffers, submit, rendVars>>

\* setIndexBuffer and submit, with the indices the application has written.
DrawDynamic(d) ==
    /\ MayCall
    /\ d \in appDynamics /\ written[d] > 0
    /\ submit' = [submit EXCEPT !.draws = @ \union
                    {[buffer |-> dib[d].buffer, first |-> First(dib[d]),
                      end |-> First(dib[d]) + written[d], owner |-> d]}]
    /\ UNCHANGED <<bufferVars, dynamicVars, appBuffers, rendVars>>

DrawStatic(b) ==
    /\ MayCall
    /\ b \in appBuffers
    /\ submit' = [submit EXCEPT !.draws = @ \union
                    {[buffer |-> b, first |-> 0, end |-> bufferSize[b], owner |-> Static]}]
    /\ UNCHANGED <<bufferVars, dynamicVars, appBuffers, rendVars>>

\* Bug: the queue of dynamic buffers is not emptied.
FrameKeepsQueue ==
    LET s == FoldLeft(DestroyDynamic, State, freeDynamic)
        kept == dynamics \ ToSet(freeDynamic)
    IN  /\ ~rendering
        /\ bufferSize' = Restrict(s.size, buffers \ ToSet(s.frame.freeIndexBuffer))
        /\ allocator' = s.allocator
        /\ dib' = Restrict(dib, kept) /\ written' = Restrict(written, kept)
        /\ render' = [s.frame EXCEPT !.freeIndexBuffer = <<>>]
        /\ submit' = EmptyFrame
        /\ rendering' = TRUE
        /\ calls' = 0
        /\ UNCHANGED <<freeDynamic, appBuffers, rBuffers>>

\* frame, once the renderer has let go of m_render: freeDynamicBuffers, then
\* freeAllHandles, then the two Frames change roles.
Frame ==
    LET s == FoldLeft(DestroyDynamic, State, freeDynamic)
        kept == dynamics \ ToSet(freeDynamic)
    IN  /\ ~rendering
        /\ bufferSize' = Restrict(s.size, buffers \ ToSet(s.frame.freeIndexBuffer))
        /\ allocator' = s.allocator
        /\ dib' = Restrict(dib, kept) /\ written' = Restrict(written, kept)
        /\ freeDynamic' = <<>>
        /\ render' = [s.frame EXCEPT !.freeIndexBuffer = <<>>]
        /\ submit' = EmptyFrame
        /\ rendering' = TRUE
        /\ calls' = 0
        /\ UNCHANGED <<appBuffers, rBuffers>>

-----------------------------------------------------------------------------
(* The renderer.                                                            *)

\* One command of rendererExecCommands; ok tells whether it found what it needs.
Execute(r, cmd) ==
    CASE cmd.op = "Create" ->
            [buffers |-> r.buffers \union {cmd.buffer}, ok |-> r.ok /\ cmd.buffer \notin r.buffers]
      [] cmd.op = "Write" ->
            [r EXCEPT !.ok = @ /\ cmd.range.buffer \in r.buffers]
      [] cmd.op = "Destroy" ->
            [buffers |-> r.buffers \ {cmd.buffer}, ok |-> r.ok /\ cmd.buffer \in r.buffers]

\* The renderer when it draws the frame, and when it is done with it.
WhenDrawing == FoldLeft(Execute, [buffers |-> rBuffers, ok |-> TRUE], render.pre)
WhenDone == FoldLeft(Execute, WhenDrawing, render.post)

\* Context::renderFrame: cmdPre, submit, cmdPost.  Nothing of it is shared with the API
\* thread before it has let go of m_render.
RenderFrame ==
    /\ rendering
    /\ rBuffers' = WhenDone.buffers
    /\ render' = EmptyFrame
    /\ rendering' = FALSE
    /\ UNCHANGED <<bufferVars, dynamicVars, appBuffers, submit, calls>>

Next ==
    \/ \E b \in Buffers :
          \/ \E size \in Sizes : CreateIndexBuffer(b, size)
          \/ DestroyIndexBuffer(b)
          \/ DrawStatic(b)
    \/ \E d \in Dynamics :
          \/ \E bytes \in Sizes :
                \/ \E flags \in Flags : CreateDynamicIndexBuffer(d, bytes, flags)
                \/ UpdateInPlace(d, bytes)
                \/ UpdateAndGrow(d, bytes)
          \/ DestroyDynamicIndexBuffer(d)
          \/ DrawDynamic(d)
    \/ Frame
    \/ RenderFrame

Spec == Init /\ [][Next]_vars

-----------------------------------------------------------------------------
(* Properties.                                                              *)

Paged(d) == "COMPUTE_READ" \notin dib[d].flags
Blocks == allocator.used \union ToSet(allocator.free)
Pages == {b.buffer : b \in Blocks}

Disjoint(b, c) == b.buffer # c.buffer \/ End(b) <= c.offset \/ End(c) <= b.offset

\* The blocks of a page fill it without gap or overlap whatever was cut, grown, freed
\* and merged, and the blocks in use are those of the dynamic buffers, whose data, which
\* starts at a whole index, stays within its block.
BlocksExact ==
    /\ \A b, c \in Blocks : b = c \/ Disjoint(b, c)
    /\ \A b \in Blocks : End(b) <= bufferSize[b.buffer]
    /\ \A p \in Pages : \A x \in 0 .. bufferSize[p] - 1 :
          \E b \in Blocks : b.buffer = p /\ b.offset <= x /\ x < End(b)
    /\ IsInjective(allocator.free)
    /\ allocator.used \intersect ToSet(allocator.free) = {}
    /\ \A d \in dynamics : Paged(d) =>
          \E b \in At(allocator, dib[d].buffer, dib[d].offset) :
              First(dib[d]) + dib[d].size <= End(b)
    /\ \A b \in allocator.used : \E d \in dynamics :
          /\ Paged(d) /\ b \in At(allocator, dib[d].buffer, dib[d].offset)
          /\ \A e \in dynamics \ {d} :
                Paged(e) => b \notin At(allocator, dib[e].buffer, dib[e].offset)

\* Every index buffer in use has one owner: init, the application, a dynamic buffer of
\* its own, the allocator, or the queue of handles to release.  None is lost, none is
\* released twice, and without dynamic buffers there are no pages either.
OneOwner ==
    LET own == {d \in dynamics : ~Paged(d)}
        owners(b) == (IF b \in Transients THEN 1 ELSE 0)
                     + (IF b \in appBuffers THEN 1 ELSE 0)
                     + (IF b \in Pages THEN 1 ELSE 0)
                     + Cardinality({d \in own : dib[d].buffer = b})
                     + Cardinality({i \in DOMAIN submit.freeIndexBuffer :
                                        submit.freeIndexBuffer[i] = b})
    IN  /\ \A b \in Buffers : owners(b) = IF b \in buffers THEN 1 ELSE 0
        /\ {d \in dynamics : Paged(d)} = {} => Pages = {}

Covers(r, b, x) == r.buffer = b /\ r.first <= x /\ x < r.end

\* Of the writes of the frame that reach a byte which is drawn the last is the owner's.
DrawsReadOwnData ==
    \A d \in render.draws :
        /\ d.buffer \in WhenDrawing.buffers
        /\ \A i \in DOMAIN render.pre : \A x \in d.first .. d.end - 1 :
              render.pre[i].op = "Write" /\ Covers(render.pre[i].range, d.buffer, x) =>
                  \E j \in i .. Len(render.pre) :
                      /\ render.pre[j].op = "Write"
                      /\ Covers(render.pre[j].range, d.buffer, x)
                      /\ render.pre[j].range.owner = d.owner

CommandsApply == WhenDone.ok

\* A draw reads no index that another buffer wrote last: all writes of a frame come
\* before its draws, so no other buffer may be given a block that a draw of this frame
\* reads, not even after the buffer drawn has been destroyed; a block may change hands
\* before it is drawn.  And a new index buffer never meets an old one of its handle, and
\* none is written to before it is created or after it is destroyed.
RendererSafe == rendering => DrawsReadOwnData /\ CommandsApply

\* The assertion of update, "Truncating dynamic index buffer update": all the bytes of
\* an update fit into the index buffer.
NotTruncated ==
    \A d \in dynamics : UpdateEnd(dib[d], dib[d].size, bufferSize) = First(dib[d]) + dib[d].size
=============================================================================
