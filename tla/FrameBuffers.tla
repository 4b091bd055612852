----------------------------- MODULE FrameBuffers -----------------------------
(***************************************************************************)
(* Textures and the frame buffers that share them                          *)
(* (src/bgfx/src/bgfx_p.h, class Context): reference counts, the commands  *)
(* they put into the Frame that is being recorded, the handles that are    *)
(* released when that Frame is handed over, and the renderer that executes *)
(* the commands of the Frame before.                                       *)
(*                                                                         *)
(* m_textureHandle and m_frameBufferHandle are the sets HandleSet          *)
(* describes.  Every function holds m_resourceApiLock, so a call is one    *)
(* step; the renderer runs between any two of them.                        *)
(***************************************************************************)
EXTENDS Integers, SequencesExt

CONSTANTS
    Textures,        \* handles of m_textureHandle
    FrameBuffers,    \* handles of m_frameBufferHandle
    MaxAttachments,  \* BGFX_CONFIG_MAX_FRAME_BUFFER_ATTACHMENTS
    Kinds,           \* the kinds of texture the application creates
    AdoptShared,     \* may it give away a texture that it has destroyed and
                     \* that lives on as an attachment of a frame buffer
    MaxCalls         \* bound: calls the application makes in one frame

\* Created with its contents (immutable); sized by the caller; sized in
\* proportion to the back buffer.
AllKinds == {"image", "blank", "target"}

ASSUME HandlesAssumption == IsFiniteSet(Textures) /\ IsFiniteSet(FrameBuffers)
ASSUME KindsAssumption == Kinds \subseteq AllKinds
ASSUME BoundsAssumption == MaxAttachments \in Nat /\ MaxCalls \in Nat
ASSUME AdoptSharedAssumption == AdoptShared \in BOOLEAN

VARIABLES
    textures,         \* handles in use in m_textureHandle
    frameBuffers,     \* handles in use in m_frameBufferHandle
    textureRef,       \* m_textureRef
    attachments,      \* m_frameBufferRef[].un.m_th, <<>> for a window
    memoryUsed,       \* m_rtMemoryUsed + m_textureMemoryUsed, in textures
    appTextures,      \* textures the application still has to destroy
    appFrameBuffers,  \* frame buffers the application still has to destroy
    submit,           \* what m_submit holds, see Frames
    render,           \* what is left to execute of m_render
    stage,            \* what the render thread does with m_render
    rTextures,        \* textures that exist in the renderer
    rFrameBuffers,    \* frame buffers that exist in the renderer
    rAttachments,     \* the textures a frame buffer of the renderer refers to
    calls             \* calls made since the last frame

handleVars == <<textures, frameBuffers>>
refVars    == <<textureRef, attachments, memoryUsed>>
appVars    == <<appTextures, appFrameBuffers>>
rendVars   == <<render, stage, rTextures, rFrameBuffers, rAttachments>>
vars == <<handleVars, refVars, appVars, submit, rendVars, calls>>

-----------------------------------------------------------------------------
(* Frames: two command buffers, the textures the draw calls are bound to    *)
(* and the queues of handles to release.                                    *)

Attachments == BoundedSeq(Textures, MaxAttachments)

TextureCmds == [op : {"CreateTexture", "UpdateTexture", "ResizeTexture",
                      "DestroyTexture", "ReadTexture"}, th : Textures]
FrameBufferCmds == [op : {"CreateFrameBuffer"}, fb : FrameBuffers, with : Attachments]
                   \union [op : {"DestroyFrameBuffer"}, fb : FrameBuffers]
Cmds == TextureCmds \union FrameBufferCmds

EmptyFrame == [pre |-> <<>>, post |-> <<>>, draws |-> {},
               freeTexture |-> <<>>, freeFrameBuffer |-> <<>>]

Frames == [pre : Seq(Cmds), post : Seq(Cmds), draws : SUBSET Textures,
           freeTexture : Seq(Textures), freeFrameBuffer : Seq(FrameBuffers)]

NoTexture == [refCount |-> 0, owned |-> FALSE, kind |-> "image"]

TypeOK ==
    /\ textures \subseteq Textures
    /\ frameBuffers \subseteq FrameBuffers
    /\ textureRef \in [Textures -> [refCount : Int, owned : BOOLEAN, kind : AllKinds]]
    /\ attachments \in [FrameBuffers -> Attachments]
    /\ memoryUsed \in 0 .. Cardinality(Textures)
    /\ appTextures \subseteq textures
    /\ appFrameBuffers \subseteq frameBuffers
    /\ submit \in Frames /\ render \in Frames
    /\ stage \in {"idle", "pre", "submit", "post"}
    /\ rTextures \subseteq Textures
    /\ rFrameBuffers \subseteq FrameBuffers
    /\ rAttachments \in [FrameBuffers -> SUBSET Textures]
    /\ calls \in 0 .. MaxCalls

Init ==
    /\ textures = {} /\ frameBuffers = {}
    /\ textureRef = [t \in Textures |-> NoTexture]
    /\ attachments = [f \in FrameBuffers |-> <<>>]
    /\ memoryUsed = 0
    /\ appTextures = {} /\ appFrameBuffers = {}
    /\ submit = EmptyFrame /\ render = EmptyFrame
    /\ stage = "idle"
    /\ rTextures = {} /\ rFrameBuffers = {}
    /\ rAttachments = [f \in FrameBuffers |-> {}]
    /\ calls = 0

-----------------------------------------------------------------------------
(* Reference counts.  A call may drop several, one after the other: what    *)
(* the steps of a call change is kept in one record.                        *)

Refs == [ref |-> textureRef, memory |-> memoryUsed, frame |-> submit]

Becomes(r) ==
    /\ textureRef' = r.ref
    /\ memoryUsed' = r.memory
    /\ submit' = r.frame

TextureIncRef(r, t) == [r EXCEPT !.ref[t].refCount = @ + 1]

\* Bug: the texture goes as soon as anyone lets go of it.
TextureDecRefAlways(r, t) ==
    [r EXCEPT
        !.ref[t].refCount = @ - 1,
        !.memory = @ - 1,
        !.frame.freeTexture = Append(@, t),
        !.frame.post = Append(@, [op |-> "DestroyTexture", th |-> t])]

\* Bug: DestroyTexture is recorded among the commands of the frame's start.
TextureDecRefPre(r, t) ==
    IF r.ref[t].refCount # 1
       THEN [r EXCEPT !.ref[t].refCount = @ - 1]
       ELSE [r EXCEPT
                !.ref[t].refCount = 0,
                !.memory = @ - 1,
                !.frame.freeTexture = Append(@, t),
                !.frame.pre = Append(@, [op |-> "DestroyTexture", th |-> t])]

TextureDecRef(r, t) ==
    IF r.ref[t].refCount # 1
       THEN [r EXCEPT !.ref[t].refCount = @ - 1]
       ELSE [r EXCEPT
                !.ref[t].refCount = 0,
                !.memory = @ - 1,
                !.frame.freeTexture = Append(@, t),
                !.frame.post = Append(@, [op |-> "DestroyTexture", th |-> t])]

\* Bug: the application's reference is dropped again each time.
TextureTakeOwnershipAgain(r, t) == TextureDecRef([r EXCEPT !.ref[t].owned = TRUE], t)

\* The application's reference is dropped, once.
TextureTakeOwnership(r, t) ==
    IF r.ref[t].owned THEN r ELSE TextureDecRef([r EXCEPT !.ref[t].owned = TRUE], t)

-----------------------------------------------------------------------------
(* The application's calls.                                                 *)

\* m_textureHandle.alloc and the like: any handle that is not in use.
MayCall == calls < MaxCalls /\ calls' = calls + 1

\* Textures the application can name: its own, and those getTexture returns.
Usable == appTextures \union UNION {ToSet(attachments[f]) : f \in appFrameBuffers}

CreateTexture(t, kind) ==
    /\ MayCall
    /\ t \notin textures
    /\ textures' = textures \union {t}
    /\ textureRef' = [textureRef EXCEPT ![t] =
                        [refCount |-> 1, owned |-> FALSE, kind |-> kind]]
    /\ memoryUsed' = memoryUsed + 1
    /\ submit' = [submit EXCEPT !.pre = Append(@, [op |-> "CreateTexture", th |-> t])]
    /\ appTextures' = appTextures \union {t}
    /\ UNCHANGED <<frameBuffers, attachments, appFrameBuffers, rendVars>>

DestroyTexture(t) ==
    /\ MayCall
    /\ t \in appTextures
    /\ Becomes(TextureDecRef(Refs, t))
    /\ appTextures' = appTextures \ {t}
    /\ UNCHANGED <<handleVars, attachments, appFrameBuffers, rendVars>>

UpdateTexture(t) ==
    /\ MayCall
    /\ t \in Usable
    /\ textureRef[t].kind # "image"
    /\ submit' = [submit EXCEPT !.pre = Append(@, [op |-> "UpdateTexture", th |-> t])]
    /\ UNCHANGED <<handleVars, refVars, appVars, rendVars>>

ReadTexture(t) ==
    /\ MayCall
    /\ t \in Usable
    /\ submit' = [submit EXCEPT !.post = Append(@, [op |-> "ReadTexture", th |-> t])]
    /\ UNCHANGED <<handleVars, refVars, appVars, rendVars>>

\* setTexture and submit.
Draw(t) ==
    /\ MayCall
    /\ t \in Usable
    /\ submit' = [submit EXCEPT !.draws = @ \union {t}]
    /\ UNCHANGED <<handleVars, refVars, appVars, rendVars>>

\* isFrameBufferValid: render targets, all of one back buffer ratio.
ValidAttachments(with) ==
    /\ with # <<>>
    /\ ToSet(with) \subseteq Usable
    /\ \E kind \in AllKinds \ {"image"} : \A t \in ToSet(with) : textureRef[t].kind = kind

\* The application gives away textures it holds, or that were given away.
MayAdopt(with) ==
    AdoptShared \/ \A t \in ToSet(with) : t \in appTextures \/ textureRef[t].owned

\* The second half of createFrameBuffer, which is also reached without a handle.
Adopt(r, with) == FoldLeft(TextureTakeOwnership, r, with)

CreateFrameBuffer(f, with, destroyTextures) ==
    LET cmd == [op |-> "CreateFrameBuffer", fb |-> f, with |-> with]
        held == FoldLeft(TextureIncRef, [Refs EXCEPT !.frame.pre = Append(@, cmd)], with)
    IN  /\ MayCall
        /\ f \notin frameBuffers
        /\ ValidAttachments(with)
        /\ destroyTextures => MayAdopt(with)
        /\ frameBuffers' = frameBuffers \union {f}
        /\ attachments' = [attachments EXCEPT ![f] = with]
        /\ Becomes(IF destroyTextures THEN Adopt(held, with) ELSE held)
        /\ appFrameBuffers' = appFrameBuffers \union {f}
        /\ appTextures' = IF destroyTextures THEN appTextures \ ToSet(with) ELSE appTextures
        /\ UNCHANGED <<textures, rendVars>>

\* No handle is left: the textures are destroyed all the same.
CreateFrameBufferFails(with) ==
    /\ MayCall
    /\ frameBuffers = FrameBuffers
    /\ ValidAttachments(with) /\ MayAdopt(with)
    /\ Becomes(Adopt(Refs, with))
    /\ appTextures' = appTextures \ ToSet(with)
    /\ UNCHANGED <<handleVars, attachments, appFrameBuffers, rendVars>>

CreateWindow(f) ==
    /\ MayCall
    /\ f \notin frameBuffers
    /\ frameBuffers' = frameBuffers \union {f}
    /\ attachments' = [attachments EXCEPT ![f] = <<>>]
    /\ submit' = [submit EXCEPT !.pre =
                    Append(@, [op |-> "CreateFrameBuffer", fb |-> f, with |-> <<>>])]
    /\ appFrameBuffers' = appFrameBuffers \union {f}
    /\ UNCHANGED <<textures, textureRef, memoryUsed, appTextures, rendVars>>

\* Bug: the attachments are released before DestroyFrameBuffer is recorded.
DestroyFrameBufferLast(f) ==
    LET released == FoldLeft(TextureDecRef, Refs, attachments[f])
    IN  /\ MayCall
        /\ f \in appFrameBuffers
        /\ Becomes([released EXCEPT
              !.frame.freeFrameBuffer = Append(@, f),
              !.frame.post = Append(@, [op |-> "DestroyFrameBuffer", fb |-> f])])
        /\ appFrameBuffers' = appFrameBuffers \ {f}
        /\ UNCHANGED <<handleVars, attachments, appTextures, rendVars>>

DestroyFrameBuffer(f) ==
    LET gone == [Refs EXCEPT
            !.frame.freeFrameBuffer = Append(@, f),
            !.frame.post = Append(@, [op |-> "DestroyFrameBuffer", fb |-> f])]
    IN  /\ MayCall
        /\ f \in appFrameBuffers
        /\ Becomes(FoldLeft(TextureDecRef, gone, attachments[f]))
        /\ appFrameBuffers' = appFrameBuffers \ {f}
        /\ UNCHANGED <<handleVars, attachments, appTextures, rendVars>>

\* reset with another size: every texture in proportion to the back buffer is
\* resized, those waiting for their release among them.
Reset ==
    /\ MayCall
    /\ \E order \in SetToSeqs({t \in textures : textureRef[t].kind = "target"}) :
          submit' = [submit EXCEPT !.pre =
                       @ \o [i \in DOMAIN order |-> [op |-> "ResizeTexture", th |-> order[i]]]]
    /\ UNCHANGED <<handleVars, refVars, appVars, rendVars>>

\* Bug: freeAllHandles forgets the frame buffers.
FrameKeepsFrameBuffers ==
    /\ stage = "idle"
    /\ textures' = textures \ ToSet(submit.freeTexture)
    /\ render' = [submit EXCEPT !.freeTexture = <<>>, !.freeFrameBuffer = <<>>]
    /\ submit' = EmptyFrame
    /\ stage' = "pre"
    /\ calls' = 0
    /\ UNCHANGED <<frameBuffers, refVars, appVars, rTextures, rFrameBuffers, rAttachments>>

\* frame, once the renderer has let go of m_render: the queued handles are
\* released and the two Frames change roles.
Frame ==
    /\ stage = "idle"
    /\ textures' = textures \ ToSet(submit.freeTexture)
    /\ frameBuffers' = frameBuffers \ ToSet(submit.freeFrameBuffer)
    /\ render' = [submit EXCEPT !.freeTexture = <<>>, !.freeFrameBuffer = <<>>]
    /\ submit' = EmptyFrame
    /\ stage' = "pre"
    /\ calls' = 0
    /\ UNCHANGED <<refVars, appVars, rTextures, rFrameBuffers, rAttachments>>

-----------------------------------------------------------------------------
(* The renderer.                                                            *)

Execute(cmd) ==
    CASE cmd.op = "CreateTexture" ->
            /\ rTextures' = rTextures \union {cmd.th}
            /\ UNCHANGED <<rFrameBuffers, rAttachments>>
      [] cmd.op = "DestroyTexture" ->
            /\ rTextures' = rTextures \ {cmd.th}
            /\ UNCHANGED <<rFrameBuffers, rAttachments>>
      [] cmd.op = "CreateFrameBuffer" ->
            /\ rFrameBuffers' = rFrameBuffers \union {cmd.fb}
            /\ rAttachments' = [rAttachments EXCEPT ![cmd.fb] = ToSet(cmd.with)]
            /\ UNCHANGED rTextures
      [] cmd.op = "DestroyFrameBuffer" ->
            /\ rFrameBuffers' = rFrameBuffers \ {cmd.fb}
            /\ rAttachments' = [rAttachments EXCEPT ![cmd.fb] = {}]
            /\ UNCHANGED rTextures
      [] OTHER -> UNCHANGED <<rTextures, rFrameBuffers, rAttachments>>

apiVars == <<handleVars, refVars, appVars, submit, calls>>

\* rendererExecCommands(m_render->m_cmdPre), one command after the other.
ExecPre ==
    /\ stage = "pre"
    /\ IF render.pre = <<>>
          THEN stage' = "submit" /\ UNCHANGED <<render, rTextures, rFrameBuffers, rAttachments>>
          ELSE /\ Execute(Head(render.pre))
               /\ render' = [render EXCEPT !.pre = Tail(@)]
               /\ UNCHANGED stage
    /\ UNCHANGED apiVars

\* m_renderCtx->submit draws what the frame recorded.
Submit ==
    /\ stage = "submit"
    /\ stage' = "post"
    /\ render' = [render EXCEPT !.draws = {}]
    /\ UNCHANGED <<rTextures, rFrameBuffers, rAttachments, apiVars>>

\* rendererExecCommands(m_render->m_cmdPost).
ExecPost ==
    /\ stage = "post"
    /\ IF render.post = <<>>
          THEN stage' = "idle" /\ UNCHANGED <<render, rTextures, rFrameBuffers, rAttachments>>
          ELSE /\ Execute(Head(render.post))
               /\ render' = [render EXCEPT !.post = Tail(@)]
               /\ UNCHANGED stage
    /\ UNCHANGED apiVars

Next ==
    \/ \E t \in Textures :
          \/ \E kind \in Kinds : CreateTexture(t, kind)
          \/ DestroyTexture(t)
          \/ UpdateTexture(t)
          \/ ReadTexture(t)
          \/ Draw(t)
    \/ \E f \in FrameBuffers :
          \/ \E with \in Attachments, destroyTextures \in BOOLEAN :
                CreateFrameBuffer(f, with, destroyTextures)
          \/ CreateWindow(f)
          \/ DestroyFrameBuffer(f)
    \/ \E with \in Attachments : CreateFrameBufferFails(with)
    \/ Reset
    \/ Frame
    \/ ExecPre \/ Submit \/ ExecPost

Spec == Init /\ [][Next]_vars

-----------------------------------------------------------------------------
(* Properties.                                                              *)

\* Who refers to a texture: the application, until it destroys the texture or
\* gives it away, and each attachment of a frame buffer not yet destroyed.
References(t) ==
    {p \in appFrameBuffers \X (1 .. MaxAttachments) :
        p[2] \in DOMAIN attachments[p[1]] /\ attachments[p[1]][p[2]] = t}

\* m_refCount is the number of references.  A texture is queued for release by the
\* call that drops the last of them, a frame buffer when it is destroyed, each once,
\* since HandleAlloc::free does not check its argument; Stats::textureMemoryUsed and
\* rtMemoryUsed count the textures that are not queued.
RefCountExact ==
    /\ \A t \in textures :
          /\ textureRef[t].refCount =
                Cardinality(References(t)) + IF t \in appTextures THEN 1 ELSE 0
          /\ textureRef[t].refCount = 0 <=> t \in ToSet(submit.freeTexture)
    /\ IsInjective(submit.freeTexture) /\ IsInjective(submit.freeFrameBuffer)
    /\ ToSet(submit.freeTexture) \subseteq textures
    /\ ToSet(submit.freeFrameBuffer) = frameBuffers \ appFrameBuffers
    /\ memoryUsed = Cardinality(textures \ ToSet(submit.freeTexture))

\* What a command of the renderer relies on: handles are released one frame before
\* they are destroyed there, and yet a new object never meets an old one.
Applicable(cmd) ==
    CASE cmd.op = "CreateTexture" -> cmd.th \notin rTextures
      [] cmd.op = "CreateFrameBuffer" ->
            cmd.fb \notin rFrameBuffers /\ ToSet(cmd.with) \subseteq rTextures
      [] cmd.op = "DestroyFrameBuffer" -> cmd.fb \in rFrameBuffers
      [] OTHER -> cmd.th \in rTextures

CommandsApply ==
    /\ stage = "pre" /\ render.pre # <<>> => Applicable(Head(render.pre))
    /\ stage = "post" /\ render.post # <<>> => Applicable(Head(render.post))

\* No frame buffer of the renderer refers to a texture it has destroyed: a
\* renderer goes through the attachments again whenever the back buffer changes.
AttachmentsLive == \A f \in rFrameBuffers : rAttachments[f] \subseteq rTextures

\* A draw call finds the textures it was recorded with, also when the application
\* has destroyed them in the same frame.
DrawsFindTextures == stage = "submit" => render.draws \subseteq rTextures

\* Whatever the renderer does with a texture or a frame buffer, in the order of the
\* commands, the draws and the attachments, finds the objects it needs.
RendererSafe == CommandsApply /\ AttachmentsLive /\ DrawsFindTextures

\* Once a frame has been executed the renderer has the objects the API thread
\* knows, except those created since.
Created(op) == {c \in ToSet(submit.pre) : c.op = op}
RendererAgrees ==
    stage = "idle" =>
        /\ rTextures = textures \ {c.th : c \in Created("CreateTexture")}
        /\ rFrameBuffers = frameBuffers \ {c.fb : c \in Created("CreateFrameBuffer")}

\* bgfx.h on _destroyTextures: "If true, textures will be destroyed when frame
\* buffer is destroyed", so not while a frame buffer still has them.
AttachmentsKept ==
    \A f \in appFrameBuffers : \A t \in ToSet(attachments[f]) :
        t \in textures /\ textureRef[t].refCount > 0
=============================================================================
