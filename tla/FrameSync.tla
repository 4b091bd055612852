------------------------------ MODULE FrameSync ------------------------------
(***************************************************************************)
(* The two threads of bgfx and the frames they hand over                   *)
(* (src/bgfx/src/bgfx.cpp, bgfx_p.h, built with BGFX_CONFIG_MULTITHREADED).*)
(*                                                                         *)
(* The API thread runs bgfx::init, any number of bgfx::frame, and          *)
(* bgfx::shutdown.  The render thread runs bgfx::renderFrame in a loop.    *)
(* Two Frame objects change roles in Context::swap; m_apiSem tells the     *)
(* render thread that m_render may be read, m_renderSem tells the API      *)
(* thread that the two pointers may be swapped.  The last three semaphore  *)
(* operations of Context::shutdown retire the render thread before the     *)
(* context is deleted.                                                     *)
(*                                                                         *)
(* Three ways of running are modelled.  In "internal" mode init creates    *)
(* the render thread.  In "external" mode the application's main thread    *)
(* calls renderFrame itself (entry_windows.cpp) and init, called on        *)
(* another thread, creates none.  In "single" mode renderFrame was called  *)
(* first on the thread that then calls init, and every frame is rendered   *)
(* inside Context::swap.                                                   *)
(***************************************************************************)
EXTENDS Integers

CONSTANTS
    Modes,        \* the ways of running that are explored
    MaxFrames,    \* bound: the application calls frame while m_frames is below
    FlipToggles,  \* may the application change BGFX_RESET_FLIP_AFTER_RENDER
    EarlyClose    \* may the window be closed before init has been called

AllModes == {"internal", "external", "single"}

ASSUME ModesAssumption == Modes \subseteq AllModes
ASSUME MaxFramesAssumption == MaxFrames \in Nat
ASSUME SwitchAssumption == FlipToggles \in BOOLEAN /\ EarlyClose \in BOOLEAN

VARIABLES
    mode,              \* which way of running this behaviour uses
    apc,               \* the API thread's next step
    stage,             \* which call of frame the API thread is in, see NextStage
    renderFrameCalled, \* s_renderFrameCalled
    apiIsRenderThread, \* s_threadIndex of the API thread is ~BGFX_API_THREAD_MAGIC
    singleThreaded,    \* m_singleThreaded
    sctx,              \* s_ctx # NULL
    ctx,               \* the Context object: "none", "live" or "deleted"
    slot,              \* m_frame[0], m_frame[1]: number and commands of each
    submit,            \* index of the Frame m_submit points to; m_render is the other
    frames,            \* m_frames
    apiSem,            \* count of m_apiSem
    renderSem,         \* count of m_renderSem
    rpc,               \* the render thread's next step
    rendererInitialized, \* m_rendererInitialized
    rendererCreated,   \* m_renderCtx # NULL
    exit,              \* m_exit
    flipped,           \* m_flipped
    flipAfterRender,   \* m_flipAfterRender
    windowExit,        \* m_exit of the main thread's loop in entry_windows.cpp
    executed           \* number of the last Frame whose commands were all executed

apiVars    == <<apc, stage, renderFrameCalled, apiIsRenderThread>>
ctxVars    == <<mode, singleThreaded, sctx, ctx>>
frameVars  == <<slot, submit, frames>>
semVars    == <<apiSem, renderSem>>
rendVars   == <<rendererInitialized, rendererCreated, exit, flipped, executed>>
otherVars  == <<flipAfterRender, windowExit>>
vars == <<apiVars, ctxVars, frameVars, semVars, rpc, rendVars, otherVars>>

-----------------------------------------------------------------------------
(* Frames and their commands.                                              *)

\* What the synchronisation can tell apart in m_cmdPre and m_cmdPost.
PreCmds  == {"none", "RendererInit", "RendererShutdownBegin"}
PostCmds == {"none", "RendererShutdownEnd"}
Slots == [no : Nat, pre : PreCmds, post : PostCmds]

\* Frame::create, Frame::start: both command buffers empty.
EmptySlot == [no |-> 0, pre |-> "none", post |-> "none"]

render == 1 - submit        \* the Frame m_render points to

\* Bug: RendererInit is recorded one frame late.
PreCmdInitLate(s) == IF s = "probe" THEN "RendererInit"
                     ELSE IF s = "begin" THEN "RendererShutdownBegin" ELSE "none"

\* Bug: shutdown does not record RendererShutdownBegin.
PreCmdNoBegin(s) == IF s = "kick" THEN "RendererInit" ELSE "none"

\* The command getCommandBuffer records before the frame of a stage.
PreCmd(s) == CASE s = "kick"  -> "RendererInit"
               [] s = "begin" -> "RendererShutdownBegin"
               [] OTHER       -> "none"
PostCmd(s) == IF s = "end" THEN "RendererShutdownEnd" ELSE "none"

\* Each stage is one call of Context::frame (the first, frameNoRenderWait);
\* "running" stands for the application's own calls.
Stages == {"none", "kick", "probe", "transient1", "transient2", "running",
           "begin", "destroy1", "destroy2", "layouts", "end"}

NextStage ==
    [s \in Stages |->
        CASE s = "kick"       -> "probe"
          [] s = "probe"      -> "transient1"
          [] s = "transient1" -> "transient2"
          [] s = "transient2" -> "running"
          [] s = "begin"      -> "destroy1"
          [] s = "destroy1"   -> "destroy2"
          [] s = "destroy2"   -> "layouts"
          [] s = "layouts"    -> "end"
          [] OTHER            -> s]

\* rendererExecCommands(m_cmdPre).  Without a renderer the first command must
\* be RendererInit or End; rendererCreate always finds the noop renderer.
CreatedBy(pre)     == rendererCreated \/ pre = "RendererInit"
InitializedBy(pre) == \/ ~rendererCreated /\ pre = "RendererInit"
                      \/ rendererInitialized /\ pre # "RendererShutdownBegin"

APC == {"boot", "call", "idle", "wait", "swap", "post", "check",
        "wait1", "post1", "wait2", "join", "null", "delete", "done"}
RPC == {"off", "check", "flip", "wait", "blocked", "pre", "submit", "cmdpost",
        "sempost", "flipafter", "result", "exitwait", "exitnull", "exitpost",
        "pump", "exited"}

TypeOK ==
    /\ mode \in AllModes
    /\ apc \in APC
    /\ stage \in Stages
    /\ renderFrameCalled \in BOOLEAN
    /\ apiIsRenderThread \in BOOLEAN
    /\ singleThreaded \in BOOLEAN
    /\ sctx \in BOOLEAN
    /\ ctx \in {"none", "live", "deleted"}
    /\ slot \in [{0, 1} -> Slots]
    /\ submit \in {0, 1}
    /\ frames \in Nat
    /\ apiSem \in Nat
    /\ renderSem \in Nat
    /\ rpc \in RPC
    /\ rendererInitialized \in BOOLEAN
    /\ rendererCreated \in BOOLEAN
    /\ exit \in BOOLEAN
    /\ flipped \in BOOLEAN
    /\ flipAfterRender \in BOOLEAN
    /\ windowExit \in BOOLEAN
    /\ executed \in Nat

Init ==
    /\ mode \in Modes
    /\ apc = "boot"
    /\ stage = "none"
    /\ renderFrameCalled = FALSE
    /\ apiIsRenderThread = FALSE
    /\ singleThreaded = FALSE
    /\ sctx = FALSE
    /\ ctx = "none"
    /\ slot = [b \in {0, 1} |-> EmptySlot]
    /\ submit = 1
    /\ frames = 0
    /\ apiSem = 0
    /\ renderSem = 0
    /\ rpc = IF mode = "external" THEN "check" ELSE "off"
    /\ rendererInitialized = FALSE
    /\ rendererCreated = FALSE
    /\ exit = FALSE
    /\ flipped = TRUE
    /\ flipAfterRender = FALSE
    /\ windowExit = FALSE
    /\ executed = 0

-----------------------------------------------------------------------------
(* The API thread.                                                         *)

\* bgfx::renderFrame on the thread that will call init: s_ctx is NULL.
EarlyRenderFrame ==
    /\ mode = "single"
    /\ apc = "boot"
    /\ ~renderFrameCalled
    /\ renderFrameCalled' = TRUE
    /\ apiIsRenderThread' = TRUE
    /\ UNCHANGED <<apc, stage, ctxVars, frameVars, semVars, rpc, rendVars, otherVars>>

\* bgfx::init up to the first command: s_ctx is set before Context::init runs.
\* An application with a render loop of its own has entered it by then.
InitContext ==
    /\ apc = "boot"
    /\ mode # "internal" => renderFrameCalled
    /\ apc' = "call"
    /\ stage' = "kick"
    /\ sctx' = TRUE
    /\ ctx' = "live"
    /\ slot' = [b \in {0, 1} |-> EmptySlot]
    /\ frames' = 0
    /\ exit' = FALSE
    /\ flipped' = TRUE
    /\ singleThreaded' = (renderFrameCalled /\ apiIsRenderThread)
    /\ rpc' = IF renderFrameCalled THEN rpc ELSE "check"
    /\ apiIsRenderThread' = FALSE
    /\ UNCHANGED <<mode, renderFrameCalled, submit, semVars, rendererInitialized,
                   rendererCreated, executed, otherVars>>

\* Commands are written to m_submit, then frame is called.  The first frame
\* goes out through frameNoRenderWait.
Call ==
    /\ apc = "call"
    /\ slot' = [slot EXCEPT ![submit].pre = PreCmd(stage), ![submit].post = PostCmd(stage)]
    /\ apc' = IF stage = "kick" THEN "swap" ELSE "wait"
    /\ UNCHANGED <<stage, renderFrameCalled, apiIsRenderThread, ctxVars, submit,
                   frames, semVars, rpc, rendVars, otherVars>>

\* The application calls bgfx::frame, bgfx::reset or bgfx::shutdown.
UserFrame ==
    /\ apc = "idle"
    /\ frames < MaxFrames
    /\ apc' = "call"
    /\ UNCHANGED <<stage, renderFrameCalled, apiIsRenderThread, ctxVars, frameVars,
                   semVars, rpc, rendVars, otherVars>>

UserReset ==
    /\ apc = "idle"
    /\ FlipToggles
    /\ flipAfterRender' \in BOOLEAN
    /\ UNCHANGED <<apiVars, ctxVars, frameVars, semVars, rpc, rendVars, windowExit>>

UserShutdown ==
    /\ apc = "idle"
    /\ apc' = "call"
    /\ stage' = "begin"
    /\ UNCHANGED <<renderFrameCalled, apiIsRenderThread, ctxVars, frameVars, semVars,
                   rpc, rendVars, otherVars>>

\* Bug: the result of a wait on m_renderSem is not looked at.
RenderSemIgnored == TRUE

\* Bug: frame goes on without waiting for the render thread.
FrameWaitSkipped ==
    /\ apc = "wait"
    /\ apc' = "swap"
    /\ UNCHANGED <<stage, renderFrameCalled, apiIsRenderThread, ctxVars, frameVars,
                   semVars, rpc, rendVars, otherVars>>

\* renderSemWait does not block in single mode.
RenderSemFree == singleThreaded \/ renderSem > 0

\* renderSemWait in Context::frame.
FrameWait ==
    /\ apc = "wait"
    /\ RenderSemFree
    /\ renderSem' = IF singleThreaded THEN renderSem ELSE renderSem - 1
    /\ apc' = "swap"
    /\ UNCHANGED <<stage, renderFrameCalled, apiIsRenderThread, ctxVars, frameVars,
                   apiSem, rpc, rendVars, otherVars>>

\* Context::swap: finish the submitted frame, exchange the pointers, start a
\* new one; in single mode Context::renderFrame runs in between, its result
\* ignored.
Swap ==
    /\ apc = "swap"
    /\ slot' = [slot EXCEPT ![submit].no = frames + 1, ![render] = EmptySlot]
    /\ submit' = render
    /\ frames' = frames + 1
    /\ apc' = "post"
    /\ IF singleThreaded
          THEN LET pre == slot[submit].pre
                   ended == CreatedBy(pre) /\ slot[submit].post = "RendererShutdownEnd"
               IN /\ rendererCreated' = (CreatedBy(pre) /\ ~ended)
                  /\ rendererInitialized' = InitializedBy(pre)
                  /\ exit' = (exit \/ ended)
                  /\ flipped' = (~InitializedBy(pre) \/ flipAfterRender)
                  /\ executed' = frames + 1
          ELSE UNCHANGED rendVars
    /\ UNCHANGED <<stage, renderFrameCalled, apiIsRenderThread, ctxVars, semVars,
                   rpc, otherVars>>

\* apiSemPost, and the return of frame to whoever called it.
Post ==
    /\ apc = "post"
    /\ apiSem' = IF singleThreaded THEN apiSem ELSE apiSem + 1
    /\ apc' = CASE stage = "probe" -> "check"
                [] stage \in {"running", "transient2"} -> "idle"
                [] stage = "end" -> "wait1"
                [] OTHER -> "call"
    /\ stage' = IF stage = "probe" THEN stage ELSE NextStage[stage]
    /\ UNCHANGED <<renderFrameCalled, apiIsRenderThread, ctxVars, frameVars,
                   renderSem, rpc, rendVars, otherVars>>

\* init reads m_rendererInitialized, which the render thread wrote.
CheckInitialized ==
    /\ apc = "check"
    /\ rendererInitialized
    /\ apc' = "call"
    /\ stage' = NextStage[stage]
    /\ UNCHANGED <<renderFrameCalled, apiIsRenderThread, ctxVars, frameVars, semVars,
                   rpc, rendVars, otherVars>>

\* "Render thread shutdown sequence." in Context::shutdown.
ShutdownWait(from, to) ==
    /\ apc = from
    /\ RenderSemFree
    /\ renderSem' = IF singleThreaded THEN renderSem ELSE renderSem - 1
    /\ apc' = to
    /\ UNCHANGED <<stage, renderFrameCalled, apiIsRenderThread, ctxVars, frameVars,
                   apiSem, rpc, rendVars, otherVars>>

\* Bug: shutdown does not wait until the render thread has let go.
ShutdownPostOnly ==
    /\ apc = "post1"
    /\ apiSem' = IF singleThreaded THEN apiSem ELSE apiSem + 1
    /\ apc' = "join"
    /\ UNCHANGED <<stage, renderFrameCalled, apiIsRenderThread, ctxVars, frameVars,
                   renderSem, rpc, rendVars, otherVars>>

ShutdownPost ==
    /\ apc = "post1"
    /\ apiSem' = IF singleThreaded THEN apiSem ELSE apiSem + 1
    /\ apc' = "wait2"
    /\ UNCHANGED <<stage, renderFrameCalled, apiIsRenderThread, ctxVars, frameVars,
                   renderSem, rpc, rendVars, otherVars>>

\* m_thread.shutdown, when init created the thread.
Join ==
    /\ apc = "join"
    /\ mode = "internal" => rpc = "exited"
    /\ apc' = "null"
    /\ UNCHANGED <<stage, renderFrameCalled, apiIsRenderThread, ctxVars, frameVars,
                   semVars, rpc, rendVars, otherVars>>

NullContext ==
    /\ apc = "null"
    /\ sctx' = FALSE
    /\ apc' = "delete"
    /\ UNCHANGED <<stage, renderFrameCalled, apiIsRenderThread, mode, singleThreaded,
                   ctx, frameVars, semVars, rpc, rendVars, otherVars>>

\* bgfx::shutdown deletes the context.
DeleteContext ==
    /\ apc = "delete"
    /\ ctx' = "deleted"
    /\ apc' = "done"
    /\ UNCHANGED <<stage, renderFrameCalled, apiIsRenderThread, mode, singleThreaded,
                   sctx, frameVars, semVars, rpc, rendVars, otherVars>>

ApiNext ==
    \/ EarlyRenderFrame \/ InitContext \/ Call
    \/ UserFrame \/ UserReset \/ UserShutdown
    \/ FrameWait \/ Swap \/ Post \/ CheckInitialized
    \/ ShutdownWait("wait1", "post1") \/ ShutdownPost \/ ShutdownWait("wait2", "join")
    \/ Join \/ NullContext \/ DeleteContext

-----------------------------------------------------------------------------
(* The render thread.                                                      *)

\* What follows a return of bgfx::renderFrame: the loop of Context::renderThread
\* calls it again, the main thread's loop handles window messages first.
AfterRenderFrame == IF mode = "external" THEN "pump" ELSE "check"

\* bgfx::renderFrame reads s_ctx.  NoContext ends the main thread's last loop.
CheckContext ==
    /\ rpc = "check"
    /\ IF sctx
          THEN rpc' = "flip" /\ UNCHANGED renderFrameCalled
          ELSE /\ renderFrameCalled' = TRUE
               /\ rpc' = IF windowExit THEN "exited" ELSE AfterRenderFrame
    /\ UNCHANGED <<apc, stage, apiIsRenderThread, ctxVars, frameVars, semVars,
                   rendVars, otherVars>>

\* Context::flip, before the wait or after the frame, as m_flipAfterRender says.
Flip(from, after, to) ==
    /\ rpc = from
    /\ flipped' = (flipped \/ (flipAfterRender = after /\ rendererInitialized))
    /\ rpc' = to
    /\ UNCHANGED <<apiVars, ctxVars, frameVars, semVars, rendererInitialized,
                   rendererCreated, exit, executed, otherVars>>

\* m_apiSem.wait(msecs): taken at once, or blocked until a post or a timeout.
TakeFrame ==
    /\ rpc \in {"wait", "blocked"}
    /\ apiSem > 0
    /\ apiSem' = apiSem - 1
    /\ rpc' = "pre"
    /\ UNCHANGED <<apiVars, ctxVars, frameVars, renderSem, rendVars, otherVars>>

Block ==
    /\ rpc = "wait"
    /\ apiSem = 0
    /\ rpc' = "blocked"
    /\ UNCHANGED <<apiVars, ctxVars, frameVars, semVars, rendVars, otherVars>>

\* Bug: the result of m_apiSem.wait is not looked at, a timeout renders.
TimeoutRenders ==
    /\ rpc = "blocked"
    /\ rpc' = "pre"
    /\ UNCHANGED <<apiVars, ctxVars, frameVars, semVars, rendVars, otherVars>>

\* Bug: a post that comes with the timeout is lost.
TimeoutLosesPost ==
    /\ rpc = "blocked"
    /\ apiSem' = 0
    /\ rpc' = AfterRenderFrame
    /\ UNCHANGED <<apiVars, ctxVars, frameVars, renderSem, rendVars, otherVars>>

\* RenderFrame::Timeout; a post that comes with the timeout stays counted.
Timeout ==
    /\ rpc = "blocked"
    /\ rpc' = AfterRenderFrame
    /\ UNCHANGED <<apiVars, ctxVars, frameVars, semVars, rendVars, otherVars>>

ExecPre ==
    /\ rpc = "pre"
    /\ rendererCreated' = CreatedBy(slot[render].pre)
    /\ rendererInitialized' = InitializedBy(slot[render].pre)
    /\ rpc' = "submit"
    /\ UNCHANGED <<apiVars, ctxVars, frameVars, semVars, exit, flipped, executed,
                   otherVars>>

Submit ==
    /\ rpc = "submit"
    /\ flipped' = (flipped /\ ~rendererInitialized)
    /\ rpc' = "cmdpost"
    /\ UNCHANGED <<apiVars, ctxVars, frameVars, semVars, rendererInitialized,
                   rendererCreated, exit, executed, otherVars>>

\* Bug: the frame being recorded is executed in place of the one handed over.
ExecPostOfSubmit ==
    /\ rpc = "cmdpost"
    /\ LET ended == slot[submit].post = "RendererShutdownEnd"
       IN /\ exit' = (exit \/ ended)
          /\ rendererCreated' = (rendererCreated /\ ~ended)
    /\ executed' = slot[submit].no
    /\ rpc' = "sempost"
    /\ UNCHANGED <<apiVars, ctxVars, frameVars, semVars, rendererInitialized, flipped,
                   otherVars>>

ExecPost ==
    /\ rpc = "cmdpost"
    /\ LET ended == slot[render].post = "RendererShutdownEnd"
       IN /\ exit' = (exit \/ ended)
          /\ rendererCreated' = (rendererCreated /\ ~ended)
    /\ executed' = slot[render].no
    /\ rpc' = "sempost"
    /\ UNCHANGED <<apiVars, ctxVars, frameVars, semVars, rendererInitialized, flipped,
                   otherVars>>

PostRender(from, to) ==
    /\ rpc = from
    /\ renderSem' = renderSem + 1
    /\ rpc' = to
    /\ UNCHANGED <<apiVars, ctxVars, frameVars, apiSem, rendVars, otherVars>>

\* RenderFrame::Exiting or RenderFrame::Render.
Result ==
    /\ rpc = "result"
    /\ rpc' = IF exit THEN "exitwait" ELSE AfterRenderFrame
    /\ UNCHANGED <<apiVars, ctxVars, frameVars, semVars, rendVars, otherVars>>

ExitWait ==
    /\ rpc = "exitwait"
    /\ apiSem > 0
    /\ apiSem' = apiSem - 1
    /\ rpc' = "exitnull"
    /\ UNCHANGED <<apiVars, ctxVars, frameVars, renderSem, rendVars, otherVars>>

ExitNull ==
    /\ rpc = "exitnull"
    /\ sctx' = FALSE
    /\ rpc' = "exitpost"
    /\ UNCHANGED <<apiVars, mode, singleThreaded, ctx, frameVars, semVars, rendVars,
                   otherVars>>

\* The main thread's loop: messages are handled; WM_CLOSE, or the WM_QUIT the
\* application thread posts when it ends, sets m_exit.
Pump ==
    /\ rpc = "pump"
    /\ \/ /\ windowExit' = TRUE
          /\ EarlyClose \/ ctx # "none"
       \/ apc # "done" /\ UNCHANGED windowExit
    /\ rpc' = "check"
    /\ UNCHANGED <<apiVars, ctxVars, frameVars, semVars, rendVars, flipAfterRender>>

RenderNext ==
    \/ CheckContext
    \/ Flip("flip", FALSE, "wait")
    \/ TakeFrame \/ Block \/ Timeout
    \/ ExecPre \/ Submit \/ ExecPost
    \/ PostRender("sempost", "flipafter")
    \/ Flip("flipafter", TRUE, "result")
    \/ Result
    \/ ExitWait \/ ExitNull
    \/ PostRender("exitpost", IF mode = "external" THEN "pump" ELSE "exited")
    \/ Pump

\* Both threads have ended: not a deadlock.
Terminated ==
    /\ apc = "done"
    /\ rpc \in {"off", "exited"}
    /\ UNCHANGED vars

Next == ApiNext \/ RenderNext \/ Terminated

Spec == Init /\ [][Next]_vars
-----------------------------------------------------------------------------
(* Fairness: both threads are scheduled, and an application that has        *)
(* started eventually calls shutdown.  How often it calls frame or reset    *)
(* before that is its own choice.                                           *)

ApiSteps ==
    \/ EarlyRenderFrame \/ InitContext \/ Call \/ UserShutdown
    \/ FrameWait \/ Swap \/ Post \/ CheckInitialized
    \/ ShutdownWait("wait1", "post1") \/ ShutdownPost \/ ShutdownWait("wait2", "join")
    \/ Join \/ NullContext \/ DeleteContext

FairSpec == Spec /\ WF_vars(ApiSteps) /\ WF_vars(RenderNext)

-----------------------------------------------------------------------------
(* Properties.                                                             *)

\* The render thread is between taking a frame and giving it back.
Rendering == rpc \in {"pre", "submit", "cmdpost", "sempost"}

\* The render thread is inside Context::renderFrame or still needs the context.
UsesContext == rpc \notin {"off", "check", "pump", "exited"}

\* Context::swap exchanges the Frame pointers and frees handles only while the
\* render thread is not executing m_render.
NoFrameRace == apc = "swap" /\ ~singleThreaded => ~Rendering

\* bgfx.h asks that data passed by makeRef stay for two calls of frame: when the
\* second call returns, the frame that refers to the data has been executed.
TwoFrameRule == frames - 1 <= executed /\ executed <= frames

\* The context is deleted only after the render thread has stopped using it.
ContextOutlivesUse == UsesContext => ctx = "live"

\* "s_ctx is NULL here." (Context::shutdown): once the hand-shake is over the
\* render thread has cleared s_ctx and will not touch it again.
SctxClearedByRenderThread ==
    apc \in {"join", "null", "delete", "done"} /\ ~singleThreaded
        => ~sctx /\ rpc \in {"pump", "check", "exited"}

\* The assertions of rendererExecCommands: RendererInit comes before any other
\* command, RendererShutdownBegin finds a renderer that draws, and
\* RendererShutdownEnd one that has stopped and has not exited.  And init looks at
\* m_rendererInitialized only when the render thread has executed RendererInit.
CommandOrder ==
    /\ apc = "check" => rendererInitialized /\ executed >= 1
    /\ rpc = "pre" /\ ~rendererCreated => slot[render].pre # "RendererShutdownBegin"
    /\ rpc = "pre" /\ slot[render].pre = "RendererShutdownBegin" => rendererInitialized
    /\ rpc = "pre" /\ slot[render].pre = "RendererInit" => ~rendererCreated
    /\ rpc = "cmdpost" /\ slot[render].post = "RendererShutdownEnd"
        => rendererCreated /\ ~rendererInitialized /\ ~exit

\* bgfx.h on BGFX_RESET_FLIP_AFTER_RENDER: "Default behavior is that flip occurs
\* before rendering new frame."  No frame is submitted over one not yet flipped.
FlipBeforeNewFrame == rpc = "submit" /\ rendererInitialized => flipped

\* A frame handed over is executed once, in order, whatever the mode.
Pipeline == INSTANCE FramePipeline WITH
    building <- frames + 1,
    inFlight <- IF slot[render].no = executed THEN {} ELSE {slot[render].no}

PipelineSpec == Pipeline!PipeSpec

\* init, every frame and shutdown complete, and both threads end; bgfx.h on frame:
\* "this call just swaps internal buffers, kicks render thread, and returns".
Termination == <>[](apc = "done" /\ rpc \in {"off", "exited"})

-----------------------------------------------------------------------------
(* The inductive invariant behind the properties.  Exactly one permission  *)
(* to touch the Frame pointers exists: a thread holds it, or it is the     *)
(* count of one of the semaphores.                                         *)

Kicking == apc = "call" /\ stage = "kick"
ApiHolds == \/ apc \in {"boot", "swap", "post", "post1", "join", "null", "delete", "done"}
            \/ Kicking
RenderHolds == Rendering \/ rpc \in {"exitnull", "exitpost"}

OnePermission ==
    IF singleThreaded THEN apiSem = 0 /\ renderSem = 0
    ELSE \/ ApiHolds /\ ~RenderHolds /\ apiSem = 0 /\ renderSem = 0
         \/ ~ApiHolds /\ RenderHolds /\ apiSem = 0 /\ renderSem = 0
         \/ ~ApiHolds /\ ~RenderHolds /\ apiSem = 1 /\ renderSem = 0
         \/ ~ApiHolds /\ ~RenderHolds /\ apiSem = 0 /\ renderSem = 1

\* Which thread exists in which mode, and what is so before init.
ModeInv ==
    /\ singleThreaded => mode = "single"
    /\ mode = "single" /\ apc # "boot" => singleThreaded
    /\ mode = "single" => rpc = "off"
    /\ mode = "single" /\ renderFrameCalled /\ apc = "boot" => apiIsRenderThread
    /\ apiIsRenderThread => mode = "single"
    /\ mode = "internal" => rpc # "pump"
    /\ mode = "internal" /\ apc = "boot" => ~renderFrameCalled /\ rpc = "off"
    /\ mode = "external" => rpc # "off"
    /\ apc = "boot" => /\ ~sctx /\ ctx = "none" /\ stage = "none" /\ ~singleThreaded
                       /\ rpc \in {"off", "check", "pump", "exited"}
                       /\ slot[render] = EmptySlot /\ frames = 0 /\ executed = 0
                       /\ ~exit

\* How far the renderer is behind, as a function of who has the permission.
Pending == \/ apc = "post"
           \/ apiSem = 1 /\ apc # "wait2"
           \/ rpc \in {"pre", "submit", "cmdpost"}
ProgressInv ==
    /\ slot[render].no = frames
    /\ executed = IF ~singleThreaded /\ Pending THEN frames - 1 ELSE frames

\* RendererShutdownEnd is in the frame handed over by the last frame call only.
Handshaking == apc \in {"wait1", "post1", "wait2", "join", "null", "delete", "done"}
EndInv ==
    /\ Handshaking => stage = "end" /\ slot[render].post = "RendererShutdownEnd"
    /\ apc = "idle" => stage = "running"
    /\ apc = "post" => slot[render].post = PostCmd(stage)
    /\ apc \in {"wait", "swap"} => slot[submit].post = PostCmd(stage)
    /\ apc \in {"call", "idle", "wait", "swap", "check"} => slot[render].post = "none"

\* The context lives until the hand-shake has run its course.
LifeInv ==
    /\ sctx => ctx = "live"
    /\ apc \notin {"boot", "done"} => ctx = "live"
    /\ ~Handshaking => ~exit \/ singleThreaded
    /\ ~Handshaking /\ apc # "boot" =>
          /\ sctx
          /\ rpc \notin {"exitwait", "exitnull", "exitpost"}
          /\ mode = "internal" => rpc # "exited"
    /\ apc = "boot" => rpc \in {"off", "check", "pump", "exited"}
    /\ apc \in {"null", "delete", "done"} /\ mode = "internal" => rpc = "exited"
    /\ apc \in {"delete", "done"} => ~sctx

\* The hand-shake, step by step, when there is a render thread.
HandshakeInv ==
    ~singleThreaded =>
    /\ apc = "wait1" =>
          /\ sctx
          /\ exit = ~(apiSem = 1 \/ rpc \in {"pre", "submit", "cmdpost"})
          /\ exit => rpc \in {"sempost", "flipafter", "result", "exitwait"}
          /\ rpc = "exited" => mode # "internal"
          /\ ~exit => rpc \notin {"exitwait", "exitnull", "exitpost"}
    /\ apc = "post1" => exit /\ sctx /\ rpc \in {"flipafter", "result", "exitwait"}
    /\ apc = "wait2" =>
          /\ exit
          /\ apiSem = 1 => sctx /\ rpc \in {"flipafter", "result", "exitwait"}
          /\ RenderHolds => rpc \in {"exitnull", "exitpost"}
          /\ rpc = "exitnull" => sctx
          /\ rpc = "exitpost" => ~sctx
          /\ renderSem = 1 => ~sctx /\ rpc \in {"pump", "check", "exited"}
    /\ apc \in {"join", "null", "delete", "done"} =>
          ~sctx /\ rpc \in {"pump", "check", "exited"}

IInv == /\ TypeOK /\ ModeInv /\ OnePermission /\ ProgressInv
        /\ EndInv /\ LifeInv /\ HandshakeInv
=============================================================================
