--------------------------- MODULE FrameSyncProofs ---------------------------
(* Machine-checked proofs about FrameSync, for every value of its constants. *)
EXTENDS FrameSync, TLAPS

\* The initial states satisfy the inductive invariant.
LEMMA InitInv == Init => IInv
<1> SUFFICES ASSUME Init PROVE IInv
    OBVIOUS
<1> USE ModesAssumption DEF Init, AllModes, EmptySlot, render
<1>1. TypeOK
    BY DEF TypeOK, APC, RPC, Stages, Slots, PreCmds, PostCmds
<1>2. ModeInv /\ OnePermission /\ ProgressInv
    BY DEF ModeInv, OnePermission, ProgressInv, ApiHolds, Kicking, RenderHolds, Rendering, Pending
<1>3. EndInv /\ LifeInv /\ HandshakeInv
    BY DEF EndInv, LifeInv, HandshakeInv, Handshaking, RenderHolds, Rendering
<1> QED
    BY <1>1, <1>2, <1>3 DEF IInv

\* No step of the API thread breaks the inductive invariant.
LEMMA ApiStepInv == IInv /\ ApiNext => IInv'
<1> SUFFICES ASSUME IInv, ApiNext PROVE IInv'
    OBVIOUS
<1> USE DEF IInv, TypeOK, ModeInv, OnePermission, ProgressInv, EndInv, LifeInv, HandshakeInv,
            ApiHolds, Kicking, RenderHolds, Rendering, Pending, Handshaking, render,
            apiVars, ctxVars, frameVars, semVars, rendVars, otherVars,
            APC, RPC, Stages, Slots, PreCmds, PostCmds, AllModes, EmptySlot, RenderSemFree
<1>1. CASE EarlyRenderFrame BY <1>1 DEF EarlyRenderFrame
<1>2. CASE InitContext
    <2>1. singleThreaded' = (mode = "single")
        BY <1>2 DEF InitContext
    <2>2. rpc' = IF mode = "internal" THEN "check" ELSE rpc
        BY <1>2 DEF InitContext
    <2>3. TypeOK'
        BY <1>2, <2>1, <2>2 DEF InitContext
    <2>4. ModeInv'
        BY <1>2, <2>1, <2>2 DEF InitContext
    <2>5. OnePermission' /\ ProgressInv' /\ EndInv'
        BY <1>2, <2>1, <2>2 DEF InitContext
    <2>6. LifeInv' /\ HandshakeInv'
        BY <1>2, <2>1, <2>2 DEF InitContext
    <2> QED BY <2>3, <2>4, <2>5, <2>6
<1>3. CASE Call BY <1>3 DEF Call, PreCmd, PostCmd
<1>4. CASE UserFrame BY <1>4 DEF UserFrame
<1>5. CASE UserReset BY <1>5 DEF UserReset
<1>6. CASE UserShutdown BY <1>6 DEF UserShutdown
<1>7. CASE FrameWait BY <1>7 DEF FrameWait
<1>8. CASE Swap
    <2>1. /\ submit' \in {0, 1} /\ render' = submit /\ frames' = frames + 1 /\ apc' = "post"
          /\ slot' \in [{0, 1} -> Slots]
          /\ slot'[render'].no = frames' /\ slot'[render'].post = slot[submit].post
        BY <1>8 DEF Swap
    <2>2. /\ executed' = IF singleThreaded THEN frames' ELSE executed
          /\ ~singleThreaded => exit' = exit
          /\ rendererCreated' \in BOOLEAN /\ rendererInitialized' \in BOOLEAN
          /\ exit' \in BOOLEAN /\ flipped' \in BOOLEAN
        BY <1>8 DEF Swap, CreatedBy, InitializedBy
    <2>3. TypeOK'
        BY <1>8, <2>1, <2>2 DEF Swap
    <2>4. ModeInv' /\ OnePermission'
        BY <1>8, <2>1, <2>2 DEF Swap
    <2>5. ProgressInv' /\ EndInv'
        BY <1>8, <2>1, <2>2 DEF Swap, PostCmd
    <2>6. LifeInv' /\ HandshakeInv'
        BY <1>8, <2>1, <2>2 DEF Swap
    <2> QED BY <2>3, <2>4, <2>5, <2>6
<1>9. CASE Post BY <1>9 DEF Post, NextStage, PostCmd
<1>10. CASE CheckInitialized BY <1>10 DEF CheckInitialized, NextStage
<1>11. CASE ShutdownWait("wait1", "post1") BY <1>11 DEF ShutdownWait
<1>12. CASE ShutdownPost BY <1>12 DEF ShutdownPost
<1>13. CASE ShutdownWait("wait2", "join") BY <1>13 DEF ShutdownWait
<1>14. CASE Join BY <1>14 DEF Join
<1>15. CASE NullContext
    <2>1. ~sctx' /\ sctx' \in BOOLEAN
        BY <1>15, Zenon DEF NullContext
    <2>2. TypeOK' /\ ModeInv' /\ OnePermission' /\ ProgressInv'
        BY <1>15, <2>1 DEF NullContext
    <2>3. EndInv' /\ LifeInv' /\ HandshakeInv'
        BY <1>15, <2>1 DEF NullContext
    <2> QED BY <2>2, <2>3
<1>16. CASE DeleteContext BY <1>16 DEF DeleteContext
<1> QED
    BY <1>1, <1>2, <1>3, <1>4, <1>5, <1>6, <1>7, <1>8, <1>9, <1>10, <1>11, <1>12,
       <1>13, <1>14, <1>15, <1>16 DEF ApiNext

\* No step of the render thread breaks the inductive invariant.
LEMMA RenderStepInv == IInv /\ RenderNext => IInv'
<1> SUFFICES ASSUME IInv, RenderNext PROVE IInv'
    OBVIOUS
<1> USE DEF IInv, TypeOK, ModeInv, OnePermission, ProgressInv, EndInv, LifeInv, HandshakeInv,
            ApiHolds, Kicking, RenderHolds, Rendering, Pending, Handshaking, render,
            apiVars, ctxVars, frameVars, semVars, rendVars, otherVars,
            APC, RPC, Stages, Slots, PreCmds, PostCmds, AllModes, AfterRenderFrame
<1>1. CASE CheckContext
    <2>1. renderFrameCalled' \in BOOLEAN
        BY <1>1, Zenon DEF CheckContext
    <2>2. CASE sctx
        BY <1>1, <2>2 DEF CheckContext
    <2>3. CASE ~sctx
        <3>1. rpc' = IF windowExit THEN "exited" ELSE AfterRenderFrame
            BY <1>1, <2>3, Zenon DEF CheckContext
        <3> QED BY <1>1, <2>1, <2>3, <3>1 DEF CheckContext
    <2> QED BY <2>2, <2>3
<1>2. CASE Flip("flip", FALSE, "wait") BY <1>2 DEF Flip
<1>3. CASE TakeFrame BY <1>3 DEF TakeFrame
<1>4. CASE Block BY <1>4 DEF Block
<1>5. CASE Timeout BY <1>5 DEF Timeout
<1>6. CASE ExecPre BY <1>6 DEF ExecPre, CreatedBy, InitializedBy
<1>7. CASE Submit BY <1>7 DEF Submit
<1>8. CASE ExecPost BY <1>8 DEF ExecPost, PostCmd
<1>9. CASE PostRender("sempost", "flipafter") BY <1>9 DEF PostRender
<1>10. CASE Flip("flipafter", TRUE, "result") BY <1>10 DEF Flip
<1>11. CASE Result BY <1>11 DEF Result
<1>12. CASE ExitWait BY <1>12 DEF ExitWait
<1>13. CASE ExitNull
    <2>1. ~sctx' /\ sctx' \in BOOLEAN
        BY <1>13, Zenon DEF ExitNull
    <2> QED BY <1>13, <2>1 DEF ExitNull
<1>14. CASE PostRender("exitpost", IF mode = "external" THEN "pump" ELSE "exited")
    BY <1>14 DEF PostRender
<1>15. CASE Pump
    <2>1. windowExit' \in BOOLEAN
        BY <1>15, Zenon DEF Pump
    <2> QED BY <1>15, <2>1 DEF Pump
<1> QED
    BY <1>1, <1>2, <1>3, <1>4, <1>5, <1>6, <1>7, <1>8, <1>9, <1>10, <1>11, <1>12,
       <1>13, <1>14, <1>15 DEF RenderNext

-----------------------------------------------------------------------------

\* The inductive invariant holds in every reachable state.
THEOREM Invariance == Spec => []IInv
<1>1. IInv /\ [Next]_vars => IInv'
    <2> SUFFICES ASSUME IInv, [Next]_vars PROVE IInv'
        OBVIOUS
    <2>1. CASE UNCHANGED vars
        BY <2>1 DEF vars, apiVars, ctxVars, frameVars, semVars, rendVars, otherVars, IInv,
                    TypeOK, ModeInv, OnePermission, ProgressInv, EndInv, LifeInv, HandshakeInv,
                    ApiHolds, Kicking, RenderHolds, Rendering, Pending, Handshaking, render
    <2> QED BY <2>1, ApiStepInv, RenderStepInv DEF Next, Terminated
<1> QED BY <1>1, InitInv, PTL DEF Spec

\* Every variable keeps its type; in particular no semaphore count is negative.
THEOREM TypeCorrect == Spec => []TypeOK
<1>1. IInv => TypeOK
    BY DEF IInv
<1> QED BY <1>1, Invariance, PTL

\* Context::swap never runs while the render thread executes m_render.
THEOREM FramesNeverRace == Spec => []NoFrameRace
<1>1. IInv => NoFrameRace
    BY DEF IInv, OnePermission, ApiHolds, RenderHolds, NoFrameRace
<1> QED BY <1>1, Invariance, PTL

\* Data passed by makeRef has been used when the second frame call returns.
THEOREM TwoFramesSuffice == Spec => []TwoFrameRule
<1>1. IInv => TwoFrameRule
    BY DEF IInv, TypeOK, ProgressInv, TwoFrameRule
<1> QED BY <1>1, Invariance, PTL

\* No step of the render thread needs a context that has been deleted.
THEOREM ContextSafe == Spec => []ContextOutlivesUse
<1>1. IInv => ContextOutlivesUse
    BY DEF IInv, TypeOK, APC, RPC, ModeInv, OnePermission, ApiHolds, RenderHolds, Rendering,
           LifeInv, HandshakeInv, Handshaking, ContextOutlivesUse, UsesContext
<1> QED BY <1>1, Invariance, PTL

\* "s_ctx is NULL here.": the comment in Context::shutdown is right.
THEOREM SctxCleared == Spec => []SctxClearedByRenderThread
<1>1. IInv => SctxClearedByRenderThread
    BY DEF IInv, HandshakeInv, SctxClearedByRenderThread
<1> QED BY <1>1, Invariance, PTL

\* A step of FrameSync is a step of FramePipeline or leaves its variables alone:
\* Swap hands a frame over, ExecPost executes it, and in single mode Swap does both.
LEMMA PipelineStep == IInv /\ IInv' /\ [Next]_vars => [Pipeline!PipeNext]_Pipeline!pipeVars
<1> SUFFICES ASSUME IInv, IInv', [Next]_vars
             PROVE  Pipeline!PipeNext \/ UNCHANGED Pipeline!pipeVars
    OBVIOUS
<1> DEFINE inFlight == IF slot[render].no = executed THEN {} ELSE {slot[render].no}
<1>a. /\ slot[render].no = frames /\ frames \in Nat /\ executed \in Nat
      /\ slot'[render'].no = frames'
    BY DEF IInv, TypeOK, ProgressInv
<1>1. CASE Swap
    <2>1. frames' = frames + 1 /\ executed = frames
        BY <1>1 DEF Swap, IInv, ProgressInv, OnePermission, ApiHolds, Pending, RenderHolds, Rendering
    <2>2. executed' = IF singleThreaded THEN frames + 1 ELSE executed
        BY <1>1 DEF Swap, rendVars
    <2>3. CASE singleThreaded
        <3>1. Pipeline!HandOverAndExecute
            BY <1>a, <2>1, <2>2, <2>3 DEF Pipeline!HandOverAndExecute
        <3> QED BY <3>1 DEF Pipeline!PipeNext
    <2>4. CASE ~singleThreaded
        <3>1. Pipeline!HandOver
            BY <1>a, <2>1, <2>2, <2>4 DEF Pipeline!HandOver
        <3> QED BY <3>1 DEF Pipeline!PipeNext
    <2> QED BY <2>3, <2>4
<1>2. CASE ExecPost
    <2>1. frames' = frames /\ executed' = frames
        BY <1>2, <1>a DEF ExecPost, frameVars
    <2>2. executed = frames - 1
        BY <1>2 DEF ExecPost, IInv, ModeInv, ProgressInv, Pending
    <2>3. Pipeline!Execute
        BY <1>a, <2>1, <2>2 DEF Pipeline!Execute
    <2> QED BY <2>3 DEF Pipeline!PipeNext
<1>3. CASE InitContext
    <2>1. frames' = frames /\ executed' = executed
        BY <1>3 DEF InitContext, IInv, ModeInv
    <2> QED BY <1>a, <2>1 DEF Pipeline!pipeVars
<1>4. CASE frames' = frames /\ executed' = executed
    BY <1>a, <1>4 DEF Pipeline!pipeVars
<1>5. CASE ApiNext
    <2>1. Swap \/ InitContext \/ (frames' = frames /\ executed' = executed)
        BY <1>5 DEF ApiNext, EarlyRenderFrame, Call, UserFrame, UserReset, UserShutdown, FrameWait,
                    Post, CheckInitialized, ShutdownWait, ShutdownPost, Join, NullContext,
                    DeleteContext, frameVars, rendVars
    <2> QED BY <2>1, <1>1, <1>3, <1>4
<1>6. CASE RenderNext
    <2>1. ExecPost \/ (frames' = frames /\ executed' = executed)
        BY <1>6 DEF RenderNext, CheckContext, Flip, TakeFrame, Block, Timeout, ExecPre, Submit,
                    PostRender, Result, ExitWait, ExitNull, Pump, frameVars, rendVars
    <2> QED BY <2>1, <1>2, <1>4
<1>7. CASE UNCHANGED vars
    BY <1>7, <1>4 DEF vars, frameVars, rendVars
<1> QED BY <1>5, <1>6, <1>7 DEF Next, Terminated

\* The synchronisation implements the frame pipeline in each of its three modes.
THEOREM RefinesPipeline == Spec => PipelineSpec
<1>1. Init => Pipeline!PipeInit
    BY DEF Init, EmptySlot, render, Pipeline!PipeInit
<1> QED BY <1>1, PipelineStep, Invariance, PTL DEF Spec, PipelineSpec, Pipeline!PipeSpec

-----------------------------------------------------------------------------
(* The commands.  Every command goes out in a frame of its own, and the      *)
(* renderer is what the commands executed so far have made of it.            *)

\* The frame handed over last carries the pre command of its stage.
LastPre ==
    IF apc = "post" THEN PreCmd(stage)
    ELSE IF stage = "probe" /\ apc # "check" THEN "RendererInit"
    ELSE IF stage = "destroy1" THEN "RendererShutdownBegin" ELSE "none"

\* A frame with this command has been handed over.
InitSent == stage # "none" /\ (stage = "kick" => apc = "post")
BeginSent == \/ stage \in {"destroy1", "destroy2", "layouts", "end"}
             \/ stage = "begin" /\ apc = "post"
EndSent == stage = "end" /\ (apc = "post" \/ Handshaking)

\* The pre command of the frame handed over last has not been executed yet.
PrePending == ~singleThreaded /\ (apc = "post" \/ (apiSem = 1 /\ apc # "wait2") \/ rpc = "pre")

InitDone == InitSent /\ ~(PrePending /\ LastPre = "RendererInit")
BeginDone == BeginSent /\ ~(PrePending /\ LastPre = "RendererShutdownBegin")
EndDone == EndSent /\ (singleThreaded \/ ~Pending)

CmdInv ==
    /\ apc = "boot" <=> stage = "none"
    /\ apc = "check" => stage = "probe" /\ frames >= 2
    /\ apc = "idle" => stage = "running"
    /\ stage = "probe" \/ apc = "post" => frames >= 1
    /\ stage = "probe" /\ apc = "post" => frames >= 2
    /\ apc \in {"wait", "swap"} => slot[submit].pre = PreCmd(stage)
    /\ slot[render].pre = LastPre
    /\ rendererCreated = (InitDone /\ ~EndDone)
    /\ rendererInitialized = (InitDone /\ ~BeginDone)

LEMMA CmdInit == Init => CmdInv
<1> SUFFICES ASSUME Init PROVE CmdInv
    OBVIOUS
<1>1. ~InitSent /\ ~BeginSent /\ ~EndSent /\ LastPre = "none"
    BY DEF Init, InitSent, BeginSent, EndSent, LastPre, Handshaking
<1>2. slot[render].pre = "none"
    BY DEF Init, EmptySlot, render
<1> QED BY <1>1, <1>2 DEF Init, CmdInv, InitDone, BeginDone

\* swap hands a frame over: its commands are to be executed, or have been in single mode.
LEMMA CmdSwap == IInv /\ CmdInv /\ Swap => CmdInv'
<1> SUFFICES ASSUME IInv, CmdInv, Swap PROVE CmdInv'
    OBVIOUS
<1>1. /\ apc = "swap" /\ apc' = "post" /\ stage' = stage /\ stage \in Stages \ {"none"}
      /\ singleThreaded' = singleThreaded /\ frames' = frames + 1 /\ frames \in Nat
      /\ submit' = render /\ render' = submit /\ apiSem' = apiSem /\ rpc' = rpc
      /\ stage = "probe" => frames >= 1
    BY DEF Swap, semVars, ctxVars, IInv, TypeOK, CmdInv, render
<1>2. slot[submit].pre = PreCmd(stage) /\ slot[submit].post = PostCmd(stage)
      /\ slot'[render'].pre = PreCmd(stage)
    BY <1>1 DEF Swap, IInv, TypeOK, CmdInv, EndInv, render, Slots
<1>3. LastPre' = PreCmd(stage)
    BY <1>1 DEF LastPre, PreCmd
<1>4. ~singleThreaded => apiSem = 0 /\ ~RenderHolds
    BY <1>1 DEF IInv, OnePermission, ApiHolds
<1>5. ~PrePending /\ ~EndDone
    BY <1>1, <1>4 DEF PrePending, RenderHolds, Rendering, EndDone, EndSent, Handshaking
<1>6. /\ InitDone <=> stage # "kick"
      /\ BeginDone <=> stage \in {"destroy1", "destroy2", "layouts", "end"}
    BY <1>1, <1>5 DEF InitDone, InitSent, BeginDone, BeginSent, Stages
<1>7. (rendererCreated <=> stage # "kick")
      /\ (rendererInitialized <=> stage \notin {"kick", "destroy1", "destroy2", "layouts", "end"})
    BY <1>5, <1>6 DEF CmdInv
<1>8. InitSent' /\ (BeginSent' <=> stage \in {"begin", "destroy1", "destroy2", "layouts", "end"})
      /\ (EndSent' <=> stage = "end") /\ (PrePending' <=> ~singleThreaded) /\ Pending'
    BY <1>1 DEF InitSent, BeginSent, EndSent, PrePending, Pending, Handshaking
<1>9. rendererCreated' = (InitDone' /\ ~EndDone') /\ rendererInitialized' = (InitDone' /\ ~BeginDone')
    <2>1. CASE ~singleThreaded
        <3>1. rendererCreated' = rendererCreated /\ rendererInitialized' = rendererInitialized
            BY <2>1 DEF Swap, rendVars
        <3>2. /\ InitDone' <=> stage # "kick"
              /\ BeginDone' <=> stage \in {"destroy1", "destroy2", "layouts", "end"}
              /\ ~EndDone'
            BY <1>1, <1>3, <1>8, <2>1 DEF InitDone, BeginDone, EndDone, PreCmd
        <3>3. rendererCreated \in BOOLEAN /\ rendererInitialized \in BOOLEAN
            BY DEF IInv, TypeOK
        <3> QED BY <1>7, <3>1, <3>2, <3>3
    <2>2. CASE singleThreaded
        <3>1. /\ rendererCreated' = (CreatedBy(PreCmd(stage))
                    /\ ~(CreatedBy(PreCmd(stage)) /\ PostCmd(stage) = "RendererShutdownEnd"))
              /\ rendererInitialized' = InitializedBy(PreCmd(stage))
            BY <1>2, <2>2 DEF Swap
        <3>2. /\ CreatedBy(PreCmd(stage))
              /\ InitializedBy(PreCmd(stage))
                    <=> stage \notin {"begin", "destroy1", "destroy2", "layouts", "end"}
              /\ PostCmd(stage) = "RendererShutdownEnd" <=> stage = "end"
            BY <1>1, <1>7 DEF CreatedBy, InitializedBy, PreCmd, PostCmd
        <3>3. /\ InitDone' /\ (EndDone' <=> stage = "end")
              /\ BeginDone' <=> stage \in {"begin", "destroy1", "destroy2", "layouts", "end"}
            BY <1>1, <1>8, <2>2 DEF InitDone, BeginDone, EndDone
        <3>4. InitializedBy(PreCmd(stage)) \in BOOLEAN
            BY DEF InitializedBy
        <3>5. rendererCreated' = (stage # "end")
            BY <3>1, <3>2
        <3> QED BY <3>1, <3>2, <3>3, <3>4, <3>5
    <2> QED BY <2>1, <2>2
<1> QED BY <1>1, <1>2, <1>3, <1>9 DEF CmdInv

\* apiSemPost: what has been executed does not change with the stage.
LEMMA CmdPost == IInv /\ CmdInv /\ Post => CmdInv'
<1> SUFFICES ASSUME IInv, CmdInv, Post PROVE CmdInv'
    OBVIOUS
<1>1. /\ apc = "post" /\ stage \in Stages \ {"none"}
      /\ stage' = (IF stage = "probe" THEN stage ELSE NextStage[stage])
      /\ apc' = CASE stage = "probe" -> "check"
                  [] stage \in {"running", "transient2"} -> "idle"
                  [] stage = "end" -> "wait1"
                  [] OTHER -> "call"
      /\ apiSem' = (IF singleThreaded THEN apiSem ELSE apiSem + 1) /\ rpc' = rpc
      /\ UNCHANGED <<singleThreaded, slot, submit, frames, rendererCreated, rendererInitialized>>
    BY DEF Post, ctxVars, frameVars, rendVars, IInv, TypeOK, CmdInv
<1>2. ~singleThreaded => apiSem = 0 /\ apiSem' = 1
    BY <1>1 DEF IInv, OnePermission, ApiHolds
<1>3. /\ PrePending <=> ~singleThreaded
      /\ PrePending' <=> ~singleThreaded
      /\ Pending /\ (~singleThreaded => Pending')
    BY <1>1, <1>2 DEF PrePending, Pending
<1>4. LastPre' = LastPre
    BY <1>1 DEF LastPre, PreCmd, NextStage, Stages, Handshaking
<1>5. (InitSent' <=> InitSent) /\ (BeginSent' <=> BeginSent) /\ (EndSent' <=> EndSent)
    BY <1>1 DEF InitSent, BeginSent, EndSent, NextStage, Stages, Handshaking
<1>6. (InitDone' <=> InitDone) /\ (BeginDone' <=> BeginDone) /\ (EndDone' <=> EndDone)
    BY <1>1, <1>3, <1>4, <1>5 DEF InitDone, BeginDone, EndDone
<1>7. /\ apc' = "check" => stage' = "probe"
      /\ apc' = "idle" => stage' = "running"
      /\ stage' = "probe" => stage \in {"kick", "probe"}
      /\ apc' \notin {"boot", "wait", "swap", "post"} /\ stage' # "none"
    BY <1>1 DEF NextStage, Stages
<1> QED BY <1>1, <1>4, <1>6, <1>7 DEF CmdInv, render

\* ExecPre executes the command, and no other step of the two threads can be between
\* the hand-over and it.
LEMMA CmdExecPre == IInv /\ CmdInv /\ ExecPre => CmdInv'
<1> SUFFICES ASSUME IInv, CmdInv, ExecPre PROVE CmdInv'
    OBVIOUS
<1>1. /\ rpc = "pre" /\ rpc' = "submit"
      /\ rendererCreated' = CreatedBy(LastPre) /\ rendererInitialized' = InitializedBy(LastPre)
      /\ UNCHANGED <<apc, stage, singleThreaded, slot, submit, frames, apiSem>>
    BY DEF ExecPre, apiVars, ctxVars, frameVars, semVars, CmdInv
<1>2. ~singleThreaded /\ apiSem = 0 /\ apc # "post" /\ stage \in Stages
    BY <1>1 DEF IInv, TypeOK, ModeInv, OnePermission, ApiHolds, RenderHolds, Rendering
<1>3. PrePending /\ ~PrePending' /\ Pending /\ Pending' /\ ~EndDone /\ ~EndDone'
    BY <1>1, <1>2 DEF PrePending, Pending, EndDone
<1>4. /\ LastPre' = LastPre /\ slot'[render'].pre = slot[render].pre
      /\ InitSent' <=> InitSent
      /\ BeginSent' <=> BeginSent
    BY <1>1 DEF LastPre, PreCmd, InitSent, BeginSent, Handshaking, render
<1>5. /\ LastPre = "RendererInit" => InitSent /\ ~BeginSent
      /\ LastPre = "RendererShutdownBegin" => InitSent /\ BeginSent
      /\ BeginSent => InitSent
    BY <1>2 DEF LastPre, InitSent, BeginSent, Handshaking, CmdInv
<1>6. /\ InitDone' <=> InitSent
      /\ BeginDone' <=> BeginSent
    BY <1>3, <1>4 DEF InitDone, BeginDone
<1>7. /\ rendererCreated <=> InitSent /\ LastPre # "RendererInit"
      /\ rendererInitialized <=> /\ InitSent /\ LastPre # "RendererInit"
                                 /\ ~(BeginSent /\ LastPre # "RendererShutdownBegin")
    BY <1>3 DEF CmdInv, InitDone, BeginDone
<1>8. (CreatedBy(LastPre) <=> InitSent) /\ (InitializedBy(LastPre) <=> InitSent /\ ~BeginSent)
    BY <1>5, <1>7 DEF CreatedBy, InitializedBy
<1>9. CreatedBy(LastPre) \in BOOLEAN /\ InitializedBy(LastPre) \in BOOLEAN
    BY DEF CreatedBy, InitializedBy, IInv, TypeOK
<1>10. rendererCreated' = (InitDone' /\ ~EndDone') /\ rendererInitialized' = (InitDone' /\ ~BeginDone')
    BY <1>1, <1>3, <1>6, <1>8, <1>9
<1> QED BY <1>1, <1>4, <1>10 DEF CmdInv

\* No step of the API thread breaks it: only Post and Swap move a command on.
LEMMA CmdApiStep == IInv /\ CmdInv /\ ApiNext => CmdInv'
<1> SUFFICES ASSUME IInv, CmdInv, ApiNext PROVE CmdInv'
    OBVIOUS
<1> USE DEF IInv, TypeOK, ModeInv, OnePermission, EndInv, LifeInv, HandshakeInv, ApiHolds, Kicking,
            RenderHolds, Rendering, Pending, Handshaking, render, apiVars, ctxVars, frameVars, semVars,
            rendVars, otherVars, APC, RPC, Stages, Slots, PreCmds, PostCmds, AllModes, EmptySlot,
            RenderSemFree, PreCmd, PostCmd, CmdInv, LastPre, InitSent, BeginSent, EndSent, PrePending,
            InitDone, BeginDone, EndDone
<1>1. CASE EarlyRenderFrame BY <1>1 DEF EarlyRenderFrame
<1>2. CASE InitContext BY <1>2 DEF InitContext
<1>3. CASE Call BY <1>3 DEF Call
<1>4. CASE UserFrame BY <1>4 DEF UserFrame
<1>5. CASE UserReset BY <1>5 DEF UserReset
<1>6. CASE UserShutdown BY <1>6 DEF UserShutdown
<1>7. CASE FrameWait BY <1>7 DEF FrameWait
<1>8. CASE Swap
    BY <1>8, CmdSwap
<1>9. CASE Post
    BY <1>9, CmdPost
<1>10. CASE CheckInitialized
    <2>1. /\ stage = "probe" /\ stage' = "transient1" /\ apc = "check" /\ apc' = "call"
          /\ UNCHANGED <<singleThreaded, slot, submit, frames, apiSem, rpc, rendererCreated,
                         rendererInitialized>>
        BY <1>10 DEF CheckInitialized, NextStage
    <2>2. LastPre = "none" /\ LastPre' = "none"
        BY <2>1
    <2>3. (InitDone' <=> InitDone) /\ (BeginDone' <=> BeginDone) /\ ~EndDone /\ ~EndDone'
        BY <2>1, <2>2
    <2>4. rendererCreated' = (InitDone' /\ ~EndDone') /\ rendererInitialized' = (InitDone' /\ ~BeginDone')
        BY <2>1, <2>3
    <2>5. slot'[render'].pre = LastPre'
        BY <2>1, <2>2
    <2> HIDE DEF LastPre, InitDone, BeginDone, EndDone
    <2> QED BY <2>1, <2>4, <2>5
<1>11. CASE ShutdownWait("wait1", "post1") BY <1>11 DEF ShutdownWait
<1>12. CASE ShutdownPost BY <1>12 DEF ShutdownPost
<1>13. CASE ShutdownWait("wait2", "join") BY <1>13 DEF ShutdownWait
<1>14. CASE Join BY <1>14 DEF Join
<1>15. CASE NullContext BY <1>15 DEF NullContext
<1>16. CASE DeleteContext BY <1>16 DEF DeleteContext
<1> QED
    BY <1>1, <1>2, <1>3, <1>4, <1>5, <1>6, <1>7, <1>8, <1>9, <1>10, <1>11, <1>12,
       <1>13, <1>14, <1>15, <1>16 DEF ApiNext

\* No step of the render thread does: only ExecPre and ExecPost execute a command.
LEMMA CmdRenderStep == IInv /\ CmdInv /\ RenderNext => CmdInv'
<1> SUFFICES ASSUME IInv, CmdInv, RenderNext PROVE CmdInv'
    OBVIOUS
<1> USE DEF IInv, TypeOK, ModeInv, OnePermission, EndInv, LifeInv, HandshakeInv, ApiHolds, Kicking,
            RenderHolds, Rendering, Pending, Handshaking, render, apiVars, ctxVars, frameVars, semVars,
            rendVars, otherVars, APC, RPC, Stages, Slots, PreCmds, PostCmds, AllModes, AfterRenderFrame,
            PreCmd, PostCmd, CmdInv, LastPre, InitSent, BeginSent, EndSent, PrePending,
            InitDone, BeginDone, EndDone
<1>1. CASE CheckContext BY <1>1 DEF CheckContext
<1>2. CASE Flip("flip", FALSE, "wait") BY <1>2 DEF Flip
<1>3. CASE TakeFrame BY <1>3 DEF TakeFrame
<1>4. CASE Block BY <1>4 DEF Block
<1>5. CASE Timeout BY <1>5 DEF Timeout
<1>6. CASE ExecPre BY <1>6, CmdExecPre
<1>7. CASE Submit BY <1>7 DEF Submit
<1>8. CASE ExecPost BY <1>8 DEF ExecPost
<1>9. CASE PostRender("sempost", "flipafter") BY <1>9 DEF PostRender
<1>10. CASE Flip("flipafter", TRUE, "result") BY <1>10 DEF Flip
<1>11. CASE Result BY <1>11 DEF Result
<1>12. CASE ExitWait BY <1>12 DEF ExitWait
<1>13. CASE ExitNull BY <1>13 DEF ExitNull
<1>14. CASE PostRender("exitpost", IF mode = "external" THEN "pump" ELSE "exited")
    BY <1>14 DEF PostRender
<1>15. CASE Pump BY <1>15 DEF Pump
<1> QED
    BY <1>1, <1>2, <1>3, <1>4, <1>5, <1>6, <1>7, <1>8, <1>9, <1>10, <1>11, <1>12,
       <1>13, <1>14, <1>15 DEF RenderNext

\* The render thread finds every command in the state its assertion asks for.
THEOREM CommandsInOrder == Spec => []CommandOrder
<1>1. IInv /\ CmdInv /\ [Next]_vars => CmdInv'
    <2> SUFFICES ASSUME IInv, CmdInv, [Next]_vars PROVE CmdInv'
        OBVIOUS
    <2>1. CASE UNCHANGED vars
        BY <2>1 DEF vars, apiVars, ctxVars, frameVars, semVars, rendVars, otherVars, render,
                    CmdInv, LastPre, InitSent, BeginSent, EndSent, PrePending, InitDone, BeginDone,
                    EndDone, Pending, Handshaking, PreCmd
    <2> QED BY <2>1, CmdApiStep, CmdRenderStep DEF Next, Terminated
<1>2. ASSUME IInv, CmdInv PROVE CommandOrder
    <2>1. apc = "check" => rendererInitialized /\ executed >= 1
        <3> SUFFICES ASSUME apc = "check" PROVE rendererInitialized /\ executed >= 1
            OBVIOUS
        <3>1. stage = "probe" /\ frames >= 2 /\ frames \in Nat /\ LastPre = "none"
            BY <1>2 DEF IInv, TypeOK, CmdInv, LastPre
        <3>2. InitDone /\ ~BeginDone
            BY <3>1 DEF InitDone, InitSent, BeginDone, BeginSent
        <3>3. rendererInitialized
            BY <1>2, <3>2 DEF CmdInv
        <3>4. executed \in {frames - 1, frames}
            BY <1>2 DEF IInv, ProgressInv
        <3> QED BY <3>1, <3>3, <3>4
    <2>2. ASSUME rpc = "pre"
          PROVE  /\ slot[render].pre = "RendererShutdownBegin" => rendererInitialized /\ rendererCreated
                 /\ slot[render].pre = "RendererInit" => ~rendererCreated
        <3>1. PrePending /\ ~EndDone /\ slot[render].pre = LastPre /\ apc # "post"
            BY <1>2, <2>2 DEF PrePending, Pending, EndDone, CmdInv, IInv, ModeInv, OnePermission, ApiHolds,
                              RenderHolds, Rendering
        <3>2. LastPre = "RendererShutdownBegin" => InitDone /\ ~BeginDone
            BY <1>2, <3>1 DEF LastPre, InitDone, InitSent, BeginDone, CmdInv
        <3>3. LastPre = "RendererInit" => ~InitDone
            BY <3>1 DEF InitDone
        <3> QED BY <1>2, <3>1, <3>2, <3>3 DEF CmdInv
    <2>3. ASSUME rpc = "cmdpost", slot[render].post = "RendererShutdownEnd"
          PROVE  rendererCreated /\ ~rendererInitialized /\ ~exit
        <3>1. ~singleThreaded /\ apc = "wait1" /\ ~exit /\ stage = "end"
            BY <1>2, <2>3 DEF IInv, TypeOK, APC, ModeInv, OnePermission, ApiHolds, RenderHolds, Rendering,
                              EndInv, HandshakeInv, Handshaking
        <3>2. LastPre = "none" /\ Pending
            BY <2>3, <3>1 DEF LastPre, Handshaking, Pending
        <3>3. InitDone /\ BeginDone /\ ~EndDone
            BY <3>1, <3>2 DEF InitDone, InitSent, BeginDone, BeginSent, EndDone
        <3> QED BY <1>2, <3>1, <3>3 DEF CmdInv
    <2> QED BY <2>1, <2>2, <2>3 DEF CommandOrder
<1> QED BY <1>1, <1>2, CmdInit, Invariance, PTL DEF Spec
=============================================================================
