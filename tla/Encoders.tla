------------------------------ MODULE Encoders ------------------------------
(***************************************************************************)
(* Recording draw calls from several threads (Context::begin, end, frame   *)
(* and encoderApiWait; EncoderImpl::begin, submit, dispatch and blit; all  *)
(* in src/bgfx/src/bgfx.cpp and bgfx_p.h).                                 *)
(*                                                                         *)
(* begin gives a thread one of the encoders; the API thread always has     *)
(* encoder 0.  Every encoder records into the Frame m_submit pointed to    *)
(* when it was begun: submit and dispatch claim a place with an atomic     *)
(* saturating add on m_numRenderItems and fill it afterwards, blit uses a  *)
(* plain counter.  frame waits until as many encoders have ended as were   *)
(* begun, takes all of them back and exchanges the Frames.                 *)
(*                                                                         *)
(* The order of the two threads that exchange frames is FrameSync; here    *)
(* the renderer has given back m_render whenever swap runs.                *)
(***************************************************************************)
EXTENDS Integers, FiniteSets

CONSTANTS
    Workers,        \* threads that record calls
    Api,            \* the API thread
    MaxEncoders,    \* limits.maxEncoders
    MaxDrawCalls,   \* BGFX_CONFIG_MAX_DRAW_CALLS
    MaxBlitItems,   \* BGFX_CONFIG_MAX_BLIT_ITEMS
    Kinds,          \* which of "draw" and "dispatch" the threads call
    Blitters,       \* the threads that call blit
    BeginAnytime,   \* may begin run while the API thread is inside frame
    MaxFrames,      \* bound: calls of frame
    MaxCalls        \* bound: calls an encoder records in a frame

Actors == Workers \union {Api}

ASSUME ActorsAssumption == Api \notin Workers /\ IsFiniteSet(Workers)
ASSUME LimitsAssumption ==
    /\ MaxEncoders \in Nat \ {0} /\ MaxDrawCalls \in Nat \ {0} /\ MaxBlitItems \in Nat
    /\ MaxFrames \in Nat /\ MaxCalls \in Nat
ASSUME UseAssumption ==
    Kinds \subseteq {"draw", "dispatch"} /\ Blitters \subseteq Actors /\ BeginAnytime \in BOOLEAN

VARIABLES
    numHandles,  \* m_encoderHandle: handles 0 .. numHandles-1 are in use
    encoders,    \* m_encoder: the Frame of each, and how many calls it recorded
    frame,       \* the two Frame objects: counters and items
    submit,      \* index of the Frame m_submit points to
    frames,      \* m_frames
    lock,        \* who holds m_encoderApiLock
    endSem,      \* count of m_encoderEndSem
    pc,          \* next step of each thread's recording
    enc,         \* the encoder each thread records with
    kind,        \* the call a thread is in
    seen,        \* the counter value a thread has read
    apc,         \* next step of the API thread's frame
    numEncoders, \* encoderApiWait: how many handles it saw
    waited       \* encoderApiWait: its loop variable

allocVars == <<numHandles, encoders>>
frameVars == <<frame, submit, frames>>
syncVars  == <<lock, endSem>>
callVars  == <<kind, seen>>
apiVars   == <<apc, numEncoders, waited>>
vars == <<allocVars, frameVars, syncVars, pc, enc, callVars, apiVars>>

NoOne == "no one"
NoEncoder == -1
NoItem == [frame |-> -1, enc |-> -1, no |-> -1]

EncoderIds == 0 .. MaxEncoders - 1
Places == 0 .. MaxDrawCalls - 1

\* What a recorded call is told apart by.
Items == [frame : 0 .. MaxFrames, enc : EncoderIds, no : 0 .. MaxCalls]

Frames == [numRenderItems : 0 .. MaxDrawCalls,
           item : [Places -> Items \union {NoItem}],
           numBlitItems : 0 .. MaxBlitItems]

TypeOK ==
    /\ numHandles \in 0 .. MaxEncoders
    /\ encoders \in [EncoderIds -> [frame : {0, 1}, submitted : Nat, blits : Nat]]
    /\ frame \in [{0, 1} -> Frames]
    /\ submit \in {0, 1}
    /\ frames \in 0 .. MaxFrames
    /\ lock \in Actors \union {NoOne}
    /\ endSem \in Nat
    /\ pc \in [Actors -> {"out", "init", "ready", "claim", "write", "blit"}]
    /\ enc \in [Actors -> EncoderIds \union {NoEncoder}]
    /\ kind \in [Actors -> {"draw", "dispatch"}]
    /\ seen \in [Actors -> Nat]
    /\ apc \in {"user", "count", "wait", "reset", "alloc", "lock", "swap", "begin0"}
    /\ numEncoders \in 0 .. MaxEncoders
    /\ waited \in Nat

EmptyFrame == [numRenderItems |-> 0, item |-> [i \in Places |-> NoItem], numBlitItems |-> 0]

\* After Context::init: handle 0 is taken and encoder 0 begun.
Init ==
    /\ numHandles = 1
    /\ encoders = [e \in EncoderIds |-> [frame |-> 1, submitted |-> 0, blits |-> 0]]
    /\ frame = [b \in {0, 1} |-> EmptyFrame]
    /\ submit = 1
    /\ frames = 0
    /\ lock = NoOne
    /\ endSem = 0
    /\ pc = [a \in Actors |-> IF a = Api THEN "ready" ELSE "out"]
    /\ enc = [a \in Actors |-> IF a = Api THEN 0 ELSE NoEncoder]
    /\ kind = [a \in Actors |-> "draw"]
    /\ seen = [a \in Actors |-> 0]
    /\ apc = "user"
    /\ numEncoders = 0
    /\ waited = 0

-----------------------------------------------------------------------------
(* A thread takes an encoder, records calls, and gives the encoder back.    *)

\* The application's part: without BeginAnytime no thread is inside begin while
\* the API thread is inside frame.
MayBegin == BeginAnytime \/ apc = "user"

\* Context::begin takes m_encoderApiLock and a handle.  NULL: all are in use.
Begin(w) ==
    /\ MayBegin
    /\ pc[w] = "out"
    /\ lock = NoOne
    /\ numHandles < MaxEncoders
    /\ numHandles' = numHandles + 1
    /\ enc' = [enc EXCEPT ![w] = numHandles]
    /\ lock' = w
    /\ pc' = [pc EXCEPT ![w] = "init"]
    /\ UNCHANGED <<encoders, frameVars, endSem, callVars, apiVars>>

\* EncoderImpl::begin(m_submit, idx), and the end of the lock's scope.
BeginEncoder(w) ==
    /\ pc[w] = "init"
    /\ encoders' = [encoders EXCEPT
          ![enc[w]] = [frame |-> submit, submitted |-> 0, blits |-> 0]]
    /\ lock' = NoOne
    /\ pc' = [pc EXCEPT ![w] = "ready"]
    /\ UNCHANGED <<numHandles, frameVars, endSem, enc, callVars, apiVars>>

\* The API thread records only between its calls of frame.
MayCall(a) == /\ pc[a] = "ready"
              /\ a = Api => apc = "user"
              /\ encoders[enc[a]].submitted + encoders[enc[a]].blits < MaxCalls

\* submit and dispatch: atomicFetchAndAddsat reads the counter first.
Call(a, k) ==
    /\ MayCall(a)
    /\ kind' = [kind EXCEPT ![a] = k]
    /\ seen' = [seen EXCEPT ![a] = frame[encoders[enc[a]].frame].numRenderItems]
    /\ pc' = [pc EXCEPT ![a] = "claim"]
    /\ UNCHANGED <<allocVars, frameVars, syncVars, enc, apiVars>>

\* The first place a call may not use any more.
Limit(k) == IF k = "draw" THEN MaxDrawCalls ELSE MaxDrawCalls - 1

\* The call returns; its local variables end.
Return(a) ==
    /\ pc' = [pc EXCEPT ![a] = "ready"]
    /\ kind' = [kind EXCEPT ![a] = "draw"]
    /\ seen' = [seen EXCEPT ![a] = 0]

\* A call that got no place is dropped.
Claimed(a) == IF seen[a] < Limit(kind[a])
                 THEN pc' = [pc EXCEPT ![a] = "write"] /\ UNCHANGED callVars
                 ELSE Return(a)

\* Bug: the counter is written without comparing it with what was read.
ClaimBlindly(a) ==
    LET b == encoders[enc[a]].frame
        atMax == seen[a] = MaxDrawCalls
    IN  /\ pc[a] = "claim"
        /\ frame' = [frame EXCEPT ![b].numRenderItems = IF atMax THEN @ ELSE seen[a] + 1]
        /\ Claimed(a)
        /\ UNCHANGED <<allocVars, submit, frames, syncVars, enc, apiVars>>

\* Bug: the add does not saturate.
ClaimNoLimit(a) ==
    LET b == encoders[enc[a]].frame IN
    /\ pc[a] = "claim"
    /\ frame[b].numRenderItems = seen[a]
    /\ frame' = [frame EXCEPT ![b].numRenderItems = @ + 1]
    /\ Claimed(a)
    /\ UNCHANGED <<allocVars, submit, frames, syncVars, enc, apiVars>>

\* Bug: after a failed compare-and-swap the old value is tried again.
ClaimRetryStale(a) ==
    LET b == encoders[enc[a]].frame IN
    /\ pc[a] = "claim"
    /\ IF frame[b].numRenderItems = seen[a] /\ seen[a] < MaxDrawCalls
          THEN frame' = [frame EXCEPT ![b].numRenderItems = @ + 1] /\ Claimed(a)
          ELSE UNCHANGED <<frame, pc, callVars>>
    /\ UNCHANGED <<allocVars, submit, frames, syncVars, enc, apiVars>>

\* The compare-and-swap of atomicFetchAndAddsat.  It is tried again with the
\* value found, unless the counter has reached its maximum.
Claim(a) ==
    LET b == encoders[enc[a]].frame
        found == frame[b].numRenderItems
        atMax == seen[a] = MaxDrawCalls
    IN  /\ pc[a] = "claim"
        /\ IF found = seen[a] \/ atMax
              THEN /\ frame' = [frame EXCEPT ![b].numRenderItems = IF atMax THEN @ ELSE @ + 1]
                   /\ Claimed(a)
              ELSE /\ seen' = [seen EXCEPT ![a] = found]
                   /\ UNCHANGED <<frame, pc, kind>>
        /\ UNCHANGED <<allocVars, submit, frames, syncVars, enc, apiVars>>

\* The call's key, state and bindings go into the place claimed.
Write(a) ==
    LET e == enc[a] IN
    /\ pc[a] = "write"
    /\ frame' = [frame EXCEPT ![encoders[e].frame].item[seen[a]] =
                    [frame |-> frames, enc |-> e, no |-> encoders[e].submitted]]
    /\ encoders' = [encoders EXCEPT ![e].submitted = @ + 1]
    /\ Return(a)
    /\ UNCHANGED <<numHandles, submit, frames, syncVars, enc, apiVars>>

\* blit: m_numBlitItems is tested, read and written without synchronisation.
Blit(a) ==
    LET n == frame[encoders[enc[a]].frame].numBlitItems IN
    /\ MayCall(a)
    /\ n < MaxBlitItems
    /\ seen' = [seen EXCEPT ![a] = n]
    /\ pc' = [pc EXCEPT ![a] = "blit"]
    /\ UNCHANGED <<allocVars, frameVars, syncVars, enc, kind, apiVars>>

BlitWrite(a) ==
    LET e == enc[a] IN
    /\ pc[a] = "blit"
    /\ frame' = [frame EXCEPT ![encoders[e].frame].numBlitItems = seen[a] + 1]
    /\ encoders' = [encoders EXCEPT ![e].blits = @ + 1]
    /\ Return(a)
    /\ UNCHANGED <<numHandles, submit, frames, syncVars, enc, apiVars>>

\* Context::end; the handle is not freed.  For encoder 0 it does nothing.
End(w) ==
    /\ pc[w] = "ready"
    /\ endSem' = IF enc[w] = 0 THEN endSem ELSE endSem + 1
    /\ enc' = [enc EXCEPT ![w] = NoEncoder]
    /\ pc' = [pc EXCEPT ![w] = "out"]
    /\ UNCHANGED <<allocVars, frameVars, lock, callVars, apiVars>>

-----------------------------------------------------------------------------
(* Context::frame on the API thread.                                        *)

FrameCall ==
    /\ apc = "user"
    /\ frames < MaxFrames
    /\ pc[Api] = "ready"
    /\ ~BeginAnytime => \A w \in Workers : pc[w] # "init"
    /\ apc' = "count"
    /\ UNCHANGED <<allocVars, frameVars, syncVars, pc, enc, callVars, numEncoders, waited>>

\* Bug: one encoder is not waited for.
CountFromTwo ==
    /\ apc = "count"
    /\ numEncoders' = numHandles
    /\ waited' = 2
    /\ apc' = "wait"
    /\ UNCHANGED <<allocVars, frameVars, syncVars, pc, enc, callVars>>

\* encoderApiWait reads the number of handles, without m_encoderApiLock.
Count ==
    /\ apc = "count"
    /\ numEncoders' = numHandles
    /\ waited' = 1
    /\ apc' = "wait"
    /\ UNCHANGED <<allocVars, frameVars, syncVars, pc, enc, callVars>>

WaitEnd ==
    /\ apc = "wait"
    /\ IF waited < numEncoders
          THEN /\ endSem > 0
               /\ endSem' = endSem - 1
               /\ waited' = waited + 1
               /\ UNCHANGED apc
          ELSE apc' = "reset" /\ UNCHANGED <<endSem, waited>>
    /\ UNCHANGED <<allocVars, frameVars, lock, pc, enc, callVars, numEncoders>>

\* Bug: the handles of the ended encoders are not taken back.
NoReset ==
    /\ apc = "reset"
    /\ apc' = "lock"
    /\ UNCHANGED <<allocVars, frameVars, syncVars, pc, enc, callVars, numEncoders, waited>>

\* m_encoderHandle->reset(), then alloc() for the API thread, whose encoder
\* handle is asserted to be 0: both still without the lock.
Reset ==
    /\ apc = "reset"
    /\ numHandles' = 0
    /\ apc' = "alloc"
    /\ UNCHANGED <<encoders, frameVars, syncVars, pc, enc, callVars, numEncoders, waited>>

Alloc0 ==
    /\ apc = "alloc"
    /\ numHandles' = IF numHandles < MaxEncoders THEN numHandles + 1 ELSE numHandles
    /\ apc' = "lock"
    /\ numEncoders' = 0 /\ waited' = 0
    /\ UNCHANGED <<encoders, frameVars, syncVars, pc, enc, callVars>>

Lock ==
    /\ apc = "lock"
    /\ lock = NoOne
    /\ lock' = Api
    /\ apc' = "swap"
    /\ UNCHANGED <<allocVars, frameVars, endSem, pc, enc, callVars, numEncoders, waited>>

\* Bug: the counters of the new m_submit keep their values.
SwapNoStart ==
    /\ apc = "swap"
    /\ submit' = 1 - submit
    /\ frames' = frames + 1
    /\ apc' = "begin0"
    /\ UNCHANGED <<allocVars, frame, syncVars, pc, enc, callVars, numEncoders, waited>>

\* swap: the Frames exchange roles and Frame::start clears the counters of the
\* new m_submit; its items are left as they are.
Swap ==
    /\ apc = "swap"
    /\ submit' = 1 - submit
    /\ frame' = [frame EXCEPT ![1 - submit].numRenderItems = 0, ![1 - submit].numBlitItems = 0]
    /\ frames' = frames + 1
    /\ apc' = "begin0"
    /\ UNCHANGED <<allocVars, syncVars, pc, enc, callVars, numEncoders, waited>>

\* m_encoder[0].begin(m_submit, 0), and the end of the lock's scope.
Begin0 ==
    /\ apc = "begin0"
    /\ encoders' = [encoders EXCEPT ![0] = [frame |-> submit, submitted |-> 0, blits |-> 0]]
    /\ lock' = NoOne
    /\ apc' = "user"
    /\ UNCHANGED <<numHandles, frameVars, endSem, pc, enc, callVars, numEncoders, waited>>

Finished == /\ frames = MaxFrames /\ apc = "user"
            /\ UNCHANGED vars

Recording(a) == Claim(a) \/ Write(a) \/ BlitWrite(a)
FrameStep == Count \/ WaitEnd \/ Reset \/ Alloc0 \/ Lock \/ Swap \/ Begin0

Next ==
    \/ \E w \in Workers : Begin(w) \/ BeginEncoder(w) \/ End(w)
    \/ \E a \in Actors : Recording(a) \/ \E k \in Kinds : Call(a, k)
    \/ \E a \in Blitters : Blit(a)
    \/ FrameCall \/ FrameStep
    \/ Finished

Spec == Init /\ [][Next]_vars

-----------------------------------------------------------------------------
(* Fairness: the threads are scheduled, and a thread that has begun an      *)
(* encoder ends it.                                                         *)

FairSpec ==
    /\ Spec
    /\ WF_vars(FrameStep)
    /\ \A a \in Actors : WF_vars(Recording(a))
    /\ \A w \in Workers : WF_vars(BeginEncoder(w)) /\ SF_vars(End(w))

-----------------------------------------------------------------------------
(* Properties.                                                              *)

HasEncoder(a) == pc[a] \in {"init", "ready", "claim", "write", "blit"}
InCall(a) == pc[a] \in {"claim", "write", "blit"}

EncoderExclusive ==
    \A a, b \in Actors : HasEncoder(a) /\ HasEncoder(b) /\ enc[a] = enc[b] => a = b

WritesOnlySubmit == \A a \in Actors : InCall(a) => encoders[enc[a]].frame = submit

\* bgfx.h: "Only one encoder per thread should be used": no two threads record with one
\* encoder, and encoder 0 stays with the API thread.  A thread writes to the Frame that
\* is being built, never to the one the renderer reads, however long it takes to end
\* its encoder.
EncodersSafe == EncoderExclusive /\ WritesOnlySubmit

\* Each begun encoder is waited for once: while the API thread is outside frame,
\* m_encoderEndSem counts the encoders of this frame that have ended.
EndSemBalance ==
    apc = "user" =>
        endSem + Cardinality({w \in Workers : HasEncoder(w)}) = numHandles - 1

\* The calls of this frame the encoders have counted.
Recorded == {x \in Items : /\ x.frame = frames /\ x.enc < numHandles
                           /\ x.no < encoders[x.enc].submitted}
Submitted == Cardinality(Recorded)

\* No thread is inside a call, and frame has not taken the encoders back.
Quiet == /\ \A a \in Actors : ~InCall(a) /\ pc[a] # "init"
         /\ apc \in {"user", "count", "wait", "reset"}

\* bgfx.h, Stats::numDraw and numCompute, "Number of draw calls submitted",
\* "Number of compute calls submitted": the renderer counts and draws the first
\* m_numRenderItems items.  Between calls, and so when frame hands them over, they
\* are the calls of this frame that were not dropped, and every place below the last
\* one holds one of them; only a dispatch at the last place leaves its place counted
\* and unwritten (1336).
DrawsSubmitted ==
    Quiet =>
        LET n == frame[submit].numRenderItems
            unwritten == "dispatch" \in Kinds /\ n = MaxDrawCalls
        IN  /\ Submitted = n \/ (unwritten /\ Submitted = n - 1)
            /\ \A i \in Places : i < n /\ i < MaxDrawCalls - 1
                  => frame[submit].item[i].frame = frames

\* The assertion of encoderApiWait: "Internal encoder handle is not 0".
InternalEncoderIsZero == apc = "alloc" => numHandles = 0

\* The calls of all threads make one list that frame hands over whole.
ItemsOf(b, no) ==
    {x \in {frame[b].item[i] : i \in 0 .. frame[b].numRenderItems - 1} : x.frame = no}

List == INSTANCE DrawList WITH
    Calls  <- Items,
    list   <- ItemsOf(submit, frames),
    handed <- ItemsOf(1 - submit, frames - 1)

DrawListSpec == List!ListSpec

\* frame returns once every thread has ended its encoder.
FrameReturns == apc = "count" ~> apc = "user"
=============================================================================
