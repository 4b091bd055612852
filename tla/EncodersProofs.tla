---------------------------- MODULE EncodersProofs ----------------------------
(* Proofs about Encoders for any number of threads, encoders, calls and frames, *)
(* where no thread begins an encoder while the API thread is inside frame.     *)
EXTENDS Encoders, FiniteSetTheorems, TLAPS

\* The encoders have been waited for.
Ended == apc \in {"reset", "alloc", "lock", "swap", "begin0"}

Begun(a) == pc[a] \in {"ready", "claim", "write", "blit"}

\* The API thread has encoder 0 and records only outside frame.
ApiInv ==
    /\ Begun(Api) /\ enc[Api] = 0
    /\ apc # "user" => pc[Api] = "ready"
    /\ apc # "begin0" => encoders[0].frame = submit
    /\ apc \notin {"user", "begin0"} => frames < MaxFrames

\* Each worker that has an encoder has one of its own, begun with m_submit, until it
\* has been waited for.
WorkerInv ==
    /\ \A w \in Workers :
          /\ HasEncoder(w) => enc[w] \in 1 .. numHandles - 1
          /\ Begun(w) => encoders[enc[w]].frame = submit
          /\ pc[w] = "init" => apc = "user"
          /\ Ended => pc[w] = "out"
    /\ \A v, w \in Workers : HasEncoder(v) /\ HasEncoder(w) /\ enc[v] = enc[w] => v = w

Has == {w \in Workers : HasEncoder(w)}

\* Every handle but 0 is counted once: by its worker, by the semaphore, or by the wait.
CountInv ==
    /\ apc = "alloc" <=> numHandles = 0
    /\ apc \in {"lock", "swap", "begin0"} => numHandles = 1
    /\ apc \in {"user", "count"} => endSem + Cardinality(Has) = numHandles - 1
    /\ apc = "wait" => /\ numEncoders = numHandles
                       /\ endSem + Cardinality(Has) = numHandles - waited
    /\ Ended => endSem = 0

\* The places claimed and not written yet are the threads' own, and a call that has
\* begun is within its bound.
CallInv ==
    /\ \A a \in Actors :
          /\ InCall(a) => encoders[enc[a]].submitted + encoders[enc[a]].blits < MaxCalls
          /\ pc[a] = "claim" => seen[a] <= MaxDrawCalls
          /\ pc[a] = "write" => seen[a] < frame[submit].numRenderItems
          /\ pc[a] = "blit" => seen[a] < MaxBlitItems
    /\ \A a, b \in Actors : pc[a] = "write" /\ pc[b] = "write" /\ seen[a] = seen[b] => a = b

\* Place i of the frame being built holds a call of this frame.
Fresh(i) == frame[submit].item[i].frame = frames

\* Such a place has been claimed, is nobody's to write any more, and the call is one that
\* its encoder has counted.
ItemInv ==
    /\ \A b \in {0, 1}, i \in Places : frame[b].item[i].frame <= frames
    /\ \A i \in Places : Fresh(i) =>
          /\ apc # "begin0"
          /\ i < frame[submit].numRenderItems
          /\ \A a \in Actors : pc[a] = "write" => seen[a] # i
          /\ apc \in {"user", "count", "wait", "reset"} =>
                LET x == frame[submit].item[i]
                IN  /\ x.enc < numHandles
                    /\ x.no < encoders[x.enc].submitted
                    /\ \A w \in Workers : pc[w] = "init" => enc[w] # x.enc

IInv == TypeOK /\ ApiInv /\ WorkerInv /\ CountInv /\ CallInv /\ ItemInv

LEMMA ApiNotWorker == Api \notin Workers /\ Api \in Actors /\ Workers \subseteq Actors
BY ActorsAssumption DEF Actors

LEMMA Ranges ==
    /\ MaxEncoders \in Nat \ {0} /\ MaxDrawCalls \in Nat \ {0} /\ MaxBlitItems \in Nat
    /\ MaxFrames \in Nat /\ MaxCalls \in Nat
    /\ \A e : e \in EncoderIds <=> e \in Int /\ 0 <= e /\ e < MaxEncoders
    /\ \A i : i \in Places <=> i \in Int /\ 0 <= i /\ i < MaxDrawCalls
BY LimitsAssumption DEF EncoderIds, Places

LEMMA HasFinite == IsFiniteSet(Has) /\ Cardinality(Has) \in Nat
<1>1. Has \subseteq Workers
    BY DEF Has
<1> QED BY <1>1, ActorsAssumption, FS_Subset, FS_CardinalityType

\* The encoder of a thread that has one.
LEMMA Mine ==
    ASSUME IInv, NEW a \in Actors, HasEncoder(a)
    PROVE  /\ enc[a] \in EncoderIds /\ enc[a] \in Int
           /\ (a = Api /\ enc[a] = 0) \/ (a \in Workers /\ enc[a] \in 1 .. numHandles - 1)
           /\ InCall(a) => encoders[enc[a]].frame = submit
<1>1. CASE a = Api
    BY <1>1, Ranges DEF IInv, ApiInv, InCall
<1>2. CASE a \in Workers
    BY <1>2, Ranges DEF IInv, TypeOK, WorkerInv, InCall, Begun
<1> QED BY <1>1, <1>2 DEF Actors

LEMMA Owner ==
    ASSUME IInv, NEW a \in Actors, NEW b \in Actors,
           HasEncoder(a), HasEncoder(b), enc[a] = enc[b]
    PROVE  a = b
BY Mine, Ranges DEF IInv, TypeOK, WorkerInv

LEMMA InitInv == Init => IInv
<1> SUFFICES ASSUME Init PROVE IInv
    OBVIOUS
<1>1. \A w \in Workers : pc[w] = "out"
    BY ApiNotWorker DEF Init
<1>2. pc[Api] = "ready" /\ enc[Api] = 0
    BY ApiNotWorker DEF Init
<1>3. TypeOK
    <2>1. EmptyFrame \in Frames
        BY Ranges DEF EmptyFrame, Frames
    <2> QED BY <2>1, Ranges DEF Init, TypeOK
<1>4. ApiInv
    BY <1>2, Ranges DEF Init, ApiInv, Begun
<1>5. WorkerInv
    BY <1>1 DEF Init, WorkerInv, HasEncoder, Begun
<1>6. CountInv
    <2>1. Has = {}
        BY <1>1 DEF Has, HasEncoder
    <2> QED BY <2>1, FS_EmptySet DEF Init, CountInv, Ended
<1>7. CallInv
    BY <1>1, <1>2 DEF CallInv, InCall, Actors
<1>8. ItemInv
    BY Ranges DEF Init, ItemInv, Fresh, EmptyFrame, NoItem
<1> QED BY <1>3, <1>4, <1>5, <1>6, <1>7, <1>8 DEF IInv

-----------------------------------------------------------------------------
(* Recording.                                                               *)

\* A step of a call leaves alone who has which encoder.
LEMMA CallKeeps ==
    ASSUME IInv, NEW a \in Actors, Begun(a), a = Api => apc = "user",
           NEW to \in {"ready", "claim", "write", "blit"}, pc' = [pc EXCEPT ![a] = to],
           UNCHANGED <<numHandles, submit, frames, endSem, enc, apc, numEncoders, waited>>,
           \A e \in EncoderIds : encoders'[e].frame = encoders[e].frame
    PROVE  ApiInv' /\ WorkerInv' /\ CountInv'
<1>1. \A b \in Actors : pc'[b] = IF b = a THEN to ELSE pc[b]
    BY DEF IInv, TypeOK
<1>2. \A b \in Actors : /\ HasEncoder(b)' <=> HasEncoder(b)
                        /\ Begun(b)' <=> Begun(b)
                        /\ pc'[b] = "init" <=> pc[b] = "init"
                        /\ pc'[b] = "out" <=> pc[b] = "out"
    BY <1>1 DEF HasEncoder, Begun
<1>3. ApiInv'
    BY <1>1, <1>2, ApiNotWorker, Ranges DEF IInv, ApiInv
<1>4. WorkerInv'
    <2>1. ASSUME NEW w \in Workers, Begun(w)' PROVE encoders'[enc'[w]].frame = submit'
        <3>1. HasEncoder(w) /\ Begun(w)
            BY <1>2, <2>1, ApiNotWorker DEF HasEncoder, Begun
        <3> QED BY <3>1, Mine, ApiNotWorker DEF IInv, WorkerInv
    <2> QED BY <1>2, <2>1, ApiNotWorker DEF IInv, WorkerInv, Ended
<1>5. CountInv'
    <2>1. Has' = Has
        BY <1>2, ApiNotWorker DEF Has
    <2> QED BY <2>1 DEF IInv, CountInv, Ended
<1> QED BY <1>3, <1>4, <1>5

\* MayCall lets the API thread record outside frame only.
LEMMA InCallUser ==
    ASSUME IInv, InCall(Api)
    PROVE  apc = "user"
BY DEF IInv, ApiInv, InCall

LEMMA CallStepInv ==
    ASSUME IInv, NEW a \in Actors, NEW k \in Kinds, Call(a, k)
    PROVE  IInv'
<1>1. /\ MayCall(a)
      /\ kind' = [kind EXCEPT ![a] = k]
      /\ seen' = [seen EXCEPT ![a] = frame[encoders[enc[a]].frame].numRenderItems]
      /\ pc' = [pc EXCEPT ![a] = "claim"]
      /\ UNCHANGED <<numHandles, encoders, frame, submit, frames, lock, endSem, enc>>
      /\ UNCHANGED <<apc, numEncoders, waited>>
    BY DEF Call, allocVars, frameVars, syncVars, apiVars
<1>2. Begun(a) /\ HasEncoder(a) /\ pc[a] = "ready"
    BY <1>1 DEF MayCall, Begun, HasEncoder
<1>3. enc[a] \in EncoderIds /\ encoders[enc[a]].frame \in {0, 1}
    BY <1>2, Mine DEF IInv, TypeOK
<1>4. frame[encoders[enc[a]].frame].numRenderItems \in 0 .. MaxDrawCalls
    BY <1>3 DEF IInv, TypeOK, Frames
<1>5. ApiInv' /\ WorkerInv' /\ CountInv'
    BY <1>1, <1>2, CallKeeps DEF MayCall
<1>6. TypeOK'
    <2>1. k \in {"draw", "dispatch"}
        BY UseAssumption
    <2> QED BY <1>1, <1>4, <2>1, Ranges DEF IInv, TypeOK
<1>7. \A b \in Actors : /\ pc'[b] = IF b = a THEN "claim" ELSE pc[b]
                        /\ b # a => seen'[b] = seen[b]
    BY <1>1 DEF IInv, TypeOK
<1>8. CallInv'
    <2>1. seen'[a] <= MaxDrawCalls
        BY <1>1, <1>4, Ranges DEF IInv, TypeOK
    <2>2. encoders'[enc'[a]].submitted + encoders'[enc'[a]].blits < MaxCalls
        BY <1>1 DEF MayCall
    <2> QED BY <1>1, <1>7, <2>1, <2>2 DEF IInv, CallInv, InCall
<1>9. ItemInv'
    BY <1>1, <1>7, ApiNotWorker DEF IInv, ItemInv, Fresh
<1> QED BY <1>5, <1>6, <1>8, <1>9 DEF IInv

LEMMA BlitInv ==
    ASSUME IInv, NEW a \in Actors, Blit(a)
    PROVE  IInv'
<1>1. /\ MayCall(a)
      /\ frame[encoders[enc[a]].frame].numBlitItems < MaxBlitItems
      /\ seen' = [seen EXCEPT ![a] = frame[encoders[enc[a]].frame].numBlitItems]
      /\ pc' = [pc EXCEPT ![a] = "blit"]
      /\ UNCHANGED <<numHandles, encoders, frame, submit, frames, lock, endSem, enc, kind>>
      /\ UNCHANGED <<apc, numEncoders, waited>>
    BY DEF Blit, allocVars, frameVars, syncVars, apiVars
<1>2. Begun(a) /\ HasEncoder(a) /\ pc[a] = "ready"
    BY <1>1 DEF MayCall, Begun, HasEncoder
<1>3. enc[a] \in EncoderIds /\ encoders[enc[a]].frame \in {0, 1}
    BY <1>2, Mine DEF IInv, TypeOK
<1>4. frame[encoders[enc[a]].frame].numBlitItems \in 0 .. MaxBlitItems
    BY <1>3 DEF IInv, TypeOK, Frames
<1>5. ApiInv' /\ WorkerInv' /\ CountInv'
    BY <1>1, <1>2, CallKeeps DEF MayCall
<1>6. TypeOK'
    BY <1>1, <1>4, Ranges DEF IInv, TypeOK
<1>7. \A b \in Actors : /\ pc'[b] = IF b = a THEN "blit" ELSE pc[b]
                        /\ b # a => seen'[b] = seen[b]
    BY <1>1 DEF IInv, TypeOK
<1>8. CallInv'
    <2>1. seen'[a] < MaxBlitItems
        BY <1>1, <1>4, Ranges DEF IInv, TypeOK
    <2>2. encoders'[enc'[a]].submitted + encoders'[enc'[a]].blits < MaxCalls
        BY <1>1 DEF MayCall
    <2> QED BY <1>1, <1>7, <2>1, <2>2 DEF IInv, CallInv, InCall
<1>9. ItemInv'
    BY <1>1, <1>7, ApiNotWorker DEF IInv, ItemInv, Fresh
<1> QED BY <1>5, <1>6, <1>8, <1>9 DEF IInv

\* What a thread in a call knows of its encoder and its Frame.
LEMMA InCallFacts ==
    ASSUME IInv, NEW a \in Actors, InCall(a)
    PROVE  /\ Begun(a) /\ HasEncoder(a) /\ (a = Api => apc = "user")
           /\ enc[a] \in EncoderIds /\ encoders[enc[a]].frame = submit
           /\ submit \in {0, 1} /\ frame[submit] \in Frames
           /\ apc \in {"user", "count", "wait"}
<1>1. Begun(a) /\ HasEncoder(a)
    BY DEF InCall, Begun, HasEncoder
<1>2. enc[a] \in EncoderIds /\ encoders[enc[a]].frame = submit
    BY <1>1, Mine
<1>3. apc \in {"user", "count", "wait"}
    <2>1. CASE a = Api
        BY <2>1, InCallUser
    <2>2. CASE a \in Workers
        BY <2>2 DEF IInv, TypeOK, WorkerInv, Ended, InCall
    <2> QED BY <2>1, <2>2 DEF Actors
<1> QED BY <1>1, <1>2, <1>3, InCallUser DEF IInv, TypeOK

LEMMA ClaimInv ==
    ASSUME IInv, NEW a \in Actors, Claim(a)
    PROVE  IInv'
<1> DEFINE n == frame[submit].numRenderItems
           atMax == seen[a] = MaxDrawCalls
<1>1. InCall(a) /\ pc[a] = "claim"
    BY DEF Claim, InCall
<1>2. /\ Begun(a) /\ HasEncoder(a) /\ (a = Api => apc = "user")
      /\ enc[a] \in EncoderIds /\ encoders[enc[a]].frame = submit
      /\ submit \in {0, 1} /\ frame[submit] \in Frames
      /\ apc \in {"user", "count", "wait"}
    BY <1>1, InCallFacts
<1>3. UNCHANGED <<numHandles, encoders, submit, frames, lock, endSem, enc, apc, numEncoders, waited>>
    BY DEF Claim, allocVars, syncVars, apiVars
<1>4. n \in 0 .. MaxDrawCalls /\ seen[a] \in 0 .. MaxDrawCalls
    BY <1>1, <1>2, Ranges DEF IInv, TypeOK, CallInv, Frames
\* The step either reads again, or returns, or has claimed the place it read.
<1>5. \/ /\ n # seen[a] /\ ~atMax
         /\ seen' = [seen EXCEPT ![a] = n]
         /\ UNCHANGED <<frame, pc, kind>>
      \/ /\ atMax
         /\ frame' = [frame EXCEPT ![submit].numRenderItems = n]
         /\ Return(a)
      \/ /\ n = seen[a] /\ ~atMax
         /\ frame' = [frame EXCEPT ![submit].numRenderItems = n + 1]
         /\ \/ pc' = [pc EXCEPT ![a] = "write"] /\ UNCHANGED <<kind, seen>>
            \/ Return(a)
    <2>1. CASE n = seen[a] \/ atMax
        <3>1. /\ frame' = [frame EXCEPT ![submit].numRenderItems = IF atMax THEN n ELSE n + 1]
              /\ Claimed(a)
            BY <1>2, <2>1 DEF Claim
        <3>2. Limit(kind[a]) \in {MaxDrawCalls, MaxDrawCalls - 1}
            BY DEF Limit
        <3>3. atMax => ~(seen[a] < Limit(kind[a]))
            BY <3>2, Ranges
        <3> QED BY <2>1, <3>1, <3>3 DEF Claimed, callVars
    <2>2. CASE ~(n = seen[a] \/ atMax)
        BY <1>2, <2>2 DEF Claim
    <2> QED BY <2>1, <2>2
<1>6. CASE n # seen[a] /\ ~atMax /\ seen' = [seen EXCEPT ![a] = n] /\ UNCHANGED <<frame, pc, kind>>
    <2>1. TypeOK'
        BY <1>3, <1>4, <1>6, Ranges DEF IInv, TypeOK
    <2>2. ApiInv' /\ WorkerInv' /\ CountInv'
        BY <1>3, <1>6 DEF IInv, ApiInv, WorkerInv, CountInv, Has, HasEncoder, Begun, Ended
    <2>3. seen'[a] = n /\ \A b \in Actors : b # a => seen'[b] = seen[b]
        BY <1>6 DEF IInv, TypeOK
    <2>4. CallInv'
        BY <1>1, <1>3, <1>4, <1>6, <2>3 DEF IInv, CallInv, InCall
    <2>5. ItemInv'
        BY <1>1, <1>3, <1>6, <2>3 DEF IInv, ItemInv, Fresh
    <2> QED BY <2>1, <2>2, <2>4, <2>5 DEF IInv
<1>7. ASSUME NEW m \in n .. MaxDrawCalls, frame' = [frame EXCEPT ![submit].numRenderItems = m],
             NEW to \in {"ready", "write"}, pc' = [pc EXCEPT ![a] = to],
             kind' \in [Actors -> {"draw", "dispatch"}], seen' \in [Actors -> Nat],
             \A b \in Actors : b # a => seen'[b] = seen[b],
             to = "write" => seen'[a] = n /\ m = n + 1
      PROVE  IInv'
    <2>1. /\ frame'[submit] \in Frames /\ frame' \in [{0, 1} -> Frames]
          /\ frame'[submit].numRenderItems = m
          /\ \A b \in {0, 1} : frame'[b].item = frame[b].item
        <3>1. [frame[submit] EXCEPT !.numRenderItems = m] \in Frames
            BY <1>2, <1>4, Ranges DEF Frames
        <3>2. frame'[submit] = [frame[submit] EXCEPT !.numRenderItems = m]
            BY <1>2, <1>7 DEF IInv, TypeOK
        <3>3. \A b \in {0, 1} : b # submit => frame'[b] = frame[b]
            BY <1>7 DEF IInv, TypeOK
        <3> QED BY <1>2, <1>7, <3>1, <3>2, <3>3 DEF IInv, TypeOK, Frames
    <2>2. \A b \in Actors : pc'[b] = IF b = a THEN to ELSE pc[b]
        BY <1>7 DEF IInv, TypeOK
    <2>3. TypeOK'
        BY <1>3, <1>7, <2>1 DEF IInv, TypeOK
    <2>4. ApiInv' /\ WorkerInv' /\ CountInv'
        BY <1>2, <1>3, <1>7, CallKeeps
    <2>5. CallInv'
        <3>1. ASSUME NEW b \in Actors, pc'[b] = "write"
              PROVE  /\ b # a => pc[b] = "write" /\ seen'[b] = seen[b] /\ seen[b] < n
                     /\ b = a => seen'[b] = n /\ m = n + 1
            BY <1>7, <2>2, <3>1 DEF IInv, CallInv
        <3>2. ASSUME NEW b \in Actors
              PROVE  /\ InCall(b)' => encoders'[enc'[b]].submitted + encoders'[enc'[b]].blits < MaxCalls
                     /\ pc'[b] = "claim" => seen'[b] <= MaxDrawCalls
                     /\ pc'[b] = "blit" => seen'[b] < MaxBlitItems
            BY <1>1, <1>3, <1>7, <2>2 DEF IInv, CallInv, InCall
        <3>3. ASSUME NEW b \in Actors, pc'[b] = "write" PROVE seen'[b] < frame'[submit'].numRenderItems
            BY <1>3, <1>4, <1>7, <2>1, <3>1, <3>3 DEF IInv, TypeOK
        <3>4. ASSUME NEW b \in Actors, NEW c \in Actors, pc'[b] = "write", pc'[c] = "write",
                     seen'[b] = seen'[c]
              PROVE  b = c
            BY <1>4, <3>1, <3>4 DEF IInv, TypeOK, CallInv
        <3> QED BY <3>2, <3>3, <3>4 DEF CallInv
    <2>6. ItemInv'
        <3>1. \A i \in Places : Fresh(i)' <=> Fresh(i)
            BY <1>2, <1>3, <2>1 DEF Fresh
        <3>2. ASSUME NEW i \in Places, Fresh(i)'
              PROVE  /\ i < frame'[submit'].numRenderItems
                     /\ \A b \in Actors : pc'[b] = "write" => seen'[b] # i
            <4>1. i < n /\ \A b \in Actors : pc[b] = "write" => seen[b] # i
                BY <3>1, <3>2 DEF IInv, ItemInv
            <4> QED BY <1>3, <1>4, <1>7, <2>1, <2>2, <4>1, Ranges
        <3>3. \A b \in Actors : pc'[b] = "init" => pc[b] = "init"
            BY <1>7, <2>2
        <3> QED BY <1>2, <1>3, <2>1, <3>1, <3>2, <3>3, ApiNotWorker DEF IInv, ItemInv
    <2> QED BY <2>3, <2>4, <2>5, <2>6 DEF IInv
<1>8. ASSUME Return(a), NEW m \in n .. MaxDrawCalls, frame' = [frame EXCEPT ![submit].numRenderItems = m]
      PROVE  IInv'
    <2>1. /\ pc' = [pc EXCEPT ![a] = "ready"]
          /\ kind' \in [Actors -> {"draw", "dispatch"}] /\ seen' \in [Actors -> Nat]
          /\ \A b \in Actors : b # a => seen'[b] = seen[b]
        BY <1>8 DEF Return, IInv, TypeOK
    <2> QED BY <1>7, <1>8, <2>1
<1>9. ASSUME n = seen[a], ~atMax, pc' = [pc EXCEPT ![a] = "write"], UNCHANGED <<kind, seen>>,
             frame' = [frame EXCEPT ![submit].numRenderItems = n + 1]
      PROVE  IInv'
    <2>1. n + 1 \in n .. MaxDrawCalls
        BY <1>4, <1>9, Ranges
    <2> QED BY <1>7, <1>9, <2>1 DEF IInv, TypeOK
<1> QED
    <2>1. n \in n .. MaxDrawCalls /\ (n = seen[a] /\ ~atMax => n + 1 \in n .. MaxDrawCalls)
        BY <1>4, Ranges
    <2> QED BY <1>5, <1>6, <1>8, <1>9, <2>1

LEMMA ReturnFacts ==
    ASSUME IInv, NEW a \in Actors, Return(a)
    PROVE  /\ pc' = [pc EXCEPT ![a] = "ready"]
           /\ pc' \in [Actors -> {"out", "init", "ready", "claim", "write", "blit"}]
           /\ kind' \in [Actors -> {"draw", "dispatch"}] /\ seen' \in [Actors -> Nat]
           /\ \A b \in Actors : /\ pc'[b] = IF b = a THEN "ready" ELSE pc[b]
                                /\ b # a => seen'[b] = seen[b]
BY DEF Return, IInv, TypeOK

\* A thread that returns disturbs no other thread's call.
LEMMA ReturnCallInv ==
    ASSUME IInv, NEW a \in Actors, InCall(a), Return(a), enc' = enc,
           frame'[submit'].numRenderItems = frame[submit].numRenderItems,
           \A d \in EncoderIds \ {enc[a]} : encoders'[d] = encoders[d]
    PROVE  CallInv'
<1>1. /\ pc' = [pc EXCEPT ![a] = "ready"]
      /\ \A b \in Actors : /\ pc'[b] = IF b = a THEN "ready" ELSE pc[b]
                           /\ b # a => seen'[b] = seen[b]
    BY ReturnFacts
<1>2. ASSUME NEW b \in Actors, InCall(b)'
      PROVE  b # a /\ InCall(b) /\ encoders'[enc'[b]] = encoders[enc[b]] /\ seen'[b] = seen[b]
    <2>1. b # a /\ InCall(b) /\ seen'[b] = seen[b]
        BY <1>1, <1>2 DEF InCall
    <2>2. enc[b] \in EncoderIds /\ enc[b] # enc[a]
        BY <2>1, InCallFacts, Owner
    <2> QED BY <2>1, <2>2
<1>3. ASSUME NEW b \in Actors
      PROVE  /\ InCall(b)' => encoders'[enc'[b]].submitted + encoders'[enc'[b]].blits < MaxCalls
             /\ pc'[b] = "claim" => seen'[b] <= MaxDrawCalls
             /\ pc'[b] = "write" => seen'[b] < frame'[submit'].numRenderItems
             /\ pc'[b] = "blit" => seen'[b] < MaxBlitItems
    <2>1. InCall(b)' => encoders'[enc'[b]].submitted + encoders'[enc'[b]].blits < MaxCalls
        BY <1>2 DEF IInv, CallInv
    <2>2. \A v \in {"claim", "write", "blit"} : pc'[b] = v => pc[b] = v /\ seen'[b] = seen[b]
        BY <1>1
    <2> QED BY <2>1, <2>2 DEF IInv, CallInv
<1>4. \A b \in Actors : pc'[b] = "write" => pc[b] = "write" /\ seen'[b] = seen[b]
    BY <1>1
<1>5. \A b, c \in Actors : pc'[b] = "write" /\ pc'[c] = "write" /\ seen'[b] = seen'[c] => b = c
    BY <1>4 DEF IInv, CallInv
<1> QED BY <1>3, <1>5 DEF CallInv

\* Write fills the place its thread has claimed, and nothing else.
LEMMA WriteFacts ==
    ASSUME IInv, NEW a \in Actors, Write(a)
    PROVE  LET call == [frame |-> frames, enc |-> enc[a], no |-> encoders[enc[a]].submitted]
           IN  /\ UNCHANGED <<submit, frames>>
               /\ seen[a] \in Places /\ seen[a] < frame[submit].numRenderItems
               /\ call \in Items /\ enc[a] \in EncoderIds
               /\ frame' \in [{0, 1} -> Frames]
               /\ frame'[submit].numRenderItems = frame[submit].numRenderItems
               /\ frame'[1 - submit] = frame[1 - submit]
               /\ \A b \in {0, 1}, i \in Places : frame'[b].item[i] =
                      IF b = submit /\ i = seen[a] THEN call ELSE frame[b].item[i]
<1> DEFINE e == enc[a]
           n == frame[submit].numRenderItems
           call == [frame |-> frames, enc |-> e, no |-> encoders[e].submitted]
<1>1. InCall(a) /\ pc[a] = "write"
    BY DEF Write, InCall
<1>2. /\ Begun(a) /\ HasEncoder(a) /\ (a = Api => apc = "user")
      /\ e \in EncoderIds /\ encoders[e].frame = submit
      /\ submit \in {0, 1} /\ frame[submit] \in Frames
      /\ apc \in {"user", "count", "wait"}
    BY <1>1, InCallFacts
<1>3. /\ UNCHANGED <<numHandles, submit, frames, lock, endSem, enc, apc, numEncoders, waited>>
      /\ frame' = [frame EXCEPT ![submit].item[seen[a]] = call]
      /\ encoders' = [encoders EXCEPT ![e].submitted = @ + 1]
      /\ Return(a)
    BY <1>2 DEF Write, syncVars, apiVars
<1>4. n \in 0 .. MaxDrawCalls /\ seen[a] < n /\ seen[a] \in Places
    BY <1>1, <1>2, Ranges DEF IInv, TypeOK, CallInv, Frames
<1>5. call \in Items
    <2>1. encoders[e] \in [frame : {0, 1}, submitted : Nat, blits : Nat]
        BY <1>2 DEF IInv, TypeOK
    <2>2. encoders[e].submitted + encoders[e].blits < MaxCalls
        BY <1>1 DEF IInv, CallInv
    <2>3. encoders[e].submitted \in 0 .. MaxCalls
        BY <2>1, <2>2, Ranges
    <2> QED BY <1>2, <2>3 DEF Items, IInv, TypeOK
<1>6. /\ frame' \in [{0, 1} -> Frames] /\ frame'[submit].numRenderItems = n
      /\ frame'[1 - submit] = frame[1 - submit]
      /\ \A b \in {0, 1}, i \in Places :
            frame'[b].item[i] = IF b = submit /\ i = seen[a] THEN call ELSE frame[b].item[i]
    <2>1. frame'[submit] = [frame[submit] EXCEPT !.item = [frame[submit].item EXCEPT ![seen[a]] = call]]
        BY <1>2, <1>3 DEF IInv, TypeOK
    <2>2. [frame[submit].item EXCEPT ![seen[a]] = call] \in [Places -> Items \union {NoItem}]
        BY <1>2, <1>5 DEF Frames
    <2>3. frame'[submit] \in Frames
        BY <1>2, <2>1, <2>2 DEF Frames
    <2>4. \A b \in {0, 1} : b # submit => frame'[b] = frame[b]
        BY <1>3 DEF IInv, TypeOK
    <2>5. frame'[submit].numRenderItems = n
          /\ frame'[submit].item = [frame[submit].item EXCEPT ![seen[a]] = call]
        BY <1>2, <2>1 DEF Frames
    <2>6. frame' \in [{0, 1} -> Frames]
        BY <1>3, <2>3, <2>4 DEF IInv, TypeOK
    <2>7. \A i \in Places : frame'[submit].item[i] = IF i = seen[a] THEN call ELSE frame[submit].item[i]
        BY <1>2, <2>5 DEF Frames
    <2>8. frame'[1 - submit] = frame[1 - submit]
        <3>1. 1 - submit \in {0, 1} /\ 1 - submit # submit
            BY <1>2
        <3> QED BY <2>4, <3>1
    <2>9. ASSUME NEW b \in {0, 1}, NEW i \in Places
          PROVE  frame'[b].item[i] = IF b = submit /\ i = seen[a] THEN call ELSE frame[b].item[i]
        BY <2>4, <2>7
    <2> QED BY <2>5, <2>6, <2>8, <2>9
<1> QED BY <1>2, <1>3, <1>4, <1>5, <1>6

LEMMA WriteInv ==
    ASSUME IInv, NEW a \in Actors, Write(a)
    PROVE  IInv'
<1> DEFINE e == enc[a]
           n == frame[submit].numRenderItems
           call == [frame |-> frames, enc |-> e, no |-> encoders[e].submitted]
<1>1. InCall(a) /\ pc[a] = "write"
    BY DEF Write, InCall
<1>2. /\ Begun(a) /\ HasEncoder(a) /\ (a = Api => apc = "user")
      /\ e \in EncoderIds /\ encoders[e].frame = submit
      /\ submit \in {0, 1} /\ frame[submit] \in Frames
      /\ apc \in {"user", "count", "wait"}
    BY <1>1, InCallFacts
<1>3. /\ UNCHANGED <<numHandles, submit, frames, lock, endSem, enc, apc, numEncoders, waited>>
      /\ encoders' = [encoders EXCEPT ![e].submitted = @ + 1]
      /\ Return(a)
    BY <1>2 DEF Write, syncVars, apiVars
<1>4. /\ pc' = [pc EXCEPT ![a] = "ready"]
      /\ pc' \in [Actors -> {"out", "init", "ready", "claim", "write", "blit"}]
      /\ kind' \in [Actors -> {"draw", "dispatch"}] /\ seen' \in [Actors -> Nat]
      /\ \A b \in Actors : /\ pc'[b] = IF b = a THEN "ready" ELSE pc[b]
                           /\ b # a => seen'[b] = seen[b]
    BY <1>3, ReturnFacts
<1>5. /\ n \in 0 .. MaxDrawCalls /\ seen[a] < n /\ seen[a] \in Places
      /\ frame' \in [{0, 1} -> Frames] /\ frame'[submit].numRenderItems = n
      /\ \A b \in {0, 1}, i \in Places :
            frame'[b].item[i] = IF b = submit /\ i = seen[a] THEN call ELSE frame[b].item[i]
    BY <1>2, WriteFacts DEF Frames
<1>6. /\ encoders' \in [EncoderIds -> [frame : {0, 1}, submitted : Nat, blits : Nat]]
      /\ \A d \in EncoderIds :
            /\ encoders'[d].frame = encoders[d].frame /\ encoders'[d].blits = encoders[d].blits
            /\ encoders'[d].submitted = IF d = e THEN encoders[d].submitted + 1
                                                 ELSE encoders[d].submitted
    BY <1>2, <1>3 DEF IInv, TypeOK
<1>7. TypeOK'
    BY <1>3, <1>4, <1>5, <1>6 DEF IInv, TypeOK
<1>8. ApiInv' /\ WorkerInv' /\ CountInv'
    BY <1>2, <1>3, <1>4, <1>6, CallKeeps
<1>9. CallInv'
    BY <1>1, <1>2, <1>3, <1>5, <1>6, ReturnCallInv DEF IInv, TypeOK
<1>10. ItemInv'
    <2>1. \A b \in {0, 1}, i \in Places : frame'[b].item[i].frame <= frames'
        <3>1. call.frame <= frames
            BY DEF IInv, TypeOK
        <3> QED BY <1>3, <1>5, <3>1 DEF IInv, ItemInv
    <2>2. \A b \in Actors : pc'[b] = "write" => b # a /\ pc[b] = "write" /\ seen'[b] = seen[b]
        BY <1>4
    <2>3. \A w \in Workers : pc'[w] = "init" => w # a /\ pc[w] = "init"
        BY <1>4, ApiNotWorker
    <2>4. ASSUME NEW i \in Places, Fresh(i)', i # seen[a]
          PROVE  /\ i < frame'[submit'].numRenderItems
                 /\ \A b \in Actors : pc'[b] = "write" => seen'[b] # i
                 /\ frame'[submit'].item[i].enc < numHandles'
                 /\ frame'[submit'].item[i].no < encoders'[frame'[submit'].item[i].enc].submitted
                 /\ \A w \in Workers : pc'[w] = "init" => enc'[w] # frame'[submit'].item[i].enc
        <3> DEFINE x == frame[submit].item[i]
        <3>1. frame'[submit'].item[i] = x /\ Fresh(i)
            BY <1>2, <1>3, <1>5, <2>4 DEF Fresh
        <3>2. x \in Items
            BY <1>2, <3>1, Ranges DEF Fresh, Frames, NoItem, IInv, TypeOK
        <3>3. x.enc \in EncoderIds /\ x.no \in Nat
            BY <3>2, Ranges DEF Items
        <3>4. /\ i < n /\ x.enc < numHandles /\ x.no < encoders[x.enc].submitted
              /\ \A b \in Actors : pc[b] = "write" => seen[b] # i
              /\ \A w \in Workers : pc[w] = "init" => enc[w] # x.enc
            BY <1>2, <3>1 DEF IInv, ItemInv
        <3>5. x.no < encoders'[x.enc].submitted
            BY <1>6, <3>3, <3>4 DEF IInv, TypeOK
        <3> QED BY <1>3, <1>5, <2>2, <2>3, <3>1, <3>4, <3>5
    <2>5. /\ seen[a] < frame'[submit'].numRenderItems
          /\ \A b \in Actors : pc'[b] = "write" => seen'[b] # seen[a]
          /\ frame'[submit'].item[seen[a]] = call /\ call.enc < numHandles'
          /\ call.no < encoders'[call.enc].submitted
          /\ \A w \in Workers : pc'[w] = "init" => enc'[w] # call.enc
        <3>1. \A b \in Actors : pc'[b] = "write" => seen'[b] # seen[a]
            BY <1>1, <2>2 DEF IInv, CallInv
        <3>2. e < numHandles
            <4>1. CASE a = Api
                <5>1. numHandles >= 1
                    BY <1>2, <4>1, HasFinite DEF IInv, TypeOK, CountInv
                <5> QED BY <1>2, <4>1, <5>1 DEF IInv, ApiInv, TypeOK
            <4>2. CASE a \in Workers
                BY <1>2, <4>2 DEF IInv, WorkerInv, TypeOK
            <4> QED BY <4>1, <4>2 DEF Actors
        <3>3. \A w \in Workers : pc'[w] = "init" => enc'[w] # e
            BY <1>2, <1>3, <2>3, Owner, ApiNotWorker DEF HasEncoder
        <3>4. encoders[e].submitted < encoders'[e].submitted
            BY <1>2, <1>6 DEF IInv, TypeOK
        <3> QED BY <1>2, <1>3, <1>5, <1>5, <3>1, <3>2, <3>3, <3>4
    <2> QED BY <1>2, <1>3, <2>1, <2>4, <2>5 DEF ItemInv
<1> QED BY <1>7, <1>8, <1>9, <1>10 DEF IInv

LEMMA BlitWriteInv ==
    ASSUME IInv, NEW a \in Actors, BlitWrite(a)
    PROVE  IInv'
<1> DEFINE e == enc[a]
<1>1. InCall(a) /\ pc[a] = "blit"
    BY DEF BlitWrite, InCall
<1>2. /\ Begun(a) /\ HasEncoder(a) /\ (a = Api => apc = "user")
      /\ e \in EncoderIds /\ encoders[e].frame = submit
      /\ submit \in {0, 1} /\ frame[submit] \in Frames
      /\ apc \in {"user", "count", "wait"}
    BY <1>1, InCallFacts
<1>3. /\ UNCHANGED <<numHandles, submit, frames, lock, endSem, enc, apc, numEncoders, waited>>
      /\ frame' = [frame EXCEPT ![submit].numBlitItems = seen[a] + 1]
      /\ encoders' = [encoders EXCEPT ![e].blits = @ + 1]
      /\ Return(a)
    BY <1>2 DEF BlitWrite, syncVars, apiVars
<1>4. /\ pc' = [pc EXCEPT ![a] = "ready"]
      /\ pc' \in [Actors -> {"out", "init", "ready", "claim", "write", "blit"}]
      /\ kind' \in [Actors -> {"draw", "dispatch"}] /\ seen' \in [Actors -> Nat]
      /\ \A b \in Actors : /\ pc'[b] = IF b = a THEN "ready" ELSE pc[b]
                           /\ b # a => seen'[b] = seen[b]
    BY <1>3, ReturnFacts
<1>5. seen[a] + 1 \in 0 .. MaxBlitItems
    BY <1>1, Ranges DEF IInv, TypeOK, CallInv
<1>6. /\ frame' \in [{0, 1} -> Frames]
      /\ \A b \in {0, 1} : /\ frame'[b].numRenderItems = frame[b].numRenderItems
                           /\ frame'[b].item = frame[b].item
    <2>1. frame'[submit] = [frame[submit] EXCEPT !.numBlitItems = seen[a] + 1]
        BY <1>2, <1>3 DEF IInv, TypeOK
    <2>2. frame'[submit] \in Frames
        BY <1>2, <1>5, <2>1 DEF Frames
    <2>3. \A b \in {0, 1} : b # submit => frame'[b] = frame[b]
        BY <1>3 DEF IInv, TypeOK
    <2>4. frame' \in [{0, 1} -> Frames]
        BY <1>3, <2>2, <2>3 DEF IInv, TypeOK
    <2> QED BY <1>2, <2>1, <2>3, <2>4 DEF Frames
<1>7. /\ encoders' \in [EncoderIds -> [frame : {0, 1}, submitted : Nat, blits : Nat]]
      /\ \A d \in EncoderIds : /\ encoders'[d].frame = encoders[d].frame
                               /\ encoders'[d].submitted = encoders[d].submitted
    BY <1>2, <1>3 DEF IInv, TypeOK
<1>8. TypeOK'
    BY <1>3, <1>4, <1>6, <1>7 DEF IInv, TypeOK
<1>9. ApiInv' /\ WorkerInv' /\ CountInv'
    BY <1>2, <1>3, <1>4, <1>7, CallKeeps
<1>10. CallInv'
    BY <1>1, <1>2, <1>3, <1>6, ReturnCallInv DEF IInv, TypeOK
<1>11. ItemInv'
    <2>1. ASSUME NEW i \in Places, Fresh(i)'
          PROVE  Fresh(i) /\ frame'[submit'].item[i] = frame[submit].item[i]
                 /\ encoders'[frame[submit].item[i].enc].submitted
                        = encoders[frame[submit].item[i].enc].submitted
        <3>1. Fresh(i) /\ frame'[submit'].item[i] = frame[submit].item[i]
            BY <1>2, <1>3, <1>6, <2>1 DEF Fresh
        <3>2. frame[submit].item[i] \in Items
            BY <1>2, <3>1, Ranges DEF Fresh, Frames, NoItem, IInv, TypeOK
        <3> QED BY <1>7, <3>1, <3>2 DEF Items
    <2>2. \A b \in {0, 1}, i \in Places : frame'[b].item[i].frame <= frames'
        BY <1>3, <1>6 DEF IInv, ItemInv
    <2>3. \A b \in Actors : pc'[b] = "write" => pc[b] = "write" /\ seen'[b] = seen[b]
        BY <1>4
    <2>4. \A w \in Workers : pc'[w] = "init" => pc[w] = "init"
        BY <1>4, ApiNotWorker
    <2> QED BY <1>2, <1>3, <1>6, <2>1, <2>2, <2>3, <2>4 DEF IInv, ItemInv
<1> QED BY <1>8, <1>9, <1>10, <1>11 DEF IInv

-----------------------------------------------------------------------------
(* Taking and giving back an encoder.                                       *)

LEMMA BeginInv ==
    ASSUME IInv, ~BeginAnytime, NEW w \in Workers, Begin(w)
    PROVE  IInv'
<1>1. /\ apc = "user" /\ pc[w] = "out" /\ numHandles < MaxEncoders
      /\ numHandles' = numHandles + 1 /\ enc' = [enc EXCEPT ![w] = numHandles]
      /\ lock' = w /\ pc' = [pc EXCEPT ![w] = "init"]
      /\ UNCHANGED <<encoders, frame, submit, frames, endSem, kind, seen, apc, numEncoders, waited>>
    BY DEF Begin, MayBegin, frameVars, callVars, apiVars
<1>2. /\ \A a \in Actors : /\ pc'[a] = IF a = w THEN "init" ELSE pc[a]
                           /\ enc'[a] = IF a = w THEN numHandles ELSE enc[a]
      /\ w \in Actors /\ w # Api /\ Api \in Actors
    BY <1>1, ApiNotWorker DEF IInv, TypeOK
<1>3. numHandles \in 1 .. MaxEncoders - 1
    BY <1>1, HasFinite, Ranges DEF IInv, TypeOK, CountInv
<1>4. \A a \in Actors : /\ a # w => (HasEncoder(a)' <=> HasEncoder(a)) /\ (Begun(a)' <=> Begun(a))
                        /\ InCall(a)' => a # w /\ InCall(a)
                        /\ ~HasEncoder(w) /\ HasEncoder(w)' /\ ~Begun(w)'
    BY <1>1, <1>2 DEF HasEncoder, Begun, InCall
<1>5. TypeOK'
    <2>1. numHandles \in EncoderIds /\ numHandles + 1 \in 0 .. MaxEncoders
        BY <1>3, Ranges
    <2> QED BY <1>1, <1>2, <2>1 DEF IInv, TypeOK
<1>6. ApiInv'
    BY <1>1, <1>2, <1>4 DEF IInv, ApiInv
<1>7. WorkerInv'
    <2>1. ASSUME NEW v \in Workers
          PROVE  /\ HasEncoder(v)' => enc'[v] \in 1 .. numHandles' - 1
                 /\ Begun(v)' => encoders'[enc'[v]].frame = submit'
                 /\ pc'[v] = "init" => apc' = "user"
        <3>1. CASE v = w
            BY <1>1, <1>2, <1>3, <1>4, <3>1
        <3>2. CASE v # w
            BY <1>1, <1>2, <1>3, <1>4, <3>2, ApiNotWorker DEF IInv, WorkerInv
        <3> QED BY <3>1, <3>2
    <2>2. ASSUME NEW u \in Workers, NEW v \in Workers, HasEncoder(u)', HasEncoder(v)', enc'[u] = enc'[v]
          PROVE  u = v
        <3>1. \A x \in Workers : x # w /\ HasEncoder(x)' => HasEncoder(x) /\ enc'[x] = enc[x] /\ enc[x] # numHandles
            BY <1>2, <1>3, <1>4, ApiNotWorker DEF IInv, WorkerInv
        <3>2. enc'[w] = numHandles
            BY <1>2
        <3> QED BY <2>2, <3>1, <3>2 DEF IInv, WorkerInv
    <2> QED BY <1>1, <2>1, <2>2 DEF WorkerInv, Ended
<1>8. CountInv'
    <2>1. Has' = Has \union {w} /\ w \notin Has
        BY <1>4, ApiNotWorker DEF Has
    <2>2. Cardinality(Has') = Cardinality(Has) + 1
        BY <2>1, HasFinite, FS_AddElement
    <2>3. endSem + Cardinality(Has) = numHandles - 1 /\ endSem \in Nat
        BY <1>1 DEF IInv, TypeOK, CountInv
    <2>4. numHandles' # 0 /\ endSem' + Cardinality(Has') = numHandles' - 1 /\ apc' = "user"
        BY <1>1, <1>3, <2>2, <2>3, HasFinite
    <2> QED BY <2>4 DEF CountInv, Ended
<1>9. CallInv'
    BY <1>1, <1>2, <1>4 DEF IInv, CallInv, InCall
<1>10. ItemInv'
    <2>1. ASSUME NEW i \in Places, Fresh(i)
          PROVE  /\ frame[submit].item[i].enc < numHandles'
                 /\ \A v \in Workers : pc'[v] = "init" => enc'[v] # frame[submit].item[i].enc
        <3>1. frame[submit].item[i] \in Items
            BY <2>1, Ranges DEF Fresh, Frames, NoItem, IInv, TypeOK
        <3>2. frame[submit].item[i].enc \in Nat /\ frame[submit].item[i].enc < numHandles
            BY <1>1, <2>1, <3>1, Ranges DEF Items, IInv, ItemInv
        <3>3. \A v \in Workers : pc[v] = "init" => enc[v] # frame[submit].item[i].enc
            BY <1>1, <2>1 DEF IInv, ItemInv
        <3> QED BY <1>1, <1>2, <1>3, <3>2, <3>3, ApiNotWorker
    <2>2. \A a \in Actors : pc'[a] = "write" => pc[a] = "write"
        BY <1>2
    <2> QED BY <1>1, <2>1, <2>2 DEF IInv, ItemInv, Fresh
<1> QED BY <1>5, <1>6, <1>7, <1>8, <1>9, <1>10 DEF IInv

LEMMA BeginEncoderInv ==
    ASSUME IInv, NEW w \in Workers, BeginEncoder(w)
    PROVE  IInv'
<1> DEFINE e == enc[w]
<1>1. /\ pc[w] = "init" /\ lock' = NoOne /\ pc' = [pc EXCEPT ![w] = "ready"]
      /\ encoders' = [encoders EXCEPT ![e] = [frame |-> submit, submitted |-> 0, blits |-> 0]]
      /\ UNCHANGED <<numHandles, frame, submit, frames, endSem, enc, kind, seen, apc, numEncoders, waited>>
    BY DEF BeginEncoder, frameVars, callVars, apiVars
<1>2. HasEncoder(w) /\ apc = "user" /\ w \in Actors /\ w # Api /\ Api \in Actors
    BY <1>1, ApiNotWorker DEF HasEncoder, IInv, WorkerInv
<1>3. e \in EncoderIds /\ e # 0
    BY <1>2, Mine
<1>4. \A a \in Actors : /\ pc'[a] = IF a = w THEN "ready" ELSE pc[a]
                        /\ HasEncoder(a)' <=> HasEncoder(a)
                        /\ a # w => (Begun(a)' <=> Begun(a))
                        /\ InCall(a)' => a # w /\ InCall(a)
    BY <1>1, <1>2 DEF HasEncoder, Begun, InCall, IInv, TypeOK
<1>5. \A d \in EncoderIds : encoders'[d] = IF d = e THEN [frame |-> submit, submitted |-> 0, blits |-> 0]
                                                    ELSE encoders[d]
    BY <1>1 DEF IInv, TypeOK
<1>6. TypeOK'
    BY <1>1, <1>2, <1>3 DEF IInv, TypeOK
<1>7. ApiInv'
    BY <1>1, <1>2, <1>3, <1>4, <1>5, Ranges DEF IInv, ApiInv
<1>8. WorkerInv'
    <2>1. ASSUME NEW v \in Workers, Begun(v)' PROVE encoders'[enc'[v]].frame = submit'
        <3>1. CASE v = w
            BY <1>1, <1>3, <1>5, <3>1
        <3>2. CASE v # w
            <4>1. Begun(v) /\ HasEncoder(v) /\ v \in Actors
                BY <1>4, <2>1, <3>2, ApiNotWorker DEF Begun, HasEncoder
            <4>2. enc[v] \in EncoderIds /\ enc[v] # e
                BY <1>2, <3>2, <4>1, Mine, Owner
            <4> QED BY <1>1, <1>5, <4>1, <4>2 DEF IInv, WorkerInv
        <3> QED BY <3>1, <3>2
    <2> QED BY <1>1, <1>2, <1>4, <2>1, ApiNotWorker DEF IInv, WorkerInv, Ended
<1>9. CountInv'
    <2>1. Has' = Has
        BY <1>4, ApiNotWorker DEF Has
    <2> QED BY <1>1, <2>1 DEF IInv, CountInv, Ended
<1>10. CallInv'
    <2>1. ASSUME NEW a \in Actors, InCall(a)' PROVE encoders'[enc'[a]] = encoders[enc[a]] /\ InCall(a)
        <3>1. a # w /\ InCall(a)
            BY <1>4, <2>1
        <3>2. enc[a] \in EncoderIds /\ enc[a] # e
            BY <1>2, <3>1, InCallFacts, Owner
        <3> QED BY <1>1, <1>5, <3>1, <3>2
    <2>2. \A a \in Actors, v \in {"claim", "write", "blit"} : pc'[a] = v => pc[a] = v
        BY <1>4
    <2>3. ASSUME NEW a \in Actors
          PROVE  /\ InCall(a)' => encoders'[enc'[a]].submitted + encoders'[enc'[a]].blits < MaxCalls
                 /\ pc'[a] = "claim" => seen'[a] <= MaxDrawCalls
                 /\ pc'[a] = "write" => seen'[a] < frame'[submit'].numRenderItems
                 /\ pc'[a] = "blit" => seen'[a] < MaxBlitItems
        BY <1>1, <2>1, <2>2 DEF IInv, CallInv
    <2>4. \A a, b \in Actors : pc'[a] = "write" /\ pc'[b] = "write" /\ seen'[a] = seen'[b] => a = b
        BY <1>1, <2>2 DEF IInv, CallInv
    <2> QED BY <2>3, <2>4 DEF CallInv
<1>11. ItemInv'
    <2>1. ASSUME NEW i \in Places, Fresh(i)
          PROVE  frame[submit].item[i].no < encoders'[frame[submit].item[i].enc].submitted
        <3>1. frame[submit].item[i] \in Items
            BY <2>1, Ranges DEF Fresh, Frames, NoItem, IInv, TypeOK
        <3>2. frame[submit].item[i].enc \in EncoderIds /\ frame[submit].item[i].enc # e
            BY <1>1, <1>2, <2>1, <3>1 DEF Items, IInv, ItemInv
        <3> QED BY <1>2, <1>5, <2>1, <3>2 DEF IInv, ItemInv
    <2>2. \A a \in Actors : (pc'[a] = "write" => pc[a] = "write") /\ (pc'[a] = "init" => pc[a] = "init")
        BY <1>4
    <2> QED BY <1>1, <2>1, <2>2, ApiNotWorker DEF IInv, ItemInv, Fresh
<1> QED BY <1>6, <1>7, <1>8, <1>9, <1>10, <1>11 DEF IInv

LEMMA EndInv ==
    ASSUME IInv, NEW w \in Workers, End(w)
    PROVE  IInv'
<1>1. /\ pc[w] = "ready" /\ endSem' = (IF enc[w] = 0 THEN endSem ELSE endSem + 1)
      /\ enc' = [enc EXCEPT ![w] = NoEncoder] /\ pc' = [pc EXCEPT ![w] = "out"]
      /\ UNCHANGED <<numHandles, encoders, frame, submit, frames, lock, kind, seen>>
      /\ UNCHANGED <<apc, numEncoders, waited>>
    BY DEF End, allocVars, frameVars, callVars, apiVars
<1>2. HasEncoder(w) /\ w \in Actors /\ w # Api /\ Api \in Actors
    BY <1>1, ApiNotWorker DEF HasEncoder
<1>3. enc[w] \in Int /\ enc[w] # 0
    BY <1>2, Mine
<1>4. \A a \in Actors : /\ pc'[a] = IF a = w THEN "out" ELSE pc[a]
                        /\ enc'[a] = IF a = w THEN NoEncoder ELSE enc[a]
                        /\ ~HasEncoder(w)' /\ ~Begun(w)'
                        /\ a # w => (HasEncoder(a)' <=> HasEncoder(a)) /\ (Begun(a)' <=> Begun(a))
                        /\ InCall(a)' => a # w /\ InCall(a)
    BY <1>1, <1>2 DEF HasEncoder, Begun, InCall, IInv, TypeOK
<1>5. TypeOK'
    BY <1>1, <1>2 DEF IInv, TypeOK
<1>6. ApiInv'
    BY <1>1, <1>2, <1>4 DEF IInv, ApiInv
<1>7. WorkerInv'
    <2>1. ASSUME NEW v \in Workers
          PROVE  /\ HasEncoder(v)' => enc'[v] \in 1 .. numHandles' - 1
                 /\ Begun(v)' => encoders'[enc'[v]].frame = submit'
                 /\ pc'[v] = "init" => apc' = "user"
                 /\ Ended' => pc'[v] = "out"
        BY <1>1, <1>2, <1>4, ApiNotWorker DEF IInv, WorkerInv, Ended
    <2>2. \A v \in Workers : HasEncoder(v)' => HasEncoder(v) /\ enc'[v] = enc[v]
        BY <1>2, <1>4, ApiNotWorker
    <2> QED BY <2>1, <2>2 DEF IInv, WorkerInv
<1>8. CountInv'
    <2>1. Has' = Has \ {w} /\ w \in Has
        BY <1>2, <1>4, ApiNotWorker DEF Has
    <2>2. Cardinality(Has') = Cardinality(Has) - 1
        BY <2>1, HasFinite, FS_RemoveElement
    <2>3. ~Ended
        BY <1>1 DEF IInv, WorkerInv
    <2> QED BY <1>1, <1>3, <2>2, <2>3, HasFinite DEF IInv, TypeOK, CountInv, Ended
<1>9. CallInv'
    BY <1>1, <1>4 DEF IInv, CallInv, InCall
<1>10. ItemInv'
    <2>1. \A a \in Actors : /\ pc'[a] = "write" => pc[a] = "write"
                            /\ pc'[a] = "init" => pc[a] = "init" /\ enc'[a] = enc[a]
        BY <1>4
    <2> QED BY <1>1, <2>1, ApiNotWorker DEF IInv, ItemInv, Fresh
<1> QED BY <1>5, <1>6, <1>7, <1>8, <1>9, <1>10 DEF IInv

-----------------------------------------------------------------------------
(* frame.                                                                   *)

\* A step of frame that touches neither the encoders nor the Frames keeps every part
\* of the invariant that does not count.
LEMMA FrameKeeps ==
    ASSUME IInv, UNCHANGED <<encoders, frame, submit, frames, pc, enc, kind, seen>>,
           numHandles' = numHandles \/ Ended,
           apc # "begin0", apc' \notin {"user", "begin0"}, frames < MaxFrames,
           (Ended \/ Ended') => \A w \in Workers : pc[w] = "out",
           pc[Api] = "ready", \A w \in Workers : pc[w] # "init",
           apc' \in {"user", "count", "wait", "reset"} =>
               apc \in {"user", "count", "wait"} /\ numHandles' = numHandles
    PROVE  ApiInv' /\ WorkerInv' /\ CallInv' /\ ItemInv'
<1>1. ApiInv'
    BY DEF IInv, ApiInv, Begun
<1>2. WorkerInv'
    <2>1. CASE numHandles' = numHandles
        BY <2>1 DEF IInv, WorkerInv, HasEncoder, Begun, Ended
    <2>2. CASE Ended
        BY <2>2 DEF WorkerInv, HasEncoder, Begun, Ended
    <2> QED BY <2>1, <2>2
<1>3. CallInv'
    BY DEF IInv, CallInv, InCall
<1>4. ItemInv'
    BY DEF IInv, ItemInv, Fresh, Ended
<1> QED BY <1>1, <1>2, <1>3, <1>4

\* While the API thread is inside frame, it is in no call and no worker is inside begin.
LEMMA InsideFrame ==
    ASSUME IInv, apc # "user"
    PROVE  /\ pc[Api] = "ready" /\ \A w \in Workers : pc[w] # "init"
           /\ Ended => \A w \in Workers : pc[w] = "out"
           /\ apc # "begin0" => frames < MaxFrames
BY DEF IInv, ApiInv, WorkerInv

LEMMA FrameCallInv ==
    ASSUME IInv, ~BeginAnytime, FrameCall
    PROVE  IInv'
<1>1. /\ apc = "user" /\ frames < MaxFrames /\ pc[Api] = "ready" /\ apc' = "count"
      /\ \A w \in Workers : pc[w] # "init"
      /\ UNCHANGED <<numHandles, encoders, frame, submit, frames, lock, endSem, pc, enc, kind, seen>>
      /\ UNCHANGED <<numEncoders, waited>>
    BY DEF FrameCall, allocVars, frameVars, syncVars, callVars
<1>2. TypeOK'
    BY <1>1 DEF IInv, TypeOK
<1>3. ApiInv' /\ WorkerInv' /\ CallInv' /\ ItemInv'
    BY <1>1, FrameKeeps DEF Ended
<1>4. CountInv'
    BY <1>1 DEF IInv, CountInv, Ended, Has, HasEncoder
<1> QED BY <1>2, <1>3, <1>4 DEF IInv

LEMMA CountStepInv ==
    ASSUME IInv, Count
    PROVE  IInv'
<1>1. /\ apc = "count" /\ apc' = "wait" /\ numEncoders' = numHandles /\ waited' = 1
      /\ UNCHANGED <<numHandles, encoders, frame, submit, frames, lock, endSem, pc, enc, kind, seen>>
    BY DEF Count, allocVars, frameVars, syncVars, callVars
<1>2. TypeOK'
    BY <1>1 DEF IInv, TypeOK
<1>3. ApiInv' /\ WorkerInv' /\ CallInv' /\ ItemInv'
    BY <1>1, InsideFrame, FrameKeeps DEF Ended
<1>4. CountInv'
    <2>1. Has' = Has
        BY <1>1 DEF Has, HasEncoder
    <2> QED BY <1>1, <2>1 DEF IInv, CountInv, Ended
<1> QED BY <1>2, <1>3, <1>4 DEF IInv

LEMMA WaitEndInv ==
    ASSUME IInv, WaitEnd
    PROVE  IInv'
<1>1. /\ apc = "wait"
      /\ UNCHANGED <<numHandles, encoders, frame, submit, frames, lock, pc, enc, kind, seen, numEncoders>>
    BY DEF WaitEnd, allocVars, frameVars, callVars
<1>2. Has' = Has
    BY <1>1 DEF Has, HasEncoder
<1>3. /\ numEncoders = numHandles /\ endSem + Cardinality(Has) = numHandles - waited
      /\ numHandles \in Nat /\ waited \in Nat /\ endSem \in Nat /\ numHandles # 0
    BY <1>1 DEF IInv, TypeOK, CountInv
<1>4. CASE waited < numEncoders
    <2>1. endSem > 0 /\ endSem' = endSem - 1 /\ waited' = waited + 1 /\ apc' = "wait"
        BY <1>1, <1>4 DEF WaitEnd
    <2>2. TypeOK'
        BY <1>1, <1>3, <2>1 DEF IInv, TypeOK
    <2>3. ApiInv' /\ WorkerInv' /\ CallInv' /\ ItemInv'
        BY <1>1, <2>1, InsideFrame, FrameKeeps DEF Ended
    <2>4. CountInv'
        BY <1>1, <1>2, <1>3, <2>1, HasFinite DEF CountInv, Ended
    <2> QED BY <2>2, <2>3, <2>4 DEF IInv
<1>5. CASE ~(waited < numEncoders)
    <2>1. apc' = "reset" /\ endSem' = endSem /\ waited' = waited
        BY <1>1, <1>5 DEF WaitEnd
    <2>2. endSem = 0 /\ Cardinality(Has) = 0
        BY <1>3, <1>5, HasFinite
    <2>3. Has = {}
        BY <2>2, HasFinite, FS_EmptySet
    <2>4. \A w \in Workers : pc[w] = "out"
        BY <2>3, ApiNotWorker DEF Has, HasEncoder, IInv, TypeOK
    <2>5. TypeOK'
        BY <1>1, <2>1 DEF IInv, TypeOK
    <2>6. ApiInv' /\ WorkerInv' /\ CallInv' /\ ItemInv'
        BY <1>1, <2>1, <2>4, InsideFrame, FrameKeeps DEF Ended
    <2>7. CountInv'
        BY <1>1, <1>3, <2>1, <2>2 DEF CountInv, Ended
    <2> QED BY <2>5, <2>6, <2>7 DEF IInv
<1> QED BY <1>4, <1>5

LEMMA ResetInv ==
    ASSUME IInv, Reset
    PROVE  IInv'
<1>1. /\ apc = "reset" /\ apc' = "alloc" /\ numHandles' = 0
      /\ UNCHANGED <<encoders, frame, submit, frames, lock, endSem, pc, enc, kind, seen>>
      /\ UNCHANGED <<numEncoders, waited>>
    BY DEF Reset, frameVars, syncVars, callVars
<1>2. TypeOK'
    BY <1>1, Ranges DEF IInv, TypeOK
<1>3. ApiInv' /\ WorkerInv' /\ CallInv' /\ ItemInv'
    BY <1>1, InsideFrame, FrameKeeps DEF Ended
<1>4. CountInv'
    BY <1>1 DEF IInv, CountInv, Ended
<1> QED BY <1>2, <1>3, <1>4 DEF IInv

LEMMA Alloc0Inv ==
    ASSUME IInv, Alloc0
    PROVE  IInv'
<1>1. /\ apc = "alloc" /\ apc' = "lock" /\ numEncoders' = 0 /\ waited' = 0
      /\ numHandles' = IF numHandles < MaxEncoders THEN numHandles + 1 ELSE numHandles
      /\ UNCHANGED <<encoders, frame, submit, frames, lock, endSem, pc, enc, kind, seen>>
    BY DEF Alloc0, frameVars, syncVars, callVars
<1>2. numHandles' = 1
    BY <1>1, Ranges DEF IInv, CountInv
<1>3. TypeOK'
    BY <1>1, <1>2, Ranges DEF IInv, TypeOK
<1>4. ApiInv' /\ WorkerInv' /\ CallInv' /\ ItemInv'
    BY <1>1, InsideFrame, FrameKeeps DEF Ended
<1>5. CountInv'
    BY <1>1, <1>2 DEF IInv, CountInv, Ended
<1> QED BY <1>3, <1>4, <1>5 DEF IInv

LEMMA LockInv ==
    ASSUME IInv, Lock
    PROVE  IInv'
<1>1. /\ apc = "lock" /\ apc' = "swap" /\ lock' = Api
      /\ UNCHANGED <<numHandles, encoders, frame, submit, frames, endSem, pc, enc, kind, seen>>
      /\ UNCHANGED <<numEncoders, waited>>
    BY DEF Lock, allocVars, frameVars, callVars
<1>2. TypeOK'
    BY <1>1, ApiNotWorker DEF IInv, TypeOK
<1>3. ApiInv' /\ WorkerInv' /\ CallInv' /\ ItemInv'
    BY <1>1, InsideFrame, FrameKeeps DEF Ended
<1>4. CountInv'
    BY <1>1 DEF IInv, CountInv, Ended
<1> QED BY <1>2, <1>3, <1>4 DEF IInv

LEMMA SwapInv ==
    ASSUME IInv, Swap
    PROVE  IInv'
<1> DEFINE b == 1 - submit
<1>1. /\ apc = "swap" /\ apc' = "begin0" /\ submit' = b /\ frames' = frames + 1
      /\ frame' = [frame EXCEPT ![b].numRenderItems = 0, ![b].numBlitItems = 0]
      /\ UNCHANGED <<numHandles, encoders, lock, endSem, pc, enc, kind, seen, numEncoders, waited>>
    BY DEF Swap, allocVars, syncVars, callVars
<1>2. /\ pc[Api] = "ready" /\ \A w \in Workers : pc[w] = "out"
      /\ frames < MaxFrames /\ frames \in Nat
    BY <1>1, InsideFrame DEF Ended, IInv, TypeOK
<1>3. b \in {0, 1} /\ submit \in {0, 1}
    BY DEF IInv, TypeOK
<1>4. /\ frame' \in [{0, 1} -> Frames]
      /\ \A c \in {0, 1} : frame'[c].item = frame[c].item
    <2>1. frame'[b] = [frame[b] EXCEPT !.numRenderItems = 0, !.numBlitItems = 0]
        BY <1>1, <1>3 DEF IInv, TypeOK
    <2>2. frame[b] \in Frames
        BY <1>3 DEF IInv, TypeOK
    <2>3. frame'[b] \in Frames
        <3>1. frame'[b] = [numRenderItems |-> 0, item |-> frame[b].item, numBlitItems |-> 0]
            BY <2>1, <2>2 DEF Frames
        <3> QED BY <2>2, <3>1, Ranges DEF Frames
    <2>4. \A c \in {0, 1} : c # b => frame'[c] = frame[c]
        BY <1>1, <1>3 DEF IInv, TypeOK
    <2>5. DOMAIN frame' = {0, 1} /\ frame' = [c \in {0, 1} |-> frame'[c]]
        BY <1>1 DEF IInv, TypeOK
    <2>6. \A c \in {0, 1} : frame'[c] \in Frames
        BY <1>3, <2>3, <2>4 DEF IInv, TypeOK
    <2> QED BY <1>3, <2>1, <2>2, <2>4, <2>5, <2>6 DEF Frames
<1>5. TypeOK'
    BY <1>1, <1>2, <1>3, <1>4, Ranges DEF IInv, TypeOK
<1>6. ApiInv'
    BY <1>1 DEF IInv, ApiInv, Begun
<1>7. WorkerInv'
    BY <1>1, <1>2 DEF WorkerInv, HasEncoder, Begun, Ended
<1>8. CountInv'
    BY <1>1 DEF IInv, CountInv, Ended
<1>9. CallInv'
    BY <1>1, <1>2 DEF CallInv, InCall, Actors
<1>10. ItemInv'
    <2>1. ASSUME NEW c \in {0, 1}, NEW i \in Places
          PROVE  frame'[c].item[i].frame <= frames' /\ frame'[c].item[i].frame # frames'
        <3>1. frame[c] \in Frames
            BY DEF IInv, TypeOK
        <3>2. frame[c].item[i] \in Items \union {NoItem}
            BY <3>1 DEF Frames
        <3>3. frame[c].item[i].frame \in Int
            BY <3>2, Ranges DEF Items, NoItem
        <3>4. frame[c].item[i].frame <= frames
            BY DEF IInv, ItemInv
        <3> QED BY <1>1, <1>2, <1>4, <3>3, <3>4
    <2> QED BY <1>1, <1>3, <2>1 DEF ItemInv, Fresh
<1> QED BY <1>5, <1>6, <1>7, <1>8, <1>9, <1>10 DEF IInv

LEMMA Begin0Inv ==
    ASSUME IInv, Begin0
    PROVE  IInv'
<1>1. /\ apc = "begin0" /\ apc' = "user" /\ lock' = NoOne
      /\ encoders' = [encoders EXCEPT ![0] = [frame |-> submit, submitted |-> 0, blits |-> 0]]
      /\ UNCHANGED <<numHandles, frame, submit, frames, endSem, pc, enc, kind, seen, numEncoders, waited>>
    BY DEF Begin0, frameVars, callVars
<1>2. pc[Api] = "ready" /\ \A w \in Workers : pc[w] = "out"
    BY <1>1, InsideFrame DEF Ended
<1>3. 0 \in EncoderIds
    BY Ranges
<1>4. TypeOK'
    BY <1>1, <1>3 DEF IInv, TypeOK
<1>5. ApiInv'
    BY <1>1, <1>3 DEF IInv, TypeOK, ApiInv, Begun
<1>6. WorkerInv'
    BY <1>1, <1>2 DEF WorkerInv, HasEncoder, Begun, Ended
<1>7. CountInv'
    <2>1. Has' = {}
        BY <1>1, <1>2 DEF Has, HasEncoder
    <2> QED BY <1>1, <2>1, FS_EmptySet DEF IInv, CountInv, Ended
<1>8. CallInv'
    BY <1>1, <1>2 DEF CallInv, InCall, Actors
<1>9. ItemInv'
    BY <1>1 DEF IInv, ItemInv, Fresh
<1> QED BY <1>4, <1>5, <1>6, <1>7, <1>8, <1>9 DEF IInv

-----------------------------------------------------------------------------
(* The theorems.                                                            *)

LEMMA Unchanged == IInv /\ UNCHANGED vars => IInv'
<1> SUFFICES ASSUME IInv, UNCHANGED vars PROVE IInv'
    OBVIOUS
<1>1. UNCHANGED <<numHandles, encoders, frame, submit, frames, lock, endSem, pc, enc, kind, seen,
                  apc, numEncoders, waited>>
    BY DEF vars, allocVars, frameVars, syncVars, callVars, apiVars
<1>2. TypeOK' /\ ApiInv' /\ WorkerInv' /\ CallInv' /\ ItemInv'
    BY <1>1 DEF IInv, TypeOK, ApiInv, WorkerInv, CallInv, ItemInv, Ended, Begun, HasEncoder, InCall, Fresh
<1>3. CountInv'
    BY <1>1 DEF IInv, CountInv, Ended, Has, HasEncoder
<1> QED BY <1>2, <1>3 DEF IInv

LEMMA StepInv == ~BeginAnytime /\ IInv /\ [Next]_vars => IInv'
<1> SUFFICES ASSUME ~BeginAnytime, IInv, [Next]_vars PROVE IInv'
    OBVIOUS
<1>1. CASE \E w \in Workers : Begin(w) \/ BeginEncoder(w) \/ End(w)
    BY <1>1, BeginInv, BeginEncoderInv, EndInv
<1>2. CASE \E a \in Actors : Recording(a) \/ \E k \in Kinds : Call(a, k)
    BY <1>2, ClaimInv, WriteInv, BlitWriteInv, CallStepInv DEF Recording
<1>3. CASE \E a \in Blitters : Blit(a)
    BY <1>3, UseAssumption, BlitInv
<1>4. CASE FrameCall \/ FrameStep
    BY <1>4, FrameCallInv, CountStepInv, WaitEndInv, ResetInv, Alloc0Inv, LockInv, SwapInv, Begin0Inv
    DEF FrameStep
<1>5. CASE UNCHANGED vars
    BY <1>5, Unchanged
<1> QED BY <1>1, <1>2, <1>3, <1>4, <1>5 DEF Next, Finished

\* The invariant holds in every state when no begin overlaps frame.
THEOREM Invariance ==
    ASSUME ~BeginAnytime
    PROVE  Spec => []IInv
<1>1. IInv /\ [Next]_vars => IInv'
    BY StepInv
<1> QED BY InitInv, <1>1, PTL DEF Spec

\* The variables keep their types: no place past MaxDrawCalls is claimed or written, no
\* blit past MaxBlitItems, no encoder past MaxEncoders.
THEOREM TypeCorrect ==
    ASSUME ~BeginAnytime
    PROVE  Spec => []TypeOK
<1>1. IInv => TypeOK
    BY DEF IInv
<1> QED BY Invariance, <1>1, PTL

\* No two threads record with one encoder, and no call goes to the Frame the renderer reads.
THEOREM EncodersApart ==
    ASSUME ~BeginAnytime
    PROVE  Spec => []EncodersSafe
<1>1. ASSUME IInv PROVE EncodersSafe
    <2>1. \A a \in Actors : InCall(a) => encoders[enc[a]].frame = submit
        BY <1>1, InCallFacts
    <2>2. \A a, b \in Actors : HasEncoder(a) /\ HasEncoder(b) /\ enc[a] = enc[b] => a = b
        BY <1>1, Owner
    <2> QED BY <2>1, <2>2 DEF EncodersSafe, EncoderExclusive, WritesOnlySubmit
<1> QED BY Invariance, <1>1, PTL

\* Outside frame the semaphore counts the encoders of this frame that have ended.
THEOREM EndSemBalanced ==
    ASSUME ~BeginAnytime
    PROVE  Spec => []EndSemBalance
<1>1. IInv => EndSemBalance
    BY DEF IInv, CountInv, Has, EndSemBalance
<1> QED BY Invariance, <1>1, PTL

\* encoderApiWait's assertion holds when no begin overlaps frame.
THEOREM InternalEncoder ==
    ASSUME ~BeginAnytime
    PROVE  Spec => []InternalEncoderIsZero
<1>1. IInv => InternalEncoderIsZero
    BY DEF IInv, CountInv, InternalEncoderIsZero
<1> QED BY Invariance, <1>1, PTL

-----------------------------------------------------------------------------
(* Encoders implements DrawList.                                            *)

\* The calls of this frame are those in the places that hold one.
LEMMA ListIs == IInv => ItemsOf(submit, frames) = {frame[submit].item[i] : i \in {j \in Places : Fresh(j)}}
<1> SUFFICES ASSUME IInv
             PROVE  ItemsOf(submit, frames) = {frame[submit].item[i] : i \in {j \in Places : Fresh(j)}}
    OBVIOUS
<1>1. frame[submit].numRenderItems \in 0 .. MaxDrawCalls
    BY Ranges DEF IInv, TypeOK, Frames
<1>2. \A i \in 0 .. frame[submit].numRenderItems - 1 : i \in Places
    BY <1>1, Ranges
<1>3. \A i \in Places : Fresh(i) => i \in 0 .. frame[submit].numRenderItems - 1
    BY <1>1, Ranges DEF IInv, ItemInv
<1> QED BY <1>2, <1>3 DEF ItemsOf, Fresh

LEMMA ListIsNext ==
    ASSUME IInv'
    PROVE  ItemsOf(submit, frames)' = {frame'[submit'].item[i] : i \in {j \in Places : Fresh(j)'}}
<1>1. frame'[submit'].numRenderItems \in 0 .. MaxDrawCalls
    BY Ranges DEF IInv, TypeOK, Frames
<1>2. \A i \in 0 .. frame'[submit'].numRenderItems - 1 : i \in Places
    BY <1>1, Ranges
<1>3. \A i \in Places : Fresh(i)' => i \in 0 .. frame'[submit'].numRenderItems - 1
    BY <1>1, Ranges DEF IInv, ItemInv
<1> QED BY <1>2, <1>3 DEF ItemsOf, Fresh

\* Write adds one new call to the list.
LEMMA WriteRecords ==
    ASSUME IInv, IInv', NEW a \in Actors, Write(a)
    PROVE  List!Record
<1> DEFINE e == enc[a]
           call == [frame |-> frames, enc |-> e, no |-> encoders[e].submitted]
<1>1. /\ UNCHANGED <<submit, frames>> /\ seen[a] \in Places /\ call \in Items
      /\ frame'[1 - submit] = frame[1 - submit]
      /\ \A i \in Places : frame'[submit].item[i] =
             IF i = seen[a] THEN call ELSE frame[submit].item[i]
    BY WriteFacts DEF IInv, TypeOK
<1>2. pc[a] = "write" /\ apc \in {"user", "count", "wait"}
    BY InCallFacts DEF Write, InCall
<1>3. ~Fresh(seen[a])
    BY <1>1, <1>2 DEF IInv, ItemInv
<1>4. \A i \in Places : Fresh(i)' <=> (i = seen[a] \/ Fresh(i))
    BY <1>1 DEF Fresh
<1>5. ItemsOf(submit, frames)' = ItemsOf(submit, frames) \union {call}
    BY <1>1, <1>3, <1>4, ListIs, ListIsNext
<1>6. call \notin ItemsOf(submit, frames)
    <2>1. SUFFICES ASSUME NEW i \in Places, Fresh(i), frame[submit].item[i] = call PROVE FALSE
        BY ListIs
    <2>2. encoders[e].submitted < encoders[e].submitted
        BY <1>2, <2>1 DEF IInv, ItemInv
    <2>3. encoders[e].submitted \in Nat
        BY <1>1, WriteFacts DEF IInv, TypeOK
    <2> QED BY <2>2, <2>3
<1>7. ItemsOf(1 - submit, frames - 1)' = ItemsOf(1 - submit, frames - 1)
    BY <1>1 DEF ItemsOf
<1> QED BY <1>1, <1>5, <1>6, <1>7 DEF List!Record

\* Claim changes a counter, and no place it adds holds a call of this frame.
LEMMA ClaimStutters ==
    ASSUME IInv, IInv', NEW a \in Actors, Claim(a)
    PROVE  UNCHANGED List!listVars
<1>1. encoders[enc[a]].frame = submit /\ submit \in {0, 1}
    BY InCallFacts DEF Claim, InCall
<1>2. UNCHANGED <<submit, frames>>
    BY DEF Claim
<1>3. PICK m : frame' = frame \/ frame' = [frame EXCEPT ![submit].numRenderItems = m]
    BY <1>1 DEF Claim
<1>4. frame'[1 - submit] = frame[1 - submit]
    BY <1>1, <1>3 DEF IInv, TypeOK
<1>5. \A i \in Places : frame'[submit].item[i] = frame[submit].item[i]
    <2>1. frame[submit] \in Frames
        BY <1>1 DEF IInv, TypeOK
    <2>2. frame'[submit].item = frame[submit].item
        BY <1>1, <1>3, <2>1 DEF IInv, TypeOK, Frames
    <2> QED BY <2>2
<1>6. ItemsOf(submit, frames)' = ItemsOf(submit, frames)
    BY <1>2, <1>5, ListIs, ListIsNext DEF Fresh
<1>7. ItemsOf(1 - submit, frames - 1)' = ItemsOf(1 - submit, frames - 1)
    BY <1>2, <1>4 DEF ItemsOf
<1> QED BY <1>6, <1>7 DEF List!listVars

LEMMA BlitWriteStutters ==
    ASSUME IInv, NEW a \in Actors, BlitWrite(a)
    PROVE  UNCHANGED List!listVars
<1>1. encoders[enc[a]].frame = submit /\ submit \in {0, 1}
    BY InCallFacts DEF BlitWrite, InCall
<1>2. UNCHANGED <<submit, frames>> /\ frame' = [frame EXCEPT ![submit].numBlitItems = seen[a] + 1]
    BY <1>1 DEF BlitWrite
<1>3. \A b \in {0, 1} : frame[b] \in Frames
    BY DEF IInv, TypeOK
<1>4. \A b \in {0, 1} : /\ frame'[b].item = frame[b].item
                        /\ frame'[b].numRenderItems = frame[b].numRenderItems
    BY <1>1, <1>2, <1>3 DEF IInv, TypeOK, Frames
<1>5. 1 - submit \in {0, 1}
    BY <1>1
<1> QED BY <1>1, <1>2, <1>4, <1>5 DEF List!listVars, ItemsOf

\* Swap hands the list over whole and leaves none of it in the new one.
LEMMA SwapHandsOver ==
    ASSUME IInv, IInv', Swap
    PROVE  List!HandOver
<1>1. /\ submit' = 1 - submit /\ frames' = frames + 1 /\ apc' = "begin0"
      /\ frame' = [frame EXCEPT ![1 - submit].numRenderItems = 0, ![1 - submit].numBlitItems = 0]
    BY DEF Swap
<1>2. submit \in {0, 1} /\ frames \in Nat
    BY DEF IInv, TypeOK
<1>3. 1 - submit' = submit /\ frames' - 1 = frames /\ frame'[submit] = frame[submit]
    BY <1>1, <1>2 DEF IInv, TypeOK
<1>4. ItemsOf(1 - submit, frames - 1)' = ItemsOf(submit, frames)
    BY <1>3 DEF ItemsOf
<1>5. ItemsOf(submit, frames)' = {}
    BY <1>1, ListIsNext DEF IInv, ItemInv
<1> QED BY <1>4, <1>5 DEF List!HandOver

LEMMA ListStep == IInv /\ IInv' /\ [Next]_vars => [List!ListNext]_List!listVars
<1> SUFFICES ASSUME IInv, IInv', [Next]_vars
             PROVE  List!ListNext \/ UNCHANGED List!listVars
    OBVIOUS
<1>1. CASE UNCHANGED <<frame, submit, frames>>
    BY <1>1 DEF List!listVars, ItemsOf
<1>2. CASE \E a \in Actors : Recording(a)
    BY <1>2, WriteRecords, ClaimStutters, BlitWriteStutters DEF Recording, List!ListNext
<1>3. CASE Swap
    BY <1>3, SwapHandsOver DEF List!ListNext
<1>4. \/ UNCHANGED <<frame, submit, frames>>
      \/ \E a \in Actors : Recording(a)
      \/ Swap
    <2>1. CASE \E w \in Workers : Begin(w) \/ BeginEncoder(w) \/ End(w)
        BY <2>1 DEF Begin, BeginEncoder, End, frameVars
    <2>2. CASE \E a \in Actors : Recording(a) \/ \E k \in Kinds : Call(a, k)
        BY <2>2 DEF Call, frameVars
    <2>3. CASE \E a \in Blitters : Blit(a)
        BY <2>3 DEF Blit, frameVars
    <2>4. CASE FrameCall \/ FrameStep
        BY <2>4 DEF FrameCall, FrameStep, Count, WaitEnd, Reset, Alloc0, Lock, Begin0, frameVars
    <2>5. CASE UNCHANGED vars
        BY <2>5 DEF vars, frameVars
    <2> QED BY <2>1, <2>2, <2>3, <2>4, <2>5 DEF Next, Finished
<1> QED BY <1>1, <1>2, <1>3, <1>4

\* Recording from any number of threads implements one list of calls that frame hands over.
THEOREM RefinesDrawList ==
    ASSUME ~BeginAnytime
    PROVE  Spec => DrawListSpec
<1>1. Init => List!ListInit
    <2> SUFFICES ASSUME Init PROVE ItemsOf(submit, frames) = {} /\ ItemsOf(1 - submit, frames - 1) = {}
        BY DEF List!ListInit
    <2>1. \A b \in {0, 1} : frame[b].numRenderItems = 0
        BY DEF Init, EmptyFrame
    <2>2. submit = 1
        BY DEF Init
    <2> QED BY <2>1, <2>2 DEF ItemsOf
<1> QED BY <1>1, ListStep, Invariance, PTL DEF Spec, DrawListSpec, List!ListSpec

-----------------------------------------------------------------------------
(* What frame hands over is what has been submitted.                        *)

\* A thread has claimed place i and has not written it yet.
Claiming(i) == \E a \in Actors : pc[a] = "write" /\ seen[a] = i

\* A dispatch has claimed place i and will not write it.
Dropped(i) == "dispatch" \in Kinds /\ i = MaxDrawCalls - 1

\* Encoder e has been begun for this frame.
Given(e) == e < numHandles /\ \A w \in Workers : pc[w] = "init" => enc[w] # e

\* Every place counted holds a call of this frame, or is about to, or is the last one;
\* no two hold the same call, and every call an encoder has counted is in one.
DrawInv ==
    /\ \A a \in Actors : kind[a] = "dispatch" => "dispatch" \in Kinds
    /\ apc = "begin0" => frame[submit].numRenderItems = 0
    /\ \A i \in Places : i < frame[submit].numRenderItems => Fresh(i) \/ Claiming(i) \/ Dropped(i)
    /\ \A i, j \in Places :
          Fresh(i) /\ Fresh(j) /\ frame[submit].item[i] = frame[submit].item[j] => i = j
    /\ apc \in {"user", "count", "wait", "reset"} =>
          \A e \in EncoderIds, k \in 0 .. MaxCalls : Given(e) /\ k < encoders[e].submitted =>
             \E i \in Places :
                Fresh(i) /\ frame[submit].item[i] = [frame |-> frames, enc |-> e, no |-> k]

LEMMA InitDraw == Init => DrawInv
<1> SUFFICES ASSUME Init PROVE DrawInv
    OBVIOUS
<1>1. frame[submit].numRenderItems = 0 /\ \A i \in Places : ~Fresh(i)
    BY DEF Init, EmptyFrame, NoItem, Fresh
<1>2. \A a \in Actors : kind[a] = "draw"
    BY DEF Init
<1>3. \A e \in EncoderIds : encoders[e].submitted = 0
    BY DEF Init
<1>4. \A i \in Places : ~(i < 0)
    BY Ranges
<1>5. \A k \in 0 .. MaxCalls : ~(k < 0)
    BY Ranges
<1> QED BY <1>1, <1>2, <1>3, <1>4, <1>5 DEF DrawInv

\* A step that leaves the places alone, but for an encoder that is begun.
LEMMA DrawKeeps ==
    ASSUME DrawInv, UNCHANGED <<submit, frames>>,
           frame'[submit].numRenderItems = frame[submit].numRenderItems,
           \A i \in Places : frame'[submit].item[i] = frame[submit].item[i],
           \A a \in Actors : kind'[a] = "dispatch" => kind[a] = "dispatch" \/ "dispatch" \in Kinds,
           \A a \in Actors : pc[a] = "write" => pc'[a] = "write" /\ seen'[a] = seen[a],
           apc' = "begin0" => apc = "begin0",
           apc' \in {"user", "count", "wait", "reset"} => \A e \in EncoderIds : Given(e)' =>
               \/ encoders'[e].submitted = 0
               \/ /\ apc \in {"user", "count", "wait", "reset"} /\ Given(e)
                  /\ encoders'[e].submitted = encoders[e].submitted
    PROVE  DrawInv'
<1>1. \A i \in Places : Fresh(i)' <=> Fresh(i)
    BY DEF Fresh
<1>2. \A i \in Places : i < frame'[submit'].numRenderItems => Fresh(i)' \/ Claiming(i)' \/ Dropped(i)'
    <2>1. \A i \in Places : Claiming(i) => Claiming(i)'
        BY DEF Claiming
    <2> QED BY <1>1, <2>1 DEF DrawInv, Dropped
<1>3. ASSUME apc' \in {"user", "count", "wait", "reset"}, NEW e \in EncoderIds, NEW k \in 0 .. MaxCalls,
             Given(e)', k < encoders'[e].submitted
      PROVE  \E i \in Places :
                Fresh(i)' /\ frame'[submit'].item[i] = [frame |-> frames', enc |-> e, no |-> k]
    <2>1. encoders'[e].submitted # 0
        BY <1>3, Ranges
    <2>2. apc \in {"user", "count", "wait", "reset"} /\ Given(e) /\ k < encoders[e].submitted
        BY <1>3, <2>1
    <2>3. PICK i \in Places : Fresh(i) /\ frame[submit].item[i] = [frame |-> frames, enc |-> e, no |-> k]
        BY <2>2 DEF DrawInv
    <2> QED BY <1>1, <2>3
<1> QED BY <1>1, <1>2, <1>3 DEF DrawInv

LEMMA ClaimDraw ==
    ASSUME IInv, DrawInv, NEW a \in Actors, Claim(a)
    PROVE  DrawInv'
<1> DEFINE n == frame[submit].numRenderItems
           atMax == seen[a] = MaxDrawCalls
<1>1. /\ pc[a] = "claim" /\ encoders[enc[a]].frame = submit /\ submit \in {0, 1}
      /\ frame[submit] \in Frames
    BY InCallFacts DEF Claim, InCall
<1>2. UNCHANGED <<numHandles, encoders, submit, frames, enc, apc>>
    BY DEF Claim, allocVars, syncVars, apiVars
<1>3. n \in 0 .. MaxDrawCalls /\ seen[a] \in 0 .. MaxDrawCalls
    BY <1>1, Ranges DEF IInv, TypeOK, CallInv, Frames
<1>5. CASE n # seen[a] /\ ~atMax
    <2>1. seen' = [seen EXCEPT ![a] = n] /\ UNCHANGED <<frame, pc, kind>>
        BY <1>1, <1>5 DEF Claim
    <2>2. \A b \in Actors : pc[b] = "write" => pc'[b] = "write" /\ seen'[b] = seen[b]
        BY <1>1, <2>1 DEF IInv, TypeOK
    <2>3. \A e \in EncoderIds : Given(e)' => Given(e)
        BY <1>2, <2>1 DEF Given
    <2> QED BY <1>2, <2>1, <2>2, <2>3, DrawKeeps
<1>6. CASE atMax
    <2>1. frame' = [frame EXCEPT ![submit].numRenderItems = n]
        BY <1>1, <1>6 DEF Claim
    <2>2. frame'[submit] = frame[submit]
        <3>1. frame'[submit] = [frame[submit] EXCEPT !.numRenderItems = n]
            BY <1>1, <2>1 DEF IInv, TypeOK
        <3> QED BY <1>1, <3>1 DEF Frames
    <2>3. Return(a)
        <3>1. Limit(kind[a]) \in {MaxDrawCalls, MaxDrawCalls - 1}
            BY DEF Limit
        <3>2. ~(seen[a] < Limit(kind[a]))
            BY <1>6, <3>1, Ranges
        <3>3. Claimed(a)
            BY <1>1, <1>6 DEF Claim
        <3> QED BY <3>2, <3>3 DEF Claimed
    <2>4. \A b \in Actors : /\ pc[b] = "write" => pc'[b] = "write" /\ seen'[b] = seen[b]
                            /\ kind'[b] = "dispatch" => kind[b] = "dispatch"
                            /\ pc'[b] = "init" => pc[b] = "init"
                            /\ pc[b] = "init" => pc'[b] = "init"
        BY <1>1, <2>3 DEF Return, IInv, TypeOK
    <2>5. \A e \in EncoderIds : Given(e)' => Given(e)
        BY <1>2, <2>4, ApiNotWorker DEF Given
    <2> QED BY <1>2, <2>2, <2>4, <2>5, DrawKeeps
<1>7. CASE n = seen[a] /\ ~atMax
    <2>1. frame' = [frame EXCEPT ![submit].numRenderItems = n + 1] /\ Claimed(a)
        BY <1>1, <1>7 DEF Claim
    <2>2. frame'[submit].numRenderItems = n + 1 /\ frame'[submit].item = frame[submit].item
        <3>1. frame'[submit] = [frame[submit] EXCEPT !.numRenderItems = n + 1]
            BY <1>1, <2>1 DEF IInv, TypeOK
        <3> QED BY <1>1, <3>1 DEF Frames
    <2>3. n \in Places /\ n < MaxDrawCalls
        BY <1>3, <1>7, Ranges
    <2>4. \A b \in Actors : /\ pc[b] = "write" => pc'[b] = "write" /\ seen'[b] = seen[b]
                            /\ kind'[b] = "dispatch" => kind[b] = "dispatch"
                            /\ pc[b] = "init" => pc'[b] = "init"
        BY <1>1, <2>1 DEF Claimed, Return, callVars, IInv, TypeOK
    <2>5. (\E b \in Actors : pc'[b] = "write" /\ seen'[b] = n) \/ Dropped(n)
        <3>1. CASE seen[a] < Limit(kind[a])
            <4>1. pc'[a] = "write" /\ seen'[a] = n
                BY <1>7, <2>1, <3>1 DEF Claimed, callVars, IInv, TypeOK
            <4> QED BY <4>1
        <3>2. CASE ~(seen[a] < Limit(kind[a]))
            <4>1. kind[a] = "dispatch"
                BY <1>7, <2>3, <3>2 DEF Limit, IInv, TypeOK
            <4>2. n >= MaxDrawCalls - 1
                BY <1>3, <1>7, <3>2, <4>1, Ranges DEF Limit
            <4> QED BY <1>3, <2>3, <4>1, <4>2, Ranges DEF Dropped, DrawInv
        <3> QED BY <3>1, <3>2
    <2>6. \A i \in Places : Fresh(i)' <=> Fresh(i)
        BY <1>2, <2>2 DEF Fresh
    <2>7. ASSUME NEW i \in Places, i < n + 1 PROVE Fresh(i)' \/ Claiming(i)' \/ Dropped(i)
        <3>1. CASE i = n
            BY <2>5, <3>1 DEF Claiming
        <3>2. CASE i # n
            <4>1. i < n
                BY <1>3, <2>7, <3>2, Ranges
            <4>2. Fresh(i) \/ Claiming(i) \/ Dropped(i)
                BY <4>1 DEF DrawInv
            <4>3. Claiming(i) => Claiming(i)'
                BY <2>4 DEF Claiming
            <4> QED BY <2>6, <4>2, <4>3
        <3> QED BY <3>1, <3>2
    <2>8. \A e \in EncoderIds : Given(e)' => Given(e)
        BY <1>2, <2>4, ApiNotWorker DEF Given
    <2>9. apc # "begin0"
        BY <1>1, InCallFacts DEF InCall
    <2>10. \A b \in Actors : kind'[b] = "dispatch" => "dispatch" \in Kinds
        BY <2>4 DEF DrawInv
    <2>11. \A i \in Places : i < frame'[submit'].numRenderItems => Fresh(i)' \/ Claiming(i)' \/ Dropped(i)'
        BY <1>2, <2>2, <2>7 DEF Dropped
    <2>12. \A i, j \in Places :
             Fresh(i)' /\ Fresh(j)' /\ frame'[submit'].item[i] = frame'[submit'].item[j] => i = j
        BY <1>2, <2>2, <2>6 DEF DrawInv
    <2>13. apc' \in {"user", "count", "wait", "reset"} =>
             \A e \in EncoderIds, k \in 0 .. MaxCalls : Given(e)' /\ k < encoders'[e].submitted =>
                \E i \in Places :
                   Fresh(i)' /\ frame'[submit'].item[i] = [frame |-> frames', enc |-> e, no |-> k]
        BY <1>2, <2>2, <2>6, <2>8 DEF DrawInv
    <2> QED BY <1>2, <2>9, <2>10, <2>11, <2>12, <2>13 DEF DrawInv
<1> QED BY <1>5, <1>6, <1>7

LEMMA WriteDraw ==
    ASSUME IInv, DrawInv, NEW a \in Actors, Write(a)
    PROVE  DrawInv'
<1> DEFINE e == enc[a]
           call == [frame |-> frames, enc |-> e, no |-> encoders[e].submitted]
<1>1. /\ pc[a] = "write" /\ encoders[e].frame = submit /\ submit \in {0, 1}
      /\ e \in EncoderIds /\ apc \in {"user", "count", "wait"}
    BY InCallFacts DEF Write, InCall
<1>2. UNCHANGED <<numHandles, submit, frames, enc, apc>>
    BY DEF Write, syncVars, apiVars
<1>3. /\ seen[a] \in Places /\ call \in Items
      /\ frame'[submit].numRenderItems = frame[submit].numRenderItems
      /\ \A i \in Places : frame'[submit].item[i] =
             IF i = seen[a] THEN call ELSE frame[submit].item[i]
    BY <1>1, WriteFacts
<1>4. \A b \in Actors : /\ pc'[b] = IF b = a THEN "ready" ELSE pc[b]
                        /\ b # a => seen'[b] = seen[b]
                        /\ kind'[b] = "dispatch" => kind[b] = "dispatch"
    BY ReturnFacts DEF Write, Return, IInv, TypeOK
<1>5. ~Fresh(seen[a])
    BY <1>1, <1>3 DEF IInv, ItemInv
<1>6. \A i \in Places : Fresh(i)' <=> (i = seen[a] \/ Fresh(i))
    BY <1>2, <1>3 DEF Fresh
<1>7. \A i \in Places : Fresh(i) => frame[submit].item[i] # call
    <2>1. SUFFICES ASSUME NEW i \in Places, Fresh(i), frame[submit].item[i] = call PROVE FALSE
        OBVIOUS
    <2>2. encoders[e].submitted < encoders[e].submitted
        BY <1>1, <2>1 DEF IInv, ItemInv
    <2>3. encoders[e].submitted \in Nat
        BY <1>1 DEF IInv, TypeOK
    <2> QED BY <2>2, <2>3
<1>8. \A i \in Places : i < frame'[submit'].numRenderItems => Fresh(i)' \/ Claiming(i)' \/ Dropped(i)'
    <2>1. \A i \in Places : Claiming(i) => i = seen[a] \/ Claiming(i)'
        BY <1>4 DEF Claiming
    <2> QED BY <1>2, <1>3, <1>6, <2>1 DEF DrawInv, Dropped
<1>9. \A i, j \in Places :
          Fresh(i)' /\ Fresh(j)' /\ frame'[submit'].item[i] = frame'[submit'].item[j] => i = j
    BY <1>2, <1>3, <1>5, <1>6, <1>7 DEF DrawInv
<1>10. ASSUME NEW d \in EncoderIds, NEW k \in 0 .. MaxCalls, Given(d)', k < encoders'[d].submitted
       PROVE  \E i \in Places :
                 Fresh(i)' /\ frame'[submit'].item[i] = [frame |-> frames', enc |-> d, no |-> k]
    <2>1. Given(d)
        BY <1>1, <1>2, <1>4, <1>10, ApiNotWorker DEF Given
    <2>2. CASE d = e /\ k = encoders[e].submitted
        BY <1>2, <1>3, <1>6, <2>2
    <2>3. CASE ~(d = e /\ k = encoders[e].submitted)
        <3>1. encoders'[d].submitted = IF d = e THEN encoders[d].submitted + 1 ELSE encoders[d].submitted
            <4>1. encoders' = [encoders EXCEPT ![e].submitted = @ + 1]
                BY DEF Write
            <4> QED BY <1>1, <4>1 DEF IInv, TypeOK
        <3>2. encoders[d].submitted \in Nat
            BY DEF IInv, TypeOK
        <3>3. k < encoders[d].submitted
            BY <1>10, <2>3, <3>1, <3>2
        <3>4. PICK i \in Places : Fresh(i) /\ frame[submit].item[i] = [frame |-> frames, enc |-> d, no |-> k]
            BY <1>1, <2>1, <3>3 DEF DrawInv
        <3> QED BY <1>2, <1>3, <1>5, <1>6, <3>4
    <2> QED BY <2>2, <2>3
<1>11. apc' # "begin0" /\ \A b \in Actors : kind'[b] = "dispatch" => "dispatch" \in Kinds
    BY <1>1, <1>2, <1>4 DEF DrawInv
<1> QED BY <1>8, <1>9, <1>10, <1>11 DEF DrawInv

LEMMA BlitWriteDraw ==
    ASSUME IInv, DrawInv, NEW a \in Actors, BlitWrite(a)
    PROVE  DrawInv'
<1>1. /\ pc[a] = "blit" /\ encoders[enc[a]].frame = submit /\ submit \in {0, 1}
      /\ enc[a] \in EncoderIds /\ frame[submit] \in Frames
    BY InCallFacts DEF BlitWrite, InCall
<1>2. UNCHANGED <<numHandles, submit, frames, enc, apc>>
    BY DEF BlitWrite, syncVars, apiVars
<1>3. /\ frame'[submit].numRenderItems = frame[submit].numRenderItems
      /\ frame'[submit].item = frame[submit].item
    <2>1. frame' = [frame EXCEPT ![submit].numBlitItems = seen[a] + 1]
        BY <1>1 DEF BlitWrite
    <2>2. frame'[submit] = [frame[submit] EXCEPT !.numBlitItems = seen[a] + 1]
        BY <1>1, <2>1 DEF IInv, TypeOK
    <2> QED BY <1>1, <2>2 DEF Frames
<1>4. \A b \in Actors : /\ pc'[b] = IF b = a THEN "ready" ELSE pc[b]
                        /\ b # a => seen'[b] = seen[b]
                        /\ kind'[b] = "dispatch" => kind[b] = "dispatch"
    BY ReturnFacts DEF BlitWrite, Return, IInv, TypeOK
<1>5. \A e \in EncoderIds : encoders'[e].submitted = encoders[e].submitted
    BY <1>1 DEF BlitWrite, IInv, TypeOK
<1>6. \A e \in EncoderIds : Given(e)' => Given(e)
    BY <1>1, <1>2, <1>4, ApiNotWorker DEF Given
<1> QED BY <1>1, <1>2, <1>3, <1>4, <1>5, <1>6, DrawKeeps

LEMMA SwapDraw ==
    ASSUME IInv, IInv', DrawInv, Swap
    PROVE  DrawInv'
<1>1. /\ apc = "swap" /\ apc' = "begin0" /\ submit' = 1 - submit /\ UNCHANGED <<pc, kind>>
      /\ frame' = [frame EXCEPT ![1 - submit].numRenderItems = 0, ![1 - submit].numBlitItems = 0]
    BY DEF Swap, callVars
<1>2. frame'[submit'].numRenderItems = 0
    <2> DEFINE b == 1 - submit
    <2>1. b \in {0, 1} /\ frame[b] \in Frames
        BY DEF IInv, TypeOK
    <2>2. frame'[b] = [frame[b] EXCEPT !.numRenderItems = 0, !.numBlitItems = 0]
        BY <1>1, <2>1 DEF IInv, TypeOK
    <2> QED BY <1>1, <2>1, <2>2 DEF Frames
<1>3. \A i \in Places : ~Fresh(i)' /\ ~(i < 0)
    BY <1>1, Ranges DEF IInv, ItemInv
<1>4. \A a \in Actors : kind'[a] = "dispatch" => "dispatch" \in Kinds
    <2>1. \A a \in Actors : kind'[a] = kind[a]
        BY <1>1
    <2> QED BY <2>1 DEF DrawInv
<1> QED BY <1>1, <1>2, <1>3, <1>4 DEF DrawInv

\* Every other step of Next.
LEMMA OtherDraw ==
    ASSUME IInv, IInv', DrawInv, [Next]_vars,
           ~(\E a \in Actors : Recording(a)), ~Swap
    PROVE  DrawInv'
<1>1. ASSUME UNCHANGED <<frame, submit, frames, encoders>>,
             \A a \in Actors : kind'[a] = "dispatch" => kind[a] = "dispatch" \/ "dispatch" \in Kinds,
             \A a \in Actors : pc[a] = "write" => pc'[a] = "write" /\ seen'[a] = seen[a],
             apc' = "begin0" => apc = "begin0",
             apc' \in {"user", "count", "wait", "reset"} =>
                 /\ apc \in {"user", "count", "wait", "reset"}
                 /\ \A e \in EncoderIds : Given(e)' => Given(e)
      PROVE  DrawInv'
    BY <1>1, DrawKeeps
<1>2. ASSUME NEW w \in Workers, Begin(w) PROVE DrawInv'
    <2>1. /\ apc' = apc /\ pc[w] = "out" /\ numHandles' = numHandles + 1 /\ enc' = [enc EXCEPT ![w] = numHandles]
          /\ pc' = [pc EXCEPT ![w] = "init"]
          /\ UNCHANGED <<encoders, frame, submit, frames, kind, seen>>
        BY <1>2 DEF Begin, frameVars, callVars, apiVars
    <2>2. \A a \in Actors : /\ pc'[a] = IF a = w THEN "init" ELSE pc[a]
                            /\ enc'[a] = IF a = w THEN numHandles ELSE enc[a]
        BY <2>1 DEF IInv, TypeOK
    <2>3. ASSUME NEW e \in EncoderIds, Given(e)' PROVE Given(e)
        <3>1. e # numHandles /\ e < numHandles + 1
            BY <2>1, <2>2, <2>3, ApiNotWorker DEF Given
        <3>2. e < numHandles
            <4>1. numHandles \in Int
                BY Ranges DEF IInv, TypeOK
            <4>2. e \in Int
                BY Ranges
            <4> QED BY <3>1, <4>1, <4>2
        <3>3. \A v \in Workers : pc[v] = "init" => pc'[v] = "init" /\ enc'[v] = enc[v]
            BY <2>1, <2>2, ApiNotWorker
        <3> QED BY <2>3, <3>2, <3>3 DEF Given
    <2>4. \A a \in Actors : pc[a] = "write" => pc'[a] = "write" /\ seen'[a] = seen[a]
        BY <2>1, <2>2
    <2>5. \A a \in Actors : kind'[a] = kind[a]
        BY <2>1
    <2> QED BY <1>1, <2>1, <2>3, <2>4, <2>5
<1>3. ASSUME NEW w \in Workers, BeginEncoder(w) PROVE DrawInv'
    <2>1. /\ pc[w] = "init" /\ pc' = [pc EXCEPT ![w] = "ready"]
          /\ encoders' = [encoders EXCEPT ![enc[w]] = [frame |-> submit, submitted |-> 0, blits |-> 0]]
          /\ UNCHANGED <<numHandles, frame, submit, frames, enc, kind, seen, apc>>
        BY <1>3 DEF BeginEncoder, frameVars, callVars, apiVars
    <2>2. \A a \in Actors : pc'[a] = IF a = w THEN "ready" ELSE pc[a]
        BY <2>1 DEF IInv, TypeOK
    <2>3. apc = "user"
        BY <2>1 DEF IInv, WorkerInv
    <2>4. ASSUME NEW e \in EncoderIds, Given(e)'
          PROVE  encoders'[e].submitted = 0 \/ (Given(e) /\ encoders'[e].submitted = encoders[e].submitted)
        <3>1. CASE e = enc[w]
            BY <2>1, <3>1 DEF IInv, TypeOK
        <3>2. CASE e # enc[w]
            <4>1. encoders'[e] = encoders[e]
                BY <2>1, <3>2 DEF IInv, TypeOK
            <4>2. Given(e)
                BY <2>1, <2>2, <2>4, <3>2, ApiNotWorker DEF Given
            <4> QED BY <4>1, <4>2
        <3> QED BY <3>1, <3>2
    <2>5. \A a \in Actors : /\ pc[a] = "write" => pc'[a] = "write" /\ seen'[a] = seen[a]
                            /\ kind'[a] = kind[a]
        BY <2>1, <2>2
    <2>6. frame'[submit].numRenderItems = frame[submit].numRenderItems
          /\ \A i \in Places : frame'[submit].item[i] = frame[submit].item[i]
        BY <2>1
    <2> QED BY <2>1, <2>3, <2>4, <2>5, <2>6, DrawKeeps
<1>4. ASSUME NEW w \in Workers, End(w) PROVE DrawInv'
    <2>1. /\ pc[w] = "ready" /\ enc' = [enc EXCEPT ![w] = NoEncoder] /\ pc' = [pc EXCEPT ![w] = "out"]
          /\ UNCHANGED <<numHandles, encoders, frame, submit, frames, kind, seen, apc>>
        BY <1>4 DEF End, allocVars, frameVars, callVars, apiVars
    <2>2. \A a \in Actors : /\ pc'[a] = IF a = w THEN "out" ELSE pc[a]
                            /\ a # w => enc'[a] = enc[a]
        BY <2>1 DEF IInv, TypeOK
    <2>3. \A e \in EncoderIds : Given(e)' => Given(e)
        BY <2>1, <2>2, ApiNotWorker DEF Given
    <2>4. \A a \in Actors : /\ pc[a] = "write" => pc'[a] = "write" /\ seen'[a] = seen[a]
                            /\ kind'[a] = kind[a]
        BY <2>1, <2>2
    <2>5. apc \in {"user", "count", "wait"}
        BY <2>1 DEF IInv, TypeOK, WorkerInv, Ended
    <2> QED BY <1>1, <2>1, <2>3, <2>4, <2>5
<1>5. ASSUME NEW a \in Actors, NEW to \in {"claim", "blit"}, NEW k \in Kinds \union {kind[a]},
             pc[a] = "ready", pc' = [pc EXCEPT ![a] = to], kind' = [kind EXCEPT ![a] = k],
             \A b \in Actors : b # a => seen'[b] = seen[b],
             UNCHANGED <<numHandles, encoders, frame, submit, frames, enc, apc>>
      PROVE  DrawInv'
    <2>1. \A b \in Actors : /\ pc'[b] = IF b = a THEN to ELSE pc[b]
                            /\ kind'[b] = IF b = a THEN k ELSE kind[b]
        BY <1>5 DEF IInv, TypeOK
    <2>2. \A b \in Actors : /\ pc[b] = "write" => pc'[b] = "write" /\ seen'[b] = seen[b]
                            /\ kind'[b] = "dispatch" => kind[b] = "dispatch" \/ "dispatch" \in Kinds
        BY <1>5, <2>1
    <2>3. \A e \in EncoderIds : Given(e)' => Given(e)
        BY <1>5, <2>1, ApiNotWorker DEF Given
    <2>4. apc \in {"user", "count", "wait", "reset"} \/ apc' \notin {"user", "count", "wait", "reset"}
        BY <1>5
    <2> QED BY <1>1, <1>5, <2>2, <2>3, <2>4
<1>6. ASSUME NEW a \in Actors, NEW k \in Kinds, Call(a, k) PROVE DrawInv'
    <2>1. /\ pc[a] = "ready" /\ pc' = [pc EXCEPT ![a] = "claim"] /\ kind' = [kind EXCEPT ![a] = k]
          /\ \A b \in Actors : b # a => seen'[b] = seen[b]
          /\ UNCHANGED <<numHandles, encoders, frame, submit, frames, enc, apc>>
        BY <1>6 DEF Call, MayCall, allocVars, frameVars, apiVars, IInv, TypeOK
    <2> QED BY <1>5, <2>1
<1>7. ASSUME NEW a \in Blitters, Blit(a) PROVE DrawInv'
    <2>1. a \in Actors
        BY UseAssumption
    <2>2. /\ pc[a] = "ready" /\ pc' = [pc EXCEPT ![a] = "blit"] /\ kind' = [kind EXCEPT ![a] = kind[a]]
          /\ \A b \in Actors : b # a => seen'[b] = seen[b]
          /\ UNCHANGED <<numHandles, encoders, frame, submit, frames, enc, apc>>
        BY <1>7, <2>1 DEF Blit, MayCall, allocVars, frameVars, apiVars, IInv, TypeOK
    <2> QED BY <1>5, <2>1, <2>2
<1>8. CASE FrameCall \/ Count \/ WaitEnd \/ Reset \/ Alloc0 \/ Lock
    <2>1. /\ UNCHANGED <<encoders, frame, submit, frames, pc, enc, kind, seen>>
          /\ apc' # "begin0"
          /\ apc' \in {"user", "count", "wait", "reset"} =>
                apc \in {"user", "count", "wait", "reset"} /\ numHandles' = numHandles
        BY <1>8 DEF FrameCall, Count, WaitEnd, Reset, Alloc0, Lock, allocVars, frameVars, callVars
    <2>2. \A a \in Actors : pc'[a] = pc[a] /\ seen'[a] = seen[a] /\ kind'[a] = kind[a]
        BY <2>1
    <2>3. numHandles' = numHandles => \A e \in EncoderIds : Given(e)' => Given(e)
        BY <2>1 DEF Given
    <2> QED BY <1>1, <2>1, <2>2, <2>3
<1>9. CASE Begin0
    <2>1. /\ apc = "begin0" /\ apc' = "user"
          /\ encoders' = [encoders EXCEPT ![0] = [frame |-> submit, submitted |-> 0, blits |-> 0]]
          /\ UNCHANGED <<numHandles, frame, submit, frames, pc, enc, kind, seen>>
        BY <1>9 DEF Begin0, frameVars, callVars
    <2>2. numHandles = 1
        BY <2>1 DEF IInv, CountInv
    <2>3. \A e \in EncoderIds : Given(e)' => encoders'[e].submitted = 0
        BY <2>1, <2>2, Ranges DEF Given, IInv, TypeOK
    <2>4. \A a \in Actors : pc'[a] = pc[a] /\ seen'[a] = seen[a] /\ kind'[a] = kind[a]
        BY <2>1
    <2>5. frame'[submit].numRenderItems = frame[submit].numRenderItems
          /\ \A i \in Places : frame'[submit].item[i] = frame[submit].item[i]
        BY <2>1
    <2> QED BY <2>1, <2>3, <2>4, <2>5, DrawKeeps
<1>10. CASE UNCHANGED vars
    <2>1. UNCHANGED <<numHandles, encoders, frame, submit, frames, pc, enc, kind, seen, apc>>
        BY <1>10 DEF vars, allocVars, frameVars, callVars, apiVars
    <2>2. \A a \in Actors : pc'[a] = pc[a] /\ seen'[a] = seen[a] /\ kind'[a] = kind[a]
        BY <2>1
    <2>3. \A e \in EncoderIds : Given(e)' => Given(e)
        BY <2>1 DEF Given
    <2> QED BY <1>1, <2>1, <2>2, <2>3
<1> QED
    BY <1>2, <1>3, <1>4, <1>6, <1>7, <1>8, <1>9, <1>10 DEF Next, Finished, FrameStep

LEMMA CountBelow ==
    ASSUME NEW k \in Nat
    PROVE  Cardinality(0 .. k - 1) = k
<1>1. k - 1 \in Int
    OBVIOUS
<1>2. Cardinality(0 .. k - 1) = IF 0 > k - 1 THEN 0 ELSE (k - 1) - 0 + 1
    BY <1>1, FS_Interval
<1> QED BY <1>2

\* With no call under way the places counted and the calls recorded correspond.
LEMMA DrawsCounted == IInv /\ DrawInv => DrawsSubmitted
<1> SUFFICES ASSUME IInv, DrawInv, Quiet PROVE
        LET n == frame[submit].numRenderItems
            unwritten == "dispatch" \in Kinds /\ n = MaxDrawCalls
        IN  /\ Submitted = n \/ (unwritten /\ Submitted = n - 1)
            /\ \A i \in Places : i < n /\ i < MaxDrawCalls - 1
                  => frame[submit].item[i].frame = frames
    BY DEF DrawsSubmitted
<1> DEFINE n == frame[submit].numRenderItems
           F == {i \in Places : Fresh(i)}
           at(i) == frame[submit].item[i]
<1>1. /\ n \in 0 .. MaxDrawCalls /\ frame[submit] \in Frames
      /\ apc \in {"user", "count", "wait", "reset"}
    BY Ranges DEF IInv, TypeOK, Frames, Quiet
<1>2. \A a \in Actors : pc[a] # "init" /\ pc[a] # "write"
    BY DEF Quiet, InCall
<1>3. \A i \in Places : i < n => Fresh(i) \/ Dropped(i)
    BY <1>2 DEF DrawInv, Claiming
<1>4. \A i \in F : i \in Places /\ i < n
    BY DEF IInv, ItemInv
<1>5. Cardinality(F) = Submitted
    <2>1. \A i \in F : at(i) \in Recorded
        <3> TAKE i \in F
        <3>1. at(i) \in Items \union {NoItem} /\ at(i).frame = frames
            BY <1>1 DEF Frames, Fresh
        <3>2. at(i) \in Items
            BY <3>1, Ranges DEF NoItem, IInv, TypeOK
        <3>3. at(i).enc < numHandles /\ at(i).no < encoders[at(i).enc].submitted
            BY <1>1 DEF IInv, ItemInv
        <3> QED BY <3>1, <3>2, <3>3 DEF Recorded
    <2>2. ASSUME NEW x \in Recorded PROVE \E i \in F : at(i) = x
        <3>1. /\ x \in Items /\ x.frame = frames /\ x.enc < numHandles
              /\ x.no < encoders[x.enc].submitted
            BY <2>2 DEF Recorded
        <3>2. /\ x.enc \in EncoderIds /\ x.no \in 0 .. MaxCalls
              /\ x = [frame |-> frames, enc |-> x.enc, no |-> x.no]
            BY <3>1 DEF Items
        <3>3. Given(x.enc)
            BY <1>2, <3>1, ApiNotWorker DEF Given
        <3> QED BY <1>1, <3>1, <3>2, <3>3 DEF DrawInv
    <2>3. \A i, j \in F : at(i) = at(j) => i = j
        BY DEF DrawInv
    <2> DEFINE f == [i \in F |-> at(i)]
    <2>4. f \in Bijection(F, Recorded)
        <3>1. f \in [F -> Recorded]
            BY <2>1
        <3>2. f \in Injection(F, Recorded)
            BY <2>3, <3>1 DEF Injection, IsInjective
        <3>3. f \in Surjection(F, Recorded)
            BY <2>2, <3>1 DEF Surjection
        <3> QED BY <3>2, <3>3 DEF Bijection
    <2>5. IsFiniteSet(F)
        <3>1. F \subseteq 0 .. MaxDrawCalls - 1
            BY Ranges DEF Places
        <3>2. IsFiniteSet(0 .. MaxDrawCalls - 1)
            BY Ranges, FS_Interval
        <3> QED BY <3>1, <3>2, FS_Subset
    <2>6. ExistsBijection(F, Recorded)
        BY <2>4 DEF ExistsBijection
    <2> HIDE DEF F
    <2> QED BY <2>5, <2>6, FS_Bijection DEF Submitted
<1>6. CASE \A i \in Places : i < n => Fresh(i)
    <2>1. F = 0 .. n - 1
        BY <1>1, <1>4, <1>6, Ranges
    <2>2. Cardinality(F) = n
        <3>1. n \in Nat
            BY <1>1, Ranges
        <3> HIDE DEF F, n
        <3> QED BY <2>1, <3>1, CountBelow
    <2> QED BY <1>5, <1>6, <2>2 DEF Fresh
<1>7. CASE ~(\A i \in Places : i < n => Fresh(i))
    <2>1. PICK i \in Places : i < n /\ ~Fresh(i)
        BY <1>7
    <2>2. "dispatch" \in Kinds /\ i = MaxDrawCalls - 1
        BY <1>3, <2>1 DEF Dropped
    <2>3. n = MaxDrawCalls
        BY <1>1, <2>1, <2>2, Ranges
    <2>4. \A j \in Places : j # i => Fresh(j)
        BY <1>1, <1>3, <2>2, <2>3, Ranges DEF Dropped
    <2>5. F = 0 .. n - 2
        BY <1>1, <1>4, <2>1, <2>2, <2>3, <2>4, Ranges
    <2>6. Cardinality(F) = n - 1
        <3>1. n - 1 \in Nat /\ n \in Nat
            BY <1>1, <2>3, Ranges
        <3>2. (n - 1) - 1 = n - 2
            BY <3>1
        <3> HIDE DEF F, n
        <3>3. Cardinality(0 .. (n - 1) - 1) = n - 1
            BY <3>1, CountBelow
        <3> QED BY <2>5, <3>2, <3>3
    <2>7. \A j \in Places : j < MaxDrawCalls - 1 => j # i
        BY <2>2, Ranges
    <2> QED BY <1>5, <2>2, <2>3, <2>4, <2>6, <2>7 DEF Fresh
<1> QED BY <1>6, <1>7

\* Whatever the threads do at once, the items frame hands over are the calls submitted that
\* were not dropped, but for a dispatch that was dropped at the last place (1336).
THEOREM DrawsHandedOver ==
    ASSUME ~BeginAnytime
    PROVE  Spec => []DrawsSubmitted
<1>1. IInv /\ IInv' /\ DrawInv /\ [Next]_vars => DrawInv'
    BY ClaimDraw, WriteDraw, BlitWriteDraw, SwapDraw, OtherDraw DEF Recording
<1>2. IInv /\ DrawInv => DrawsSubmitted
    BY DrawsCounted
<1> QED BY InitDraw, <1>1, <1>2, Invariance, PTL DEF Spec

=============================================================================
