------------------------------- MODULE Programs -------------------------------
(***************************************************************************)
(* Shaders, programs and uniforms (src/bgfx/src/bgfx_p.h, class Context).  *)
(* All three are shared: creating a shader from the same binary, a program *)
(* from the same shaders or a uniform of the same name again returns the   *)
(* handle there is.  A program refers to its shaders, a shader to its      *)
(* uniforms, and the renderer finds uniforms by name (UniformRegistry)     *)
(* while it creates a shader (renderer_d3d11.cpp).                         *)
(*                                                                         *)
(* The handle allocators are the sets of HandleSet, the hash maps those of *)
(* HandleMap.  Every function holds m_resourceApiLock, so a call is one    *)
(* step; the renderer runs between any two of them.                        *)
(*                                                                         *)
(* The model starts when Context::init has returned: the vertex shader of  *)
(* the debug text then has handle 0 and keeps it until Context::shutdown,  *)
(* where the model ends.                                                   *)
(*                                                                         *)
(* Left out: shaders that do not match, for which createProgram returns    *)
(* before it changes anything; calls that find no handle and do nothing;   *)
(* arrays in a shader (regCount is 1) and the values of uniforms; what     *)
(* else init makes; a program of a fragment shader alone; the renderer     *)
(* Noop, whose embedded shaders are all one binary.                        *)
(***************************************************************************)
EXTENDS Integers, SequencesExt

CONSTANTS
    Shaders,          \* handles of m_shaderHandle
    FirstShader,      \* the handle 0
    Programs,         \* handles of m_programHandle
    Uniforms,         \* handles of m_uniformHandle
    NoHandle,
    VertexShaders, FragmentShaders, ComputeShaders,  \* binaries, by type
    Names,            \* names of uniforms
    DebugFont,        \* the binary vs_debugfont
    UniformsOf,       \* the names a binary lists, without the predefined ones
    Nums,             \* array sizes the application gives a uniform of each name
    MaxRefs,          \* bound: times the application creates one object, by kind
    MaxCalls          \* bound: calls the application makes in one frame

Binaries == VertexShaders \union FragmentShaders \union ComputeShaders

ASSUME TypesAssumption ==
    /\ VertexShaders \intersect FragmentShaders = {}
    /\ (VertexShaders \union FragmentShaders) \intersect ComputeShaders = {}
ASSUME UniformsOfAssumption ==
    \A b \in Binaries : UniformsOf[b] \in Seq(Names) /\ IsInjective(UniformsOf[b])
ASSUME DebugFontAssumption ==
    DebugFont \in VertexShaders /\ UniformsOf[DebugFont] = <<>>
ASSUME ShadersAssumption ==
    IsFiniteSet(Shaders) /\ FirstShader \in Shaders
ASSUME NoHandleAssumption ==
    NoHandle \notin Uniforms /\ NoHandle \notin Programs /\ NoHandle \notin Shaders
ASSUME BoundsAssumption ==
    /\ MaxCalls \in Nat
    /\ MaxRefs \in [shader : Nat \ {0}, program : Nat \ {0}, uniform : Nat \ {0}]

VARIABLES
    shaders, programs, uniforms,  \* handles in use
    shaderRef,     \* m_shaderRef
    programRef,    \* m_programRef
    uniformRef,    \* m_uniformRef
    shaderMap,     \* m_shaderHashMap: pairs of a binary and its handle
    programMap,    \* m_programHashMap: pairs of a key and its handle
    uniformMap,    \* m_uniformHashMap: pairs of a name and its handle
    app,           \* times the application, or init, still has to destroy each object
    submit,        \* what m_submit holds
    render,        \* what is left to execute of m_render
    stage,         \* what the render thread does with m_render
    rShaders, rPrograms, rUniforms,  \* objects that exist in the renderer
    rUses,         \* the uniforms a shader of the renderer refers to
    rLinks,        \* the shaders a program of the renderer refers to
    registry,      \* UniformRegistry::m_uniforms: the handle of each name
    calls          \* calls made since the last frame

handleVars == <<shaders, programs, uniforms>>
shaderVars == <<shaderRef, shaderMap, uniformRef, uniformMap>>
progVars   == <<programRef, programMap>>
objectVars == <<rShaders, rPrograms, rUniforms, rUses, rLinks, registry>>
rendVars   == <<render, stage, objectVars>>
vars == <<handleVars, shaderVars, progVars, app, submit, rendVars, calls>>

-----------------------------------------------------------------------------
(* State.                                                                   *)

EmptyFrame == [pre |-> <<>>, post |-> <<>>, draws |-> {},
               freeShader |-> <<>>, freeProgram |-> <<>>, freeUniform |-> <<>>]

ShaderRefs  == [refCount : Int, bin : Binaries \union {NoHandle},
                uniforms : Seq(Uniforms \union {NoHandle})]
ProgramRefs == [refCount : Int, vsh : Shaders, fsh : Shaders \union {NoHandle}]
UniformRefs == [refCount : Int, num : {0, 1} \union UNION {Nums[n] : n \in Names}]

TypeOK ==
    /\ shaders \subseteq Shaders /\ programs \subseteq Programs /\ uniforms \subseteq Uniforms
    /\ shaderRef \in [Shaders -> ShaderRefs]
    /\ programRef \in [Programs -> ProgramRefs]
    /\ uniformRef \in [Uniforms -> UniformRefs]
    /\ shaderMap \subseteq Binaries \X shaders
    /\ programMap \subseteq (Shaders \X Shaders) \X programs
    /\ uniformMap \subseteq Names \X uniforms
    /\ app.shader \in [Shaders -> 0 .. MaxRefs.shader]
    /\ app.program \in [Programs -> 0 .. MaxRefs.program]
    /\ app.uniform \in [Uniforms -> 0 .. MaxRefs.uniform]
    /\ DOMAIN submit = DOMAIN EmptyFrame /\ DOMAIN render = DOMAIN EmptyFrame
    /\ stage \in {"idle", "pre", "submit", "post"}
    /\ rShaders \subseteq Shaders /\ rPrograms \subseteq Programs /\ rUniforms \subseteq Uniforms
    /\ rUses \in [Shaders -> SUBSET Uniforms]
    /\ rLinks \in [Programs -> SUBSET Shaders]
    /\ registry \in [Names -> Uniforms \union {NoHandle}]
    /\ calls \in 0 .. MaxCalls

\* Bug: init leaves its first shader handle to the application.
NoInitShaders == {}

\* The shaders init has made, of which it keeps one reference, in the program of
\* TextVideoMemBlitter.  The allocator has given out handle 0 first.
InitShaders == {FirstShader}
InitHolds(s) == IF s \in InitShaders THEN 1 ELSE 0

Init ==
    /\ shaders = InitShaders /\ programs = {} /\ uniforms = {}
    /\ shaderRef = [s \in Shaders |-> [refCount |-> InitHolds(s), uniforms |-> <<>>,
                        bin |-> IF s \in InitShaders THEN DebugFont ELSE NoHandle]]
    /\ programRef = [p \in Programs |-> [refCount |-> 0, vsh |-> FirstShader, fsh |-> NoHandle]]
    /\ uniformRef = [u \in Uniforms |-> [refCount |-> 0, num |-> 0]]
    /\ shaderMap = {DebugFont} \X InitShaders /\ programMap = {} /\ uniformMap = {}
    /\ app = [shader  |-> [s \in Shaders |-> InitHolds(s)], program |-> [p \in Programs |-> 0],
              uniform |-> [u \in Uniforms |-> 0]]
    /\ submit = EmptyFrame /\ render = EmptyFrame
    /\ stage = "idle"
    /\ rShaders = InitShaders /\ rPrograms = {} /\ rUniforms = {}
    /\ rUses = [s \in Shaders |-> {}]
    /\ rLinks = [p \in Programs |-> {}]
    /\ registry = [n \in Names |-> NoHandle]
    /\ calls = 0

\* What find of a hash map returns.
Find(map, k) == LET found == {e \in map : e[1] = k}
                IN  IF found = {} THEN NoHandle ELSE (CHOOSE e \in found : TRUE)[2]

RemoveByHandle(map, h) == {e \in map : e[2] # h}

-----------------------------------------------------------------------------
(* Reference counts.  A call may drop several; what its steps change is     *)
(* kept in one record.                                                      *)

Refs == [shader |-> shaderRef, shaders |-> shaderMap,
         uniform |-> uniformRef, uniforms |-> uniformMap, frame |-> submit]

Becomes(r) ==
    /\ shaderRef' = r.shader /\ shaderMap' = r.shaders
    /\ uniformRef' = r.uniform /\ uniformMap' = r.uniforms
    /\ submit' = r.frame

\* destroyUniform.  For a handle that was never valid its check fails; what it would
\* do then is left out.
DropUniform(r, u) ==
    IF u = NoHandle THEN r
    ELSE IF r.uniform[u].refCount # 1
       THEN [r EXCEPT !.uniform[u].refCount = @ - 1]
       ELSE [r EXCEPT
                !.uniform[u].refCount = 0,
                !.uniforms = RemoveByHandle(@, u),
                !.frame.freeUniform = Append(@, u),
                !.frame.post = Append(@, [op |-> "DestroyUniform", h |-> u])]

ShaderIncRef(r, s) == [r EXCEPT !.shader[s].refCount = @ + 1]

\* Bug: the uniforms keep the references of a destroyed shader.
ShaderDecRefOnly(r, s) ==
    IF r.shader[s].refCount # 1
       THEN [r EXCEPT !.shader[s].refCount = @ - 1]
       ELSE [r EXCEPT
                !.shader[s].refCount = 0,
                !.shader[s].uniforms = <<>>,
                !.shaders = RemoveByHandle(@, s),
                !.frame.freeShader = Append(@, s),
                !.frame.post = Append(@, [op |-> "DestroyShader", h |-> s])]

ShaderDecRef(r, s) ==
    IF r.shader[s].refCount # 1
       THEN [r EXCEPT !.shader[s].refCount = @ - 1]
       ELSE LET gone == [r EXCEPT
                    !.shader[s].refCount = 0,
                    !.shaders = RemoveByHandle(@, s),
                    !.frame.freeShader = Append(@, s),
                    !.frame.post = Append(@, [op |-> "DestroyShader", h |-> s])]
            IN  [FoldLeft(DropUniform, gone, r.shader[s].uniforms) EXCEPT
                    !.shader[s].uniforms = <<>>]

MayCall == calls < MaxCalls /\ calls' = calls + 1

-----------------------------------------------------------------------------
(* Uniforms.                                                                *)

\* createUniform for a name there is: CreateUniform is recorded again when the
\* array has to grow.
ShareUniform(name, num) ==
    LET u == Find(uniformMap, name)
        grows == uniformRef[u].num < num
    IN  /\ MayCall
        /\ u # NoHandle /\ app.uniform[u] < MaxRefs.uniform
        /\ uniformRef' = [uniformRef EXCEPT
                ![u].refCount = @ + 1, ![u].num = IF grows THEN num ELSE @]
        /\ submit' = IF grows
              THEN [submit EXCEPT !.pre = Append(@, [op |-> "CreateUniform", h |-> u, name |-> name])]
              ELSE submit
        /\ app' = [app EXCEPT !.uniform[u] = @ + 1]
        /\ UNCHANGED <<handleVars, shaderRef, shaderMap, uniformMap, progVars, rendVars>>

CreateUniform(u, name, num) ==
    /\ MayCall
    /\ Find(uniformMap, name) = NoHandle
    /\ u \notin uniforms
    /\ uniforms' = uniforms \union {u}
    /\ uniformRef' = [uniformRef EXCEPT ![u] = [refCount |-> 1, num |-> num]]
    /\ uniformMap' = uniformMap \union {<<name, u>>}
    /\ submit' = [submit EXCEPT !.pre = Append(@, [op |-> "CreateUniform", h |-> u, name |-> name])]
    /\ app' = [app EXCEPT !.uniform[u] = @ + 1]
    /\ UNCHANGED <<shaders, programs, shaderRef, shaderMap, progVars, rendVars>>

DestroyUniform(u) ==
    /\ MayCall
    /\ app.uniform[u] > 0
    /\ Becomes(DropUniform(Refs, u))
    /\ app' = [app EXCEPT !.uniform[u] = @ - 1]
    /\ UNCHANGED <<handleVars, progVars, rendVars>>

-----------------------------------------------------------------------------
(* Shaders.                                                                 *)

\* createShader with a binary there is.
ShareShader(bin) ==
    LET s == Find(shaderMap, bin)
    IN  /\ MayCall
        /\ s # NoHandle /\ app.shader[s] < MaxRefs.shader
        /\ Becomes(ShaderIncRef(Refs, s))
        /\ app' = [app EXCEPT !.shader[s] = @ + 1]
        /\ UNCHANGED <<handleVars, progVars, rendVars>>

\* The handles createUniform finds or makes for the names of a shader, in their
\* order: when no handle is left the rest get none.
UniformChoices(bin) ==
    LET names == ToSet(UniformsOf[bin])
        known == {n \in names : Find(uniformMap, n) # NoHandle}
        free  == Uniforms \ uniforms
    IN  {c \in [names -> Uniforms \union {NoHandle}] :
            /\ \A n \in known : c[n] = Find(uniformMap, n)
            /\ \A n \in names \ known : c[n] \in free \union {NoHandle}
            /\ \A m, n \in names : m # n /\ c[m] = c[n] => c[m] = NoHandle
            /\ (\E n \in names : c[n] = NoHandle) => free \subseteq {c[n] : n \in names}
            /\ \A i, j \in DOMAIN UniformsOf[bin] :
                  i < j /\ c[UniformsOf[bin][i]] = NoHandle
                     => UniformsOf[bin][j] \in known \/ c[UniformsOf[bin][j]] = NoHandle}

\* Bug: CreateShader is recorded before the uniforms it needs.
ShaderCommandsFirst(s, bin, made) ==
    <<[op |-> "CreateShader", h |-> s, bin |-> bin]>> \o made

ShaderCommands(s, bin, made) ==
    made \o <<[op |-> "CreateShader", h |-> s, bin |-> bin]>>

\* The commands createUniform records for the new names of a shader, one after the other.
UniformCommands(names, choice) ==
    LET made[i \in 0 .. Len(names)] ==
            IF i = 0 THEN <<>>
            ELSE IF choice[names[i]] \in uniforms \union {NoHandle} THEN made[i - 1]
            ELSE Append(made[i - 1],
                        [op |-> "CreateUniform", h |-> choice[names[i]], name |-> names[i]])
    IN  made[Len(names)]

CreateShader(s, bin, choice) ==
    LET names == UniformsOf[bin]
        new == {n \in ToSet(names) : choice[n] \notin uniforms \union {NoHandle}}
    IN  /\ MayCall
        /\ Find(shaderMap, bin) = NoHandle
        /\ s \notin shaders
        /\ shaders' = shaders \union {s}
        /\ shaderMap' = shaderMap \union {<<bin, s>>}
        /\ shaderRef' = [shaderRef EXCEPT ![s] =
              [refCount |-> 1, bin |-> bin, uniforms |-> [i \in DOMAIN names |-> choice[names[i]]]]]
        /\ uniforms' = uniforms \union {choice[n] : n \in new}
        /\ uniformMap' = uniformMap \union {<<n, choice[n]>> : n \in new}
        /\ uniformRef' = [u \in Uniforms |->
              IF \E n \in new : choice[n] = u THEN [refCount |-> 1, num |-> 1]
              ELSE IF \E n \in ToSet(names) : choice[n] = u
                   THEN [uniformRef[u] EXCEPT !.refCount = @ + 1]
                   ELSE uniformRef[u]]
        /\ submit' = [submit EXCEPT !.pre =
              @ \o ShaderCommands(s, bin, UniformCommands(names, choice))]
        /\ app' = [app EXCEPT !.shader[s] = @ + 1]
        /\ UNCHANGED <<programs, progVars, rendVars>>

DestroyShader(s) ==
    /\ MayCall
    /\ app.shader[s] > InitHolds(s)
    /\ Becomes(ShaderDecRef(Refs, s))
    /\ app' = [app EXCEPT !.shader[s] = @ - 1]
    /\ UNCHANGED <<handleVars, progVars, rendVars>>

-----------------------------------------------------------------------------
(* Programs.  A program of one shader, a compute shader or a vertex shader  *)
(* for which there is no fragment shader, keeps it in vsh.                  *)

\* uint32_t(_fsh.idx<<16)|_vsh.idx, and _vsh.idx alone for a program of one shader.
Key(v, f) == IF f = NoHandle THEN <<v, FirstShader>> ELSE <<v, f>>

\* The shaders of a program, in the order their references change.
ShadersOf(v, f) == IF f = NoHandle THEN <<v>> ELSE <<v, f>>

\* The shaders a program can be made of: the application holds them.
Held(s, bins) ==
    s \in Shaders /\ app.shader[s] > InitHolds(s) /\ shaderRef[s].bin \in bins
CanLink(v, f) == \/ Held(v, VertexShaders) /\ Held(f, FragmentShaders)
                 \/ Held(v, VertexShaders \union ComputeShaders) /\ f = NoHandle

\* The shaders of a program there is that count one more reference: with one shader
\* given only m_vsh, with two both, whether m_fsh is valid or not.  (For an invalid
\* one the code writes past m_shaderRef; MapsExact shows that none is found.)
SharedShaders(p, f) ==
    IF f = NoHandle THEN <<programRef[p].vsh>> ELSE <<programRef[p].vsh, programRef[p].fsh>>

\* With _destroyShaders the application gives away one reference to each.
AppAfter(v, f, destroyShaders) ==
    IF destroyShaders
       THEN [app EXCEPT !.shader = [s \in Shaders |-> IF s \in {v, f} THEN @[s] - 1 ELSE @[s]]]
       ELSE app

Settle(r, v, f, destroyShaders) ==
    Becomes(IF destroyShaders THEN FoldLeft(ShaderDecRef, r, ShadersOf(v, f)) ELSE r)

\* Bug: a program that is shared takes no references to its shaders.
ShareProgramOnly(v, f, destroyShaders) ==
    LET p == Find(programMap, Key(v, f))
    IN  /\ MayCall
        /\ CanLink(v, f)
        /\ p # NoHandle /\ app.program[p] < MaxRefs.program
        /\ programRef' = [programRef EXCEPT ![p].refCount = @ + 1]
        /\ Settle(Refs, v, f, destroyShaders)
        /\ app' = [AppAfter(v, f, destroyShaders) EXCEPT !.program[p] = @ + 1]
        /\ UNCHANGED <<handleVars, programMap, rendVars>>

\* createProgram with shaders a program has been made of.
ShareProgram(v, f, destroyShaders) ==
    LET p == Find(programMap, Key(v, f))
    IN  /\ MayCall
        /\ CanLink(v, f)
        /\ p # NoHandle /\ app.program[p] < MaxRefs.program
        /\ programRef' = [programRef EXCEPT ![p].refCount = @ + 1]
        /\ Settle(FoldLeft(ShaderIncRef, Refs, SharedShaders(p, f)), v, f, destroyShaders)
        /\ app' = [AppAfter(v, f, destroyShaders) EXCEPT !.program[p] = @ + 1]
        /\ UNCHANGED <<handleVars, programMap, rendVars>>

CreateProgram(p, v, f, destroyShaders) ==
    LET cmd == [op |-> "CreateProgram", h |-> p, vsh |-> v, fsh |-> f]
        held == FoldLeft(ShaderIncRef, Refs, ShadersOf(v, f))
    IN  /\ MayCall
        /\ CanLink(v, f)
        /\ Find(programMap, Key(v, f)) = NoHandle
        /\ p \notin programs
        /\ programs' = programs \union {p}
        /\ programRef' = [programRef EXCEPT ![p] = [refCount |-> 1, vsh |-> v, fsh |-> f]]
        /\ programMap' = programMap \union {<<Key(v, f), p>>}
        /\ Settle([held EXCEPT !.frame.pre = Append(@, cmd)], v, f, destroyShaders)
        /\ app' = [AppAfter(v, f, destroyShaders) EXCEPT !.program[p] = @ + 1]
        /\ UNCHANGED <<shaders, uniforms, rendVars>>

\* No program handle is left: the shaders are given away all the same.
CreateProgramFails(v, f) ==
    /\ MayCall
    /\ CanLink(v, f)
    /\ Find(programMap, Key(v, f)) = NoHandle
    /\ programs = Programs
    /\ Settle(Refs, v, f, TRUE)
    /\ app' = AppAfter(v, f, TRUE)
    /\ UNCHANGED <<handleVars, progVars, rendVars>>

\* Bug: the hash map keeps the key of a destroyed program.
DestroyProgramKeepsKey(p) ==
    LET r == FoldLeft(ShaderDecRef, Refs, ShadersOf(programRef[p].vsh, programRef[p].fsh))
        last == programRef[p].refCount = 1
    IN  /\ MayCall
        /\ app.program[p] > 0
        /\ programRef' = [programRef EXCEPT ![p].refCount = @ - 1]
        /\ Becomes(IF last
              THEN [r EXCEPT !.frame.freeProgram = Append(@, p),
                             !.frame.post = Append(@, [op |-> "DestroyProgram", h |-> p])]
              ELSE r)
        /\ app' = [app EXCEPT !.program[p] = @ - 1]
        /\ UNCHANGED <<handleVars, programMap, rendVars>>

DestroyProgram(p) ==
    LET r == FoldLeft(ShaderDecRef, Refs, ShadersOf(programRef[p].vsh, programRef[p].fsh))
        last == programRef[p].refCount = 1
    IN  /\ MayCall
        /\ app.program[p] > 0
        /\ programRef' = [programRef EXCEPT ![p].refCount = @ - 1]
        /\ programMap' = IF last THEN RemoveByHandle(programMap, p) ELSE programMap
        /\ Becomes(IF last
              THEN [r EXCEPT !.frame.freeProgram = Append(@, p),
                             !.frame.post = Append(@, [op |-> "DestroyProgram", h |-> p])]
              ELSE r)
        /\ app' = [app EXCEPT !.program[p] = @ - 1]
        /\ UNCHANGED <<handleVars, rendVars>>

\* submit with a program.
Draw(p) ==
    /\ MayCall
    /\ app.program[p] > 0
    /\ submit' = [submit EXCEPT !.draws = @ \union {p}]
    /\ UNCHANGED <<handleVars, shaderVars, progVars, app, rendVars>>

\* frame, once the renderer has let go of m_render: the queued handles are
\* released and the two Frames change roles.
Frame ==
    /\ stage = "idle"
    /\ shaders' = shaders \ ToSet(submit.freeShader)
    /\ programs' = programs \ ToSet(submit.freeProgram)
    /\ uniforms' = uniforms \ ToSet(submit.freeUniform)
    /\ render' = [submit EXCEPT !.freeShader = <<>>, !.freeProgram = <<>>, !.freeUniform = <<>>]
    /\ submit' = EmptyFrame
    /\ stage' = "pre"
    /\ calls' = 0
    /\ UNCHANGED <<shaderVars, progVars, app, objectVars>>

-----------------------------------------------------------------------------
(* The renderer.                                                            *)

\* Bug: UniformRegistry::add leaves a name that is there with its old handle.
RegistryInsertOnly(name, u) ==
    IF registry[name] = NoHandle THEN [registry EXCEPT ![name] = u] ELSE registry

\* UniformRegistry::add
RegistryAdd(name, u) == [registry EXCEPT ![name] = u]

\* UniformRegistry::remove
RegistryRemove(u) == [n \in Names |-> IF registry[n] = u THEN NoHandle ELSE registry[n]]

\* The uniforms ShaderD3D11::create finds.
Found(bin) == {registry[n] : n \in ToSet(UniformsOf[bin])} \ {NoHandle}

Execute(cmd) ==
    CASE cmd.op = "CreateUniform" ->
            /\ rUniforms' = rUniforms \union {cmd.h}
            /\ registry' = RegistryAdd(cmd.name, cmd.h)
            /\ UNCHANGED <<rShaders, rPrograms, rUses, rLinks>>
      [] cmd.op = "DestroyUniform" ->
            /\ rUniforms' = rUniforms \ {cmd.h}
            /\ registry' = RegistryRemove(cmd.h)
            /\ UNCHANGED <<rShaders, rPrograms, rUses, rLinks>>
      [] cmd.op = "CreateShader" ->
            /\ rShaders' = rShaders \union {cmd.h}
            /\ rUses' = [rUses EXCEPT ![cmd.h] = Found(cmd.bin)]
            /\ UNCHANGED <<rPrograms, rUniforms, rLinks, registry>>
      [] cmd.op = "DestroyShader" ->
            /\ rShaders' = rShaders \ {cmd.h}
            /\ rUses' = [rUses EXCEPT ![cmd.h] = {}]
            /\ UNCHANGED <<rPrograms, rUniforms, rLinks, registry>>
      [] cmd.op = "CreateProgram" ->
            /\ rPrograms' = rPrograms \union {cmd.h}
            /\ rLinks' = [rLinks EXCEPT ![cmd.h] = {cmd.vsh, cmd.fsh} \ {NoHandle}]
            /\ UNCHANGED <<rShaders, rUniforms, rUses, registry>>
      [] cmd.op = "DestroyProgram" ->
            /\ rPrograms' = rPrograms \ {cmd.h}
            /\ rLinks' = [rLinks EXCEPT ![cmd.h] = {}]
            /\ UNCHANGED <<rShaders, rUniforms, rUses, registry>>

apiVars == <<handleVars, shaderVars, progVars, app, submit, calls>>

\* rendererExecCommands(m_render->m_cmdPre), one command after the other.
ExecPre ==
    /\ stage = "pre"
    /\ IF render.pre = <<>>
          THEN stage' = "submit" /\ UNCHANGED <<render, objectVars>>
          ELSE /\ Execute(Head(render.pre))
               /\ render' = [render EXCEPT !.pre = Tail(@)]
               /\ UNCHANGED stage
    /\ UNCHANGED apiVars

\* m_renderCtx->submit draws what the frame recorded.
Submit ==
    /\ stage = "submit"
    /\ stage' = "post"
    /\ render' = [render EXCEPT !.draws = {}]
    /\ UNCHANGED <<objectVars, apiVars>>

\* rendererExecCommands(m_render->m_cmdPost).
ExecPost ==
    /\ stage = "post"
    /\ IF render.post = <<>>
          THEN stage' = "idle" /\ UNCHANGED <<render, objectVars>>
          ELSE /\ Execute(Head(render.post))
               /\ render' = [render EXCEPT !.post = Tail(@)]
               /\ UNCHANGED stage
    /\ UNCHANGED apiVars

ProgramCall ==
    \/ \E v \in Shaders, f \in Shaders \union {NoHandle} :
          \/ CreateProgramFails(v, f)
          \/ \E destroyShaders \in BOOLEAN :
                \/ ShareProgram(v, f, destroyShaders)
                \/ \E p \in Programs : CreateProgram(p, v, f, destroyShaders)
    \/ \E p \in Programs : DestroyProgram(p) \/ Draw(p)

Next ==
    \/ \E n \in Names : \E num \in Nums[n] :
          ShareUniform(n, num) \/ \E u \in Uniforms : CreateUniform(u, n, num)
    \/ \E u \in Uniforms : DestroyUniform(u)
    \/ \E bin \in Binaries :
          \/ ShareShader(bin)
          \/ \E s \in Shaders, choice \in UniformChoices(bin) : CreateShader(s, bin, choice)
    \/ \E s \in Shaders : DestroyShader(s)
    \/ ProgramCall
    \/ Frame
    \/ ExecPre \/ Submit \/ ExecPost

Spec == Init /\ [][Next]_vars

-----------------------------------------------------------------------------
(* Properties.                                                              *)

\* The references programs hold to a shader, one for each time a program was created.
LinksTo(s) ==
    UNION {{p} \X (1 .. programRef[p].refCount) :
              p \in {q \in programs : s \in {programRef[q].vsh, programRef[q].fsh}}}

\* Each count is the number of references: a shader's from the application and
\* from each creation of a program, a uniform's from the application and from each
\* shader that lists it.  Whatever has none is queued for release, once.
RefCountExact ==
    /\ \A p \in programs :
          /\ programRef[p].refCount = app.program[p]
          /\ programRef[p].refCount = 0 <=> p \in ToSet(submit.freeProgram)
    /\ \A s \in shaders :
          /\ shaderRef[s].refCount = app.shader[s] + Cardinality(LinksTo(s))
          /\ shaderRef[s].refCount = 0 <=> s \in ToSet(submit.freeShader)
    /\ \A u \in uniforms :
          /\ uniformRef[u].refCount = app.uniform[u] +
                Cardinality({s \in shaders : Contains(shaderRef[s].uniforms, u)})
          /\ uniformRef[u].refCount = 0 <=> u \in ToSet(submit.freeUniform)
    /\ IsInjective(submit.freeProgram) /\ IsInjective(submit.freeShader)
    /\ IsInjective(submit.freeUniform)

OneToOne(map) == \A d, e \in map : d[1] = e[1] \/ d[2] = e[2] => d = e

\* The hash maps lead from what an object was created from to that object, as
\* long as it is referred to and no longer; createX's assertions "already exists!".
\* createProgram finds only programs made of the shaders it is given, those of one
\* shader and those of two apart.
MapsExact ==
    /\ shaderMap = {<<shaderRef[s].bin, s>> : s \in {x \in shaders : shaderRef[x].refCount > 0}}
    /\ programMap = {<<Key(programRef[p].vsh, programRef[p].fsh), p>> :
                        p \in {x \in programs : programRef[x].refCount > 0}}
    /\ OneToOne(shaderMap) /\ OneToOne(programMap) /\ OneToOne(uniformMap)
    /\ {e[2] : e \in uniformMap} = {u \in uniforms : uniformRef[u].refCount > 0}
    /\ \A v \in Shaders, f \in Shaders \union {NoHandle} :
          LET p == Find(programMap, Key(v, f))
          IN  CanLink(v, f) /\ p # NoHandle => programRef[p].vsh = v /\ programRef[p].fsh = f

\* What a command of the renderer relies on: a new object never meets an old one, a
\* shader finds all its uniforms, a program its shaders ("Vertex shader doesn't
\* exist.").
Applicable(cmd) ==
    CASE cmd.op = "CreateUniform"  -> cmd.h \in rUniforms => registry[cmd.name] = cmd.h
      [] cmd.op = "DestroyUniform" -> cmd.h \in rUniforms
      [] cmd.op = "CreateShader"   ->
            /\ cmd.h \notin rShaders
            /\ \A n \in ToSet(UniformsOf[cmd.bin]) : registry[n] \in rUniforms
      [] cmd.op = "DestroyShader"  -> cmd.h \in rShaders
      [] cmd.op = "CreateProgram"  ->
            cmd.h \notin rPrograms /\ {cmd.vsh, cmd.fsh} \ {NoHandle} \subseteq rShaders
      [] cmd.op = "DestroyProgram" -> cmd.h \in rPrograms

CommandsApply ==
    /\ stage = "pre" /\ render.pre # <<>> => Applicable(Head(render.pre))
    /\ stage = "post" /\ render.post # <<>> => Applicable(Head(render.post))

\* Whatever is drawn finds its program, the program its shaders, and they the
\* memory of their uniforms.
DrawsComplete ==
    stage = "submit" =>
        /\ render.draws \subseteq rPrograms
        /\ \A p \in rPrograms : rLinks[p] \subseteq rShaders
        /\ \A s \in rShaders : rUses[s] \subseteq rUniforms

\* Commands and draws alike find the shaders, programs and uniforms they need.
RendererSafe == CommandsApply /\ DrawsComplete

\* Once a frame has been executed and nothing was recorded since, the renderer
\* finds the same uniform by a name as the API thread.
RegistryAgrees ==
    stage = "idle" /\ calls = 0 => \A n \in Names : registry[n] = Find(uniformMap, n)

\* The check of destroyUniform, which the release of a shader reaches with each
\* uniform it lists: "Invalid handle. %s handle: %d (max %d)".
ReleasesValidUniforms ==
    [][\A s \in shaders : shaderRef[s].refCount > 0 /\ shaderRef'[s].refCount = 0
          => ToSet(shaderRef[s].uniforms) \subseteq uniforms]_vars
=============================================================================
