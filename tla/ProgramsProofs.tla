---------------------------- MODULE ProgramsProofs ----------------------------
(***************************************************************************)
(* Proofs about shaders, programs and uniforms, for any number of handles, *)
(* any binaries and any bounds on what the application does.               *)
(*                                                                         *)
(* The inductive invariant Inv has three parts.  Types is what the others  *)
(* do not tell; it has FirstTaken: handle 0 remains the vertex shader of   *)
(* init, so that no two programs have one key.  ApiInv is about the API    *)
(* thread: a shader, program or uniform is counted by those who hold it,   *)
(* the maps have those that are counted, and a handle of no count waits    *)
(* once for its release, with the command that destroys it.  RefInv says   *)
(* so of a record of what a call changes, so that a call is followed       *)
(* reference by reference.  Recorded is about the renderer: the rest of    *)
(* the frame it executes and then the frame being recorded find what they  *)
(* need at each command, and lead to a renderer that has what the API      *)
(* thread counts on.                                                       *)
(*                                                                         *)
(* createShader does not look at the handle createUniform returns when none *)
(* is left.  Recorded(FALSE) asks nothing of the uniforms of a shader and  *)
(* is invariant; Recorded(TRUE) asks for all of them and is invariant as   *)
(* long as every shader got its handles.  The last part shows how many     *)
(* handles are enough for that: FewHandles bounds those in use by the calls *)
(* of the frame that can have created and destroyed some.                  *)
(***************************************************************************)
EXTENDS Programs, FoldProofs, FiniteSetTheorems, SequenceTheorems

-----------------------------------------------------------------------------
(* Commands, and what they make of the renderer.                            *)

PreCommands ==
    [op : {"CreateUniform"}, h : Uniforms, name : Names]
    \union [op : {"CreateShader"}, h : Shaders, bin : Binaries]
    \union [op : {"CreateProgram"}, h : Programs, vsh : Shaders, fsh : Shaders \union {NoHandle}]

PostCommands ==
    [op : {"DestroyUniform"}, h : Uniforms]
    \union [op : {"DestroyShader"}, h : Shaders]
    \union [op : {"DestroyProgram"}, h : Programs]

Frames == [pre : Seq(PreCommands), post : Seq(PostCommands), draws : SUBSET Programs,
           freeShader : Seq(Shaders), freeProgram : Seq(Programs), freeUniform : Seq(Uniforms)]

\* What the renderer has.
Renderers == [uniforms : SUBSET Uniforms, shaders : SUBSET Shaders, programs : SUBSET Programs,
              uses : [Shaders -> SUBSET Uniforms], links : [Programs -> SUBSET Shaders],
              registry : [Names -> Uniforms \union {NoHandle}]]

Objects == [uniforms |-> rUniforms, shaders |-> rShaders, programs |-> rPrograms,
            uses |-> rUses, links |-> rLinks, registry |-> registry]

\* A command that creates an object, if the renderer has x.
FoundIn(x, bin) == {x.registry[n] : n \in ToSet(UniformsOf[bin])} \ {NoHandle}

Effect(x, c) ==
    IF c.op = "CreateUniform"
       THEN [x EXCEPT !.uniforms = x.uniforms \union {c.h},
                      !.registry = [x.registry EXCEPT ![c.name] = c.h]]
    ELSE IF c.op = "CreateShader"
       THEN [x EXCEPT !.shaders = x.shaders \union {c.h},
                      !.uses = [x.uses EXCEPT ![c.h] = FoundIn(x, c.bin)]]
       ELSE [x EXCEPT !.programs = x.programs \union {c.h},
                      !.links = [x.links EXCEPT ![c.h] = {c.vsh, c.fsh} \ {NoHandle}]]

\* What it needs.  That a shader finds its uniforms is asked for only if full.
Fits(x, c, full) ==
    \/ c.op = "CreateUniform" /\ (c.h \in x.uniforms => x.registry[c.name] = c.h)
    \/ /\ c.op = "CreateShader" /\ c.h \notin x.shaders
       /\ full => \A n \in ToSet(UniformsOf[c.bin]) : x.registry[n] \in x.uniforms
    \/ c.op = "CreateProgram" /\ c.h \notin x.programs /\ {c.vsh, c.fsh} \ {NoHandle} \subseteq x.shaders

\* The commands of p, one after the other, find what they need and lead from x to y.
Follow(g, p, x, y, full) ==
    /\ g \in [0 .. Len(p) -> Renderers] /\ g[0] = x /\ g[Len(p)] = y
    /\ \A i \in 1 .. Len(p) : Fits(g[i - 1], p[i], full) /\ g[i] = Effect(g[i - 1], p[i])

Runs(p, x, y, full) == \E g : Follow(g, p, x, y, full)

\* The commands at the end of a frame each destroy an object that is there.
Named(post, op) == {post[i].h : i \in {j \in 1 .. Len(post) : post[j].op = op}}

NoRepeat(post) ==
    \A i, j \in 1 .. Len(post) : post[i].op = post[j].op /\ post[i].h = post[j].h => i = j

Destroyable(post, x) ==
    /\ NoRepeat(post)
    /\ Named(post, "DestroyUniform") \subseteq x.uniforms
    /\ Named(post, "DestroyShader") \subseteq x.shaders
    /\ Named(post, "DestroyProgram") \subseteq x.programs

\* What they leave.
After(post, x) ==
    [uniforms |-> x.uniforms \ Named(post, "DestroyUniform"),
     shaders  |-> x.shaders \ Named(post, "DestroyShader"),
     programs |-> x.programs \ Named(post, "DestroyProgram"),
     uses     |-> [s \in Shaders |-> IF s \in Named(post, "DestroyShader") THEN {} ELSE x.uses[s]],
     links    |-> [p \in Programs |-> IF p \in Named(post, "DestroyProgram") THEN {} ELSE x.links[p]],
     registry |-> [n \in Names |-> IF x.registry[n] \in Named(post, "DestroyUniform")
                                      THEN NoHandle ELSE x.registry[n]]]

\* Draws find what they need.
Complete(x, draws, full) ==
    /\ draws \subseteq x.programs
    /\ \A p \in x.programs : x.links[p] \subseteq x.shaders
    /\ full => \A s \in x.shaders : x.uses[s] \subseteq x.uniforms

-----------------------------------------------------------------------------
(* The reference counts.                                                    *)

RefRecords == [shader : [Shaders -> ShaderRefs], shaders : SUBSET (Binaries \X Shaders),
               uniform : [Uniforms -> UniformRefs], uniforms : SUBSET (Names \X Uniforms),
               frame : Frames]

\* What is counted: ws, wu the counts of the shaders and uniforms; X, Y those in use.
Wants(w, S, X) == w \in [S -> Nat] /\ X \subseteq S /\ \A s \in S \ X : w[s] = 0

QueueExact(q, w, X, post, op) ==
    /\ IsInjective(q) /\ ToSet(q) = {s \in X : w[s] = 0}
    /\ Named(post, op) = ToSet(q)

MapOf(sh, w, X) == {<<sh[s].bin, s>> : s \in {x \in X : w[x] > 0}}

ShadersExact(r, ws, X) ==
    /\ Wants(ws, Shaders, X)
    /\ \A s \in X : r.shader[s].refCount = ws[s]
    /\ QueueExact(r.frame.freeShader, ws, X, r.frame.post, "DestroyShader")
    /\ r.shaders = MapOf(r.shader, ws, X)
    /\ OneToOne(r.shaders)

Mapped(m, w, Y) == OneToOne(m) /\ {e[2] : e \in m} = {u \in Y : w[u] > 0}

UniformsExact(r, wu, Y) ==
    /\ Wants(wu, Uniforms, Y)
    /\ \A u \in Y : r.uniform[u].refCount = wu[u]
    /\ QueueExact(r.frame.freeUniform, wu, Y, r.frame.post, "DestroyUniform")
    /\ Mapped(r.uniforms, wu, Y)

Exact(r, ws, wu, X, Y) ==
    /\ r \in RefRecords
    /\ ShadersExact(r, ws, X) /\ UniformsExact(r, wu, Y)
    /\ NoRepeat(r.frame.post)

\* Who lists a uniform, and its count if the application holds it a[u] times.
Users(sh, u) == {s \in Shaders : u \in ToSet(sh[s].uniforms)}
Totals(sh, a) == [u \in Uniforms |-> a[u] + Cardinality(Users(sh, u))]

\* No uniform is listed twice, and only shaders that are referred to list any.
Once(l) == \A i, j \in DOMAIN l : l[i] = l[j] => i = j \/ l[i] = NoHandle
Listed(l, Y) == Once(l) /\ ToSet(l) \subseteq Y \union {NoHandle}

Lists(sh, ws, Y) ==
    \A s \in Shaders : Listed(sh[s].uniforms, Y) /\ (ws[s] = 0 => sh[s].uniforms = <<>>)

RefInv(r, ws, a, X, Y) ==
    /\ Exact(r, ws, Totals(r.shader, a), X, Y)
    /\ Lists(r.shader, ws, Y)
    /\ a \in [Uniforms -> Nat]

\* What the count of a shader has to be.
Wanted == [s \in Shaders |-> app.shader[s] + Cardinality(LinksTo(s))]

\* A program in use has been made of shaders as createProgram asks for.
MadeOf(p) ==
    LET v == programRef[p].vsh
        f == programRef[p].fsh
    IN  \/ /\ v \in shaders /\ shaderRef[v].bin \in VertexShaders
           /\ f \in shaders /\ shaderRef[f].bin \in FragmentShaders
        \/ /\ v \in shaders /\ shaderRef[v].bin \in VertexShaders \union ComputeShaders
           /\ f = NoHandle

ProgramsExact ==
    /\ Wants(app.program, Programs, programs)
    /\ \A p \in programs : programRef[p].refCount = app.program[p]
    /\ QueueExact(submit.freeProgram, app.program, programs, submit.post, "DestroyProgram")
    /\ programMap = {<<Key(programRef[p].vsh, programRef[p].fsh), p>> :
                        p \in {x \in programs : app.program[x] > 0}}
    /\ OneToOne(programMap)
    /\ \A p \in programs : app.program[p] > 0 => MadeOf(p)
    /\ \A s \in Shaders : IsFiniteSet(LinksTo(s))

ApiInv ==
    /\ RefInv(Refs, Wanted, app.uniform, shaders, uniforms)
    /\ ProgramsExact
    /\ submit.draws \subseteq programs
    /\ calls = 0 => submit = EmptyFrame

-----------------------------------------------------------------------------
(* The renderer.                                                            *)

\* With x the renderer has what the API thread counts on.
Agrees(x, full) ==
    /\ x \in Renderers
    /\ x.uniforms = uniforms /\ x.shaders = shaders /\ x.programs = programs
    /\ \A n \in Names : \/ <<n, x.registry[n]>> \in uniformMap
                        \/ /\ \A u \in Uniforms : <<n, u>> \notin uniformMap
                           /\ x.registry[n] \in ToSet(submit.freeUniform) \union {NoHandle}
    /\ \A p \in programs : x.links[p] = {programRef[p].vsh, programRef[p].fsh} \ {NoHandle}
    /\ Complete(x, submit.draws, full)
    /\ full => \A s \in shaders : shaderRef[s].refCount > 0
                                     => x.uses[s] = ToSet(shaderRef[s].uniforms)

\* m_render runs, from what the renderer has to x.
RenderRuns(x, full) ==
    /\ Runs(render.pre, Objects, x, full)
    /\ stage \in {"pre", "submit"} => Complete(x, render.draws, full)
    /\ Destroyable(render.post, x)
    /\ stage \in {"submit", "post", "idle"} => render.pre = <<>>
    /\ stage = "idle" => render.post = <<>>

Recorded(full) ==
    \E x, y \in Renderers :
        /\ RenderRuns(x, full)
        /\ Runs(submit.pre, After(render.post, x), y, full)
        /\ Agrees(y, full)

\* Every shader in use got a handle for each of its uniforms.
HandlesSuffice == \A s \in shaders : NoHandle \notin ToSet(shaderRef[s].uniforms)

\* What the application may have to destroy.
Apps == [shader  : [Shaders -> 0 .. MaxRefs.shader],
         program : [Programs -> 0 .. MaxRefs.program],
         uniform : [Uniforms -> 0 .. MaxRefs.uniform]]

\* Handle 0 is a vertex shader that nobody can release, and so never the fragment
\* shader of a program: createProgram tells it from none by this alone.
FirstTaken == app.shader[FirstShader] > 0 /\ shaderRef[FirstShader].bin = DebugFont

\* What nothing else tells.
Types ==
    /\ programRef \in [Programs -> ProgramRefs]
    /\ app \in Apps
    /\ FirstTaken
    /\ submit \in Frames /\ render \in Frames
    /\ stage \in {"idle", "pre", "submit", "post"}
    /\ calls \in 0 .. MaxCalls

Inv(full) == Types /\ ApiInv /\ Recorded(full)

-----------------------------------------------------------------------------
(* Command buffers that grow at the end and are executed from the start.    *)

\* No commands lead nowhere.
LEMMA RunsNothing ==
    ASSUME NEW x, NEW y, NEW full \in BOOLEAN
    PROVE  /\ x \in Renderers => Runs(<<>>, x, x, full)
           /\ Runs(<<>>, x, y, full) => x = y
<1>1. ASSUME x \in Renderers PROVE Runs(<<>>, x, x, full)
  <2> DEFINE g == [i \in 0 .. 0 |-> x]
  <2>1. g \in [0 .. 0 -> Renderers] /\ g[0] = x BY <1>1
  <2> HIDE DEF g
  <2>2. Len(<<>>) = 0 OBVIOUS
  <2>3. Follow(g, <<>>, x, x, full) BY <2>1, <2>2 DEF Follow
  <2> QED BY <2>3 DEF Runs
<1>2. ASSUME Runs(<<>>, x, y, full) PROVE x = y
  <2>1. PICK g : Follow(g, <<>>, x, y, full) BY <1>2 DEF Runs
  <2>2. Len(<<>>) = 0 OBVIOUS
  <2> QED BY <2>1, <2>2 DEF Follow
<1> QED BY <1>1, <1>2

\* Commands lead from a state of the renderer to one.
LEMMA RunsFrom ==
    ASSUME NEW p, NEW x, NEW y, NEW full \in BOOLEAN, Runs(p, x, y, full), Len(p) \in Nat
    PROVE  x \in Renderers /\ y \in Renderers
<1>1. PICK g : Follow(g, p, x, y, full) BY DEF Runs
<1>2. 0 \in 0 .. Len(p) /\ Len(p) \in 0 .. Len(p) OBVIOUS
<1> QED BY <1>1, <1>2 DEF Follow

\* The uniforms a shader finds are uniforms.
LEMMA FoundType ==
    ASSUME NEW x \in Renderers, NEW b \in Binaries
    PROVE  FoundIn(x, b) \in SUBSET Uniforms
<1>1. \A n \in ToSet(UniformsOf[b]) : n \in Names BY UniformsOfAssumption DEF ToSet
<1> QED BY <1>1 DEF FoundIn, Renderers

\* A command leaves the renderer in a state it can have.
LEMMA EffectType ==
    ASSUME NEW x \in Renderers, NEW c \in PreCommands
    PROVE  Effect(x, c) \in Renderers
<1>1. CASE c.op = "CreateUniform"
  <2>1. c.h \in Uniforms /\ c.name \in Names BY <1>1 DEF PreCommands
  <2>2. [x.registry EXCEPT ![c.name] = c.h] \in [Names -> Uniforms \union {NoHandle}]
    BY <2>1 DEF Renderers
  <2> QED BY <1>1, <2>1, <2>2 DEF Effect, Renderers
<1>2. CASE c.op = "CreateShader"
  <2>1. c.h \in Shaders /\ c.bin \in Binaries BY <1>2 DEF PreCommands
  <2>2. FoundIn(x, c.bin) \in SUBSET Uniforms BY <2>1, FoundType
  <2>3. [x.uses EXCEPT ![c.h] = FoundIn(x, c.bin)] \in [Shaders -> SUBSET Uniforms]
    BY <2>1, <2>2 DEF Renderers
  <2> QED BY <1>2, <2>1, <2>3 DEF Effect, Renderers
<1>3. CASE c.op = "CreateProgram"
  <2>1. c.h \in Programs /\ {c.vsh, c.fsh} \ {NoHandle} \in SUBSET Shaders BY <1>3 DEF PreCommands
  <2>2. [x.links EXCEPT ![c.h] = {c.vsh, c.fsh} \ {NoHandle}] \in [Programs -> SUBSET Shaders]
    BY <2>1 DEF Renderers
  <2> QED BY <1>3, <2>1, <2>2 DEF Effect, Renderers
<1> QED BY <1>1, <1>2, <1>3 DEF PreCommands

\* One more command at the end.
LEMMA RunsAppend ==
    ASSUME NEW p \in Seq(PreCommands), NEW c \in PreCommands, NEW x, NEW y,
           NEW full \in BOOLEAN, Runs(p, x, y, full), Fits(y, c, full)
    PROVE  Runs(Append(p, c), x, Effect(y, c), full)
<1> DEFINE q == Append(p, c)
           n == Len(p)
<1>1. /\ n \in Nat /\ Len(q) = n + 1 /\ q[n + 1] = c
      /\ \A i \in 1 .. n : q[i] = p[i]
  BY AppendProperties, LenProperties
<1>2. PICK g : Follow(g, p, x, y, full) BY DEF Runs
<1>3. y \in Renderers BY <1>1, RunsFrom
<1> HIDE DEF q, n
<1> DEFINE z == Effect(y, c)
           h == [i \in 0 .. n + 1 |-> IF i = n + 1 THEN z ELSE g[i]]
<1>4. z \in Renderers BY <1>3, EffectType
<1>5. /\ g \in [0 .. n -> Renderers] /\ g[0] = x /\ g[n] = y
      /\ \A i \in 1 .. n : Fits(g[i - 1], p[i], full) /\ g[i] = Effect(g[i - 1], p[i])
  BY <1>2 DEF Follow, n
<1> HIDE DEF z
<1>6. h \in [0 .. n + 1 -> Renderers] BY <1>1, <1>4, <1>5
<1>7. h[0] = x /\ h[n + 1] = z /\ \A i \in 0 .. n : h[i] = g[i] BY <1>1, <1>5
<1> HIDE DEF h
<1>8. ASSUME NEW i \in 1 .. n + 1 PROVE Fits(h[i - 1], q[i], full) /\ h[i] = Effect(h[i - 1], q[i])
  <2>1. CASE i \in 1 .. n
    <3>1. i - 1 \in 0 .. n /\ i \in 0 .. n BY <1>1, <2>1
    <3> QED BY <1>1, <1>5, <1>7, <2>1, <3>1
  <2>2. CASE i = n + 1
    <3>1. i - 1 = n /\ n \in 0 .. n BY <1>1, <2>2
    <3>2. h[i - 1] = y BY <1>5, <1>7, <3>1
    <3> QED BY <1>1, <1>7, <2>2, <3>2 DEF z
  <2> QED BY <1>1, <2>1, <2>2
<1>9. Follow(h, q, x, z, full) BY <1>1, <1>6, <1>7, <1>8 DEF Follow
<1> QED BY <1>9 DEF Runs, q, z

\* The first command finds what it needs, and the others lead on from its effect.
LEMMA RunsTail ==
    ASSUME NEW p \in Seq(PreCommands), p # <<>>, NEW x, NEW y,
           NEW full \in BOOLEAN, Runs(p, x, y, full)
    PROVE  Fits(x, Head(p), full) /\ Runs(Tail(p), Effect(x, Head(p)), y, full)
<1> DEFINE q == Tail(p)
           n == Len(q)
<1>1. /\ n \in Nat /\ Len(p) = n + 1 /\ Head(p) = p[1]
      /\ \A i \in 1 .. n : q[i] = p[i + 1]
  BY HeadTailProperties, LenProperties
<1>2. PICK g : Follow(g, p, x, y, full) BY DEF Runs
<1> HIDE DEF q, n
<1> DEFINE h == [i \in 0 .. n |-> g[i + 1]]
<1>3. /\ g \in [0 .. n + 1 -> Renderers] /\ g[0] = x /\ g[n + 1] = y
      /\ \A i \in 1 .. n + 1 : Fits(g[i - 1], p[i], full) /\ g[i] = Effect(g[i - 1], p[i])
  BY <1>1, <1>2 DEF Follow
<1>4. h \in [0 .. n -> Renderers] /\ h[n] = y BY <1>1, <1>3
<1>5. Fits(x, p[1], full) /\ g[1] = Effect(x, p[1])
  <2>1. 1 \in 1 .. n + 1 /\ 1 - 1 = 0 BY <1>1
  <2>2. Fits(g[1 - 1], p[1], full) /\ g[1] = Effect(g[1 - 1], p[1]) BY <1>3, <2>1
  <2> QED BY <1>3, <2>1, <2>2
<1>6. h[0] = Effect(x, Head(p)) BY <1>1, <1>5
<1>7. \A i \in 0 .. n : h[i] = g[i + 1] OBVIOUS
<1> HIDE DEF h
<1>8. ASSUME NEW i \in 1 .. n PROVE Fits(h[i - 1], q[i], full) /\ h[i] = Effect(h[i - 1], q[i])
  <2>1. i - 1 \in 0 .. n /\ i \in 0 .. n /\ (i - 1) + 1 = i /\ (i + 1) - 1 = i /\ i + 1 \in 1 .. n + 1
    BY <1>1
  <2>2. Fits(g[(i + 1) - 1], p[i + 1], full) /\ g[i + 1] = Effect(g[(i + 1) - 1], p[i + 1])
    BY <1>3, <2>1
  <2>3. h[i - 1] = g[i] /\ h[i] = g[i + 1] /\ q[i] = p[i + 1] BY <1>1, <1>7, <2>1
  <2> QED BY <2>1, <2>2, <2>3
<1>9. Follow(h, q, Effect(x, Head(p)), y, full) BY <1>4, <1>6, <1>8 DEF Follow, n
<1> QED BY <1>1, <1>5, <1>9 DEF Runs, q

\* The commands at the end.
LEMMA NamedAppend ==
    ASSUME NEW p \in Seq(PostCommands), NEW c \in PostCommands
    PROVE  /\ \A op : Named(Append(p, c), op) = Named(p, op) \union {h \in {c.h} : c.op = op}
           /\ NoRepeat(p) /\ c.h \notin Named(p, c.op) => NoRepeat(Append(p, c))
<1> DEFINE q == Append(p, c)
           n == Len(p)
<1>1. /\ n \in Nat /\ Len(q) = n + 1 /\ q[n + 1] = c
      /\ \A i \in 1 .. n : q[i] = p[i]
      /\ Len(p) = n
  BY AppendProperties, LenProperties
<1> HIDE DEF q, n
<1>2. \A op : \A i \in 1 .. n : p[i].op = op => p[i].h \in Named(p, op) BY <1>1 DEF Named
<1>3. ASSUME NEW op PROVE Named(q, op) = Named(p, op) \union {h \in {c.h} : c.op = op}
  <2>1. ASSUME NEW h \in Named(q, op) PROVE h \in Named(p, op) \/ (h = c.h /\ c.op = op)
    <3>1. PICK i \in 1 .. n + 1 : q[i].op = op /\ h = q[i].h BY <1>1 DEF Named
    <3>2. i \in 1 .. n \/ i = n + 1 BY <1>1
    <3> QED BY <1>1, <1>2, <3>1, <3>2
  <2>2. ASSUME NEW h \in Named(p, op) PROVE h \in Named(q, op)
    <3>1. PICK i \in 1 .. n : p[i].op = op /\ h = p[i].h BY <1>1 DEF Named
    <3>2. i \in 1 .. n + 1 /\ q[i] = p[i] BY <1>1
    <3> QED BY <1>1, <3>1, <3>2 DEF Named
  <2>3. c.op = op => c.h \in Named(q, op)
    <3>1. n + 1 \in 1 .. n + 1 BY <1>1
    <3> QED BY <1>1, <3>1 DEF Named
  <2> QED BY <2>1, <2>2, <2>3
<1>4. ASSUME NoRepeat(p), c.h \notin Named(p, c.op) PROVE NoRepeat(q)
  <2>1. \A i \in 1 .. n : ~(p[i].op = c.op /\ p[i].h = c.h) BY <1>2, <1>4
  <2>2. \A i \in 1 .. n + 1 : i \in 1 .. n \/ i = n + 1 BY <1>1
  <2>3. \A i, j \in 1 .. n : p[i].op = p[j].op /\ p[i].h = p[j].h => i = j
    BY <1>1, <1>4 DEF NoRepeat
  <2> QED BY <1>1, <2>1, <2>2, <2>3 DEF NoRepeat
<1> QED BY <1>3, <1>4 DEF q

\* No commands destroy nothing.
LEMMA NamedNothing == (\A op : Named(<<>>, op) = {}) /\ NoRepeat(<<>>)
<1>1. Len(<<>>) = 0 OBVIOUS
<1> QED BY <1>1 DEF Named, NoRepeat

\* The first of the commands that destroy, and the others, which leave its object alone.
LEMMA NamedTail ==
    ASSUME NEW p \in Seq(PostCommands), p # <<>>, NoRepeat(p)
    PROVE  /\ \A op : Named(p, op) = Named(Tail(p), op) \union {h \in {Head(p).h} : Head(p).op = op}
           /\ NoRepeat(Tail(p)) /\ Head(p).h \notin Named(Tail(p), Head(p).op)
<1> DEFINE q == Tail(p)
           n == Len(q)
           c == Head(p)
<1>1. /\ n \in Nat /\ Len(p) = n + 1 /\ c = p[1] /\ Len(q) = n
      /\ \A i \in 1 .. n : q[i] = p[i + 1]
  BY HeadTailProperties, LenProperties
<1> HIDE DEF q, n, c
<1>2. \A i, j \in 1 .. n + 1 : p[i].op = p[j].op /\ p[i].h = p[j].h => i = j
  BY <1>1 DEF NoRepeat
<1>3. ASSUME NEW op PROVE Named(p, op) = Named(q, op) \union {h \in {c.h} : c.op = op}
  <2>1. ASSUME NEW h \in Named(p, op) PROVE h \in Named(q, op) \/ (h = c.h /\ c.op = op)
    <3>1. PICK i \in 1 .. n + 1 : p[i].op = op /\ h = p[i].h BY <1>1 DEF Named
    <3>2. CASE i = 1 BY <1>1, <3>1, <3>2
    <3>3. CASE i # 1
      <4>1. i - 1 \in 1 .. n /\ (i - 1) + 1 = i BY <1>1, <3>3
      <4>2. q[i - 1] = p[i] BY <1>1, <4>1
      <4> QED BY <1>1, <3>1, <4>1, <4>2 DEF Named
    <3> QED BY <3>2, <3>3
  <2>2. ASSUME NEW h \in Named(q, op) PROVE h \in Named(p, op)
    <3>1. PICK i \in 1 .. n : q[i].op = op /\ h = q[i].h BY <1>1 DEF Named
    <3>2. i + 1 \in 1 .. n + 1 /\ q[i] = p[i + 1] BY <1>1
    <3> QED BY <1>1, <3>1, <3>2 DEF Named
  <2>3. c.op = op => c.h \in Named(p, op)
    <3>1. 1 \in 1 .. n + 1 BY <1>1
    <3> QED BY <1>1, <3>1 DEF Named
  <2> QED BY <2>1, <2>2, <2>3
<1>4. NoRepeat(q)
  <2> SUFFICES ASSUME NEW i \in 1 .. n, NEW j \in 1 .. n, q[i].op = q[j].op, q[i].h = q[j].h
               PROVE  i = j
    BY <1>1 DEF NoRepeat
  <2>1. i + 1 \in 1 .. n + 1 /\ j + 1 \in 1 .. n + 1 BY <1>1
  <2>2. i + 1 = j + 1 BY <1>1, <1>2, <2>1
  <2> QED BY <1>1, <2>2
<1>5. c.h \notin Named(q, c.op)
  <2> SUFFICES ASSUME NEW i \in 1 .. n, q[i].op = c.op, q[i].h = c.h PROVE FALSE
    BY <1>1 DEF Named
  <2>1. i + 1 \in 1 .. n + 1 /\ 1 \in 1 .. n + 1 /\ i + 1 # 1 BY <1>1
  <2> QED BY <1>1, <1>2, <2>1
<1> QED BY <1>3, <1>4, <1>5 DEF q, c

-----------------------------------------------------------------------------
(* A reference more or less.                                                *)

\* One more element at the end of a queue.
LEMMA ElementsAppend ==
    ASSUME NEW C, NEW q \in Seq(C), NEW c \in C
    PROVE  /\ ToSet(Append(q, c)) = ToSet(q) \union {c}
           /\ IsInjective(q) /\ c \notin ToSet(q) => IsInjective(Append(q, c))
<1> DEFINE r == Append(q, c)
           n == Len(q)
<1>1. /\ n \in Nat /\ DOMAIN q = 1 .. n /\ DOMAIN r = 1 .. n + 1 /\ r[n + 1] = c
      /\ \A i \in 1 .. n : r[i] = q[i]
  BY AppendProperties, LenProperties
<1> HIDE DEF r, n
<1>2. \A i \in 1 .. n + 1 : i \in 1 .. n \/ i = n + 1 BY <1>1
<1>3. \A i \in 1 .. n : i \in 1 .. n + 1 BY <1>1
<1>4. n + 1 \in 1 .. n + 1 BY <1>1
<1>5. ToSet(r) = ToSet(q) \union {c}
  <2>1. ASSUME NEW x \in ToSet(r) PROVE x \in ToSet(q) \union {c}
    <3>1. PICK i \in 1 .. n + 1 : x = r[i] BY <1>1 DEF ToSet
    <3> QED BY <1>1, <1>2, <3>1 DEF ToSet
  <2>2. ASSUME NEW x \in ToSet(q) PROVE x \in ToSet(r)
    <3>1. PICK i \in 1 .. n : x = q[i] BY <1>1 DEF ToSet
    <3> QED BY <1>1, <1>3, <3>1 DEF ToSet
  <2>3. c \in ToSet(r) BY <1>1, <1>4 DEF ToSet
  <2> QED BY <2>1, <2>2, <2>3
<1>6. ASSUME IsInjective(q), c \notin ToSet(q) PROVE IsInjective(r)
  <2>1. \A i \in 1 .. n : q[i] # c BY <1>1, <1>6 DEF ToSet
  <2>2. \A i, j \in 1 .. n : q[i] = q[j] => i = j BY <1>1, <1>6 DEF IsInjective
  <2> QED BY <1>1, <1>2, <2>1, <2>2 DEF IsInjective
<1> QED BY <1>5, <1>6 DEF r

\* One reference less.
LEMMA WantsLess ==
    ASSUME NEW S, NEW X, NEW w, Wants(w, S, X), NEW s \in X, w[s] > 0
    PROVE  LET w2 == [w EXCEPT ![s] = w[s] - 1]
           IN  Wants(w2, S, X) /\ \A x \in S : w2[x] = IF x = s THEN w[s] - 1 ELSE w[x]
<1>1. s \in S /\ w \in [S -> Nat] BY DEF Wants
<1>2. w[s] \in Nat /\ w[s] - 1 \in Nat BY <1>1
<1> DEFINE w2 == [w EXCEPT ![s] = w[s] - 1]
<1>3. w2 \in [S -> Nat] /\ \A x \in S : w2[x] = IF x = s THEN w[s] - 1 ELSE w[x] BY <1>1, <1>2
<1> HIDE DEF w2
<1>4. Wants(w2, S, X) BY <1>3 DEF Wants
<1> QED BY <1>3, <1>4 DEF w2

\* One reference more.
LEMMA WantsMore ==
    ASSUME NEW S, NEW X, NEW w, Wants(w, S, X), NEW s \in X
    PROVE  LET w2 == [w EXCEPT ![s] = w[s] + 1]
           IN  Wants(w2, S, X) /\ \A x \in S : w2[x] = IF x = s THEN w[s] + 1 ELSE w[x]
<1>1. s \in S /\ w \in [S -> Nat] BY DEF Wants
<1>2. w[s] \in Nat /\ w[s] + 1 \in Nat BY <1>1
<1> DEFINE w2 == [w EXCEPT ![s] = w[s] + 1]
<1>3. w2 \in [S -> Nat] /\ \A x \in S : w2[x] = IF x = s THEN w[s] + 1 ELSE w[x] BY <1>1, <1>2
<1> HIDE DEF w2
<1>4. Wants(w2, S, X) BY <1>3 DEF Wants
<1> QED BY <1>3, <1>4 DEF w2

\* The queue of handles takes the one whose last reference has gone, as the commands do.
LEMMA QueueTakes ==
    ASSUME NEW S, NEW X \in SUBSET S, NEW w, NEW w2, NEW s \in X, w[s] = 1, w2[s] = 0,
           \A x \in X \ {s} : w2[x] = w[x],
           NEW q \in Seq(S), NEW post \in Seq(PostCommands), NEW op,
           [op |-> op, h |-> s] \in PostCommands, QueueExact(q, w, X, post, op)
    PROVE  QueueExact(Append(q, s), w2, X, Append(post, [op |-> op, h |-> s]), op)
<1> DEFINE c == [op |-> op, h |-> s]
           q2 == Append(q, s)
           p2 == Append(post, c)
<1>1. c \in PostCommands /\ c.op = op /\ c.h = s OBVIOUS
<1> HIDE DEF c
<1>2. Named(p2, op) = Named(post, op) \union {s}
  <2>1. \A o : Named(p2, o) = Named(post, o) \union {h \in {c.h} : c.op = o} BY <1>1, NamedAppend
  <2>2. Named(p2, op) = Named(post, op) \union {h \in {c.h} : c.op = op} BY <2>1
  <2> QED BY <1>1, <2>2
<1>3. s \notin ToSet(q) BY DEF QueueExact
<1>4. ToSet(q2) = ToSet(q) \union {s} /\ IsInjective(q2) BY <1>3, ElementsAppend DEF QueueExact
<1> HIDE DEF q2, p2
<1>5. ToSet(q2) = {x \in X : w2[x] = 0} BY <1>4 DEF QueueExact
<1>6. Named(p2, op) = ToSet(q2) BY <1>2, <1>4 DEF QueueExact
<1>7. QueueExact(q2, w2, X, p2, op) BY <1>4, <1>5, <1>6 DEF QueueExact
<1> QED BY <1>7 DEF q2, p2, c

\* A queue of handles to free stays right while the same counts are zero.
LEMMA QueueStays ==
    ASSUME NEW X, NEW w, NEW w2, \A x \in X : w2[x] = 0 <=> w[x] = 0,
           NEW q, NEW post, NEW op, QueueExact(q, w, X, post, op)
    PROVE  QueueExact(q, w2, X, post, op)
  BY DEF QueueExact

\* A queue does not mind the commands that destroy objects of another kind.
LEMMA QueueOther ==
    ASSUME NEW X, NEW w, NEW q, NEW post \in Seq(PostCommands), NEW op, NEW c \in PostCommands,
           c.op # op, QueueExact(q, w, X, post, op)
    PROVE  QueueExact(q, w, X, Append(post, c), op)
<1>1. Named(Append(post, c), op) = Named(post, op) \union {h \in {c.h} : c.op = op} BY NamedAppend
<1>2. Named(Append(post, c), op) = Named(post, op) BY <1>1
<1> QED BY <1>2 DEF QueueExact

\* What no step of a release touches.
FrameKept(f, g) == g.pre = f.pre /\ g.draws = f.draws /\ g.freeProgram = f.freeProgram

UniformDropped(r, d, u) ==
    /\ d \in RefRecords /\ d.shader = r.shader /\ d.shaders = r.shaders
    /\ \A x \in Uniforms : d.uniform[x].refCount = IF x = u THEN r.uniform[u].refCount - 1
                                                           ELSE r.uniform[x].refCount
    /\ FrameKept(r.frame, d.frame) /\ d.frame.freeShader = r.frame.freeShader
    /\ r.uniform[u].refCount # 1 => d.uniforms = r.uniforms /\ d.frame = r.frame
    /\ r.uniform[u].refCount = 1 =>
          /\ d.uniforms = RemoveByHandle(r.uniforms, u)
          /\ d.frame.freeUniform = Append(r.frame.freeUniform, u)
          /\ d.frame.post = Append(r.frame.post, [op |-> "DestroyUniform", h |-> u])

\* What destroyUniform does to the record.
LEMMA DropUniformIs ==
    ASSUME NEW r \in RefRecords, NEW u \in Uniforms
    PROVE  UniformDropped(r, DropUniform(r, u), u)
<1>1. u # NoHandle BY NoHandleAssumption
<1>2. r.uniform[u] \in UniformRefs /\ r.uniform[u].refCount \in Int BY DEF RefRecords, UniformRefs
<1>3. CASE r.uniform[u].refCount # 1
  <2> DEFINE c == [r.uniform[u] EXCEPT !.refCount = @ - 1]
             f == [r.uniform EXCEPT ![u] = c]
             d == [r EXCEPT !.uniform = f]
  <2>1. c \in UniformRefs /\ c.refCount = r.uniform[u].refCount - 1 BY <1>2 DEF UniformRefs
  <2>2. DropUniform(r, u) = d BY <1>1, <1>3, Zenon DEF DropUniform
  <2> HIDE DEF c
  <2>3. f \in [Uniforms -> UniformRefs] BY <2>1 DEF RefRecords
  <2>4. \A x \in Uniforms : f[x] = IF x = u THEN c ELSE r.uniform[x] BY DEF RefRecords
  <2> HIDE DEF f
  <2>5. d \in RefRecords BY <2>3 DEF RefRecords
  <2>6. /\ d.shader = r.shader /\ d.shaders = r.shaders /\ d.uniforms = r.uniforms
        /\ d.frame = r.frame /\ d.uniform = f
    BY DEF RefRecords
  <2> HIDE DEF d
  <2>7. UniformDropped(r, d, u) BY <1>3, <2>1, <2>4, <2>5, <2>6 DEF UniformDropped, FrameKept
  <2> QED BY <2>2, <2>7
<1>4. CASE r.uniform[u].refCount = 1
  <2> DEFINE c == [r.uniform[u] EXCEPT !.refCount = 0]
             f == [r.uniform EXCEPT ![u] = c]
             cmd == [op |-> "DestroyUniform", h |-> u]
             q == Append(r.frame.freeUniform, u)
             p == Append(r.frame.post, cmd)
             g == [r.frame EXCEPT !.freeUniform = q, !.post = p]
             m == RemoveByHandle(r.uniforms, u)
             d == [r EXCEPT !.uniform = f, !.uniforms = m, !.frame = g]
  <2>1. c \in UniformRefs /\ c.refCount = 0 BY <1>2 DEF UniformRefs
  <2>2. DropUniform(r, u) = d BY <1>1, <1>4 DEF DropUniform, RefRecords, Frames
  <2> HIDE DEF c
  <2>3. f \in [Uniforms -> UniformRefs] BY <2>1 DEF RefRecords
  <2>4. \A x \in Uniforms : f[x] = IF x = u THEN c ELSE r.uniform[x] BY DEF RefRecords
  <2>5. cmd \in PostCommands BY DEF PostCommands
  <2>6. r.frame \in Frames /\ q \in Seq(Uniforms) BY DEF RefRecords, Frames
  <2>7. p \in Seq(PostCommands) BY <2>5, <2>6 DEF Frames
  <2>8. m \in SUBSET (Names \X Uniforms) BY DEF RefRecords, RemoveByHandle
  <2> HIDE DEF f, m, q, p
  <2>9. /\ g \in Frames /\ g.freeUniform = q /\ g.post = p /\ FrameKept(r.frame, g)
        /\ g.freeShader = r.frame.freeShader
    BY <2>6, <2>7 DEF Frames, FrameKept
  <2> HIDE DEF g
  <2>10. d \in RefRecords BY <2>3, <2>8, <2>9 DEF RefRecords
  <2>11. /\ d.shader = r.shader /\ d.shaders = r.shaders /\ d.uniforms = m
         /\ d.frame = g /\ d.uniform = f
    BY DEF RefRecords
  <2> HIDE DEF d
  <2>12. UniformDropped(r, d, u)
    BY <1>4, <2>1, <2>4, <2>9, <2>10, <2>11 DEF UniformDropped, m, q, p
  <2> QED BY <2>2, <2>12
<1> QED BY <1>3, <1>4

\* The map after the last reference to u has gone.
LEMMA MapDrops ==
    ASSUME NEW m, NEW Y, NEW w, NEW w2, NEW u \in Y, Mapped(m, w, Y), w2[u] = 0,
           \A x \in Y \ {u} : w2[x] = w[x]
    PROVE  Mapped(RemoveByHandle(m, u), w2, Y) /\ RemoveByHandle(m, u) \subseteq m
<1> DEFINE k == RemoveByHandle(m, u)
<1>1. \A e : e \in k <=> e \in m /\ e[2] # u BY DEF RemoveByHandle
<1> HIDE DEF k
<1>2. OneToOne(k) /\ k \subseteq m BY <1>1 DEF OneToOne, Mapped
<1>3. ASSUME NEW x PROVE x \in {e[2] : e \in k} <=> x \in {e[2] : e \in m} /\ x # u BY <1>1
<1>4. ~(w2[u] > 0) OBVIOUS
<1>5. {e[2] : e \in k} = {x \in Y : w2[x] > 0} BY <1>3, <1>4 DEF Mapped
<1>6. Mapped(k, w2, Y) BY <1>2, <1>5 DEF Mapped
<1> QED BY <1>2, <1>6 DEF k

\* The map while every handle that is counted stays so.
LEMMA MapStays ==
    ASSUME NEW m, NEW Y, NEW w, NEW w2, Mapped(m, w, Y),
           \A x \in Y : w2[x] > 0 <=> w[x] > 0
    PROVE  Mapped(m, w2, Y)
  BY DEF Mapped

\* The rest of the record stays true to its counts.
LEMMA ShadersStay ==
    ASSUME NEW r, NEW d, NEW ws, NEW X, ShadersExact(r, ws, X),
           d.shader = r.shader, d.shaders = r.shaders,
           d.frame.freeShader = r.frame.freeShader,
           Named(d.frame.post, "DestroyShader") = Named(r.frame.post, "DestroyShader")
    PROVE  ShadersExact(d, ws, X)
  BY DEF ShadersExact, QueueExact

\* The uniforms stay right while their counts, map and queue do.
LEMMA UniformsStay ==
    ASSUME NEW r, NEW d, NEW wu, NEW Y, UniformsExact(r, wu, Y),
           \A u \in Y : d.uniform[u].refCount = r.uniform[u].refCount,
           d.uniforms = r.uniforms,
           d.frame.freeUniform = r.frame.freeUniform,
           Named(d.frame.post, "DestroyUniform") = Named(r.frame.post, "DestroyUniform")
    PROVE  UniformsExact(d, wu, Y)
  BY DEF UniformsExact, QueueExact

\* What a release of references keeps of the record: shaders' binaries, and the uniforms
\* of shaders that stay.
Kept(r, d) ==
    /\ FrameKept(r.frame, d.frame)
    /\ Named(d.frame.post, "DestroyProgram") = Named(r.frame.post, "DestroyProgram")
    /\ d.uniforms \subseteq r.uniforms
    /\ ToSet(r.frame.freeUniform) \subseteq ToSet(d.frame.freeUniform)
    /\ \A s \in Shaders : /\ d.shader[s].bin = r.shader[s].bin
                          /\ d.shader[s].refCount > 0
                                => /\ r.shader[s].refCount > 0
                                   /\ d.shader[s].uniforms = r.shader[s].uniforms

\* What two calls keep, one after the other, both keep.
LEMMA KeptChain ==
    ASSUME NEW r, NEW d, NEW e \in RefRecords, Kept(r, d), Kept(d, e)
    PROVE  Kept(r, e)
  BY DEF Kept, FrameKept

\* destroyUniform of a uniform that is counted keeps the counts right.
LEMMA DropKeeps ==
    ASSUME NEW r, NEW d, NEW ws, NEW wu, NEW X, NEW Y, NEW u \in Y, wu[u] > 0,
           Exact(r, ws, wu, X, Y), UniformDropped(r, d, u)
    PROVE  Exact(d, ws, [wu EXCEPT ![u] = wu[u] - 1], X, Y) /\ Kept(r, d)
<1> DEFINE w2 == [wu EXCEPT ![u] = wu[u] - 1]
<1>1. /\ r \in RefRecords /\ d \in RefRecords
      /\ ShadersExact(r, ws, X) /\ UniformsExact(r, wu, Y) /\ NoRepeat(r.frame.post)
  BY DEF Exact, UniformDropped
<1>2. Wants(wu, Uniforms, Y) BY <1>1 DEF UniformsExact
<1>3. u \in Uniforms /\ wu \in [Uniforms -> Nat] /\ Y \in SUBSET Uniforms BY <1>2 DEF Wants
<1>4. Wants(w2, Uniforms, Y) /\ \A x \in Uniforms : w2[x] = IF x = u THEN wu[u] - 1 ELSE wu[x]
  BY <1>2, WantsLess
<1>5. /\ r.frame.post \in Seq(PostCommands) /\ r.frame.freeUniform \in Seq(Uniforms)
  BY <1>1 DEF RefRecords, Frames
<1> HIDE DEF w2
<1>6. wu[u] \in Nat /\ r.uniform[u].refCount = wu[u] BY <1>1, <1>3 DEF UniformsExact
<1>7. \A x \in Y : d.uniform[x].refCount = w2[x]
  BY <1>1, <1>3, <1>4, <1>6 DEF UniformDropped, UniformsExact
<1>8. CASE wu[u] # 1
  <2>1. d.uniforms = r.uniforms /\ d.frame = r.frame /\ d.shader = r.shader /\ d.shaders = r.shaders
    BY <1>6, <1>8 DEF UniformDropped
  <2>2. \A x \in Y : w2[x] = 0 <=> wu[x] = 0 BY <1>3, <1>4, <1>6, <1>8
  <2>3. QueueExact(r.frame.freeUniform, w2, Y, r.frame.post, "DestroyUniform")
    BY <1>1, <2>2, QueueStays DEF UniformsExact
  <2>4. \A x \in Y : w2[x] > 0 <=> wu[x] > 0 BY <1>3, <1>4, <1>6, <1>8
  <2>5. Mapped(r.uniforms, w2, Y) BY <1>1, <2>4, MapStays DEF UniformsExact
  <2>6. UniformsExact(d, w2, Y) BY <1>1, <1>4, <1>7, <2>1, <2>3, <2>5 DEF UniformsExact
  <2>7. ShadersExact(d, ws, X) BY <1>1, <2>1, ShadersStay
  <2>8. Exact(d, ws, w2, X, Y) BY <1>1, <2>1, <2>6, <2>7 DEF Exact
  <2>9. Kept(r, d) BY <2>1 DEF Kept, FrameKept
  <2> QED BY <2>8, <2>9 DEF w2
<1>9. CASE wu[u] = 1
  <2> DEFINE c == [op |-> "DestroyUniform", h |-> u]
  <2>1. /\ d.uniforms = RemoveByHandle(r.uniforms, u)
        /\ d.frame.freeUniform = Append(r.frame.freeUniform, u)
        /\ d.frame.post = Append(r.frame.post, c)
        /\ d.shader = r.shader /\ d.shaders = r.shaders
        /\ d.frame.freeShader = r.frame.freeShader
        /\ FrameKept(r.frame, d.frame)
    BY <1>6, <1>9 DEF UniformDropped
  <2>2. c \in PostCommands /\ c.op = "DestroyUniform" /\ c.h = u BY <1>3 DEF PostCommands
  <2>3. w2[u] = 0 /\ \A x \in Y \ {u} : w2[x] = wu[x] BY <1>3, <1>4, <1>9
  <2>4. QueueExact(r.frame.freeUniform, wu, Y, r.frame.post, "DestroyUniform")
    BY <1>1 DEF UniformsExact
  <2>5. QueueExact(Append(r.frame.freeUniform, u), w2, Y, Append(r.frame.post, c), "DestroyUniform")
    <3>1. [op |-> "DestroyUniform", h |-> u] \in PostCommands BY <2>2
    <3>2. wu[u] = 1 /\ w2[u] = 0 /\ (\A x \in Y \ {u} : w2[x] = wu[x]) BY <1>9, <2>3
    <3> QED BY <1>3, <1>5, <2>4, <3>1, <3>2, QueueTakes, Zenon
  <2>6. u \notin Named(r.frame.post, "DestroyUniform") BY <1>9, <2>4 DEF QueueExact
  <2> HIDE DEF c
  <2>7. /\ \A op : Named(d.frame.post, op) = Named(r.frame.post, op) \union {h \in {c.h} : c.op = op}
        /\ NoRepeat(d.frame.post)
    BY <1>1, <1>5, <2>1, <2>2, <2>6, NamedAppend
  <2>8. \A op : op # "DestroyUniform" => Named(d.frame.post, op) = Named(r.frame.post, op)
    BY <2>2, <2>7
  <2>9. Mapped(d.uniforms, w2, Y) /\ d.uniforms \subseteq r.uniforms
    BY <1>1, <2>1, <2>3, MapDrops DEF UniformsExact
  <2>10. UniformsExact(d, w2, Y) BY <1>4, <1>7, <2>1, <2>5, <2>9 DEF UniformsExact
  <2>11. ShadersExact(d, ws, X) BY <1>1, <2>1, <2>8, ShadersStay
  <2>12. Exact(d, ws, w2, X, Y) BY <1>1, <2>7, <2>10, <2>11 DEF Exact
  <2>13. ToSet(d.frame.freeUniform) = ToSet(r.frame.freeUniform) \union {u}
    BY <1>3, <1>5, <2>1, ElementsAppend
  <2>14. Kept(r, d) BY <2>1, <2>8, <2>9, <2>13 DEF Kept
  <2> QED BY <2>12, <2>14 DEF w2
<1> QED BY <1>8, <1>9

\* The count of s becomes n, and the uniforms have nothing to do with it.
ShaderStep(r, d, s, n) ==
    /\ d \in RefRecords /\ d.uniform = r.uniform /\ d.uniforms = r.uniforms
    /\ \A x \in Shaders : /\ d.shader[x].refCount = IF x = s THEN n ELSE r.shader[x].refCount
                          /\ d.shader[x].bin = r.shader[x].bin
                          /\ d.shader[x].uniforms = r.shader[x].uniforms
    /\ FrameKept(r.frame, d.frame) /\ d.frame.freeUniform = r.frame.freeUniform

Counting(r, s, n) == [r EXCEPT !.shader[s].refCount = n]

\* A new count of a shader changes nothing else.
LEMMA CountingIs ==
    ASSUME NEW r \in RefRecords, NEW s \in Shaders, NEW n \in Int
    PROVE  LET d == Counting(r, s, n)
           IN  ShaderStep(r, d, s, n) /\ d.shaders = r.shaders /\ d.frame = r.frame
<1> DEFINE c == [r.shader[s] EXCEPT !.refCount = n]
           f == [r.shader EXCEPT ![s] = c]
           d == [r EXCEPT !.shader = f]
<1>1. /\ c \in ShaderRefs /\ c.refCount = n
      /\ c.bin = r.shader[s].bin /\ c.uniforms = r.shader[s].uniforms
  BY DEF RefRecords, ShaderRefs
<1>2. Counting(r, s, n) = d BY Zenon DEF Counting
<1> HIDE DEF c
<1>3. f \in [Shaders -> ShaderRefs] BY <1>1 DEF RefRecords
<1>4. \A x \in Shaders : f[x] = IF x = s THEN c ELSE r.shader[x] BY DEF RefRecords
<1> HIDE DEF f
<1>5. d \in RefRecords BY <1>3 DEF RefRecords
<1>6. /\ d.shader = f /\ d.shaders = r.shaders /\ d.uniform = r.uniform
      /\ d.uniforms = r.uniforms /\ d.frame = r.frame
  BY DEF RefRecords
<1> HIDE DEF d
<1>7. ShaderStep(r, d, s, n) BY <1>1, <1>4, <1>5, <1>6 DEF ShaderStep, FrameKept
<1> QED BY <1>2, <1>6, <1>7

\* shaderIncRef counts one more.
LEMMA IncRefIs ==
    ASSUME NEW r \in RefRecords, NEW s \in Shaders
    PROVE  /\ r.shader[s].refCount + 1 \in Int
           /\ ShaderIncRef(r, s) = Counting(r, s, r.shader[s].refCount + 1)
           /\ ShaderIncRef(r, s) \in RefRecords
<1>1. r.shader[s].refCount \in Int BY DEF RefRecords, ShaderRefs
<1>2. ShaderIncRef(r, s) = Counting(r, s, r.shader[s].refCount + 1)
  BY Zenon DEF ShaderIncRef, Counting
<1> QED BY <1>1, <1>2, CountingIs DEF ShaderStep

\* The shader before its uniforms are dropped.
Unmapped(r, s) ==
    [r EXCEPT !.shader[s].refCount = 0,
              !.shaders = RemoveByHandle(@, s),
              !.frame.freeShader = Append(@, s),
              !.frame.post = Append(@, [op |-> "DestroyShader", h |-> s])]

\* A shader that is freed leaves the map and is queued, with the command that destroys it.
LEMMA UnmappedIs ==
    ASSUME NEW r \in RefRecords, NEW s \in Shaders
    PROVE  LET d == Unmapped(r, s)
           IN  /\ ShaderStep(r, d, s, 0)
               /\ d.shaders = RemoveByHandle(r.shaders, s)
               /\ d.frame.freeShader = Append(r.frame.freeShader, s)
               /\ d.frame.post = Append(r.frame.post, [op |-> "DestroyShader", h |-> s])
<1> DEFINE c == [r.shader[s] EXCEPT !.refCount = 0]
           f == [r.shader EXCEPT ![s] = c]
           cmd == [op |-> "DestroyShader", h |-> s]
           q == Append(r.frame.freeShader, s)
           p == Append(r.frame.post, cmd)
           g == [r.frame EXCEPT !.freeShader = q, !.post = p]
           m == RemoveByHandle(r.shaders, s)
           d == [r EXCEPT !.shader = f, !.shaders = m, !.frame = g]
<1>1. /\ c \in ShaderRefs /\ c.refCount = 0
      /\ c.bin = r.shader[s].bin /\ c.uniforms = r.shader[s].uniforms
  <2>1. r.shader[s] \in ShaderRefs /\ 0 \in Int BY DEF RefRecords
  <2> QED BY <2>1 DEF ShaderRefs
<1>2. Unmapped(r, s) = d BY DEF Unmapped, RefRecords, Frames
<1> HIDE DEF c
<1>3. f \in [Shaders -> ShaderRefs] BY <1>1 DEF RefRecords
<1>4. \A x \in Shaders : f[x] = IF x = s THEN c ELSE r.shader[x] BY DEF RefRecords
<1>5. cmd \in PostCommands BY DEF PostCommands
<1>6. r.frame \in Frames /\ q \in Seq(Shaders) BY DEF RefRecords, Frames
<1>7. p \in Seq(PostCommands) BY <1>5, <1>6 DEF Frames
<1>8. m \in SUBSET (Binaries \X Shaders) BY DEF RefRecords, RemoveByHandle
<1> HIDE DEF f, m, q, p
<1>9. /\ g \in Frames /\ g.freeShader = q /\ g.post = p /\ FrameKept(r.frame, g)
      /\ g.freeUniform = r.frame.freeUniform
  BY <1>6, <1>7 DEF Frames, FrameKept
<1> HIDE DEF g
<1>10. d \in RefRecords BY <1>3, <1>8, <1>9 DEF RefRecords
<1>11. /\ d.shader = f /\ d.shaders = m /\ d.uniform = r.uniform
       /\ d.uniforms = r.uniforms /\ d.frame = g
  BY DEF RefRecords
<1> HIDE DEF d
<1>12. ShaderStep(r, d, s, 0) BY <1>1, <1>4, <1>9, <1>10, <1>11 DEF ShaderStep
<1> QED BY <1>2, <1>9, <1>11, <1>12 DEF m, q, p

Unlisted(r, s) == [r EXCEPT !.shader[s].uniforms = <<>>]

\* A shader that is freed lets its list of uniforms go.
LEMMA UnlistedIs ==
    ASSUME NEW r \in RefRecords, NEW s \in Shaders
    PROVE  LET d == Unlisted(r, s)
           IN  /\ d \in RefRecords
               /\ \A x \in Shaders :
                     /\ d.shader[x].refCount = r.shader[x].refCount
                     /\ d.shader[x].bin = r.shader[x].bin
                     /\ d.shader[x].uniforms = IF x = s THEN <<>> ELSE r.shader[x].uniforms
               /\ d.shaders = r.shaders /\ d.uniform = r.uniform
               /\ d.uniforms = r.uniforms /\ d.frame = r.frame
<1> DEFINE c == [r.shader[s] EXCEPT !.uniforms = <<>>]
           f == [r.shader EXCEPT ![s] = c]
           d == [r EXCEPT !.shader = f]
<1>1. /\ c \in ShaderRefs /\ c.uniforms = <<>>
      /\ c.bin = r.shader[s].bin /\ c.refCount = r.shader[s].refCount
  <2>1. <<>> \in Seq(Uniforms \union {NoHandle}) BY EmptySeq
  <2> QED BY <2>1 DEF RefRecords, ShaderRefs
<1>2. Unlisted(r, s) = d BY Zenon DEF Unlisted
<1> HIDE DEF c
<1>3. f \in [Shaders -> ShaderRefs] BY <1>1 DEF RefRecords
<1>4. \A x \in Shaders : f[x] = IF x = s THEN c ELSE r.shader[x] BY DEF RefRecords
<1> HIDE DEF f
<1>5. d \in RefRecords BY <1>3 DEF RefRecords
<1>6. /\ d.shader = f /\ d.shaders = r.shaders /\ d.uniform = r.uniform
      /\ d.uniforms = r.uniforms /\ d.frame = r.frame
  BY DEF RefRecords
<1> HIDE DEF d
<1> QED BY <1>1, <1>2, <1>4, <1>5, <1>6

\* The map of shaders stays right while the same shaders are counted.
LEMMA ShaderMapStays ==
    ASSUME NEW sh, NEW sh2, NEW X, NEW w, NEW w2,
           \A x \in X : (w2[x] > 0 <=> w[x] > 0) /\ sh2[x].bin = sh[x].bin
    PROVE  MapOf(sh2, w2, X) = MapOf(sh, w, X)
  BY DEF MapOf

\* It loses the shader whose count falls to zero.
LEMMA ShaderMapDrops ==
    ASSUME NEW sh, NEW sh2, NEW X, NEW w, NEW w2, NEW u \in X, w2[u] = 0,
           \A x \in X \ {u} : w2[x] = w[x],
           \A x \in X : sh2[x].bin = sh[x].bin
    PROVE  MapOf(sh2, w2, X) = RemoveByHandle(MapOf(sh, w, X), u)
<1> DEFINE L == MapOf(sh2, w2, X)
           M == MapOf(sh, w, X)
<1>1. ASSUME NEW e \in L PROVE e \in M /\ e[2] # u
  <2>1. PICK s \in X : w2[s] > 0 /\ e = <<sh2[s].bin, s>> BY DEF MapOf
  <2>2. s # u /\ w[s] > 0 /\ e = <<sh[s].bin, s>> /\ e[2] = s BY <2>1
  <2> QED BY <2>2 DEF MapOf
<1>2. ASSUME NEW e \in M, e[2] # u PROVE e \in L
  <2>1. PICK s \in X : w[s] > 0 /\ e = <<sh[s].bin, s>> BY DEF MapOf
  <2>2. s # u BY <1>2, <2>1
  <2> QED BY <2>1, <2>2 DEF MapOf
<1> HIDE DEF L, M
<1> QED BY <1>1, <1>2 DEF RemoveByHandle, L, M

\* One reference more to a shader that is in use.
LEMMA IncKeeps ==
    ASSUME NEW r, NEW ws, NEW wu, NEW X, NEW Y, NEW s \in X, ws[s] > 0, Exact(r, ws, wu, X, Y)
    PROVE  LET d == ShaderIncRef(r, s)
           IN  /\ Exact(d, [ws EXCEPT ![s] = ws[s] + 1], wu, X, Y) /\ Kept(r, d)
               /\ \A x \in Shaders : d.shader[x].uniforms = r.shader[x].uniforms
<1> DEFINE w2 == [ws EXCEPT ![s] = ws[s] + 1]
           d == ShaderIncRef(r, s)
           n == r.shader[s].refCount + 1
<1>1. r \in RefRecords /\ ShadersExact(r, ws, X) /\ UniformsExact(r, wu, Y) /\ NoRepeat(r.frame.post)
  BY DEF Exact
<1>2. Wants(ws, Shaders, X) BY <1>1 DEF ShadersExact
<1>3. s \in Shaders /\ ws \in [Shaders -> Nat] /\ X \in SUBSET Shaders BY <1>2 DEF Wants
<1>4. Wants(w2, Shaders, X) /\ \A x \in Shaders : w2[x] = IF x = s THEN ws[s] + 1 ELSE ws[x]
  BY <1>2, WantsMore
<1> HIDE DEF w2
<1>5. n \in Int /\ d = Counting(r, s, n) BY <1>1, <1>3, IncRefIs
<1> HIDE DEF d, n
<1>6. ShaderStep(r, d, s, n) /\ d.shaders = r.shaders /\ d.frame = r.frame
  BY <1>1, <1>3, <1>5, CountingIs
<1>7. ws[s] \in Nat /\ n = ws[s] + 1 BY <1>1, <1>3 DEF ShadersExact, n
<1>8. \A x \in X : (w2[x] > 0 <=> ws[x] > 0) /\ (w2[x] = 0 <=> ws[x] = 0)
  BY <1>3, <1>4, <1>7
<1>9. \A x \in X : d.shader[x].refCount = w2[x] /\ d.shader[x].bin = r.shader[x].bin
  BY <1>1, <1>3, <1>4, <1>6, <1>7 DEF ShaderStep, ShadersExact
<1>10. QueueExact(d.frame.freeShader, w2, X, d.frame.post, "DestroyShader")
  BY <1>1, <1>6, <1>8, QueueStays DEF ShadersExact
<1>11. d.shaders = MapOf(d.shader, w2, X)
  <2>1. MapOf(d.shader, w2, X) = MapOf(r.shader, ws, X) BY <1>8, <1>9, ShaderMapStays
  <2> QED BY <1>1, <1>6, <2>1 DEF ShadersExact
<1>12. ShadersExact(d, w2, X) BY <1>1, <1>4, <1>6, <1>9, <1>10, <1>11 DEF ShadersExact
<1>13. UniformsExact(d, wu, Y) BY <1>1, <1>6, UniformsStay DEF ShaderStep
<1>14. Exact(d, w2, wu, X, Y) BY <1>1, <1>6, <1>12, <1>13 DEF Exact, ShaderStep
<1>15. Kept(r, d)
  <2>1. r.shader[s].refCount > 0 BY <1>1, <1>3 DEF ShadersExact
  <2> QED BY <1>6, <2>1 DEF Kept, FrameKept, ShaderStep
<1>16. \A x \in Shaders : d.shader[x].uniforms = r.shader[x].uniforms BY <1>6 DEF ShaderStep
<1> QED BY <1>14, <1>15, <1>16 DEF w2, d

\* One reference less, while there are others.
LEMMA DecKeeps ==
    ASSUME NEW r, NEW ws, NEW wu, NEW X, NEW Y, NEW s \in X, ws[s] > 1, Exact(r, ws, wu, X, Y)
    PROVE  LET d == Counting(r, s, r.shader[s].refCount - 1)
           IN  /\ Exact(d, [ws EXCEPT ![s] = ws[s] - 1], wu, X, Y) /\ Kept(r, d)
               /\ \A x \in Shaders : d.shader[x].uniforms = r.shader[x].uniforms
<1> DEFINE w2 == [ws EXCEPT ![s] = ws[s] - 1]
           n == r.shader[s].refCount - 1
           d == Counting(r, s, n)
<1>1. r \in RefRecords /\ ShadersExact(r, ws, X) /\ UniformsExact(r, wu, Y) /\ NoRepeat(r.frame.post)
  BY DEF Exact
<1>2. Wants(ws, Shaders, X) BY <1>1 DEF ShadersExact
<1>3. s \in Shaders /\ ws \in [Shaders -> Nat] /\ X \in SUBSET Shaders BY <1>2 DEF Wants
<1>4. ws[s] \in Nat /\ ws[s] > 0 BY <1>3
<1>5. Wants(w2, Shaders, X) /\ \A x \in Shaders : w2[x] = IF x = s THEN ws[s] - 1 ELSE ws[x]
  <2>1. /\ w2 \in [Shaders -> Nat]
        /\ \A x \in Shaders : w2[x] = IF x = s THEN ws[s] - 1 ELSE ws[x]
    BY <1>3, <1>4
  <2> HIDE DEF w2
  <2> QED BY <1>2, <2>1 DEF Wants
<1> HIDE DEF w2
<1>6. n \in Int BY <1>1, <1>3 DEF RefRecords, ShaderRefs
<1> HIDE DEF n
<1>7. ShaderStep(r, d, s, n) /\ d.shaders = r.shaders /\ d.frame = r.frame
  BY <1>1, <1>3, <1>6, CountingIs
<1> HIDE DEF d
<1>8. n = ws[s] - 1 BY <1>1, <1>3 DEF ShadersExact, n
<1>9. \A x \in X : (w2[x] > 0 <=> ws[x] > 0) /\ (w2[x] = 0 <=> ws[x] = 0)
  BY <1>3, <1>5, <1>4
<1>10. \A x \in X : d.shader[x].refCount = w2[x] /\ d.shader[x].bin = r.shader[x].bin
  BY <1>1, <1>3, <1>5, <1>7, <1>8 DEF ShaderStep, ShadersExact
<1>11. QueueExact(d.frame.freeShader, w2, X, d.frame.post, "DestroyShader")
  BY <1>1, <1>7, <1>9, QueueStays DEF ShadersExact
<1>12. d.shaders = MapOf(d.shader, w2, X)
  <2>1. MapOf(d.shader, w2, X) = MapOf(r.shader, ws, X) BY <1>9, <1>10, ShaderMapStays
  <2> QED BY <1>1, <1>7, <2>1 DEF ShadersExact
<1>13. ShadersExact(d, w2, X) BY <1>1, <1>5, <1>7, <1>10, <1>11, <1>12 DEF ShadersExact
<1>14. UniformsExact(d, wu, Y) BY <1>1, <1>7, UniformsStay DEF ShaderStep
<1>15. Exact(d, w2, wu, X, Y) BY <1>1, <1>7, <1>13, <1>14 DEF Exact, ShaderStep
<1>16. Kept(r, d)
  <2>1. r.shader[s].refCount > 0 BY <1>1, <1>3 DEF ShadersExact
  <2> QED BY <1>7, <2>1 DEF Kept, FrameKept, ShaderStep
<1>17. \A x \in Shaders : d.shader[x].uniforms = r.shader[x].uniforms BY <1>7 DEF ShaderStep
<1> QED BY <1>15, <1>16, <1>17 DEF w2, d, n

\* The last reference: the map forgets the shader, and its handle is queued.
LEMMA UnmappedKeeps ==
    ASSUME NEW r, NEW ws, NEW wu, NEW X, NEW Y, NEW s \in X, ws[s] = 1, Exact(r, ws, wu, X, Y)
    PROVE  LET d == Unmapped(r, s)
           IN  /\ Exact(d, [ws EXCEPT ![s] = ws[s] - 1], wu, X, Y) /\ Kept(r, d)
               /\ \A x \in Shaders : d.shader[x].uniforms = r.shader[x].uniforms
               /\ d.shader[s].refCount = 0
<1> DEFINE w2 == [ws EXCEPT ![s] = ws[s] - 1]
           d == Unmapped(r, s)
<1>1. r \in RefRecords /\ ShadersExact(r, ws, X) /\ UniformsExact(r, wu, Y) /\ NoRepeat(r.frame.post)
  BY DEF Exact
<1>2. Wants(ws, Shaders, X) BY <1>1 DEF ShadersExact
<1>3. s \in Shaders /\ ws \in [Shaders -> Nat] /\ X \in SUBSET Shaders BY <1>2 DEF Wants
<1>4. Wants(w2, Shaders, X) /\ \A x \in Shaders : w2[x] = IF x = s THEN ws[s] - 1 ELSE ws[x]
  BY <1>2, WantsLess
<1>5. /\ r.frame.post \in Seq(PostCommands) /\ r.frame.freeShader \in Seq(Shaders)
  BY <1>1 DEF RefRecords, Frames
<1> HIDE DEF w2
<1> DEFINE c == [op |-> "DestroyShader", h |-> s]
<1>6. /\ ShaderStep(r, d, s, 0)
      /\ d.shaders = RemoveByHandle(r.shaders, s)
      /\ d.frame.freeShader = Append(r.frame.freeShader, s)
      /\ d.frame.post = Append(r.frame.post, c)
  BY <1>1, <1>3, UnmappedIs
<1> HIDE DEF d
<1>7. w2[s] = 0 /\ \A x \in X \ {s} : w2[x] = ws[x] BY <1>3, <1>4
<1>8. \A x \in X : d.shader[x].refCount = w2[x] /\ d.shader[x].bin = r.shader[x].bin
  BY <1>1, <1>3, <1>4, <1>6, <1>7 DEF ShaderStep, ShadersExact
<1>9. QueueExact(r.frame.freeShader, ws, X, r.frame.post, "DestroyShader")
  BY <1>1 DEF ShadersExact
<1>10. c \in PostCommands /\ c.op = "DestroyShader" /\ c.h = s BY <1>3 DEF PostCommands
<1>11. QueueExact(d.frame.freeShader, w2, X, d.frame.post, "DestroyShader")
  <2>1. [op |-> "DestroyShader", h |-> s] \in PostCommands BY <1>10
  <2>2. ws[s] = 1 /\ w2[s] = 0 /\ (\A x \in X \ {s} : w2[x] = ws[x]) BY <1>7
  <2>3. QueueExact(Append(r.frame.freeShader, s), w2, X, Append(r.frame.post, c), "DestroyShader")
    BY <1>3, <1>5, <1>9, <2>1, <2>2, QueueTakes, Zenon
  <2> QED BY <1>6, <2>3
<1>12. s \notin Named(r.frame.post, "DestroyShader") BY <1>9 DEF QueueExact
<1> HIDE DEF c
<1>13. /\ \A op : Named(d.frame.post, op) = Named(r.frame.post, op) \union {h \in {c.h} : c.op = op}
       /\ NoRepeat(d.frame.post)
  BY <1>1, <1>5, <1>6, <1>10, <1>12, NamedAppend
<1>14. \A op : op # "DestroyShader" => Named(d.frame.post, op) = Named(r.frame.post, op)
  BY <1>10, <1>13
<1>15. d.shaders = MapOf(d.shader, w2, X)
  <2>1. MapOf(d.shader, w2, X) = RemoveByHandle(MapOf(r.shader, ws, X), s)
    BY <1>7, <1>8, ShaderMapDrops
  <2> QED BY <1>1, <1>6, <2>1 DEF ShadersExact
<1>16. OneToOne(d.shaders) BY <1>1, <1>6 DEF OneToOne, RemoveByHandle, ShadersExact
<1>17. ShadersExact(d, w2, X) BY <1>4, <1>8, <1>11, <1>15, <1>16 DEF ShadersExact
<1>18. UniformsExact(d, wu, Y) BY <1>1, <1>6, <1>14, UniformsStay DEF ShaderStep
<1>19. Exact(d, w2, wu, X, Y) BY <1>6, <1>13, <1>17, <1>18 DEF Exact, ShaderStep
<1>20. Kept(r, d) BY <1>6, <1>14 DEF Kept, ShaderStep
<1>21. /\ \A x \in Shaders : d.shader[x].uniforms = r.shader[x].uniforms
       /\ d.shader[s].refCount = 0
  BY <1>3, <1>6 DEF ShaderStep
<1> QED BY <1>19, <1>20, <1>21 DEF w2, d

-----------------------------------------------------------------------------
(* The release of a shader drops its uniforms one after the other.           *)

\* destroyUniform leaves a record, also of no handle.
LEMMA DropUniformType ==
    ASSUME NEW r \in RefRecords, NEW u \in Uniforms \union {NoHandle}
    PROVE  DropUniform(r, u) \in RefRecords
<1>1. CASE u = NoHandle BY <1>1 DEF DropUniform
<1>2. CASE u \in Uniforms BY <1>2, DropUniformIs DEF UniformDropped
<1> QED BY <1>1, <1>2

DropUniforms(g, r, w) ==
    /\ g \in [0 .. Len(w) -> RefRecords] /\ g[0] = r
    /\ \A k \in 1 .. Len(w) : g[k] = DropUniform(g[k - 1], w[k])

\* The uniforms of a shader are destroyed one after the other.
LEMMA DropUniformsAre ==
    ASSUME NEW r \in RefRecords, NEW w \in Seq(Uniforms \union {NoHandle})
    PROVE  \E g : DropUniforms(g, r, w) /\ g[Len(w)] = FoldLeft(DropUniform, r, w)
<1> DEFINE n == Len(w)
           Is(it) == it = [s \in SUBSET DOMAIN w |->
                              IF s = {} THEN r ELSE DropUniform(it[s \ {Max(s)}], w[Max(s)])]
           G == [p \in RefRecords \X (1 .. n) |-> DropUniform(p[1], w[p[2]])]
<1>1. \A x \in RefRecords, i \in 1 .. n : G[<<x, i>>] = DropUniform(x, w[i]) OBVIOUS
<1>2. n \in Nat /\ DOMAIN w = 1 .. n /\ \A i \in 1 .. n : w[i] \in Uniforms \union {NoHandle}
  BY LenProperties
<1>3. G \in [RefRecords \X (1 .. n) -> RefRecords] BY <1>2, DropUniformType
<1> HIDE DEF G, n
<1>4. \A s \in SUBSET (1 .. n) : s # {} => Max(s) \in 1 .. n BY <1>2, MaxIn
<1>5. \E it : Is(it)
  <2>1. PICK it : Unfolds(it, RefRecords, r, n, G) BY <1>2, <1>3, FoldExists
  <2>2. ASSUME NEW s \in SUBSET (1 .. n), s # {}
        PROVE  it[s] = DropUniform(it[s \ {Max(s)}], w[Max(s)])
    <3>1. it[s \ {Max(s)}] \in RefRecords BY <2>1 DEF Unfolds
    <3>2. it[s] = G[<<it[s \ {Max(s)}], Max(s)>>] BY <2>1, <2>2 DEF Unfolds
    <3> QED BY <1>1, <1>4, <2>2, <3>1, <3>2
  <2>3. it = [s \in SUBSET (1 .. n) |-> it[s]] /\ it[{}] = r BY <2>1 DEF Unfolds
  <2>4. [s \in SUBSET (1 .. n) |-> it[s]]
            = [s \in SUBSET (1 .. n) |->
                  IF s = {} THEN r ELSE DropUniform(it[s \ {Max(s)}], w[Max(s)])]
    BY <2>2, <2>3, Zenon
  <2>5. Is(it) BY <1>2, <2>3, <2>4, Zenon
  <2> QED BY <2>5, Zenon
<1> DEFINE it == CHOOSE it : Is(it)
<1>6. Is(it) BY <1>5, Zenon
<1>7. FoldLeft(DropUniform, r, w) = it[1 .. n] BY <1>2, Zenon DEF FoldLeft, MapThenFoldSet
<1> HIDE DEF it
<1>8. Follows(it, RefRecords, r, n, G)
  <2>1. it[{}] = r /\ \A s \in SUBSET (1 .. n) :
                         s # {} => it[s] = DropUniform(it[s \ {Max(s)}], w[Max(s)])
    BY <1>2, <1>6
  <2> HIDE DEF Is
  <2> QED BY <1>1, <1>4, <2>1 DEF Follows
<1> HIDE DEF Is
<1>9. PICK g : IsChain(g, RefRecords, r, n, G, it[1 .. n]) BY <1>2, <1>3, <1>8, FoldChain
<1>10. ASSUME NEW k \in 1 .. n PROVE g[k] = DropUniform(g[k - 1], w[k])
  <2>1. g[k - 1] \in RefRecords BY <1>2, <1>9 DEF IsChain
  <2>2. g[k] = G[<<g[k - 1], k>>] BY <1>9 DEF IsChain
  <2> QED BY <1>1, <2>1, <2>2
<1>11. DropUniforms(g, r, w) BY <1>9, <1>10 DEF IsChain, n, DropUniforms
<1>12. g[n] = it[1 .. n] BY <1>9 DEF IsChain
<1> QED BY <1>7, <1>11, <1>12 DEF n

\* The counts after one reference to each uniform of D has gone.
Fewer(wu, D) == [u \in Uniforms |-> IF u \in D THEN wu[u] - 1 ELSE wu[u]]

First(w, k) == {w[i] : i \in 1 .. k}

\* The first k + 1 elements of a list.
LEMMA FirstMore ==
    ASSUME NEW w, NEW k \in Nat
    PROVE  First(w, k + 1) = First(w, k) \union {w[k + 1]} /\ First(w, 0) = {}
<1>1. 1 .. (k + 1) = (1 .. k) \union {k + 1} OBVIOUS
<1> QED BY <1>1 DEF First

\* Each uniform listed is listed once.

\* Destroying all uniforms of a shader keeps the counts right: each counts one less.
LEMMA DropUniformsKeep ==
    ASSUME NEW r, NEW ws, NEW wu, NEW X, NEW Y, Exact(r, ws, wu, X, Y),
           NEW w \in Seq(Uniforms \union {NoHandle}), Once(w), ToSet(w) \subseteq Y \union {NoHandle},
           \A u \in ToSet(w) \ {NoHandle} : wu[u] > 0
    PROVE  LET d == FoldLeft(DropUniform, r, w)
           IN  Exact(d, ws, Fewer(wu, ToSet(w)), X, Y) /\ Kept(r, d) /\ d.shader = r.shader
<1> DEFINE n == Len(w)
<1>1. r \in RefRecords /\ UniformsExact(r, wu, Y) BY DEF Exact
<1>2. wu \in [Uniforms -> Nat] /\ Y \in SUBSET Uniforms BY <1>1 DEF UniformsExact, Wants
<1>3. PICK g : DropUniforms(g, r, w) /\ g[n] = FoldLeft(DropUniform, r, w)
  BY <1>1, DropUniformsAre
<1>4. n \in Nat /\ DOMAIN w = 1 .. n BY LenProperties
<1>5. \A k \in 1 .. n : w[k] \in ToSet(w) BY <1>4 DEF ToSet
<1>6. \A k \in 1 .. n : g[k] = DropUniform(g[k - 1], w[k]) BY <1>3 DEF DropUniforms
<1>7. \A k \in 0 .. n : g[k] \in RefRecords BY <1>3 DEF DropUniforms
<1>8. g[0] = r BY <1>3 DEF DropUniforms
<1> HIDE DEF n
<1> DEFINE P(k) == /\ Exact(g[k], ws, Fewer(wu, First(w, k)), X, Y)
                   /\ Kept(r, g[k]) /\ g[k].shader = r.shader
           S == {k \in 0 .. n : P(k)}
<1>9. 0 \in S
  <2>1. First(w, 0) = {} BY DEF First
  <2>2. Fewer(wu, {}) = wu BY <1>2 DEF Fewer
  <2>3. Exact(g[0], ws, Fewer(wu, First(w, 0)), X, Y) BY <1>8, <2>1, <2>2
  <2>4. Kept(r, g[0]) BY <1>8 DEF Kept, FrameKept
  <2> QED BY <1>4, <1>8, <2>3, <2>4
<1>10. ASSUME NEW k \in 0 .. n - 1, k \in S PROVE k + 1 \in S
  <2>1. k + 1 \in 1 .. n /\ k + 1 \in 0 .. n /\ (k + 1) - 1 = k /\ k \in 0 .. n /\ k \in Nat
    BY <1>4
  <2>2. P(k) BY <1>10
  <2> DEFINE v == w[k + 1]
             D == First(w, k)
             f == Fewer(wu, D)
             d == g[k + 1]
             c == g[k]
  <2>3. d = DropUniform(c, v) BY <1>6, <2>1
  <2>4. First(w, k + 1) = D \union {v} BY <2>1, FirstMore
  <2>5. c \in RefRecords /\ Exact(c, ws, f, X, Y) /\ Kept(r, c) /\ c.shader = r.shader
    BY <1>7, <2>1, <2>2
  <2>6. CASE v = NoHandle
    <3>1. d = c BY <2>3, <2>6 DEF DropUniform
    <3>2. Fewer(wu, D \union {v}) = f BY <2>6, NoHandleAssumption DEF Fewer
    <3>3. P(k + 1)
      <4> HIDE DEF D, f, v, d, c
      <4>1. Exact(d, ws, Fewer(wu, First(w, k + 1)), X, Y) BY <2>4, <2>5, <3>1, <3>2
      <4>2. Kept(r, d) /\ d.shader = r.shader BY <2>5, <3>1
      <4> QED BY <4>1, <4>2 DEF d
    <3> QED BY <2>1, <3>3
  <2>7. CASE v # NoHandle
    <3>1. v \in ToSet(w) /\ v \in Y /\ v \in Uniforms /\ wu[v] > 0 BY <1>2, <1>5, <2>1, <2>7
    <3>2. v \notin D
      <4>1. \A i \in 1 .. k : i \in 1 .. n /\ i # k + 1 BY <1>4, <2>1
      <4>2. \A i \in 1 .. k : w[i] # v BY <1>4, <2>1, <2>7, <4>1 DEF Once
      <4> QED BY <4>2 DEF First
    <3>3. f[v] = wu[v] /\ f[v] > 0 BY <3>1, <3>2 DEF Fewer
    <3>4. [f EXCEPT ![v] = f[v] - 1] = Fewer(wu, D \union {v})
      <4> HIDE DEF D, v
      <4>1. \A u \in Uniforms : f[u] = IF u \in D THEN wu[u] - 1 ELSE wu[u] BY DEF Fewer
      <4>2. \A u \in Uniforms : Fewer(wu, D \union {v})[u] = IF u \in D \union {v} THEN wu[u] - 1 ELSE wu[u]
        BY DEF Fewer
      <4>3. f = [u \in Uniforms |-> f[u]] BY DEF Fewer
      <4>4. Fewer(wu, D \union {v}) = [u \in Uniforms |-> Fewer(wu, D \union {v})[u]] BY DEF Fewer
      <4> HIDE DEF f
      <4> QED BY <3>1, <3>2, <3>3, <4>1, <4>2, <4>3, <4>4
    <3> HIDE DEF D, f, v, d, c
    <3>5. UniformDropped(c, d, v) BY <2>3, <2>5, <3>1, DropUniformIs
    <3>6. Exact(d, ws, [f EXCEPT ![v] = f[v] - 1], X, Y) /\ Kept(c, d)
      BY <2>5, <3>1, <3>3, <3>5, DropKeeps
    <3>7. d.shader = r.shader BY <2>5, <3>5 DEF UniformDropped
    <3>8. d \in RefRecords BY <3>5 DEF UniformDropped
    <3>9. Kept(r, d) BY <2>5, <3>6, <3>7, <3>8, KeptChain
    <3>10. Exact(d, ws, Fewer(wu, First(w, k + 1)), X, Y) BY <2>4, <3>4, <3>6
    <3>11. P(k + 1) BY <3>7, <3>9, <3>10 DEF d
    <3> QED BY <2>1, <3>11
  <2> QED BY <2>6, <2>7
<1>11. P(n)
  <2>1. n \in 0 .. n BY <1>4
  <2> HIDE DEF S
  <2>2. \A k \in 0 .. n : k \in S BY <1>4, <1>9, <1>10, UpTo
  <2> QED BY <2>1, <2>2 DEF S
<1>12. First(w, n) = ToSet(w) BY <1>4 DEF First, ToSet
<1> QED BY <1>3, <1>11, <1>12

\* The shaders that list a uniform can be counted.
LEMMA UsersFinite ==
    ASSUME NEW sh, NEW u
    PROVE  IsFiniteSet(Users(sh, u)) /\ Cardinality(Users(sh, u)) \in Nat
<1>1. IsFiniteSet(Shaders) BY ShadersAssumption
<1>2. Users(sh, u) \subseteq Shaders BY DEF Users
<1> QED BY <1>1, <1>2, FS_Subset, FS_CardinalityType

\* The counts of the uniforms.
LEMMA TotalsType ==
    ASSUME NEW sh, NEW a \in [Uniforms -> Nat]
    PROVE  /\ Totals(sh, a) \in [Uniforms -> Nat]
           /\ \A u \in Uniforms : Totals(sh, a)[u] = a[u] + Cardinality(Users(sh, u))
<1>1. \A u \in Uniforms : a[u] + Cardinality(Users(sh, u)) \in Nat BY UsersFinite
<1> QED BY <1>1 DEF Totals

\* They stay while the lists do.
LEMMA UsersStay ==
    ASSUME NEW sh, NEW sh2, NEW a, \A s \in Shaders : sh2[s].uniforms = sh[s].uniforms
    PROVE  Totals(sh2, a) = Totals(sh, a)
<1>1. \A u : Users(sh2, u) = Users(sh, u) BY DEF Users
<1> QED BY <1>1 DEF Totals

\* A shader that lists no uniforms any more.
LEMMA UsersLess ==
    ASSUME NEW sh, NEW sh2, NEW s \in Shaders, NEW a \in [Uniforms -> Nat],
           \A x \in Shaders : sh2[x].uniforms = IF x = s THEN <<>> ELSE sh[x].uniforms
    PROVE  /\ Totals(sh2, a) = Fewer(Totals(sh, a), ToSet(sh[s].uniforms))
           /\ \A u \in Uniforms : u \in ToSet(sh[s].uniforms) => Totals(sh, a)[u] > 0
<1>1. ToSet(<<>>) = {} BY DEF ToSet
<1>2. ASSUME NEW u
      PROVE  Cardinality(Users(sh2, u)) = IF u \in ToSet(sh[s].uniforms)
                                             THEN Cardinality(Users(sh, u)) - 1
                                             ELSE Cardinality(Users(sh, u))
  <2>1. CASE u \in ToSet(sh[s].uniforms)
    <3>1. Users(sh2, u) = Users(sh, u) \ {s} /\ s \in Users(sh, u) BY <1>1, <2>1 DEF Users
    <3>2. IsFiniteSet(Users(sh, u)) BY UsersFinite
    <3> QED BY <2>1, <3>1, <3>2, FS_RemoveElement
  <2>2. CASE u \notin ToSet(sh[s].uniforms)
    <3>1. Users(sh2, u) = Users(sh, u) BY <1>1, <2>2 DEF Users
    <3> QED BY <2>2, <3>1
  <2> QED BY <2>1, <2>2
<1>3. ASSUME NEW u \in Uniforms, u \in ToSet(sh[s].uniforms)
      PROVE  Cardinality(Users(sh, u)) > 0
  <2>1. s \in Users(sh, u) BY <1>3 DEF Users
  <2>2. IsFiniteSet(Users(sh, u)) /\ Cardinality(Users(sh, u)) \in Nat BY UsersFinite
  <2>3. Cardinality(Users(sh, u)) # 0 BY <2>1, <2>2, FS_EmptySet
  <2> QED BY <2>2, <2>3
<1>4. \A u \in Uniforms : Cardinality(Users(sh, u)) \in Nat /\ a[u] \in Nat BY UsersFinite
<1>5. \A u \in Uniforms : Totals(sh, a)[u] = a[u] + Cardinality(Users(sh, u)) BY TotalsType
<1>6. \A u \in Uniforms : u \in ToSet(sh[s].uniforms) => Totals(sh, a)[u] > 0
  BY <1>3, <1>4, <1>5
<1>7. \A u \in Uniforms : a[u] + Cardinality(Users(sh2, u))
                             = IF u \in ToSet(sh[s].uniforms) THEN Totals(sh, a)[u] - 1
                                                              ELSE Totals(sh, a)[u]
  BY <1>2, <1>4, <1>5
<1>8. Totals(sh2, a) = Fewer(Totals(sh, a), ToSet(sh[s].uniforms)) BY <1>7 DEF Totals, Fewer
<1> QED BY <1>6, <1>8

\* The lists stay right when some are let go and no shader comes in use.
LEMMA ListsStay ==
    ASSUME NEW sh, NEW sh2, NEW ws, NEW w2, NEW Y, Lists(sh, ws, Y),
           \A x \in Shaders : sh2[x].uniforms = <<>> \/ sh2[x].uniforms = sh[x].uniforms,
           \A x \in Shaders : w2[x] = 0 => ws[x] = 0 \/ sh2[x].uniforms = <<>>
    PROVE  Lists(sh2, w2, Y)
<1>1. Listed(<<>>, Y)
  <2>1. DOMAIN <<>> = {} /\ ToSet(<<>>) = {} BY DEF ToSet
  <2> QED BY <2>1 DEF Listed, Once
<1> QED BY <1>1 DEF Lists

\* Letting a list go leaves counts, maps and queues as they are.
LEMMA UnlistedKeeps ==
    ASSUME NEW r, NEW ws, NEW wu, NEW X, NEW Y, NEW s \in Shaders, Exact(r, ws, wu, X, Y)
    PROVE  Exact(Unlisted(r, s), ws, wu, X, Y)
<1> DEFINE d == Unlisted(r, s)
<1>1. r \in RefRecords /\ ShadersExact(r, ws, X) /\ UniformsExact(r, wu, Y) /\ NoRepeat(r.frame.post)
  BY DEF Exact
<1>2. /\ d \in RefRecords
      /\ \A x \in Shaders : d.shader[x].refCount = r.shader[x].refCount
                            /\ d.shader[x].bin = r.shader[x].bin
      /\ d.shaders = r.shaders /\ d.uniform = r.uniform
      /\ d.uniforms = r.uniforms /\ d.frame = r.frame
  BY <1>1, UnlistedIs
<1> HIDE DEF d
<1>3. X \in SUBSET Shaders BY <1>1 DEF ShadersExact, Wants
<1>4. \A x \in X : (ws[x] > 0 <=> ws[x] > 0) /\ d.shader[x].bin = r.shader[x].bin BY <1>2, <1>3
<1>5. MapOf(d.shader, ws, X) = MapOf(r.shader, ws, X) BY <1>4, ShaderMapStays
<1>6. ShadersExact(d, ws, X) BY <1>1, <1>2, <1>3, <1>5 DEF ShadersExact
<1>7. UniformsExact(d, wu, Y) BY <1>1, <1>2, UniformsStay
<1>8. Exact(d, ws, wu, X, Y) BY <1>1, <1>2, <1>6, <1>7 DEF Exact
<1> QED BY <1>8 DEF d

\* A reference to a shader less, with all that follows from it.
LEMMA DecRefKeeps ==
    ASSUME NEW r, NEW ws, NEW a, NEW X, NEW Y, NEW s \in X, ws[s] > 0, RefInv(r, ws, a, X, Y)
    PROVE  LET d == ShaderDecRef(r, s)
           IN  RefInv(d, [ws EXCEPT ![s] = ws[s] - 1], a, X, Y) /\ Kept(r, d)
<1> DEFINE d == ShaderDecRef(r, s)
           w2 == [ws EXCEPT ![s] = ws[s] - 1]
           wu == Totals(r.shader, a)
<1>1. Exact(r, ws, wu, X, Y) /\ Lists(r.shader, ws, Y) /\ a \in [Uniforms -> Nat] BY DEF RefInv
<1>2. r \in RefRecords /\ ShadersExact(r, ws, X) BY <1>1 DEF Exact
<1>3. Wants(ws, Shaders, X) /\ r.shader[s].refCount = ws[s] BY <1>2 DEF ShadersExact
<1>4. s \in Shaders /\ ws \in [Shaders -> Nat] BY <1>3 DEF Wants
<1>5. Wants(w2, Shaders, X) /\ \A x \in Shaders : w2[x] = IF x = s THEN ws[s] - 1 ELSE ws[x]
  BY <1>3, WantsLess
<1>6. wu \in [Uniforms -> Nat] BY <1>1, TotalsType
<1> HIDE DEF wu
<1>7. CASE ws[s] # 1
  <2>1. ws[s] > 1 BY <1>4, <1>7
  <2>2. d = Counting(r, s, r.shader[s].refCount - 1)
    BY <1>3, <1>7, Zenon DEF ShaderDecRef, Counting
  <2> HIDE DEF d
  <2>3. /\ Exact(d, w2, wu, X, Y) /\ Kept(r, d)
        /\ \A x \in Shaders : d.shader[x].uniforms = r.shader[x].uniforms
    BY <1>1, <2>1, <2>2, DecKeeps
  <2>4. Totals(d.shader, a) = wu BY <2>3, UsersStay DEF wu
  <2>5. \A x \in Shaders : w2[x] = 0 => ws[x] = 0 BY <1>4, <1>5, <2>1
  <2> HIDE DEF w2
  <2>6. Lists(d.shader, w2, Y)
    <3>1. \A x \in Shaders : d.shader[x].uniforms = <<>> \/ d.shader[x].uniforms = r.shader[x].uniforms
      BY <2>3
    <3>2. \A x \in Shaders : w2[x] = 0 => ws[x] = 0 \/ d.shader[x].uniforms = <<>> BY <2>5
    <3> QED BY <1>1, <3>1, <3>2, ListsStay
  <2>7. RefInv(d, w2, a, X, Y) BY <1>1, <2>3, <2>4, <2>6 DEF RefInv
  <2> QED BY <2>3, <2>7 DEF w2, d
<1>8. CASE ws[s] = 1
  <2> DEFINE g == Unmapped(r, s)
             q == r.shader[s].uniforms
             e == FoldLeft(DropUniform, g, q)
  <2>1. d = Unlisted(e, s) BY <1>3, <1>8, Zenon DEF ShaderDecRef, Unmapped, Unlisted
  <2>2. /\ Exact(g, w2, wu, X, Y) /\ Kept(r, g)
        /\ \A x \in Shaders : g.shader[x].uniforms = r.shader[x].uniforms
        /\ g.shader[s].refCount = 0
    <3> HIDE DEF wu, q, e
    <3>1. Exact(r, ws, wu, X, Y) /\ ws[s] = 1 BY <1>1, <1>8
    <3> QED BY <3>1, UnmappedKeeps
  <2>3. q \in Seq(Uniforms \union {NoHandle}) BY <1>2, <1>4 DEF RefRecords, ShaderRefs
  <2>4. Once(q) /\ ToSet(q) \subseteq Y \union {NoHandle} BY <1>1, <1>4 DEF Lists, Listed
  <2>5. Y \in SUBSET Uniforms BY <1>1 DEF Exact, UniformsExact, Wants
  <2> DEFINE sh2 == [x \in Shaders |-> [uniforms |-> IF x = s THEN <<>> ELSE r.shader[x].uniforms]]
  <2>6. \A x \in Shaders : sh2[x].uniforms = IF x = s THEN <<>> ELSE r.shader[x].uniforms OBVIOUS
  <2> HIDE DEF sh2
  <2>7. /\ Totals(sh2, a) = Fewer(wu, ToSet(q))
        /\ \A u \in Uniforms : u \in ToSet(q) => wu[u] > 0
    BY <1>1, <1>4, <2>6, UsersLess DEF wu
  <2>8. \A u \in ToSet(q) \ {NoHandle} : wu[u] > 0 BY <2>4, <2>5, <2>7
  <2> HIDE DEF g, w2, q, d
  <2>9. Exact(e, w2, Fewer(wu, ToSet(q)), X, Y) /\ Kept(g, e) /\ e.shader = g.shader
    BY <2>2, <2>3, <2>4, <2>8, DropUniformsKeep
  <2> HIDE DEF e
  <2>10. e \in RefRecords BY <2>9 DEF Exact
  <2>11. /\ d \in RefRecords
         /\ \A x \in Shaders :
               /\ d.shader[x].refCount = e.shader[x].refCount
               /\ d.shader[x].bin = e.shader[x].bin
               /\ d.shader[x].uniforms = IF x = s THEN <<>> ELSE e.shader[x].uniforms
         /\ d.uniforms = e.uniforms /\ d.frame = e.frame
    BY <1>4, <2>1, <2>10, UnlistedIs
  <2>12. Exact(d, w2, Fewer(wu, ToSet(q)), X, Y) BY <1>4, <2>1, <2>9, UnlistedKeeps
  <2>13. \A x \in Shaders : d.shader[x].uniforms = IF x = s THEN <<>> ELSE r.shader[x].uniforms
    BY <2>2, <2>9, <2>11
  <2>14. Totals(d.shader, a) = Totals(sh2, a) BY <2>6, <2>13, UsersStay
  <2>15. Lists(d.shader, w2, Y)
    <3>1. \A x \in Shaders : x # s => w2[x] = ws[x] BY <1>5
    <3>2. \A x \in Shaders : d.shader[x].uniforms = <<>> \/ d.shader[x].uniforms = r.shader[x].uniforms
      BY <2>13
    <3>3. \A x \in Shaders : w2[x] = 0 => ws[x] = 0 \/ d.shader[x].uniforms = <<>> BY <2>13, <3>1
    <3> QED BY <1>1, <3>2, <3>3, ListsStay
  <2>16. RefInv(d, w2, a, X, Y) BY <1>1, <2>7, <2>12, <2>14, <2>15 DEF RefInv
  <2>17. Kept(g, d)
    <3>1. e.shader[s].refCount = 0 BY <2>2, <2>9
    <3> QED BY <2>9, <2>11, <3>1 DEF Kept, FrameKept
  <2>18. Kept(r, d)
    <3>1. \A x \in Shaders : d.shader[x].refCount > 0 => g.shader[x].refCount > 0 BY <2>9, <2>11
    <3> QED BY <2>2, <2>11, <2>17, <3>1, KeptChain
  <2> QED BY <2>16, <2>18 DEF w2, d
<1> QED BY <1>7, <1>8

\* And one more.
LEMMA IncRefKeeps ==
    ASSUME NEW r, NEW ws, NEW a, NEW X, NEW Y, NEW s \in X, ws[s] > 0, RefInv(r, ws, a, X, Y)
    PROVE  LET d == ShaderIncRef(r, s)
           IN  RefInv(d, [ws EXCEPT ![s] = ws[s] + 1], a, X, Y) /\ Kept(r, d)
<1> DEFINE d == ShaderIncRef(r, s)
           w2 == [ws EXCEPT ![s] = ws[s] + 1]
           wu == Totals(r.shader, a)
<1>1. Exact(r, ws, wu, X, Y) /\ Lists(r.shader, ws, Y) /\ a \in [Uniforms -> Nat] BY DEF RefInv
<1>2. Wants(ws, Shaders, X) BY <1>1 DEF Exact, ShadersExact
<1>3. Wants(w2, Shaders, X) /\ \A x \in Shaders : w2[x] = IF x = s THEN ws[s] + 1 ELSE ws[x]
  BY <1>2, WantsMore
<1>4. /\ Exact(d, w2, wu, X, Y) /\ Kept(r, d)
      /\ \A x \in Shaders : d.shader[x].uniforms = r.shader[x].uniforms
  <2> HIDE DEF wu
  <2>1. Exact(r, ws, wu, X, Y) BY <1>1
  <2>2. /\ Exact(ShaderIncRef(r, s), [ws EXCEPT ![s] = ws[s] + 1], wu, X, Y) /\ Kept(r, ShaderIncRef(r, s))
        /\ \A x \in Shaders : ShaderIncRef(r, s).shader[x].uniforms = r.shader[x].uniforms
    BY <2>1, IncKeeps
  <2> QED BY <2>2
<1> HIDE DEF d, w2
<1>5. Totals(d.shader, a) = wu BY <1>4, UsersStay
<1>6. \A x \in Shaders : w2[x] = 0 => ws[x] = 0 BY <1>2, <1>3 DEF Wants
<1>7. Lists(d.shader, w2, Y)
  <2>1. \A x \in Shaders : d.shader[x].uniforms = <<>> \/ d.shader[x].uniforms = r.shader[x].uniforms
    BY <1>4
  <2>2. \A x \in Shaders : w2[x] = 0 => ws[x] = 0 \/ d.shader[x].uniforms = <<>> BY <1>6
  <2> QED BY <1>1, <2>1, <2>2, ListsStay
<1>8. RefInv(d, w2, a, X, Y) BY <1>1, <1>4, <1>5, <1>7 DEF RefInv
<1> QED BY <1>4, <1>8 DEF d, w2

-----------------------------------------------------------------------------
(* A program has one shader or two: the folds over them are one step or two. *)

\* The positions of a list of one, as a fold takes them.
LEMMA OnePosition ==
    \A s \in SUBSET (1 .. 1) : s # {} => s = {1} /\ Max(s) = 1 /\ s \ {Max(s)} = {}
<1> SUFFICES ASSUME NEW s \in SUBSET (1 .. 1), s # {}
             PROVE  s = {1} /\ Max(s) = 1 /\ s \ {Max(s)} = {}
  OBVIOUS
<1>1. s = {1}
  <2>1. \A i \in s : i = 1 OBVIOUS
  <2> QED BY <2>1
<1>2. 1 \in s BY <1>1, Zenon
<1>3. Max(s) = 1 BY <1>2, MaxIs
<1> QED BY <1>1, <1>3

\* The positions of a list of two.
LEMMA TwoPositions ==
    \A s \in SUBSET (1 .. 2) :
        s # {} => \/ s = {1} /\ Max(s) = 1 /\ s \ {Max(s)} = {}
                  \/ s = {2} /\ Max(s) = 2 /\ s \ {Max(s)} = {}
                  \/ s = {1, 2} /\ Max(s) = 2 /\ s \ {Max(s)} = {1}
<1> SUFFICES ASSUME NEW s \in SUBSET (1 .. 2), s # {}
             PROVE  \/ s = {1} /\ Max(s) = 1 /\ s \ {Max(s)} = {}
                    \/ s = {2} /\ Max(s) = 2 /\ s \ {Max(s)} = {}
                    \/ s = {1, 2} /\ Max(s) = 2 /\ s \ {Max(s)} = {1}
  OBVIOUS
<1>1. s = {1} \/ s = {2} \/ s = {1, 2}
  <2>1. \A i \in s : i = 1 \/ i = 2 OBVIOUS
  <2> QED BY <2>1
<1>2. CASE s = {1}
  <2>1. s \in SUBSET (1 .. 1) BY <1>2
  <2>2. Max(s) = 1 BY <1>2, <2>1, MaxIs
  <2> QED BY <1>2, <2>2
<1>3. CASE s = {2}
  <2>1. Max(s) = 2 BY <1>3, MaxIs
  <2> QED BY <1>3, <2>1
<1>4. CASE s = {1, 2}
  <2>1. Max(s) = 2 BY <1>4, MaxIs
  <2> QED BY <1>4, <2>1
<1> QED BY <1>1, <1>2, <1>3, <1>4

\* The folds, as operators of the record and the sequence alone.
DecAll(r, q) == FoldLeft(ShaderDecRef, r, q)
IncAll(r, q) == FoldLeft(ShaderIncRef, r, q)

\* The fold over one shader releases it.
LEMMA DecRefOne ==
    ASSUME NEW r, NEW v
    PROVE  DecAll(r, <<v>>) = ShaderDecRef(r, v)
<1> DEFINE w == <<v>>
           Is(it) == it = [s \in SUBSET DOMAIN w |->
                              IF s = {} THEN r ELSE ShaderDecRef(it[s \ {Max(s)}], w[Max(s)])]
<1>1. DOMAIN w = 1 .. 1 /\ w[1] = v OBVIOUS
<1> HIDE DEF w
<1>2. \E it : Is(it)
  <2> DEFINE d == ShaderDecRef(r, v)
             it == [s \in SUBSET (1 .. 1) |-> IF s = {} THEN r ELSE d]
  <2>1. it[{}] = r OBVIOUS
  <2>2. ASSUME NEW s \in SUBSET (1 .. 1), s # {}
        PROVE  it[s] = ShaderDecRef(it[s \ {Max(s)}], w[Max(s)])
    <3>1. Max(s) = 1 /\ s \ {Max(s)} = {} BY <2>2, OnePosition
    <3>2. it[s] = d BY <2>2
    <3> HIDE DEF it
    <3>3. it[s \ {Max(s)}] = r /\ w[Max(s)] = v BY <1>1, <2>1, <3>1
    <3> QED BY <3>2, <3>3
  <2>3. it = [s \in SUBSET (1 .. 1) |-> it[s]] OBVIOUS
  <2> HIDE DEF it
  <2>4. [s \in SUBSET (1 .. 1) |-> it[s]]
            = [s \in SUBSET (1 .. 1) |->
                  IF s = {} THEN r ELSE ShaderDecRef(it[s \ {Max(s)}], w[Max(s)])]
    BY <2>1, <2>2, Zenon
  <2>5. Is(it) BY <1>1, <2>3, <2>4, Zenon
  <2> QED BY <2>5, Zenon
<1> DEFINE it == CHOOSE it : Is(it)
<1>3. Is(it) BY <1>2, Zenon
<1>4. DecAll(r, w) = it[1 .. 1] BY <1>1, Zenon DEF DecAll, FoldLeft, MapThenFoldSet
<1> HIDE DEF it
<1>5. it[{}] = r /\ \A s \in SUBSET (1 .. 1) :
                       s # {} => it[s] = ShaderDecRef(it[s \ {Max(s)}], w[Max(s)])
  BY <1>1, <1>3
<1> HIDE DEF Is
<1>6. 1 .. 1 \in SUBSET (1 .. 1) /\ 1 .. 1 # {} OBVIOUS
<1>7. Max(1 .. 1) = 1 /\ (1 .. 1) \ {Max(1 .. 1)} = {} BY <1>6, OnePosition
<1>8. it[1 .. 1] = ShaderDecRef(it[(1 .. 1) \ {Max(1 .. 1)}], w[Max(1 .. 1)]) BY <1>5, <1>6
<1>9. it[1 .. 1] = ShaderDecRef(r, v) BY <1>1, <1>5, <1>7, <1>8
<1> QED BY <1>4, <1>9 DEF w

\* The fold over two shaders releases one after the other.
LEMMA DecRefTwo ==
    ASSUME NEW r, NEW v, NEW f, NEW w, w = <<v, f>>
    PROVE  DecAll(r, w) = ShaderDecRef(ShaderDecRef(r, v), f)
<1> DEFINE Is(it) == it = [s \in SUBSET DOMAIN w |->
                              IF s = {} THEN r ELSE ShaderDecRef(it[s \ {Max(s)}], w[Max(s)])]
<1>1. DOMAIN w = 1 .. 2 /\ w[1] = v /\ w[2] = f OBVIOUS
<1>2. \E it : Is(it)
  <2> DEFINE d == ShaderDecRef(r, v)
             it == [s \in SUBSET (1 .. 2) |->
                       IF s = {} THEN r ELSE IF s = {1} THEN d
                       ELSE IF s = {2} THEN ShaderDecRef(r, f) ELSE ShaderDecRef(d, f)]
  <2>1. /\ it[{}] = r /\ it[{1}] = d
        /\ it[{2}] = ShaderDecRef(r, f) /\ it[{1, 2}] = ShaderDecRef(d, f)
    <3>1. {} \in SUBSET (1 .. 2) /\ {1} \in SUBSET (1 .. 2) /\ {2} \in SUBSET (1 .. 2)
          /\ {1, 2} \in SUBSET (1 .. 2)
      OBVIOUS
    <3>2. {1} # {} /\ {2} # {} /\ {1, 2} # {} /\ {2} # {1} /\ {1, 2} # {1} /\ {1, 2} # {2} OBVIOUS
    <3> QED BY <3>1, <3>2, Zenon
  <2>2. it = [s \in SUBSET (1 .. 2) |-> it[s]] OBVIOUS
  <2> HIDE DEF it
  <2>3. ASSUME NEW s \in SUBSET (1 .. 2), s # {}
        PROVE  it[s] = ShaderDecRef(it[s \ {Max(s)}], w[Max(s)])
    <3>1. \/ s = {1} /\ Max(s) = 1 /\ s \ {Max(s)} = {}
          \/ s = {2} /\ Max(s) = 2 /\ s \ {Max(s)} = {}
          \/ s = {1, 2} /\ Max(s) = 2 /\ s \ {Max(s)} = {1}
      BY <2>3, TwoPositions
    <3> QED BY <1>1, <2>1, <3>1, Zenon
  <2>4. [s \in SUBSET (1 .. 2) |-> it[s]]
            = [s \in SUBSET (1 .. 2) |->
                  IF s = {} THEN r ELSE ShaderDecRef(it[s \ {Max(s)}], w[Max(s)])]
    BY <2>1, <2>3, Zenon
  <2>5. Is(it) BY <1>1, <2>2, <2>4, Zenon
  <2> QED BY <2>5, Zenon
<1> DEFINE it == CHOOSE it : Is(it)
<1>3. Is(it) BY <1>2, Zenon
<1>4. DecAll(r, w) = it[1 .. 2] BY <1>1, Zenon DEF DecAll, FoldLeft, MapThenFoldSet
<1> HIDE DEF it
<1>5. it[{}] = r /\ \A s \in SUBSET (1 .. 2) :
                       s # {} => it[s] = ShaderDecRef(it[s \ {Max(s)}], w[Max(s)])
  BY <1>1, <1>3
<1> HIDE DEF Is
<1>6. /\ {1} \in SUBSET (1 .. 2) /\ {1} # {} /\ Max({1}) = 1 /\ {1} \ {Max({1})} = {}
      /\ {1, 2} \in SUBSET (1 .. 2) /\ {1, 2} # {} /\ Max({1, 2}) = 2 /\ {1, 2} \ {Max({1, 2})} = {1}
  <2>1. {1} \in SUBSET (1 .. 1) /\ {1} # {} OBVIOUS
  <2>2. Max({1}) = 1 BY <2>1, MaxIs
  <2>3. {1, 2} \in SUBSET (1 .. 2) /\ {1} \in SUBSET (1 .. 2) /\ {1, 2} # {} OBVIOUS
  <2>4. Max({1, 2}) = 2 BY <2>3, MaxIs
  <2> QED BY <2>1, <2>2, <2>3, <2>4
<1>7. it[{1}] = ShaderDecRef(it[{1} \ {Max({1})}], w[Max({1})])
      /\ it[{1, 2}] = ShaderDecRef(it[{1, 2} \ {Max({1, 2})}], w[Max({1, 2})])
  BY <1>5, <1>6, Zenon
<1>8. it[{1}] = ShaderDecRef(r, v) /\ it[{1, 2}] = ShaderDecRef(it[{1}], f)
  BY <1>1, <1>5, <1>6, <1>7, Zenon
<1>9. 1 .. 2 = {1, 2} OBVIOUS
<1> QED BY <1>4, <1>8, <1>9, Zenon

\* The fold over one shader counts it.
LEMMA IncRefOne ==
    ASSUME NEW r, NEW v
    PROVE  IncAll(r, <<v>>) = ShaderIncRef(r, v)
<1> DEFINE w == <<v>>
           Is(it) == it = [s \in SUBSET DOMAIN w |->
                              IF s = {} THEN r ELSE ShaderIncRef(it[s \ {Max(s)}], w[Max(s)])]
<1>1. DOMAIN w = 1 .. 1 /\ w[1] = v OBVIOUS
<1> HIDE DEF w
<1>2. \E it : Is(it)
  <2> DEFINE d == ShaderIncRef(r, v)
             it == [s \in SUBSET (1 .. 1) |-> IF s = {} THEN r ELSE d]
  <2>1. it[{}] = r OBVIOUS
  <2>2. ASSUME NEW s \in SUBSET (1 .. 1), s # {}
        PROVE  it[s] = ShaderIncRef(it[s \ {Max(s)}], w[Max(s)])
    <3>1. Max(s) = 1 /\ s \ {Max(s)} = {} BY <2>2, OnePosition
    <3>2. it[s] = d BY <2>2
    <3> HIDE DEF it
    <3>3. it[s \ {Max(s)}] = r /\ w[Max(s)] = v BY <1>1, <2>1, <3>1
    <3> QED BY <3>2, <3>3
  <2>3. it = [s \in SUBSET (1 .. 1) |-> it[s]] OBVIOUS
  <2> HIDE DEF it
  <2>4. [s \in SUBSET (1 .. 1) |-> it[s]]
            = [s \in SUBSET (1 .. 1) |->
                  IF s = {} THEN r ELSE ShaderIncRef(it[s \ {Max(s)}], w[Max(s)])]
    BY <2>1, <2>2, Zenon
  <2>5. Is(it) BY <1>1, <2>3, <2>4, Zenon
  <2> QED BY <2>5, Zenon
<1> DEFINE it == CHOOSE it : Is(it)
<1>3. Is(it) BY <1>2, Zenon
<1>4. IncAll(r, w) = it[1 .. 1] BY <1>1, Zenon DEF IncAll, FoldLeft, MapThenFoldSet
<1> HIDE DEF it
<1>5. it[{}] = r /\ \A s \in SUBSET (1 .. 1) :
                       s # {} => it[s] = ShaderIncRef(it[s \ {Max(s)}], w[Max(s)])
  BY <1>1, <1>3
<1> HIDE DEF Is
<1>6. 1 .. 1 \in SUBSET (1 .. 1) /\ 1 .. 1 # {} OBVIOUS
<1>7. Max(1 .. 1) = 1 /\ (1 .. 1) \ {Max(1 .. 1)} = {} BY <1>6, OnePosition
<1>8. it[1 .. 1] = ShaderIncRef(it[(1 .. 1) \ {Max(1 .. 1)}], w[Max(1 .. 1)]) BY <1>5, <1>6
<1>9. it[1 .. 1] = ShaderIncRef(r, v) BY <1>1, <1>5, <1>7, <1>8
<1> QED BY <1>4, <1>9 DEF w

\* The fold over two shaders counts one after the other.
LEMMA IncRefTwo ==
    ASSUME NEW r, NEW v, NEW f, NEW w, w = <<v, f>>
    PROVE  IncAll(r, w) = ShaderIncRef(ShaderIncRef(r, v), f)
<1> DEFINE Is(it) == it = [s \in SUBSET DOMAIN w |->
                              IF s = {} THEN r ELSE ShaderIncRef(it[s \ {Max(s)}], w[Max(s)])]
<1>1. DOMAIN w = 1 .. 2 /\ w[1] = v /\ w[2] = f OBVIOUS
<1>2. \E it : Is(it)
  <2> DEFINE d == ShaderIncRef(r, v)
             it == [s \in SUBSET (1 .. 2) |->
                       IF s = {} THEN r ELSE IF s = {1} THEN d
                       ELSE IF s = {2} THEN ShaderIncRef(r, f) ELSE ShaderIncRef(d, f)]
  <2>1. /\ it[{}] = r /\ it[{1}] = d
        /\ it[{2}] = ShaderIncRef(r, f) /\ it[{1, 2}] = ShaderIncRef(d, f)
    <3>1. {} \in SUBSET (1 .. 2) /\ {1} \in SUBSET (1 .. 2) /\ {2} \in SUBSET (1 .. 2)
          /\ {1, 2} \in SUBSET (1 .. 2)
      OBVIOUS
    <3>2. {1} # {} /\ {2} # {} /\ {1, 2} # {} /\ {2} # {1} /\ {1, 2} # {1} /\ {1, 2} # {2} OBVIOUS
    <3> QED BY <3>1, <3>2, Zenon
  <2>2. it = [s \in SUBSET (1 .. 2) |-> it[s]] OBVIOUS
  <2> HIDE DEF it
  <2>3. ASSUME NEW s \in SUBSET (1 .. 2), s # {}
        PROVE  it[s] = ShaderIncRef(it[s \ {Max(s)}], w[Max(s)])
    <3>1. \/ s = {1} /\ Max(s) = 1 /\ s \ {Max(s)} = {}
          \/ s = {2} /\ Max(s) = 2 /\ s \ {Max(s)} = {}
          \/ s = {1, 2} /\ Max(s) = 2 /\ s \ {Max(s)} = {1}
      BY <2>3, TwoPositions
    <3> QED BY <1>1, <2>1, <3>1, Zenon
  <2>4. [s \in SUBSET (1 .. 2) |-> it[s]]
            = [s \in SUBSET (1 .. 2) |->
                  IF s = {} THEN r ELSE ShaderIncRef(it[s \ {Max(s)}], w[Max(s)])]
    BY <2>1, <2>3, Zenon
  <2>5. Is(it) BY <1>1, <2>2, <2>4, Zenon
  <2> QED BY <2>5, Zenon
<1> DEFINE it == CHOOSE it : Is(it)
<1>3. Is(it) BY <1>2, Zenon
<1>4. IncAll(r, w) = it[1 .. 2] BY <1>1, Zenon DEF IncAll, FoldLeft, MapThenFoldSet
<1> HIDE DEF it
<1>5. it[{}] = r /\ \A s \in SUBSET (1 .. 2) :
                       s # {} => it[s] = ShaderIncRef(it[s \ {Max(s)}], w[Max(s)])
  BY <1>1, <1>3
<1> HIDE DEF Is
<1>6. /\ {1} \in SUBSET (1 .. 2) /\ {1} # {} /\ Max({1}) = 1 /\ {1} \ {Max({1})} = {}
      /\ {1, 2} \in SUBSET (1 .. 2) /\ {1, 2} # {} /\ Max({1, 2}) = 2 /\ {1, 2} \ {Max({1, 2})} = {1}
  <2>1. {1} \in SUBSET (1 .. 1) /\ {1} # {} OBVIOUS
  <2>2. Max({1}) = 1 BY <2>1, MaxIs
  <2>3. {1, 2} \in SUBSET (1 .. 2) /\ {1} \in SUBSET (1 .. 2) /\ {1, 2} # {} OBVIOUS
  <2>4. Max({1, 2}) = 2 BY <2>3, MaxIs
  <2> QED BY <2>1, <2>2, <2>3, <2>4
<1>7. it[{1}] = ShaderIncRef(it[{1} \ {Max({1})}], w[Max({1})])
      /\ it[{1, 2}] = ShaderIncRef(it[{1, 2} \ {Max({1, 2})}], w[Max({1, 2})])
  BY <1>5, <1>6, Zenon
<1>8. it[{1}] = ShaderIncRef(r, v) /\ it[{1, 2}] = ShaderIncRef(it[{1}], f)
  BY <1>1, <1>5, <1>6, <1>7, Zenon
<1>9. 1 .. 2 = {1, 2} OBVIOUS
<1> QED BY <1>4, <1>8, <1>9, Zenon

\* The counts when each shader of D gains or loses a reference.
Less(ws, D) == [s \in Shaders |-> IF s \in D THEN ws[s] - 1 ELSE ws[s]]
More(ws, D) == [s \in Shaders |-> IF s \in D THEN ws[s] + 1 ELSE ws[s]]

\* The shaders of a program, each of which has a reference.
Counted(ws, X, v, f) ==
    /\ v \in X /\ ws[v] > 0
    /\ f = NoHandle \/ (f \in X /\ ws[f] > 0 /\ f # v)

\* The counts after one or two shaders are released or counted.
LEMMA LessMore ==
    ASSUME NEW ws \in [Shaders -> Nat], NEW v \in Shaders
    PROVE  /\ [ws EXCEPT ![v] = ws[v] - 1] = Less(ws, {v})
           /\ [ws EXCEPT ![v] = ws[v] + 1] = More(ws, {v})
           /\ Less(ws, {v, NoHandle}) = Less(ws, {v})
           /\ More(ws, {v, NoHandle}) = More(ws, {v})
           /\ \A f \in Shaders \ {v} : /\ Less(Less(ws, {v}), {f}) = Less(ws, {v, f})
                                       /\ More(More(ws, {v}), {f}) = More(ws, {v, f})
<1>1. [ws EXCEPT ![v] = ws[v] - 1] = Less(ws, {v}) BY DEF Less
<1>2. [ws EXCEPT ![v] = ws[v] + 1] = More(ws, {v}) BY DEF More
<1>3. \A s \in Shaders : s \in {v, NoHandle} <=> s \in {v} BY NoHandleAssumption
<1>4. Less(ws, {v, NoHandle}) = Less(ws, {v}) BY <1>3 DEF Less
<1>5. More(ws, {v, NoHandle}) = More(ws, {v}) BY <1>3 DEF More
<1>6. ASSUME NEW f \in Shaders \ {v}
      PROVE  Less(Less(ws, {v}), {f}) = Less(ws, {v, f}) /\ More(More(ws, {v}), {f}) = More(ws, {v, f})
  <2>1. /\ \A s \in Shaders : Less(ws, {v})[s] = IF s = v THEN ws[s] - 1 ELSE ws[s]
        /\ \A s \in Shaders : More(ws, {v})[s] = IF s = v THEN ws[s] + 1 ELSE ws[s]
    BY DEF Less, More
  <2>2. \A s \in Shaders : (IF s \in {f} THEN Less(ws, {v})[s] - 1 ELSE Less(ws, {v})[s])
                               = IF s \in {v, f} THEN ws[s] - 1 ELSE ws[s]
    BY <2>1
  <2>3. \A s \in Shaders : (IF s \in {f} THEN More(ws, {v})[s] + 1 ELSE More(ws, {v})[s])
                               = IF s \in {v, f} THEN ws[s] + 1 ELSE ws[s]
    BY <2>1
  <2>4. Less(Less(ws, {v}), {f})
           = [s \in Shaders |-> IF s \in {f} THEN Less(ws, {v})[s] - 1 ELSE Less(ws, {v})[s]]
    BY Zenon DEF Less
  <2>5. More(More(ws, {v}), {f})
           = [s \in Shaders |-> IF s \in {f} THEN More(ws, {v})[s] + 1 ELSE More(ws, {v})[s]]
    BY Zenon DEF More
  <2>6. Less(ws, {v, f}) = [s \in Shaders |-> IF s \in {v, f} THEN ws[s] - 1 ELSE ws[s]] BY DEF Less
  <2>7. More(ws, {v, f}) = [s \in Shaders |-> IF s \in {v, f} THEN ws[s] + 1 ELSE ws[s]] BY DEF More
  <2> QED BY <2>2, <2>3, <2>4, <2>5, <2>6, <2>7
<1> QED BY <1>1, <1>2, <1>4, <1>5, <1>6

\* The types the invariant of a record gives.
LEMMA RefInvCounts ==
    ASSUME NEW r, NEW ws, NEW a, NEW X, NEW Y, RefInv(r, ws, a, X, Y)
    PROVE  r \in RefRecords /\ ws \in [Shaders -> Nat] /\ X \subseteq Shaders /\ Wants(ws, Shaders, X)
  BY DEF RefInv, Exact, ShadersExact, Wants

\* References to all shaders of a program less.
LEMMA DecAllKeeps ==
    ASSUME NEW r, NEW ws, NEW a, NEW X, NEW Y, RefInv(r, ws, a, X, Y),
           NEW v, NEW f, Counted(ws, X, v, f)
    PROVE  LET d == DecAll(r, ShadersOf(v, f))
           IN  RefInv(d, Less(ws, {v, f}), a, X, Y) /\ Kept(r, d)
<1> DEFINE d == DecAll(r, ShadersOf(v, f))
           c == ShaderDecRef(r, v)
           w2 == Less(ws, {v})
<1>1. ws \in [Shaders -> Nat] /\ X \subseteq Shaders BY RefInvCounts
<1>2. v \in X /\ v \in Shaders /\ ws[v] > 0 BY <1>1 DEF Counted
<1>3. RefInv(c, [ws EXCEPT ![v] = ws[v] - 1], a, X, Y) /\ Kept(r, c)
  BY <1>2, DecRefKeeps, ZenonT(30)
<1>4. RefInv(c, w2, a, X, Y)
  <2>1. [ws EXCEPT ![v] = ws[v] - 1] = w2 BY <1>1, <1>2, LessMore
  <2> HIDE DEF c, w2
  <2> QED BY <1>3, <2>1
<1>5. CASE f = NoHandle
  <2>1. d = c BY <1>5, DecRefOne DEF ShadersOf
  <2>2. Less(ws, {v, f}) = w2 BY <1>1, <1>2, <1>5, LessMore
  <2> HIDE DEF d, c, w2
  <2>3. RefInv(d, Less(ws, {v, f}), a, X, Y) /\ Kept(r, d) BY <1>3, <1>4, <2>1, <2>2
  <2> QED BY <2>3 DEF d
<1>6. CASE f # NoHandle
  <2>1. f \in X /\ f \in Shaders \ {v} /\ ws[f] > 0 BY <1>1, <1>6 DEF Counted
  <2>2. d = ShaderDecRef(c, f)
    <3>1. ShadersOf(v, f) = <<v, f>> BY <1>6 DEF ShadersOf
    <3> QED BY <3>1, DecRefTwo
  <2>3. w2[f] > 0 BY <2>1 DEF Less
  <2>4. w2 \in [Shaders -> Nat] BY <1>1, <1>2, <2>3 DEF Less
  <2>5. [w2 EXCEPT ![f] = w2[f] - 1] = Less(w2, {f}) BY <2>1, <2>4, LessMore
  <2>6. Less(w2, {f}) = Less(ws, {v, f}) BY <1>1, <1>2, <2>1, LessMore
  <2> HIDE DEF d, c, w2
  <2>7. RefInv(ShaderDecRef(c, f), [w2 EXCEPT ![f] = w2[f] - 1], a, X, Y) /\ Kept(c, ShaderDecRef(c, f))
    BY <1>4, <2>1, <2>3, DecRefKeeps, ZenonT(30)
  <2>8. RefInv(d, Less(ws, {v, f}), a, X, Y) /\ Kept(c, d) BY <2>2, <2>5, <2>6, <2>7
  <2>9. d \in RefRecords BY <2>8, RefInvCounts
  <2>10. Kept(r, d) BY <1>3, <2>8, <2>9, KeptChain
  <2> QED BY <2>8, <2>10 DEF d
<1> QED BY <1>5, <1>6

\* And one more to each.
LEMMA IncAllKeeps ==
    ASSUME NEW r, NEW ws, NEW a, NEW X, NEW Y, RefInv(r, ws, a, X, Y),
           NEW v, NEW f, Counted(ws, X, v, f)
    PROVE  LET d == IncAll(r, ShadersOf(v, f))
           IN  RefInv(d, More(ws, {v, f}), a, X, Y) /\ Kept(r, d)
<1> DEFINE d == IncAll(r, ShadersOf(v, f))
           c == ShaderIncRef(r, v)
           w2 == More(ws, {v})
<1>1. ws \in [Shaders -> Nat] /\ X \subseteq Shaders BY RefInvCounts
<1>2. v \in X /\ v \in Shaders /\ ws[v] > 0 BY <1>1 DEF Counted
<1>3. RefInv(c, [ws EXCEPT ![v] = ws[v] + 1], a, X, Y) /\ Kept(r, c)
  BY <1>2, IncRefKeeps, ZenonT(30)
<1>4. RefInv(c, w2, a, X, Y)
  <2>1. [ws EXCEPT ![v] = ws[v] + 1] = w2 BY <1>1, <1>2, LessMore
  <2> HIDE DEF c, w2
  <2> QED BY <1>3, <2>1
<1>5. CASE f = NoHandle
  <2>1. d = c BY <1>5, IncRefOne DEF ShadersOf
  <2>2. More(ws, {v, f}) = w2 BY <1>1, <1>2, <1>5, LessMore
  <2> HIDE DEF d, c, w2
  <2>3. RefInv(d, More(ws, {v, f}), a, X, Y) /\ Kept(r, d) BY <1>3, <1>4, <2>1, <2>2
  <2> QED BY <2>3 DEF d
<1>6. CASE f # NoHandle
  <2>1. f \in X /\ f \in Shaders \ {v} /\ ws[f] > 0 BY <1>1, <1>6 DEF Counted
  <2>2. d = ShaderIncRef(c, f)
    <3>1. ShadersOf(v, f) = <<v, f>> BY <1>6 DEF ShadersOf
    <3> QED BY <3>1, IncRefTwo
  <2>3. w2[f] > 0 BY <2>1 DEF More
  <2>4. w2 \in [Shaders -> Nat] BY <1>1, <1>2 DEF More
  <2>5. [w2 EXCEPT ![f] = w2[f] + 1] = More(w2, {f}) BY <2>1, <2>4, LessMore
  <2>6. More(w2, {f}) = More(ws, {v, f}) BY <1>1, <1>2, <2>1, LessMore
  <2> HIDE DEF d, c, w2
  <2>7. RefInv(ShaderIncRef(c, f), [w2 EXCEPT ![f] = w2[f] + 1], a, X, Y) /\ Kept(c, ShaderIncRef(c, f))
    BY <1>4, <2>1, <2>3, IncRefKeeps, ZenonT(30)
  <2>8. RefInv(d, More(ws, {v, f}), a, X, Y) /\ Kept(c, d) BY <2>2, <2>5, <2>6, <2>7
  <2>9. d \in RefRecords BY <2>8, RefInvCounts
  <2>10. Kept(r, d) BY <1>3, <2>8, <2>9, KeptChain
  <2> QED BY <2>8, <2>10 DEF d
<1> QED BY <1>5, <1>6

-----------------------------------------------------------------------------
(* The references programs hold to shaders.                                 *)

\* LinksTo, of the handles P in use and what pr knows of them.
Made(pr, p, s) == s \in {pr[p].vsh, pr[p].fsh}
Links(P, pr, s) == UNION {{p} \X (1 .. pr[p].refCount) : p \in {q \in P : Made(pr, q, s)}}

\* The references of programs to a shader, as a function of the programs.
LEMMA LinksIs == \A s : LinksTo(s) = Links(programs, programRef, s)
  BY DEF LinksTo, Links, Made

\* A reference is a program made of the shader and the number of a creation of it.
LEMMA LinksAre ==
    ASSUME NEW P, NEW pr, NEW s, NEW t
    PROVE  t \in Links(P, pr, s)
              <=> \E p \in P, n \in Nat :
                     t = <<p, n>> /\ Made(pr, p, s) /\ n \in 1 .. pr[p].refCount
<1>1. ASSUME t \in Links(P, pr, s)
      PROVE  \E p \in P, n \in Nat : t = <<p, n>> /\ Made(pr, p, s) /\ n \in 1 .. pr[p].refCount
  <2>1. PICK p \in P : Made(pr, p, s) /\ t \in {p} \X (1 .. pr[p].refCount) BY <1>1 DEF Links
  <2>2. PICK x \in {p}, n \in 1 .. pr[p].refCount : t = <<x, n>> BY <2>1
  <2>3. n \in Nat BY <2>2
  <2> QED BY <2>1, <2>2, <2>3
<1>2. ASSUME NEW p \in P, NEW n \in Nat, t = <<p, n>>, Made(pr, p, s), n \in 1 .. pr[p].refCount
      PROVE  t \in Links(P, pr, s)
  <2>1. t \in {p} \X (1 .. pr[p].refCount) BY <1>2
  <2> QED BY <1>2, <2>1 DEF Links
<1> QED BY <1>1, <1>2

\* One creation more of q, or the first.
OneMore(P, P2, pr, pr2, q, n) ==
    /\ P2 = P \union {q} /\ n \in Nat /\ pr2[q].refCount = n + 1
    /\ \A p \in P \ {q} : /\ pr2[p].refCount = pr[p].refCount
                          /\ pr2[p].vsh = pr[p].vsh /\ pr2[p].fsh = pr[p].fsh
    /\ q \in P => pr[q].refCount = n /\ pr2[q].vsh = pr[q].vsh /\ pr2[q].fsh = pr[q].fsh
    /\ q \notin P => n = 0

\* One creation more of a program is one reference more to each of its shaders.
LEMMA LinksStep ==
    ASSUME NEW P, NEW P2, NEW pr, NEW pr2, NEW q, NEW n, OneMore(P, P2, pr, pr2, q, n), NEW s
    PROVE  /\ Made(pr2, q, s) => Links(P2, pr2, s) = Links(P, pr, s) \union {<<q, n + 1>>}
           /\ ~Made(pr2, q, s) => Links(P2, pr2, s) = Links(P, pr, s)
           /\ <<q, n + 1>> \notin Links(P, pr, s)
<1>1. \A p \in P : Made(pr, p, s) <=> Made(pr2, p, s) BY DEF OneMore, Made
<1>2. n \in Nat /\ P2 = P \union {q} BY DEF OneMore
<1>3. ASSUME NEW p \in P, NEW k \in Nat
      PROVE  k \in 1 .. pr2[p].refCount <=> k \in 1 .. pr[p].refCount \/ (p = q /\ k = n + 1)
  <2>1. CASE p = q
    <3>1. pr2[p].refCount = n + 1 /\ pr[p].refCount = n BY <2>1 DEF OneMore
    <3> QED BY <1>2, <2>1, <3>1
  <2>2. CASE p # q
    <3>1. pr2[p].refCount = pr[p].refCount BY <2>2 DEF OneMore
    <3> QED BY <2>2, <3>1
  <2> QED BY <2>1, <2>2
<1>4. q \notin P => \A k \in Nat : k \in 1 .. pr2[q].refCount <=> k = n + 1
  <2>1. q \notin P => n = 0 /\ pr2[q].refCount = 1 BY DEF OneMore
  <2> QED BY <2>1
<1>5. \A t : t \in Links(P, pr, s)
              <=> \E p \in P, k \in Nat : t = <<p, k>> /\ Made(pr, p, s) /\ k \in 1 .. pr[p].refCount
  BY LinksAre
<1>6. \A t : t \in Links(P2, pr2, s)
              <=> \E p \in P2, k \in Nat : t = <<p, k>> /\ Made(pr2, p, s) /\ k \in 1 .. pr2[p].refCount
  BY LinksAre
<1>7. ASSUME NEW t \in Links(P, pr, s) PROVE t \in Links(P2, pr2, s) /\ t # <<q, n + 1>>
  <2>1. PICK p \in P, k \in Nat : t = <<p, k>> /\ Made(pr, p, s) /\ k \in 1 .. pr[p].refCount
    BY <1>5, <1>7
  <2>2. Made(pr2, p, s) /\ k \in 1 .. pr2[p].refCount /\ p \in P2 BY <1>1, <1>2, <1>3, <2>1
  <2>3. t \in Links(P2, pr2, s) BY <1>6, <2>1, <2>2
  <2>4. p = q => k # n + 1
    <3>1. p = q => pr[p].refCount = n BY <2>1 DEF OneMore
    <3> QED BY <1>2, <2>1, <3>1
  <2> QED BY <2>1, <2>3, <2>4
<1>8. ASSUME NEW t \in Links(P2, pr2, s)
      PROVE  t \in Links(P, pr, s) \/ (t = <<q, n + 1>> /\ Made(pr2, q, s))
  <2>1. PICK p \in P2, k \in Nat : t = <<p, k>> /\ Made(pr2, p, s) /\ k \in 1 .. pr2[p].refCount
    BY <1>6, <1>8
  <2>2. CASE p \in P
    <3>1. Made(pr, p, s) BY <1>1, <2>1, <2>2
    <3>2. k \in 1 .. pr[p].refCount \/ (p = q /\ k = n + 1) BY <1>3, <2>1, <2>2
    <3> QED BY <1>5, <2>1, <2>2, <3>1, <3>2
  <2>3. CASE p \notin P
    <3>1. p = q BY <1>2, <2>3
    <3> QED BY <1>4, <2>1, <2>3, <3>1
  <2> QED BY <2>2, <2>3
<1>9. ASSUME Made(pr2, q, s) PROVE <<q, n + 1>> \in Links(P2, pr2, s)
  <2>1. q \in P2 /\ n + 1 \in Nat /\ n + 1 \in 1 .. pr2[q].refCount BY <1>2 DEF OneMore
  <2> QED BY <1>6, <1>9, <2>1
<1>10. Made(pr2, q, s) => Links(P2, pr2, s) = Links(P, pr, s) \union {<<q, n + 1>>}
  BY <1>7, <1>8, <1>9
<1>11. ~Made(pr2, q, s) => Links(P2, pr2, s) = Links(P, pr, s) BY <1>7, <1>8
<1> QED BY <1>7, <1>10, <1>11

\* What it means for their number.
LEMMA LinksCount ==
    ASSUME NEW P, NEW P2, NEW pr, NEW pr2, NEW q, NEW n, OneMore(P, P2, pr, pr2, q, n), NEW s,
           IsFiniteSet(Links(P, pr, s)) \/ IsFiniteSet(Links(P2, pr2, s))
    PROVE  /\ IsFiniteSet(Links(P, pr, s)) /\ IsFiniteSet(Links(P2, pr2, s))
           /\ Cardinality(Links(P, pr, s)) \in Nat
           /\ Cardinality(Links(P2, pr2, s)) = IF Made(pr2, q, s) THEN Cardinality(Links(P, pr, s)) + 1
                                                                  ELSE Cardinality(Links(P, pr, s))
<1> DEFINE L == Links(P, pr, s)
           M == Links(P2, pr2, s)
           t == <<q, n + 1>>
<1>1. (Made(pr2, q, s) => M = L \union {t}) /\ (~Made(pr2, q, s) => M = L) /\ t \notin L
  BY LinksStep
<1> HIDE DEF L, M, t
<1>2. L \subseteq M BY <1>1
<1>3. IsFiniteSet(L) BY <1>2, FS_Subset DEF L, M
<1>4. IsFiniteSet(M)
  <2>1. IsFiniteSet(L \union {t}) BY <1>3, FS_AddElement
  <2> QED BY <1>1, <1>3, <2>1
<1>5. Cardinality(L) \in Nat BY <1>3, FS_CardinalityType
<1>6. Cardinality(L \union {t}) = Cardinality(L) + 1 BY <1>1, <1>3, FS_AddElement
<1> QED BY <1>1, <1>3, <1>4, <1>5, <1>6 DEF L, M

\* Programs without a reference refer to nothing.
LEMMA LinksFreed ==
    ASSUME NEW P, NEW P2 \in SUBSET P, NEW pr, \A p \in P \ P2 : pr[p].refCount = 0, NEW s
    PROVE  Links(P2, pr, s) = Links(P, pr, s)
<1>1. \A t : t \in Links(P, pr, s)
              <=> \E p \in P, k \in Nat : t = <<p, k>> /\ Made(pr, p, s) /\ k \in 1 .. pr[p].refCount
  BY LinksAre
<1>2. \A t : t \in Links(P2, pr, s)
              <=> \E p \in P2, k \in Nat : t = <<p, k>> /\ Made(pr, p, s) /\ k \in 1 .. pr[p].refCount
  BY LinksAre
<1>3. \A p \in P \ P2 : \A k \in Nat : k \notin 1 .. pr[p].refCount OBVIOUS
<1>4. \A t : t \in Links(P, pr, s) <=> t \in Links(P2, pr, s) BY <1>1, <1>2, <1>3
<1> QED BY <1>4

-----------------------------------------------------------------------------
(* What find returns.                                                       *)

\* HandleHashMapT::find on a map that is one to one.
LEMMA FindIs ==
    ASSUME NEW map, NEW K, NEW H, NoHandle \notin H, map \subseteq K \X H, OneToOne(map), NEW k
    PROVE  /\ Find(map, k) # NoHandle => <<k, Find(map, k)>> \in map
           /\ Find(map, k) = NoHandle => \A h : <<k, h>> \notin map
           /\ \A h : <<k, h>> \in map => Find(map, k) = h
<1> DEFINE found == {e \in map : e[1] = k}
           e == CHOOSE e \in found : TRUE
<1>1. \A d \in map : d = <<d[1], d[2]>> /\ d[2] \in H OBVIOUS
<1>2. CASE found = {}
  <2>1. Find(map, k) = NoHandle BY <1>2 DEF Find
  <2>2. \A h : <<k, h>> \notin map BY <1>2
  <2> QED BY <2>1, <2>2
<1>3. CASE found # {}
  <2>1. e \in found BY <1>3
  <2>2. Find(map, k) = e[2] BY <1>3, Zenon DEF Find
  <2> HIDE DEF e
  <2>3. e \in map /\ e[1] = k BY <2>1
  <2>4. e = <<k, e[2]>> /\ e[2] \in H BY <1>1, <2>3
  <2>5. ASSUME NEW h, <<k, h>> \in map PROVE e[2] = h
    <3>1. <<k, h>>[1] = k /\ <<k, h>>[2] = h OBVIOUS
    <3>2. <<k, h>> = e BY <2>3, <2>5, <3>1 DEF OneToOne
    <3> QED BY <3>1, <3>2
  <2>6. e[2] # NoHandle BY <2>4
  <2> HIDE DEF found
  <2> QED BY <2>2, <2>3, <2>4, <2>5, <2>6
<1> QED BY <1>2, <1>3

\* The key of a program has its vertex shader.
LEMMA KeyIs ==
    ASSUME NEW v \in Shaders, NEW f \in Shaders \union {NoHandle}
    PROVE  Key(v, f) \in Shaders \X Shaders /\ Key(v, f)[1] = v
BY ShadersAssumption DEF Key

-----------------------------------------------------------------------------
(* What the invariant says of the counts.                                   *)

\* The types of what the application has to destroy.
LEMMA AppTypes ==
    ASSUME Types
    PROVE  /\ DOMAIN app = {"shader", "program", "uniform"}
           /\ app.shader \in [Shaders -> Nat] /\ app.program \in [Programs -> Nat]
           /\ app.uniform \in [Uniforms -> Nat]
<1>1. MaxRefs.shader \in Nat /\ MaxRefs.program \in Nat /\ MaxRefs.uniform \in Nat
  BY BoundsAssumption
<1>2. /\ app.shader \in [Shaders -> 0 .. MaxRefs.shader]
      /\ app.program \in [Programs -> 0 .. MaxRefs.program]
      /\ app.uniform \in [Uniforms -> 0 .. MaxRefs.uniform]
      /\ DOMAIN app = {"shader", "program", "uniform"}
  BY DEF Types, Apps
<1>3. 0 .. MaxRefs.shader \subseteq Nat /\ 0 .. MaxRefs.program \subseteq Nat
      /\ 0 .. MaxRefs.uniform \subseteq Nat
  BY <1>1
<1> QED BY <1>2, <1>3

\* What the invariant says of the API thread's records.
LEMMA ApiFacts ==
    ASSUME Types, ApiInv
    PROVE  /\ RefInv(Refs, Wanted, app.uniform, shaders, uniforms)
           /\ Refs \in RefRecords
           /\ Wanted \in [Shaders -> Nat]
           /\ shaders \subseteq Shaders /\ uniforms \subseteq Uniforms /\ programs \subseteq Programs
           /\ \A s \in Shaders : /\ Wanted[s] = app.shader[s] + Cardinality(LinksTo(s))
                                 /\ app.shader[s] \in Nat /\ Cardinality(LinksTo(s)) \in Nat
                                 /\ IsFiniteSet(LinksTo(s))
                                 /\ Wanted[s] > 0 => s \in shaders
           /\ \A s \in shaders : shaderRef[s].refCount = Wanted[s]
<1>1. RefInv(Refs, Wanted, app.uniform, shaders, uniforms) /\ ProgramsExact BY DEF ApiInv
<1>2. \A s \in Shaders : IsFiniteSet(LinksTo(s)) /\ Cardinality(LinksTo(s)) \in Nat
  BY <1>1, FS_CardinalityType DEF ProgramsExact
<1>3. Refs \in RefRecords /\ Wanted \in [Shaders -> Nat] /\ Wants(Wanted, Shaders, shaders)
  BY <1>1, RefInvCounts
<1>4. uniforms \subseteq Uniforms BY <1>1 DEF RefInv, Exact, UniformsExact, Wants
<1>5. shaders \subseteq Shaders /\ \A s \in Shaders : Wanted[s] > 0 => s \in shaders
  BY <1>3 DEF Wants
<1>6. programs \subseteq Programs BY <1>1 DEF ProgramsExact, Wants
<1>7. \A s \in Shaders : Wanted[s] = app.shader[s] + Cardinality(LinksTo(s)) BY DEF Wanted
<1>8. \A s \in shaders : Refs.shader[s].refCount = Wanted[s]
  BY <1>1 DEF RefInv, Exact, ShadersExact
<1>9. Refs.shader = shaderRef BY DEF Refs
<1> HIDE DEF Wanted
<1>10. \A s \in shaders : shaderRef[s].refCount = Wanted[s] BY <1>8, <1>9
<1>11. \A s \in Shaders : app.shader[s] \in Nat BY AppTypes
<1> QED BY <1>1, <1>2, <1>3, <1>4, <1>5, <1>6, <1>7, <1>10, <1>11

\* A program that can be destroyed holds its shaders.
LEMMA LinkedIs ==
    ASSUME Types, ApiInv, NEW p \in programs, app.program[p] > 0
    PROVE  LET v == programRef[p].vsh
               f == programRef[p].fsh
           IN  Counted(Wanted, shaders, v, f) /\ programRef[p].refCount > 0
<1> DEFINE v == programRef[p].vsh
           f == programRef[p].fsh
<1>1. ProgramsExact BY DEF ApiInv
<1>2. programRef[p].refCount = app.program[p] /\ MadeOf(p) BY <1>1 DEF ProgramsExact
<1>3. app.program[p] \in Nat BY AppTypes, ApiFacts
<1>4. ASSUME NEW s \in shaders, s = v \/ s = f PROVE Wanted[s] > 0
  <2>1. Made(programRef, p, s) BY <1>4 DEF Made
  <2>2. 1 \in 1 .. programRef[p].refCount /\ 1 \in Nat BY <1>2, <1>3
  <2>3. <<p, 1>> \in LinksTo(s) BY <2>1, <2>2, LinksAre, LinksIs
  <2>4. s \in Shaders BY <1>4, ApiFacts
  <2>5. IsFiniteSet(LinksTo(s)) /\ Cardinality(LinksTo(s)) \in Nat /\ app.shader[s] \in Nat
    BY <2>4, ApiFacts
  <2>6. Cardinality(LinksTo(s)) # 0 BY <2>3, <2>5, FS_EmptySet
  <2>7. Wanted[s] = app.shader[s] + Cardinality(LinksTo(s)) BY <2>4, ApiFacts
  <2> QED BY <2>5, <2>6, <2>7
<1>5. v \in shaders /\ (f = NoHandle \/ (f \in shaders /\ f # v))
  BY <1>2, TypesAssumption DEF MadeOf
<1>6. Wanted[v] > 0 /\ (f = NoHandle \/ Wanted[f] > 0) BY <1>4, <1>5
<1> QED BY <1>2, <1>3, <1>5, <1>6 DEF Counted

\* So does the application those it can make a program of.
LEMMA HeldIs ==
    ASSUME Types, ApiInv, NEW v, NEW f, CanLink(v, f)
    PROVE  /\ Counted(Wanted, shaders, v, f)
           /\ v \in Shaders /\ f \in Shaders \union {NoHandle}
           /\ app.shader[v] > 0 /\ (f # NoHandle => app.shader[f] > 0)
           /\ FirstShader \in {v, f} => app.shader[FirstShader] > 1
           /\ \/ /\ shaderRef[v].bin \in VertexShaders
                 /\ f \in shaders /\ shaderRef[f].bin \in FragmentShaders
              \/ shaderRef[v].bin \in VertexShaders \union ComputeShaders /\ f = NoHandle
<1>1. \A s \in Shaders : app.shader[s] > 0 => Wanted[s] > 0 /\ s \in shaders
  <2>1. \A s \in Shaders : /\ Wanted[s] = app.shader[s] + Cardinality(LinksTo(s))
                           /\ app.shader[s] \in Nat /\ Cardinality(LinksTo(s)) \in Nat
                           /\ Wanted[s] > 0 => s \in shaders
    BY ApiFacts
  <2> HIDE DEF Wanted
  <2> QED BY <2>1
<1>2. \A s, bins : Held(s, bins) => /\ s \in Shaders /\ app.shader[s] > 0
                                    /\ shaderRef[s].bin \in bins
                                    /\ s = FirstShader => app.shader[s] > 1
  <2>1. \A s \in Shaders : app.shader[s] \in Nat BY AppTypes
  <2> QED BY <2>1 DEF Held, InitHolds, InitShaders
<1>3. CASE Held(v, VertexShaders) /\ Held(f, FragmentShaders)
  <2>1. v # f BY <1>2, <1>3, TypesAssumption
  <2>2. f # NoHandle BY <1>2, <1>3, NoHandleAssumption
  <2> QED BY <1>1, <1>2, <1>3, <2>1, <2>2 DEF Counted
<1>4. CASE Held(v, VertexShaders \union ComputeShaders) /\ f = NoHandle
  <2>1. FirstShader # NoHandle BY ShadersAssumption, NoHandleAssumption
  <2> QED BY <1>1, <1>2, <1>4, <2>1 DEF Counted
<1> QED BY <1>3, <1>4 DEF CanLink

\* createProgram with shaders of which there is a program finds that one: the keys of
\* two programs differ, those of a program of one shader too.
LEMMA SharedIs ==
    ASSUME Types, ApiInv, NEW v, NEW f, CanLink(v, f),
           NEW p, p = Find(programMap, Key(v, f)), p # NoHandle
    PROVE  p \in programs /\ app.program[p] > 0 /\ programRef[p].vsh = v /\ programRef[p].fsh = f
<1>1. ProgramsExact BY DEF ApiInv
<1>2. v \in Shaders /\ f \in Shaders \union {NoHandle} BY HeldIs
<1>3. /\ programMap = {<<Key(programRef[q].vsh, programRef[q].fsh), q>> :
                          q \in {x \in programs : app.program[x] > 0}}
      /\ OneToOne(programMap) /\ \A q \in programs : app.program[q] > 0 => MadeOf(q)
  BY <1>1 DEF ProgramsExact
<1>4. programs \subseteq Programs /\ shaders \subseteq Shaders BY ApiFacts
<1>5. \A q \in programs : programRef[q].vsh \in Shaders /\ programRef[q].fsh \in Shaders \union {NoHandle}
  BY <1>4 DEF Types, ProgramRefs
<1>6. programMap \subseteq (Shaders \X Shaders) \X Programs BY <1>3, <1>4, <1>5, KeyIs
<1>7. <<Key(v, f), p>> \in programMap BY <1>6, <1>3, FindIs, NoHandleAssumption
<1>8. PICK q \in programs : /\ app.program[q] > 0
                            /\ <<Key(v, f), p>> = <<Key(programRef[q].vsh, programRef[q].fsh), q>>
  BY <1>3, <1>7
<1>9. p = q /\ Key(v, f) = Key(programRef[p].vsh, programRef[p].fsh) BY <1>8
<1>10. MadeOf(p) BY <1>3, <1>8, <1>9
<1>11. programRef[p].vsh = v BY <1>2, <1>5, <1>8, <1>9 DEF Key
<1>12. \A h : shaderRef[h].bin \in FragmentShaders => h # FirstShader
  BY TypesAssumption, DebugFontAssumption DEF Types, FirstTaken
<1>13. f # FirstShader /\ programRef[p].fsh # FirstShader
  <2>1. FirstShader # NoHandle BY ShadersAssumption, NoHandleAssumption
  <2>2. f # FirstShader BY <1>12, <2>1, HeldIs
  <2>3. programRef[p].fsh # FirstShader BY <1>10, <1>12, <2>1 DEF MadeOf
  <2> QED BY <2>2, <2>3
<1>14. programRef[p].fsh = f BY <1>9, <1>11, <1>13 DEF Key
<1> QED BY <1>8, <1>9, <1>11, <1>14

-----------------------------------------------------------------------------
(* What the calls have in common.                                           *)

\* A record keeps itself.
LEMMA KeptSame == ASSUME NEW r PROVE Kept(r, r)
  BY DEF Kept, FrameKept

\* The variables once the record of a call has become the state.
LEMMA BecomesIs ==
    ASSUME NEW d \in RefRecords, Becomes(d)
    PROVE  /\ Refs' = d
           /\ shaderRef' = d.shader /\ shaderMap' = d.shaders
           /\ uniformRef' = d.uniform /\ uniformMap' = d.uniforms
           /\ submit' = d.frame /\ submit' \in Frames
<1>1. d = [shader |-> d.shader, shaders |-> d.shaders, uniform |-> d.uniform,
           uniforms |-> d.uniforms, frame |-> d.frame] /\ d.frame \in Frames
  BY DEF RefRecords
<1> QED BY <1>1 DEF Becomes, Refs

\* A call is counted.
LEMMA CallTypes ==
    ASSUME Types, MayCall
    PROVE  calls' \in 0 .. MaxCalls /\ calls' # 0
<1>1. MaxCalls \in Nat /\ calls \in 0 .. MaxCalls BY BoundsAssumption DEF Types
<1> QED BY <1>1 DEF MayCall

\* The references of programs stay while the programs do.
LEMMA LinksStay ==
    ASSUME UNCHANGED <<programs, programRef>>
    PROVE  \A s : (LinksTo(s))' = LinksTo(s)
  BY DEF LinksTo

\* The references to the shaders after one creation more of a program.
LEMMA LinksGrow ==
    ASSUME Types, ApiInv, NEW p, NEW n, OneMore(programs, programs', programRef, programRef', p, n),
           NEW v, NEW f, programRef'[p].vsh = v, programRef'[p].fsh = f
    PROVE  \A s \in Shaders : /\ IsFiniteSet((LinksTo(s))')
                              /\ Cardinality((LinksTo(s))') = IF s \in {v, f}
                                                                 THEN Cardinality(LinksTo(s)) + 1
                                                                 ELSE Cardinality(LinksTo(s))
<1> SUFFICES ASSUME NEW s \in Shaders
             PROVE  /\ IsFiniteSet((LinksTo(s))')
                    /\ Cardinality((LinksTo(s))') = IF s \in {v, f} THEN Cardinality(LinksTo(s)) + 1
                                                                    ELSE Cardinality(LinksTo(s))
  OBVIOUS
<1>1. LinksTo(s) = Links(programs, programRef, s) /\ (LinksTo(s))' = Links(programs', programRef', s)
  BY DEF LinksTo, Links, Made
<1>2. IsFiniteSet(Links(programs, programRef, s)) BY <1>1, ApiFacts
<1>3. Made(programRef', p, s) <=> s \in {v, f} BY DEF Made
<1>4. /\ IsFiniteSet(Links(programs', programRef', s))
      /\ Cardinality(Links(programs', programRef', s))
            = IF Made(programRef', p, s) THEN Cardinality(Links(programs, programRef, s)) + 1
                                         ELSE Cardinality(Links(programs, programRef, s))
  BY <1>2, LinksCount
<1> QED BY <1>1, <1>3, <1>4

\* And after one creation less.
LEMMA LinksShrink ==
    ASSUME Types, ApiInv, NEW p, NEW n, OneMore(programs', programs, programRef', programRef, p, n),
           NEW v, NEW f, programRef[p].vsh = v, programRef[p].fsh = f
    PROVE  \A s \in Shaders : /\ IsFiniteSet((LinksTo(s))')
                              /\ Cardinality((LinksTo(s))') = IF s \in {v, f}
                                                                 THEN Cardinality(LinksTo(s)) - 1
                                                                 ELSE Cardinality(LinksTo(s))
<1> SUFFICES ASSUME NEW s \in Shaders
             PROVE  /\ IsFiniteSet((LinksTo(s))')
                    /\ Cardinality((LinksTo(s))') = IF s \in {v, f} THEN Cardinality(LinksTo(s)) - 1
                                                                    ELSE Cardinality(LinksTo(s))
  OBVIOUS
<1>1. LinksTo(s) = Links(programs, programRef, s) /\ (LinksTo(s))' = Links(programs', programRef', s)
  BY DEF LinksTo, Links, Made
<1>2. IsFiniteSet(Links(programs, programRef, s)) BY <1>1, ApiFacts
<1>3. Made(programRef, p, s) <=> s \in {v, f} BY DEF Made
<1>4. /\ IsFiniteSet(Links(programs', programRef', s))
      /\ Cardinality(Links(programs', programRef', s)) \in Nat
      /\ Cardinality(Links(programs, programRef, s))
            = IF Made(programRef, p, s) THEN Cardinality(Links(programs', programRef', s)) + 1
                                        ELSE Cardinality(Links(programs', programRef', s))
  BY <1>2, LinksCount
<1> QED BY <1>1, <1>3, <1>4

\* Programs that stay what they are.
LEMMA ProgramsStay ==
    ASSUME Types, ApiInv, programs' = programs, programMap' = programMap,
           \A q \in programs : programRef'[q].vsh = programRef[q].vsh
                               /\ programRef'[q].fsh = programRef[q].fsh,
           \A q \in programs : programRef'[q].refCount = app'.program[q],
           \A q \in programs : app'.program[q] > 0 <=> app.program[q] > 0,
           \A q \in programs : app'.program[q] = 0 <=> app.program[q] = 0,
           Wants(app'.program, Programs, programs),
           shaders \subseteq shaders', \A s \in shaders : shaderRef'[s].bin = shaderRef[s].bin,
           submit'.freeProgram = submit.freeProgram,
           Named(submit'.post, "DestroyProgram") = Named(submit.post, "DestroyProgram"),
           \A s \in Shaders : IsFiniteSet((LinksTo(s))')
    PROVE  ProgramsExact'
<1>1. ProgramsExact BY DEF ApiInv
<1>2. QueueExact(submit'.freeProgram, app'.program, programs', submit'.post, "DestroyProgram")
  <2>1. QueueExact(submit.freeProgram, app.program, programs, submit.post, "DestroyProgram")
    BY <1>1 DEF ProgramsExact
  <2> QED BY <2>1 DEF QueueExact
<1>3. programMap' = {<<Key(programRef'[p].vsh, programRef'[p].fsh), p>> :
                        p \in {x \in programs' : app'.program[x] > 0}}
  <2>1. programMap = {<<Key(programRef[p].vsh, programRef[p].fsh), p>> :
                         p \in {x \in programs : app.program[x] > 0}}
    BY <1>1 DEF ProgramsExact
  <2>2. {x \in programs' : app'.program[x] > 0} = {x \in programs : app.program[x] > 0} OBVIOUS
  <2>3. \A p \in programs : Key(programRef'[p].vsh, programRef'[p].fsh)
                               = Key(programRef[p].vsh, programRef[p].fsh)
    OBVIOUS
  <2> QED BY <2>1, <2>2, <2>3
<1>4. \A p \in programs' : app'.program[p] > 0 => MadeOf(p)'
  <2>1. \A p \in programs : app.program[p] > 0 => MadeOf(p) BY <1>1 DEF ProgramsExact
  <2> QED BY <2>1 DEF MadeOf
<1>5. OneToOne(programMap) BY <1>1 DEF ProgramsExact
<1> QED BY <1>2, <1>3, <1>4, <1>5 DEF ProgramsExact

\* What is left to show of a call, once the counts are right.
LEMMA CallKeeps ==
    ASSUME Types, ApiInv, MayCall,
           NEW d, NEW ws, Becomes(d), RefInv(d, ws, app'.uniform, shaders', uniforms'),
           ws = Wanted', ProgramsExact', submit'.draws \subseteq programs'
    PROVE  ApiInv'
<1>1. d \in RefRecords BY RefInvCounts
<1>2. Refs' = d BY <1>1, BecomesIs
<1>3. RefInv(Refs', Wanted', app'.uniform, shaders', uniforms') BY <1>2
<1>4. calls' # 0 BY CallTypes
<1> QED BY <1>3, <1>4, Zenon DEF ApiInv

\* What a call that makes nothing new leaves of what the renderer will find.
Remains ==
    /\ uniformMap' \subseteq uniformMap
    /\ ToSet(submit.freeUniform) \subseteq ToSet(submit'.freeUniform)
    /\ \A s \in Shaders : shaderRef'[s].refCount > 0
          => shaderRef[s].refCount > 0 /\ shaderRef'[s].uniforms = shaderRef[s].uniforms

SameLinks ==
    \A p \in programs : programRef'[p].vsh = programRef[p].vsh /\ programRef'[p].fsh = programRef[p].fsh

Releases ==
    /\ UNCHANGED <<shaders, programs, uniforms, render, stage, objectVars>>
    /\ Remains /\ SameLinks
    /\ submit'.pre = submit.pre
    /\ submit'.draws \subseteq submit.draws \union programs

\* What a release of references keeps of the state.
LEMMA KeptFollows ==
    ASSUME NEW d \in RefRecords, Becomes(d), Kept(Refs, d)
    PROVE  /\ Remains
           /\ submit'.pre = submit.pre /\ submit'.draws = submit.draws
           /\ submit'.freeProgram = submit.freeProgram
           /\ Named(submit'.post, "DestroyProgram") = Named(submit.post, "DestroyProgram")
           /\ \A s \in Shaders : shaderRef'[s].bin = shaderRef[s].bin
<1>1. /\ Refs.shader = shaderRef /\ Refs.uniforms = uniformMap /\ Refs.frame = submit
  BY DEF Refs
<1>2. /\ shaderRef' = d.shader /\ uniformMap' = d.uniforms /\ submit' = d.frame BY BecomesIs
<1> QED BY <1>1, <1>2 DEF Kept, FrameKept, Remains

\* Another frame that queues the same shaders and uniforms.
SameQueues(f, g) ==
    /\ g.freeShader = f.freeShader /\ g.freeUniform = f.freeUniform
    /\ Named(g.post, "DestroyShader") = Named(f.post, "DestroyShader")
    /\ Named(g.post, "DestroyUniform") = Named(f.post, "DestroyUniform")
    /\ NoRepeat(g.post)

\* The counts stay right when only what they say nothing of changes in the frame.
LEMMA FrameOnly ==
    ASSUME NEW r, NEW ws, NEW a, NEW X, NEW Y, RefInv(r, ws, a, X, Y),
           NEW g \in Frames, SameQueues(r.frame, g)
    PROVE  LET d == [r EXCEPT !.frame = g]
           IN  /\ RefInv(d, ws, a, X, Y)
               /\ d.shader = r.shader /\ d.shaders = r.shaders /\ d.uniform = r.uniform
               /\ d.uniforms = r.uniforms /\ d.frame = g
<1> DEFINE d == [r EXCEPT !.frame = g]
           wu == Totals(r.shader, a)
<1>1. r \in RefRecords BY RefInvCounts
<1>2. /\ d \in RefRecords
      /\ d.shader = r.shader /\ d.shaders = r.shaders /\ d.uniform = r.uniform
      /\ d.uniforms = r.uniforms /\ d.frame = g
  BY <1>1 DEF RefRecords
<1> HIDE DEF d, wu
<1>3. Exact(r, ws, wu, X, Y) /\ Lists(r.shader, ws, Y) /\ a \in [Uniforms -> Nat]
  BY DEF RefInv, wu
<1>4. ShadersExact(d, ws, X)
  <2>1. ShadersExact(r, ws, X) BY <1>3 DEF Exact
  <2> QED BY <1>2, <2>1, ShadersStay DEF SameQueues
<1>5. UniformsExact(d, wu, Y)
  <2>1. UniformsExact(r, wu, Y) BY <1>3 DEF Exact
  <2> QED BY <1>2, <2>1, UniformsStay DEF SameQueues
<1>6. Exact(d, ws, wu, X, Y) BY <1>2, <1>4, <1>5 DEF Exact, SameQueues
<1>7. RefInv(d, ws, a, X, Y) BY <1>2, <1>3, <1>6 DEF RefInv, wu
<1> QED BY <1>2, <1>7 DEF d

-----------------------------------------------------------------------------
(* What createProgram and destroyProgram have in common.                    *)

\* createProgram may release the application's shaders, once it has counted its own.
LEMMA SettleIs ==
    ASSUME NEW r, NEW ws, NEW a, NEW X, NEW Y, RefInv(r, ws, a, X, Y),
           NEW v, NEW f, Counted(ws, X, v, f), NEW ds \in BOOLEAN
    PROVE  LET d == IF ds THEN DecAll(r, ShadersOf(v, f)) ELSE r
           IN  RefInv(d, IF ds THEN Less(ws, {v, f}) ELSE ws, a, X, Y) /\ Kept(r, d)
<1>1. CASE ds BY <1>1, DecAllKeeps
<1>2. CASE ~ds BY <1>2, KeptSame
<1> QED BY <1>1, <1>2

\* The record it then leaves becomes the state.
LEMMA SettleBecomes ==
    ASSUME NEW r, NEW v, NEW f, NEW ds \in BOOLEAN, Settle(r, v, f, ds)
    PROVE  Becomes(IF ds THEN DecAll(r, ShadersOf(v, f)) ELSE r)
  BY DEF Settle, DecAll

\* What the application holds after it has given its shaders away.
GivenAway(b, v, f, ds) ==
    /\ b \in Apps /\ b.program = app.program /\ b.uniform = app.uniform
    /\ \A s \in Shaders : b.shader[s] = IF ds /\ s \in {v, f} THEN app.shader[s] - 1
                                                             ELSE app.shader[s]

\* The application has one of each shader less that it gave away.
LEMMA AppAfterIs ==
    ASSUME Types, NEW v \in Shaders, NEW f \in Shaders \union {NoHandle}, NEW ds \in BOOLEAN,
           app.shader[v] > 0, f # NoHandle => app.shader[f] > 0
    PROVE  GivenAway(AppAfter(v, f, ds), v, f, ds)
<1> DEFINE g == [s \in Shaders |-> IF s \in {v, f} THEN app.shader[s] - 1 ELSE app.shader[s]]
<1>1. app \in Apps
  BY DEF Types
<1>2. CASE ~ds BY <1>1, <1>2 DEF AppAfter, GivenAway
<1>3. CASE ds
  <2>1. MaxRefs.shader \in Nat BY BoundsAssumption
  <2>2. app.shader \in [Shaders -> 0 .. MaxRefs.shader] BY <1>1 DEF Apps
  <2>3. \A s \in Shaders : s \in {v, f} => app.shader[s] > 0 BY NoHandleAssumption
  <2>4. g \in [Shaders -> 0 .. MaxRefs.shader] BY <2>1, <2>2, <2>3
  <2>5. AppAfter(v, f, ds) = [app EXCEPT !.shader = g] BY <1>3 DEF AppAfter
  <2>6. \A s \in Shaders : g[s] = IF s \in {v, f} THEN app.shader[s] - 1 ELSE app.shader[s]
    OBVIOUS
  <2> HIDE DEF g
  <2> QED BY <1>1, <1>3, <2>4, <2>5, <2>6 DEF GivenAway, Apps
<1> QED BY <1>2, <1>3

\* Handle 0 is not given away while init holds it.
LEMMA FirstGivenAway ==
    ASSUME Types, ApiInv, NEW b, NEW v, NEW f, NEW ds, GivenAway(b, v, f, ds), CanLink(v, f)
    PROVE  b.shader[FirstShader] > 0
<1>1. app.shader[FirstShader] \in Nat /\ app.shader[FirstShader] > 0
  BY AppTypes, ShadersAssumption DEF Types, FirstTaken
<1>2. FirstShader \in {v, f} => app.shader[FirstShader] > 1 BY HeldIs
<1>3. b.shader[FirstShader] = IF ds /\ FirstShader \in {v, f} THEN app.shader[FirstShader] - 1
                                                            ELSE app.shader[FirstShader]
  BY ShadersAssumption DEF GivenAway
<1> QED BY <1>1, <1>2, <1>3

\* It is taken for as long as the application, and init, hold it.
LEMMA FirstStays ==
    ASSUME FirstTaken, \A s \in Shaders : shaderRef'[s].bin = shaderRef[s].bin,
           app'.shader[FirstShader] > 0
    PROVE  FirstTaken'
BY ShadersAssumption DEF FirstTaken

MadeProgram(c, b, p) ==
    /\ c \in Apps /\ c.shader = b.shader /\ c.uniform = b.uniform
    /\ \A q \in Programs : c.program[q] = IF q = p THEN b.program[p] + 1 ELSE b.program[q]

\* The application has one program more.
LEMMA AppMore ==
    ASSUME NEW b \in Apps,
           NEW p \in Programs, b.program[p] < MaxRefs.program
    PROVE  MadeProgram([b EXCEPT !.program[p] = @ + 1], b, p)
<1> DEFINE g == [b.program EXCEPT ![p] = b.program[p] + 1]
           c == [b EXCEPT !.program[p] = @ + 1]
<1>1. MaxRefs.program \in Nat BY BoundsAssumption
<1>2. b.program \in [Programs -> 0 .. MaxRefs.program] BY DEF Apps
<1>3. g \in [Programs -> 0 .. MaxRefs.program] BY <1>1, <1>2
<1>4. \A q \in Programs : g[q] = IF q = p THEN b.program[p] + 1 ELSE b.program[q] BY <1>2
<1>5. c = [b EXCEPT !.program = g] OBVIOUS
<1> HIDE DEF g, c
<1>6. c \in Apps /\ c.shader = b.shader /\ c.uniform = b.uniform /\ c.program = g
  BY <1>3, <1>5 DEF Apps
<1>7. MadeProgram(c, b, p) BY <1>4, <1>6 DEF MadeProgram
<1> QED BY <1>7 DEF c

\* createProgram of shaders that are linked already.
LEMMA ShareProgramKeeps ==
    ASSUME Types, ApiInv, NEW v \in Shaders, NEW f \in Shaders \union {NoHandle},
           NEW ds \in BOOLEAN, ShareProgram(v, f, ds)
    PROVE  Types' /\ ApiInv' /\ Releases
<1> DEFINE p == Find(programMap, Key(v, f))
           b == AppAfter(v, f, ds)
           r == IncAll(Refs, ShadersOf(v, f))
           d == IF ds THEN DecAll(r, ShadersOf(v, f)) ELSE r
           W == More(Wanted, {v, f})
           W2 == IF ds THEN Less(W, {v, f}) ELSE W
<1>1. /\ MayCall /\ CanLink(v, f) /\ p # NoHandle /\ app.program[p] < MaxRefs.program
      /\ programRef' = [programRef EXCEPT ![p].refCount = @ + 1]
      /\ app' = [b EXCEPT !.program[p] = @ + 1]
      /\ UNCHANGED <<handleVars, programMap, rendVars>>
  BY DEF ShareProgram
<1>2. p \in programs /\ app.program[p] > 0 /\ programRef[p].vsh = v /\ programRef[p].fsh = f
  BY <1>1, SharedIs
<1> HIDE DEF p
<1>3. Becomes(d)
  <2>1. Settle(FoldLeft(ShaderIncRef, Refs, SharedShaders(p, f)), v, f, ds) BY DEF ShareProgram, p
  <2>2. SharedShaders(p, f) = ShadersOf(v, f) BY <1>2 DEF SharedShaders, ShadersOf
  <2>3. Settle(r, v, f, ds) BY <2>1, <2>2 DEF IncAll
  <2> HIDE DEF r
  <2> QED BY <2>3, SettleBecomes
<1>4. /\ RefInv(Refs, Wanted, app.uniform, shaders, uniforms) /\ Wanted \in [Shaders -> Nat]
      /\ programs \subseteq Programs /\ shaders \subseteq Shaders
  BY ApiFacts
<1>5. Counted(Wanted, shaders, v, f) BY <1>1, HeldIs
<1>6. app.shader[v] > 0 /\ (f # NoHandle => app.shader[f] > 0) BY <1>1, HeldIs
<1>7. RefInv(r, W, app.uniform, shaders, uniforms) /\ Kept(Refs, r)
  BY <1>4, <1>5, IncAllKeeps
<1>8. \A s \in Shaders : W[s] = IF s \in {v, f} THEN Wanted[s] + 1 ELSE Wanted[s] BY DEF More
<1>9. Counted(W, shaders, v, f)
  <2>1. \A s \in shaders : Wanted[s] > 0 => W[s] > 0 BY <1>4, <1>8
  <2> QED BY <1>5, <2>1 DEF Counted
<1> HIDE DEF r
<1>10. RefInv(d, W2, app.uniform, shaders, uniforms) /\ Kept(r, d)
  <2> HIDE DEF W
  <2> QED BY <1>7, <1>9, SettleIs
<1>11. W2 = [s \in Shaders |-> IF ds \/ s \notin {v, f} THEN Wanted[s] ELSE Wanted[s] + 1]
  <2>1. \A s \in Shaders : Wanted[s] \in Nat BY <1>4
  <2> HIDE DEF Wanted, W
  <2>2. CASE ds
    <3>1. Less(W, {v, f}) = [s \in Shaders |-> IF s \in {v, f} THEN W[s] - 1 ELSE W[s]] BY DEF Less
    <3>2. \A s \in Shaders : (IF s \in {v, f} THEN W[s] - 1 ELSE W[s]) = Wanted[s] BY <1>8, <2>1
    <3> QED BY <2>2, <3>1, <3>2
  <2>3. CASE ~ds BY <2>3 DEF W, More
  <2> QED BY <2>2, <2>3
<1> HIDE DEF d, W2, W
<1>12. d \in RefRecords BY <1>10, RefInvCounts
<1>13. Kept(Refs, d) BY <1>7, <1>10, <1>12, KeptChain
<1>14. /\ Remains /\ submit'.pre = submit.pre /\ submit'.draws = submit.draws
       /\ submit'.freeProgram = submit.freeProgram
       /\ Named(submit'.post, "DestroyProgram") = Named(submit.post, "DestroyProgram")
       /\ \A s \in Shaders : shaderRef'[s].bin = shaderRef[s].bin
       /\ submit' \in Frames
  BY <1>3, <1>12, <1>13, KeptFollows, BecomesIs
<1>15. GivenAway(b, v, f, ds) BY <1>6, AppAfterIs
<1> HIDE DEF b
<1>16. /\ app' \in Apps
       /\ \A s \in Shaders : app'.shader[s] = IF ds /\ s \in {v, f} THEN app.shader[s] - 1
                                                                   ELSE app.shader[s]
       /\ app'.uniform = app.uniform /\ app'.shader[FirstShader] > 0
       /\ \A q \in Programs : app'.program[q] = IF q = p THEN app.program[p] + 1 ELSE app.program[q]
  <2>1. p \in Programs /\ b.program[p] < MaxRefs.program /\ b \in Apps
    BY <1>1, <1>2, <1>4, <1>15 DEF GivenAway
  <2>2. MadeProgram(app', b, p) BY <1>1, <2>1, AppMore
  <2>3. b.shader[FirstShader] > 0 BY <1>1, <1>15, FirstGivenAway
  <2> QED BY <1>15, <2>2, <2>3 DEF GivenAway, MadeProgram
<1>17. programRef[p].refCount = app.program[p] /\ app.program[p] \in Nat
       /\ \A q \in programs : programRef[q].refCount = app.program[q] /\ app.program[q] \in Nat
  BY <1>2, <1>4, AppTypes DEF ApiInv, ProgramsExact
<1>18. /\ programRef' \in [Programs -> ProgramRefs]
       /\ programRef'[p].refCount = programRef[p].refCount + 1
       /\ programRef'[p].vsh = v /\ programRef'[p].fsh = f
       /\ \A q \in Programs \ {p} : programRef'[q] = programRef[q]
  BY <1>1, <1>2, <1>4 DEF Types, ProgramRefs
<1>19. OneMore(programs, programs', programRef, programRef', p, programRef[p].refCount)
  BY <1>1, <1>2, <1>4, <1>17, <1>18 DEF OneMore, handleVars
<1>20. \A s \in Shaders : /\ IsFiniteSet((LinksTo(s))')
                          /\ Cardinality((LinksTo(s))') = IF s \in {v, f}
                                                             THEN Cardinality(LinksTo(s)) + 1
                                                             ELSE Cardinality(LinksTo(s))
  BY <1>18, <1>19, LinksGrow
<1>21. W2 = Wanted'
  <2>1. Wanted' = [s \in Shaders |-> app'.shader[s] + Cardinality((LinksTo(s))')] BY DEF Wanted
  <2>2. \A s \in Shaders : Wanted[s] = app.shader[s] + Cardinality(LinksTo(s))
                           /\ app.shader[s] \in Nat /\ Cardinality(LinksTo(s)) \in Nat
    BY ApiFacts
  <2> HIDE DEF Wanted
  <2>3. \A s \in Shaders : (IF ds \/ s \notin {v, f} THEN Wanted[s] ELSE Wanted[s] + 1)
                              = app'.shader[s] + Cardinality((LinksTo(s))')
    BY <1>16, <1>20, <2>2
  <2> QED BY <1>11, <2>1, <2>3
<1>22. Wants(app'.program, Programs, programs)
  <2>1. Wants(app.program, Programs, programs) BY DEF ApiInv, ProgramsExact
  <2>2. app'.program \in [Programs -> Nat]
    <3>1. app'.program \in [Programs -> 0 .. MaxRefs.program] /\ MaxRefs.program \in Nat
      BY <1>16, BoundsAssumption DEF Apps
    <3> QED BY <3>1
  <2> QED BY <1>2, <1>16, <2>1, <2>2 DEF Wants
<1>23. ProgramsExact'
  <2>1. programs' = programs /\ programMap' = programMap /\ shaders' = shaders
    BY <1>1 DEF handleVars
  <2>2. \A q \in programs : programRef'[q].vsh = programRef[q].vsh
                            /\ programRef'[q].fsh = programRef[q].fsh
    BY <1>2, <1>4, <1>18
  <2>3. \A q \in programs : programRef'[q].refCount = app'.program[q]
    BY <1>2, <1>4, <1>16, <1>17, <1>18
  <2>4. \A q \in programs : app'.program[q] > 0 <=> app.program[q] > 0 BY <1>2, <1>4, <1>16, <1>17
  <2>5. \A q \in programs : app'.program[q] = 0 <=> app.program[q] = 0 BY <1>2, <1>4, <1>16, <1>17
  <2>6. \A s \in shaders : shaderRef'[s].bin = shaderRef[s].bin BY <1>4, <1>14
  <2>7. \A s \in Shaders : IsFiniteSet((LinksTo(s))') BY <1>20
  <2> QED BY <1>14, <1>22, <2>1, <2>2, <2>3, <2>4, <2>5, <2>6, <2>7, ProgramsStay
<1>24. ApiInv'
  <2>1. submit'.draws \subseteq programs' BY <1>1, <1>14 DEF ApiInv, handleVars
  <2>2. RefInv(d, W2, app'.uniform, shaders', uniforms') BY <1>1, <1>10, <1>16 DEF handleVars
  <2> QED BY <1>1, <1>3, <1>21, <1>23, <2>1, <2>2, CallKeeps
<1>25. Types'
  <2>1. calls' \in 0 .. MaxCalls BY <1>1, CallTypes
  <2>2. stage' = stage /\ render' = render BY <1>1 DEF rendVars
  <2>3. FirstTaken' BY <1>14, <1>16, FirstStays DEF Types
  <2> QED BY <1>14, <1>16, <1>18, <2>1, <2>2, <2>3 DEF Types
<1>26. Releases
  <2>1. SameLinks BY <1>2, <1>4, <1>18 DEF SameLinks
  <2> QED BY <1>1, <1>14, <2>1 DEF Releases, handleVars, rendVars
<1> QED BY <1>24, <1>25, <1>26

ProgramMade(p, v, f) ==
    /\ UNCHANGED <<shaders, uniforms, render, stage, objectVars>>
    /\ p \in Programs \ programs /\ programs' = programs \union {p}
    /\ Remains /\ SameLinks
    /\ programRef'[p].vsh = v /\ programRef'[p].fsh = f
    /\ v \in shaders /\ f \in shaders \union {NoHandle}
    /\ submit'.pre = Append(submit.pre, [op |-> "CreateProgram", h |-> p, vsh |-> v, fsh |-> f])
    /\ submit'.draws = submit.draws

\* createProgram of a new pair of shaders.
LEMMA CreateProgramKeeps ==
    ASSUME Types, ApiInv, NEW v \in Shaders, NEW f \in Shaders \union {NoHandle},
           NEW ds \in BOOLEAN, NEW p \in Programs, CreateProgram(p, v, f, ds)
    PROVE  Types' /\ ApiInv' /\ ProgramMade(p, v, f)
<1> DEFINE b == AppAfter(v, f, ds)
           cmd == [op |-> "CreateProgram", h |-> p, vsh |-> v, fsh |-> f]
           r == IncAll(Refs, ShadersOf(v, f))
           g == [r.frame EXCEPT !.pre = Append(r.frame.pre, cmd)]
           h == [r EXCEPT !.frame = g]
           d == IF ds THEN DecAll(h, ShadersOf(v, f)) ELSE h
           W == More(Wanted, {v, f})
           W2 == IF ds THEN Less(W, {v, f}) ELSE W
<1>1. /\ MayCall /\ CanLink(v, f) /\ Find(programMap, Key(v, f)) = NoHandle /\ p \notin programs
      /\ programs' = programs \union {p}
      /\ programRef' = [programRef EXCEPT ![p] = [refCount |-> 1, vsh |-> v, fsh |-> f]]
      /\ programMap' = programMap \union {<<Key(v, f), p>>}
      /\ app' = [b EXCEPT !.program[p] = @ + 1]
      /\ UNCHANGED <<shaders, uniforms, rendVars>>
  BY DEF CreateProgram
<1>2. cmd \in PreCommands BY DEF PreCommands
<1>3. Becomes(d)
  <2>1. Settle([FoldLeft(ShaderIncRef, Refs, ShadersOf(v, f)) EXCEPT !.frame.pre = Append(@, cmd)], v, f, ds)
    BY DEF CreateProgram
  <2>2. Settle([r EXCEPT !.frame.pre = Append(@, cmd)], v, f, ds) BY <2>1 DEF IncAll
  <2> HIDE DEF r, cmd
  <2>3. [r EXCEPT !.frame.pre = Append(@, cmd)] = h OBVIOUS
  <2> HIDE DEF h
  <2>4. Settle(h, v, f, ds) BY <2>2, <2>3
  <2> QED BY <2>4, SettleBecomes
<1>4. /\ RefInv(Refs, Wanted, app.uniform, shaders, uniforms) /\ Wanted \in [Shaders -> Nat]
      /\ programs \subseteq Programs /\ shaders \subseteq Shaders
  BY ApiFacts
<1>5. Counted(Wanted, shaders, v, f) /\ v \in shaders /\ f \in shaders \union {NoHandle}
  <2>1. Counted(Wanted, shaders, v, f) BY <1>1, HeldIs
  <2> QED BY <2>1 DEF Counted
<1>6. app.shader[v] > 0 /\ (f # NoHandle => app.shader[f] > 0) BY <1>1, HeldIs
<1>7. RefInv(r, W, app.uniform, shaders, uniforms) /\ Kept(Refs, r)
  BY <1>4, <1>5, IncAllKeeps
<1>8. \A s \in Shaders : W[s] = IF s \in {v, f} THEN Wanted[s] + 1 ELSE Wanted[s] BY DEF More
<1>9. Counted(W, shaders, v, f)
  <2>1. \A s \in shaders : Wanted[s] > 0 => W[s] > 0 BY <1>4, <1>8
  <2> QED BY <1>5, <2>1 DEF Counted
<1> HIDE DEF r, cmd
<1>10. RefInv(h, W, app.uniform, shaders, uniforms)
       /\ h.shader = r.shader /\ h.uniforms = r.uniforms /\ h.frame = g
       /\ g \in Frames /\ g.pre = Append(r.frame.pre, cmd) /\ g.draws = r.frame.draws
       /\ g.freeProgram = r.frame.freeProgram /\ g.post = r.frame.post
       /\ g.freeUniform = r.frame.freeUniform
  <2>1. r \in RefRecords /\ NoRepeat(r.frame.post) BY <1>7 DEF RefInv, Exact
  <2>2. r.frame \in Frames BY <2>1 DEF RefRecords
  <2>3. Append(r.frame.pre, cmd) \in Seq(PreCommands) BY <1>2, <2>2 DEF Frames
  <2>4. /\ g \in Frames /\ g.pre = Append(r.frame.pre, cmd) /\ g.draws = r.frame.draws
        /\ g.freeProgram = r.frame.freeProgram /\ g.post = r.frame.post
        /\ g.freeUniform = r.frame.freeUniform /\ g.freeShader = r.frame.freeShader
    BY <2>2, <2>3 DEF Frames
  <2> HIDE DEF g, W
  <2>5. SameQueues(r.frame, g) BY <2>1, <2>4 DEF SameQueues
  <2>6. RefInv(h, W, app.uniform, shaders, uniforms)
        /\ h.shader = r.shader /\ h.uniforms = r.uniforms /\ h.frame = g
    BY <1>7, <2>4, <2>5, FrameOnly
  <2> QED BY <2>4, <2>6
<1> HIDE DEF h, g
<1>11. RefInv(d, W2, app.uniform, shaders, uniforms) /\ Kept(h, d)
  <2> HIDE DEF W
  <2> QED BY <1>9, <1>10, SettleIs
<1>12. W2 = [s \in Shaders |-> IF ds \/ s \notin {v, f} THEN Wanted[s] ELSE Wanted[s] + 1]
  <2>1. \A s \in Shaders : Wanted[s] \in Nat BY <1>4
  <2> HIDE DEF Wanted, W
  <2>2. CASE ds
    <3>1. Less(W, {v, f}) = [s \in Shaders |-> IF s \in {v, f} THEN W[s] - 1 ELSE W[s]] BY DEF Less
    <3>2. \A s \in Shaders : (IF s \in {v, f} THEN W[s] - 1 ELSE W[s]) = Wanted[s] BY <1>8, <2>1
    <3> QED BY <2>2, <3>1, <3>2
  <2>3. CASE ~ds BY <2>3 DEF W, More
  <2> QED BY <2>2, <2>3
<1> HIDE DEF d, W2, W
<1>13. d \in RefRecords BY <1>11, RefInvCounts
<1>14. /\ Remains /\ submit'.pre = Append(submit.pre, cmd) /\ submit'.draws = submit.draws
       /\ submit'.freeProgram = submit.freeProgram
       /\ Named(submit'.post, "DestroyProgram") = Named(submit.post, "DestroyProgram")
       /\ \A s \in Shaders : shaderRef'[s].bin = shaderRef[s].bin
       /\ submit' \in Frames
  <2>1. Refs.shader = shaderRef /\ Refs.uniforms = uniformMap /\ Refs.frame = submit BY DEF Refs
  <2>2. shaderRef' = d.shader /\ uniformMap' = d.uniforms /\ submit' = d.frame /\ submit' \in Frames
    BY <1>3, <1>13, BecomesIs
  <2>3. /\ d.frame.pre = Append(r.frame.pre, cmd) /\ d.frame.draws = r.frame.draws
        /\ d.frame.freeProgram = r.frame.freeProgram
        /\ Named(d.frame.post, "DestroyProgram") = Named(r.frame.post, "DestroyProgram")
        /\ d.uniforms \subseteq r.uniforms
        /\ ToSet(r.frame.freeUniform) \subseteq ToSet(d.frame.freeUniform)
        /\ \A s \in Shaders : /\ d.shader[s].bin = r.shader[s].bin
                              /\ d.shader[s].refCount > 0
                                    => /\ r.shader[s].refCount > 0
                                       /\ d.shader[s].uniforms = r.shader[s].uniforms
    BY <1>10, <1>11 DEF Kept, FrameKept
  <2> QED BY <1>7, <2>1, <2>2, <2>3 DEF Kept, FrameKept, Remains
<1>15. GivenAway(b, v, f, ds) BY <1>6, AppAfterIs
<1> HIDE DEF b
<1>16. app.program[p] = 0 /\ Wants(app.program, Programs, programs)
       /\ \A q \in programs : programRef[q].refCount = app.program[q]
  BY <1>1 DEF ApiInv, ProgramsExact, Wants
<1>17. /\ app' \in Apps
       /\ \A s \in Shaders : app'.shader[s] = IF ds /\ s \in {v, f} THEN app.shader[s] - 1
                                                                   ELSE app.shader[s]
       /\ app'.uniform = app.uniform /\ app'.shader[FirstShader] > 0
       /\ \A q \in Programs : app'.program[q] = IF q = p THEN 1 ELSE app.program[q]
  <2>1. b.program[p] < MaxRefs.program /\ b \in Apps
    BY <1>15, <1>16, BoundsAssumption DEF GivenAway
  <2>2. MadeProgram(app', b, p) BY <1>1, <2>1, AppMore
  <2>3. b.shader[FirstShader] > 0 BY <1>1, <1>15, FirstGivenAway
  <2> QED BY <1>15, <1>16, <2>2, <2>3 DEF GivenAway, MadeProgram
<1>18. /\ programRef' \in [Programs -> ProgramRefs]
       /\ programRef'[p].refCount = 1
       /\ programRef'[p].vsh = v /\ programRef'[p].fsh = f
       /\ \A q \in Programs \ {p} : programRef'[q] = programRef[q]
  BY <1>1 DEF Types, ProgramRefs
<1>19. OneMore(programs, programs', programRef, programRef', p, 0)
  BY <1>1, <1>4, <1>18 DEF OneMore
<1>20. \A s \in Shaders : /\ IsFiniteSet((LinksTo(s))')
                          /\ Cardinality((LinksTo(s))') = IF s \in {v, f}
                                                             THEN Cardinality(LinksTo(s)) + 1
                                                             ELSE Cardinality(LinksTo(s))
  BY <1>18, <1>19, LinksGrow
<1>21. W2 = Wanted'
  <2>1. Wanted' = [s \in Shaders |-> app'.shader[s] + Cardinality((LinksTo(s))')] BY DEF Wanted
  <2>2. \A s \in Shaders : Wanted[s] = app.shader[s] + Cardinality(LinksTo(s))
                           /\ app.shader[s] \in Nat /\ Cardinality(LinksTo(s)) \in Nat
    BY ApiFacts
  <2> HIDE DEF Wanted
  <2>3. \A s \in Shaders : (IF ds \/ s \notin {v, f} THEN Wanted[s] ELSE Wanted[s] + 1)
                              = app'.shader[s] + Cardinality((LinksTo(s))')
    BY <1>17, <1>20, <2>2
  <2> QED BY <1>12, <2>1, <2>3
<1>22. ProgramsExact'
  <2>1. ProgramsExact BY DEF ApiInv
  <2>2. Wants(app'.program, Programs, programs')
    <3>1. app'.program \in [Programs -> 0 .. MaxRefs.program] /\ MaxRefs.program \in Nat
      BY <1>17, BoundsAssumption DEF Apps
    <3>2. app'.program \in [Programs -> Nat] BY <3>1
    <3> QED BY <1>1, <1>4, <1>16, <1>17, <3>2 DEF Wants
  <2>3. \A q \in programs' : programRef'[q].refCount = app'.program[q]
    BY <1>1, <1>4, <1>16, <1>17, <1>18
  <2>4. QueueExact(submit'.freeProgram, app'.program, programs', submit'.post, "DestroyProgram")
    <3>1. QueueExact(submit.freeProgram, app.program, programs, submit.post, "DestroyProgram")
      BY <2>1 DEF ProgramsExact
    <3>2. {q \in programs' : app'.program[q] = 0} = {q \in programs : app.program[q] = 0}
      BY <1>1, <1>4, <1>17
    <3> QED BY <1>14, <3>1, <3>2 DEF QueueExact
  <2> DEFINE Entry(pr, q) == <<Key(pr[q].vsh, pr[q].fsh), q>>
  <2>5. programMap' = {Entry(programRef', q) : q \in {x \in programs' : app'.program[x] > 0}}
    <3>1. programMap = {Entry(programRef, q) : q \in {x \in programs : app.program[x] > 0}}
      BY <2>1 DEF ProgramsExact
    <3>2. {x \in programs' : app'.program[x] > 0} = {x \in programs : app.program[x] > 0} \union {p}
      BY <1>1, <1>4, <1>17
    <3>3. \A q \in programs : Entry(programRef', q) = Entry(programRef, q) BY <1>1, <1>4, <1>18
    <3>4. Entry(programRef', p) = <<Key(v, f), p>> BY <1>18
    <3> HIDE DEF Entry
    <3> DEFINE S == {x \in programs : app.program[x] > 0}
    <3>5. {Entry(programRef', q) : q \in S} = {Entry(programRef, q) : q \in S}
      <4>1. \A q \in S : Entry(programRef', q) = Entry(programRef, q) BY <3>3
      <4> HIDE DEF S
      <4> QED BY <4>1
    <3>6. \A T : {Entry(programRef', q) : q \in T \union {p}}
                    = {Entry(programRef', q) : q \in T} \union {Entry(programRef', p)}
      OBVIOUS
    <3>7. {Entry(programRef', q) : q \in S \union {p}}
             = {Entry(programRef', q) : q \in S} \union {Entry(programRef', p)}
      BY <3>6
    <3> QED BY <1>1, <3>1, <3>2, <3>4, <3>5, <3>7
  <2>6. OneToOne(programMap')
    <3>1. OneToOne(programMap) /\ programMap \subseteq (Shaders \X Shaders) \X programs
      <4>1. \A q \in programs : programRef[q].vsh \in Shaders
                                /\ programRef[q].fsh \in Shaders \union {NoHandle}
        BY <1>4 DEF Types, ProgramRefs
      <4> QED BY <2>1, <4>1, KeyIs DEF ProgramsExact
    <3>2. NoHandle \notin programs BY <1>4, NoHandleAssumption
    <3>3. \A x : <<Key(v, f), x>> \notin programMap BY <1>1, <3>1, <3>2, FindIs
    <3>4. \A e \in programMap : e[1] # Key(v, f) /\ e[2] # p
      <4>1. \A e \in programMap : e = <<e[1], e[2]>> /\ e[2] \in programs BY <3>1
      <4> QED BY <1>1, <3>3, <4>1
    <3>5. \A e \in programMap' : e \in programMap \/ (e[1] = Key(v, f) /\ e[2] = p /\ e = <<Key(v, f), p>>)
      BY <1>1
    <3> QED BY <3>1, <3>4, <3>5 DEF OneToOne
  <2>7. \A q \in programs' : app'.program[q] > 0 => MadeOf(q)'
    <3>1. \A q \in programs : app.program[q] > 0 => MadeOf(q) BY <2>1 DEF ProgramsExact
    <3>2. \A q \in programs : app'.program[q] > 0 => MadeOf(q)'
      BY <1>1, <1>4, <1>14, <1>17, <1>18, <3>1 DEF MadeOf
    <3>3. MadeOf(p)'
      <4>1. \/ /\ shaderRef[v].bin \in VertexShaders
               /\ f \in shaders /\ shaderRef[f].bin \in FragmentShaders
            \/ shaderRef[v].bin \in VertexShaders \union ComputeShaders /\ f = NoHandle
        BY <1>1, HeldIs
      <4> QED BY <1>1, <1>4, <1>5, <1>14, <1>18, <4>1 DEF MadeOf
    <3> QED BY <1>1, <3>2, <3>3
  <2>8. \A s \in Shaders : IsFiniteSet((LinksTo(s))') BY <1>20
  <2> QED BY <2>2, <2>3, <2>4, <2>5, <2>6, <2>7, <2>8 DEF ProgramsExact
<1>23. ApiInv'
  <2>1. submit'.draws \subseteq programs' BY <1>1, <1>14 DEF ApiInv
  <2>2. RefInv(d, W2, app'.uniform, shaders', uniforms') BY <1>1, <1>11, <1>17
  <2> QED BY <1>1, <1>3, <1>21, <1>22, <2>1, <2>2, CallKeeps
<1>24. Types'
  <2>1. calls' \in 0 .. MaxCalls BY <1>1, CallTypes
  <2>2. stage' = stage /\ render' = render BY <1>1 DEF rendVars
  <2>3. FirstTaken' BY <1>14, <1>17, FirstStays DEF Types
  <2> QED BY <1>14, <1>17, <1>18, <2>1, <2>2, <2>3 DEF Types
<1>25. ProgramMade(p, v, f)
  <2>1. SameLinks BY <1>1, <1>4, <1>18 DEF SameLinks
  <2> QED BY <1>1, <1>5, <1>14, <1>18, <2>1 DEF ProgramMade, rendVars, cmd
<1> QED BY <1>23, <1>24, <1>25

\* No program can be created: the shaders may go.
LEMMA CreateProgramFailsKeeps ==
    ASSUME Types, ApiInv, NEW v \in Shaders, NEW f \in Shaders \union {NoHandle},
           CreateProgramFails(v, f)
    PROVE  Types' /\ ApiInv' /\ Releases
<1> DEFINE d == DecAll(Refs, ShadersOf(v, f))
           W == Less(Wanted, {v, f})
<1>1. /\ MayCall /\ CanLink(v, f) /\ app' = AppAfter(v, f, TRUE)
      /\ UNCHANGED <<handleVars, progVars, rendVars>>
  BY DEF CreateProgramFails
<1>2. Becomes(d)
  <2>1. Settle(Refs, v, f, TRUE) BY DEF CreateProgramFails
  <2> HIDE DEF Refs
  <2> QED BY <2>1, SettleBecomes
<1>3. RefInv(Refs, Wanted, app.uniform, shaders, uniforms) /\ Wanted \in [Shaders -> Nat]
      /\ programs \subseteq Programs /\ shaders \subseteq Shaders
  BY ApiFacts
<1>4. Counted(Wanted, shaders, v, f) /\ app.shader[v] > 0 /\ (f # NoHandle => app.shader[f] > 0)
  BY <1>1, HeldIs
<1>5. RefInv(d, W, app.uniform, shaders, uniforms) /\ Kept(Refs, d) BY <1>3, <1>4, DecAllKeeps
<1> HIDE DEF d
<1>6. d \in RefRecords BY <1>5, RefInvCounts
<1>7. /\ Remains /\ submit'.pre = submit.pre /\ submit'.draws = submit.draws
      /\ submit'.freeProgram = submit.freeProgram
      /\ Named(submit'.post, "DestroyProgram") = Named(submit.post, "DestroyProgram")
      /\ \A s \in Shaders : shaderRef'[s].bin = shaderRef[s].bin
      /\ submit' \in Frames
  BY <1>2, <1>5, <1>6, KeptFollows, BecomesIs
<1>8. GivenAway(app', v, f, TRUE) BY <1>1, <1>4, AppAfterIs
<1>9. programs' = programs /\ programRef' = programRef /\ programMap' = programMap
      /\ shaders' = shaders /\ uniforms' = uniforms
  BY <1>1 DEF handleVars, progVars
<1>10. \A s : (LinksTo(s))' = LinksTo(s) BY <1>9, LinksStay
<1>11. W = Wanted'
  <2>1. Wanted' = [s \in Shaders |-> app'.shader[s] + Cardinality((LinksTo(s))')] BY DEF Wanted
  <2>2. \A s \in Shaders : Wanted[s] = app.shader[s] + Cardinality(LinksTo(s))
                           /\ app.shader[s] \in Nat /\ Cardinality(LinksTo(s)) \in Nat
    BY ApiFacts
  <2>3. W = [s \in Shaders |-> IF s \in {v, f} THEN Wanted[s] - 1 ELSE Wanted[s]] BY DEF Less
  <2> HIDE DEF Wanted, W
  <2>4. \A s \in Shaders : (IF s \in {v, f} THEN Wanted[s] - 1 ELSE Wanted[s])
                              = app'.shader[s] + Cardinality((LinksTo(s))')
    <3>1. \A s \in Shaders : app'.shader[s] = IF s \in {v, f} THEN app.shader[s] - 1 ELSE app.shader[s]
      BY <1>8 DEF GivenAway
    <3>2. \A s \in Shaders : Cardinality((LinksTo(s))') = Cardinality(LinksTo(s)) BY <1>10
    <3> QED BY <2>2, <3>1, <3>2
  <2> QED BY <2>1, <2>3, <2>4
<1>12. ProgramsExact'
  <2>1. app'.program = app.program BY <1>8 DEF GivenAway
  <2>2. ProgramsExact BY DEF ApiInv
  <2>3. \A q \in programs : programRef'[q].refCount = app'.program[q]
    BY <1>9, <2>1, <2>2 DEF ProgramsExact
  <2>4. Wants(app'.program, Programs, programs) BY <2>1, <2>2 DEF ProgramsExact
  <2>5. \A s \in shaders : shaderRef'[s].bin = shaderRef[s].bin BY <1>3, <1>7
  <2>6. \A s \in Shaders : IsFiniteSet((LinksTo(s))') BY <1>10, ApiFacts
  <2>7. \A q \in programs : programRef'[q].vsh = programRef[q].vsh
                            /\ programRef'[q].fsh = programRef[q].fsh
    BY <1>9
  <2> QED BY <1>7, <1>9, <2>1, <2>3, <2>4, <2>5, <2>6, <2>7, ProgramsStay
<1> HIDE DEF W
<1>13. ApiInv'
  <2>1. submit'.draws \subseteq programs' BY <1>7, <1>9 DEF ApiInv
  <2>2. RefInv(d, W, app'.uniform, shaders', uniforms') BY <1>5, <1>8, <1>9 DEF GivenAway
  <2> QED BY <1>1, <1>2, <1>11, <1>12, <2>1, <2>2, CallKeeps
<1>14. Types'
  <2>1. calls' \in 0 .. MaxCalls BY <1>1, CallTypes
  <2>2. stage' = stage /\ render' = render BY <1>1 DEF rendVars
  <2>3. app'.shader[FirstShader] > 0 BY <1>1, <1>8, FirstGivenAway
  <2>4. FirstTaken' BY <1>7, <2>3, FirstStays DEF Types
  <2> QED BY <1>7, <1>8, <1>9, <2>1, <2>2, <2>4 DEF Types, GivenAway
<1>15. Releases BY <1>1, <1>7, <1>9 DEF Releases, SameLinks, rendVars
<1> QED BY <1>13, <1>14, <1>15

\* destroyProgram queues the handle of a program.
ProgramFreed(g, p) ==
    [g EXCEPT !.freeProgram = Append(g.freeProgram, p),
              !.post = Append(g.post, [op |-> "DestroyProgram", h |-> p])]

\* What destroyProgram appends to the frame.
LEMMA FreeProgramIs ==
    ASSUME NEW g \in Frames, NoRepeat(g.post), NEW p \in Programs, p \notin Named(g.post, "DestroyProgram")
    PROVE  LET h == ProgramFreed(g, p)
           IN  /\ h \in Frames /\ SameQueues(g, h)
               /\ h.pre = g.pre /\ h.draws = g.draws
               /\ h.freeProgram = Append(g.freeProgram, p)
               /\ h.post = Append(g.post, [op |-> "DestroyProgram", h |-> p])
<1> DEFINE c == [op |-> "DestroyProgram", h |-> p]
           h == ProgramFreed(g, p)
<1>1. c \in PostCommands /\ c.op = "DestroyProgram" /\ c.h = p BY DEF PostCommands
<1>2. g.post \in Seq(PostCommands) /\ g.freeProgram \in Seq(Programs) BY DEF Frames
<1>3. Append(g.post, c) \in Seq(PostCommands) /\ Append(g.freeProgram, p) \in Seq(Programs)
  BY <1>1, <1>2
<1> HIDE DEF c
<1>4. /\ h \in Frames /\ h.pre = g.pre /\ h.draws = g.draws
      /\ h.freeProgram = Append(g.freeProgram, p) /\ h.post = Append(g.post, c)
      /\ h.freeShader = g.freeShader /\ h.freeUniform = g.freeUniform
  BY <1>3 DEF Frames, ProgramFreed, c
<1> HIDE DEF h
<1>5. /\ \A op : Named(Append(g.post, c), op) = Named(g.post, op) \union {x \in {c.h} : c.op = op}
      /\ NoRepeat(Append(g.post, c))
  BY <1>1, <1>2, NamedAppend
<1>6. SameQueues(g, h) BY <1>1, <1>4, <1>5 DEF SameQueues
<1> QED BY <1>4, <1>6 DEF h, c

-----------------------------------------------------------------------------
(* The application holds an object once more, or once less.                 *)

HoldsShader(c, x, n) ==
    /\ c \in Apps /\ c.program = app.program /\ c.uniform = app.uniform
    /\ \A y \in Shaders : c.shader[y] = IF y = x THEN n ELSE app.shader[y]

\* The application has n of shader x.
LEMMA HoldsShaderIs ==
    ASSUME Types, NEW x \in Shaders, NEW n \in 0 .. MaxRefs.shader
    PROVE  HoldsShader([app EXCEPT !.shader[x] = n], x, n)
<1> DEFINE g == [app.shader EXCEPT ![x] = n]
           c == [app EXCEPT !.shader[x] = n]
<1>1. app \in Apps BY DEF Types
<1>2. app.shader \in [Shaders -> 0 .. MaxRefs.shader] BY <1>1 DEF Apps
<1>3. g \in [Shaders -> 0 .. MaxRefs.shader] BY <1>2
<1>4. \A y \in Shaders : g[y] = IF y = x THEN n ELSE app.shader[y] BY <1>2
<1>5. c = [app EXCEPT !.shader = g] OBVIOUS
<1> HIDE DEF g, c
<1>6. c \in Apps /\ c.program = app.program /\ c.uniform = app.uniform /\ c.shader = g
  BY <1>1, <1>3, <1>5 DEF Apps
<1>7. HoldsShader(c, x, n) BY <1>4, <1>6 DEF HoldsShader
<1> QED BY <1>7 DEF c

\* One shader more or less.
LEMMA ShaderCount ==
    ASSUME Types, NEW x \in Shaders
    PROVE  /\ app.shader[x] \in Nat
           /\ app.shader[x] > 0 => app.shader[x] - 1 \in 0 .. MaxRefs.shader
           /\ app.shader[x] < MaxRefs.shader => app.shader[x] + 1 \in 0 .. MaxRefs.shader
<1>1. app.shader \in [Shaders -> 0 .. MaxRefs.shader] BY DEF Types, Apps
<1>2. MaxRefs.shader \in Nat BY BoundsAssumption
<1> QED BY <1>1, <1>2

HoldsProgram(c, x, n) ==
    /\ c \in Apps /\ c.shader = app.shader /\ c.uniform = app.uniform
    /\ \A y \in Programs : c.program[y] = IF y = x THEN n ELSE app.program[y]

\* The application has n of program x.
LEMMA HoldsProgramIs ==
    ASSUME Types, NEW x \in Programs, NEW n \in 0 .. MaxRefs.program
    PROVE  HoldsProgram([app EXCEPT !.program[x] = n], x, n)
<1> DEFINE g == [app.program EXCEPT ![x] = n]
           c == [app EXCEPT !.program[x] = n]
<1>1. app \in Apps BY DEF Types
<1>2. app.program \in [Programs -> 0 .. MaxRefs.program] BY <1>1 DEF Apps
<1>3. g \in [Programs -> 0 .. MaxRefs.program] BY <1>2
<1>4. \A y \in Programs : g[y] = IF y = x THEN n ELSE app.program[y] BY <1>2
<1>5. c = [app EXCEPT !.program = g] OBVIOUS
<1> HIDE DEF g, c
<1>6. c \in Apps /\ c.shader = app.shader /\ c.uniform = app.uniform /\ c.program = g
  BY <1>1, <1>3, <1>5 DEF Apps
<1>7. HoldsProgram(c, x, n) BY <1>4, <1>6 DEF HoldsProgram
<1> QED BY <1>7 DEF c

\* One program more or less.
LEMMA ProgramCount ==
    ASSUME Types, NEW x \in Programs
    PROVE  /\ app.program[x] \in Nat
           /\ app.program[x] > 0 => app.program[x] - 1 \in 0 .. MaxRefs.program
           /\ app.program[x] < MaxRefs.program => app.program[x] + 1 \in 0 .. MaxRefs.program
<1>1. app.program \in [Programs -> 0 .. MaxRefs.program] BY DEF Types, Apps
<1>2. MaxRefs.program \in Nat BY BoundsAssumption
<1> QED BY <1>1, <1>2

HoldsUniform(c, x, n) ==
    /\ c \in Apps /\ c.shader = app.shader /\ c.program = app.program
    /\ \A y \in Uniforms : c.uniform[y] = IF y = x THEN n ELSE app.uniform[y]

\* The application has n of uniform x.
LEMMA HoldsUniformIs ==
    ASSUME Types, NEW x \in Uniforms, NEW n \in 0 .. MaxRefs.uniform
    PROVE  HoldsUniform([app EXCEPT !.uniform[x] = n], x, n)
<1> DEFINE g == [app.uniform EXCEPT ![x] = n]
           c == [app EXCEPT !.uniform[x] = n]
<1>1. app \in Apps BY DEF Types
<1>2. app.uniform \in [Uniforms -> 0 .. MaxRefs.uniform] BY <1>1 DEF Apps
<1>3. g \in [Uniforms -> 0 .. MaxRefs.uniform] BY <1>2
<1>4. \A y \in Uniforms : g[y] = IF y = x THEN n ELSE app.uniform[y] BY <1>2
<1>5. c = [app EXCEPT !.uniform = g] OBVIOUS
<1> HIDE DEF g, c
<1>6. c \in Apps /\ c.shader = app.shader /\ c.program = app.program /\ c.uniform = g
  BY <1>1, <1>3, <1>5 DEF Apps
<1>7. HoldsUniform(c, x, n) BY <1>4, <1>6 DEF HoldsUniform
<1> QED BY <1>7 DEF c

\* One uniform more or less.
LEMMA UniformCount ==
    ASSUME Types, NEW x \in Uniforms
    PROVE  /\ app.uniform[x] \in Nat
           /\ app.uniform[x] > 0 => app.uniform[x] - 1 \in 0 .. MaxRefs.uniform
           /\ app.uniform[x] < MaxRefs.uniform => app.uniform[x] + 1 \in 0 .. MaxRefs.uniform
<1>1. app.uniform \in [Uniforms -> 0 .. MaxRefs.uniform] BY DEF Types, Apps
<1>2. MaxRefs.uniform \in Nat BY BoundsAssumption
<1> QED BY <1>1, <1>2

\* destroyProgram, which releases the shaders with each reference.
LEMMA DestroyProgramKeeps ==
    ASSUME Types, ApiInv, NEW p \in Programs, DestroyProgram(p)
    PROVE  Types' /\ ApiInv' /\ Releases
<1> DEFINE v == programRef[p].vsh
           f == programRef[p].fsh
           last == programRef[p].refCount = 1
           n == app.program[p] - 1
           r == DecAll(Refs, ShadersOf(v, f))
           g == ProgramFreed(r.frame, p)
           h == [r EXCEPT !.frame = g]
           d == IF last THEN h ELSE r
           W == Less(Wanted, {v, f})
<1>1. /\ MayCall /\ app.program[p] > 0
      /\ programRef' = [programRef EXCEPT ![p].refCount = @ - 1]
      /\ programMap' = IF last THEN RemoveByHandle(programMap, p) ELSE programMap
      /\ app' = [app EXCEPT !.program[p] = n]
      /\ UNCHANGED <<handleVars, rendVars>>
  BY DEF DestroyProgram
<1>2. Becomes(d)
  <2>1. Becomes(IF last THEN [r EXCEPT !.frame.freeProgram = Append(@, p),
                                       !.frame.post = Append(@, [op |-> "DestroyProgram", h |-> p])]
                        ELSE r)
    BY DEF DestroyProgram, DecAll
  <2> HIDE DEF r, last
  <2>2. [r EXCEPT !.frame.freeProgram = Append(@, p),
                  !.frame.post = Append(@, [op |-> "DestroyProgram", h |-> p])] = h
    BY DEF ProgramFreed
  <2> HIDE DEF h
  <2> QED BY <2>1, <2>2
<1>3. ProgramsExact BY DEF ApiInv
<1>4. p \in programs /\ programRef[p].refCount = app.program[p]
      /\ Wants(app.program, Programs, programs)
      /\ \A q \in programs : programRef[q].refCount = app.program[q]
  BY <1>1, <1>3 DEF ProgramsExact, Wants
<1>5. n \in 0 .. MaxRefs.program /\ n \in Nat /\ app.program[p] = n + 1
  BY <1>1, ProgramCount
<1>6. HoldsProgram(app', p, n) BY <1>1, <1>5, HoldsProgramIs
<1>7. Counted(Wanted, shaders, v, f) BY <1>1, <1>4, LinkedIs
<1>8. RefInv(Refs, Wanted, app.uniform, shaders, uniforms) /\ Wanted \in [Shaders -> Nat]
      /\ programs \subseteq Programs /\ shaders \subseteq Shaders
  BY ApiFacts
<1>9. RefInv(r, W, app.uniform, shaders, uniforms) /\ Kept(Refs, r) BY <1>7, <1>8, DecAllKeeps
<1>10. r \in RefRecords /\ r.frame \in Frames /\ NoRepeat(r.frame.post)
  <2>1. r \in RefRecords /\ NoRepeat(r.frame.post) BY <1>9 DEF RefInv, Exact
  <2> QED BY <2>1 DEF RefRecords
<1>11. /\ r.frame.pre = submit.pre /\ r.frame.draws = submit.draws
       /\ r.frame.freeProgram = submit.freeProgram
       /\ Named(r.frame.post, "DestroyProgram") = Named(submit.post, "DestroyProgram")
       /\ \A s \in Shaders : r.shader[s].bin = shaderRef[s].bin
  <2>1. Refs.frame = submit /\ Refs.shader = shaderRef BY DEF Refs
  <2> QED BY <1>9, <2>1 DEF Kept, FrameKept
<1>12. p \notin Named(r.frame.post, "DestroyProgram")
       /\ QueueExact(submit.freeProgram, app.program, programs, submit.post, "DestroyProgram")
  BY <1>1, <1>3, <1>4, <1>11 DEF ProgramsExact, QueueExact
<1> HIDE DEF r, W
<1>13. /\ g \in Frames /\ SameQueues(r.frame, g)
       /\ g.pre = submit.pre /\ g.draws = submit.draws
       /\ g.freeProgram = Append(submit.freeProgram, p)
       /\ g.post = Append(r.frame.post, [op |-> "DestroyProgram", h |-> p])
  BY <1>10, <1>11, <1>12, FreeProgramIs
<1> HIDE DEF g
<1>14. /\ RefInv(d, W, app.uniform, shaders, uniforms)
       /\ d.shader = r.shader /\ d.uniforms = r.uniforms
       /\ d.frame = IF last THEN g ELSE r.frame
  <2>1. RefInv(h, W, app.uniform, shaders, uniforms)
        /\ h.shader = r.shader /\ h.uniforms = r.uniforms /\ h.frame = g
    BY <1>9, <1>13, FrameOnly
  <2> HIDE DEF h, last
  <2> QED BY <1>9, <2>1
<1> HIDE DEF d, h
<1>15. d \in RefRecords BY <1>14, RefInvCounts
<1>16. /\ shaderRef' = d.shader /\ uniformMap' = d.uniforms /\ submit' = d.frame /\ submit' \in Frames
  BY <1>2, <1>15, BecomesIs
<1>17. /\ Remains /\ submit'.pre = submit.pre /\ submit'.draws = submit.draws
       /\ \A s \in Shaders : shaderRef'[s].bin = shaderRef[s].bin
  <2>1. Refs.shader = shaderRef /\ Refs.uniforms = uniformMap /\ Refs.frame = submit BY DEF Refs
  <2>2. d.frame.freeUniform = r.frame.freeUniform BY <1>13, <1>14 DEF SameQueues
  <2>3. d.frame.pre = submit.pre /\ d.frame.draws = submit.draws BY <1>11, <1>13, <1>14
  <2>4. Remains BY <1>9, <1>14, <1>16, <2>1, <2>2 DEF Remains, Kept
  <2> QED BY <1>11, <1>14, <1>16, <2>3, <2>4
<1>18. programs' = programs /\ shaders' = shaders /\ uniforms' = uniforms BY <1>1 DEF handleVars
<1>19. /\ programRef' \in [Programs -> ProgramRefs]
       /\ programRef'[p].refCount = n /\ programRef'[p].vsh = v /\ programRef'[p].fsh = f
       /\ \A q \in Programs \ {p} : programRef'[q] = programRef[q]
  <2>1. programRef[p].refCount - 1 = n /\ n \in Int BY <1>4, <1>5
  <2> HIDE DEF n
  <2> QED BY <1>1, <2>1 DEF Types, ProgramRefs
<1>20. OneMore(programs', programs, programRef', programRef, p, n)
  <2> HIDE DEF n
  <2>1. \A q \in programs' \ {p} : /\ programRef[q].refCount = programRef'[q].refCount
                                   /\ programRef[q].vsh = programRef'[q].vsh
                                   /\ programRef[q].fsh = programRef'[q].fsh
    BY <1>8, <1>18, <1>19
  <2>2. programs = programs' \union {p} BY <1>4, <1>18
  <2> QED BY <1>4, <1>5, <1>18, <1>19, <2>1, <2>2 DEF OneMore
<1>21. \A s \in Shaders : /\ IsFiniteSet((LinksTo(s))')
                          /\ Cardinality((LinksTo(s))') = IF s \in {v, f}
                                                             THEN Cardinality(LinksTo(s)) - 1
                                                             ELSE Cardinality(LinksTo(s))
  BY <1>20, LinksShrink
<1>22. W = Wanted'
  <2>1. Wanted' = [s \in Shaders |-> app'.shader[s] + Cardinality((LinksTo(s))')] BY DEF Wanted
  <2>2. \A s \in Shaders : Wanted[s] = app.shader[s] + Cardinality(LinksTo(s))
                           /\ app.shader[s] \in Nat /\ Cardinality(LinksTo(s)) \in Nat
    BY ApiFacts
  <2>3. W = [s \in Shaders |-> IF s \in {v, f} THEN Wanted[s] - 1 ELSE Wanted[s]] BY DEF Less, W
  <2> HIDE DEF Wanted, v, f
  <2>4. app'.shader = app.shader BY <1>6 DEF HoldsProgram
  <2>5. \A s \in Shaders : (IF s \in {v, f} THEN Wanted[s] - 1 ELSE Wanted[s])
                              = app'.shader[s] + Cardinality((LinksTo(s))')
    BY <1>21, <2>2, <2>4
  <2> QED BY <2>1, <2>3, <2>5
<1>23. Wants(app'.program, Programs, programs)
  <2>1. app'.program \in [Programs -> 0 .. MaxRefs.program] /\ MaxRefs.program \in Nat
    BY <1>6, BoundsAssumption DEF Apps, HoldsProgram
  <2>2. app'.program \in [Programs -> Nat] BY <2>1
  <2> QED BY <1>4, <1>6, <2>2 DEF Wants, HoldsProgram
<1>24. \A q \in programs : app'.program[q] = IF q = p THEN n ELSE app.program[q]
  BY <1>6, <1>8 DEF HoldsProgram
<1>25. \A q \in programs : programRef'[q].refCount = app'.program[q]
  BY <1>4, <1>8, <1>19, <1>24
<1>26. \A q \in programs : programRef'[q].vsh = programRef[q].vsh /\ programRef'[q].fsh = programRef[q].fsh
  BY <1>8, <1>19
<1>27. \A s \in Shaders : IsFiniteSet((LinksTo(s))') BY <1>21
<1>28. ProgramsExact'
  <2>1. CASE ~last
    <3>1. n > 0 BY <1>4, <1>5, <2>1
    <3>2. \A q \in programs : app'.program[q] > 0 <=> app.program[q] > 0 BY <1>1, <1>24, <3>1
    <3>3. \A q \in programs : app'.program[q] = 0 <=> app.program[q] = 0 BY <1>1, <1>24, <3>1
    <3>4. submit'.freeProgram = submit.freeProgram
          /\ Named(submit'.post, "DestroyProgram") = Named(submit.post, "DestroyProgram")
      BY <1>11, <1>14, <1>16, <2>1
    <3>5. programMap' = programMap BY <1>1, <2>1
    <3>6. \A s \in shaders : shaderRef'[s].bin = shaderRef[s].bin BY <1>8, <1>17
    <3> QED BY <1>18, <1>23, <1>25, <1>26, <1>27, <3>2, <3>3, <3>4, <3>5, <3>6, ProgramsStay
  <2>2. CASE last
    <3>1. n = 0 /\ app.program[p] = 1 BY <1>4, <1>5, <2>2
    <3> DEFINE c == [op |-> "DestroyProgram", h |-> p]
    <3>2. QueueExact(submit'.freeProgram, app'.program, programs', submit'.post, "DestroyProgram")
      <4>1. QueueExact(submit.freeProgram, app.program, programs, r.frame.post, "DestroyProgram")
        BY <1>11, <1>12 DEF QueueExact
      <4>2. c \in PostCommands BY DEF PostCommands
      <4>3. submit.freeProgram \in Seq(Programs) /\ r.frame.post \in Seq(PostCommands)
        BY <1>10 DEF Types, Frames
      <4>4. app'.program[p] = 0 /\ \A x \in programs \ {p} : app'.program[x] = app.program[x]
        BY <1>4, <1>24, <3>1
      <4>5. programs \in SUBSET Programs BY <1>8
      <4>6. QueueExact(Append(submit.freeProgram, p), app'.program, programs, Append(r.frame.post, c),
                       "DestroyProgram")
        BY <1>4, <3>1, <4>1, <4>2, <4>3, <4>4, <4>5, QueueTakes, Zenon
      <4> QED BY <1>13, <1>14, <1>16, <1>18, <2>2, <4>6
    <3> DEFINE Entry(pr, q) == <<Key(pr[q].vsh, pr[q].fsh), q>>
               S == {x \in programs : app.program[x] > 0}
    <3>3. programMap = {Entry(programRef, q) : q \in S} BY <1>3 DEF ProgramsExact
    <3>4. programMap' = {Entry(programRef', q) : q \in {x \in programs' : app'.program[x] > 0}}
      <4>1. {x \in programs' : app'.program[x] > 0} = S \ {p} BY <1>18, <1>24, <3>1
      <4>2. \A q \in S : Entry(programRef', q) = Entry(programRef, q) BY <1>26
      <4>3. \A q \in S : Entry(programRef, q)[2] = q OBVIOUS
      <4> HIDE DEF Entry, S
      <4>4. RemoveByHandle(programMap, p) = {Entry(programRef, q) : q \in S \ {p}}
        BY <3>3, <4>3 DEF RemoveByHandle
      <4>5. {Entry(programRef, q) : q \in S \ {p}} = {Entry(programRef', q) : q \in S \ {p}}
        BY <4>2
      <4> QED BY <1>1, <2>2, <4>1, <4>4, <4>5
    <3>5. OneToOne(programMap')
      <4>1. OneToOne(programMap) BY <1>3 DEF ProgramsExact
      <4>2. programMap' \subseteq programMap BY <1>1, <2>2 DEF RemoveByHandle
      <4> QED BY <4>1, <4>2 DEF OneToOne
    <3>6. \A q \in programs' : app'.program[q] > 0 => MadeOf(q)'
      <4>1. \A q \in programs : app.program[q] > 0 => MadeOf(q) BY <1>3 DEF ProgramsExact
      <4>2. \A q \in programs : app'.program[q] > 0 => app.program[q] > 0 BY <1>1, <1>24, <3>1
      <4> QED BY <1>8, <1>17, <1>18, <1>26, <4>1, <4>2 DEF MadeOf
    <3>7. Wants(app'.program, Programs, programs') /\ \A q \in programs' : programRef'[q].refCount = app'.program[q]
      BY <1>18, <1>23, <1>25
    <3> QED BY <1>27, <3>2, <3>4, <3>5, <3>6, <3>7 DEF ProgramsExact
  <2> QED BY <2>1, <2>2
<1>29. ApiInv'
  <2>1. submit'.draws \subseteq programs' BY <1>17, <1>18 DEF ApiInv
  <2>2. RefInv(d, W, app'.uniform, shaders', uniforms') BY <1>6, <1>14, <1>18 DEF HoldsProgram
  <2> QED BY <1>1, <1>2, <1>22, <1>28, <2>1, <2>2, CallKeeps
<1>30. Types'
  <2>1. calls' \in 0 .. MaxCalls BY <1>1, CallTypes
  <2>2. stage' = stage /\ render' = render BY <1>1 DEF rendVars
  <2>3. FirstTaken' BY <1>6, <1>17, ShadersAssumption DEF HoldsProgram, Types, FirstTaken
  <2> QED BY <1>6, <1>16, <1>19, <2>1, <2>2, <2>3 DEF Types, HoldsProgram
<1>31. Releases
  <2>1. SameLinks BY <1>26 DEF SameLinks
  <2> QED BY <1>1, <1>17, <1>18, <2>1 DEF Releases, rendVars
<1> QED BY <1>29, <1>30, <1>31

\* submit with a program.
LEMMA DrawKeeps ==
    ASSUME Types, ApiInv, NEW p \in Programs, Draw(p)
    PROVE  Types' /\ ApiInv' /\ Releases
<1> DEFINE g == [submit EXCEPT !.draws = @ \union {p}]
           d == [Refs EXCEPT !.frame = g]
<1>1. /\ MayCall /\ app.program[p] > 0 /\ submit' = g
      /\ UNCHANGED <<handleVars, shaderVars, progVars, app, rendVars>>
  BY DEF Draw
<1>2. ProgramsExact /\ submit \in Frames BY DEF ApiInv, Types
<1>3. p \in programs BY <1>1, <1>2 DEF ProgramsExact, Wants
<1>4. /\ g \in Frames /\ g.pre = submit.pre /\ g.draws = submit.draws \union {p}
      /\ g.freeProgram = submit.freeProgram /\ g.freeShader = submit.freeShader
      /\ g.freeUniform = submit.freeUniform /\ g.post = submit.post
  BY <1>2 DEF Frames
<1> HIDE DEF g
<1>5. RefInv(Refs, Wanted, app.uniform, shaders, uniforms) /\ Refs \in RefRecords
      /\ programs \subseteq Programs /\ shaders \subseteq Shaders
      /\ (\A s \in Shaders : IsFiniteSet(LinksTo(s)))
  BY ApiFacts
<1>6. SameQueues(Refs.frame, g)
  <2>1. NoRepeat(Refs.frame.post) BY <1>5 DEF RefInv, Exact
  <2>2. Refs.frame = submit BY DEF Refs
  <2> QED BY <1>4, <2>1, <2>2 DEF SameQueues
<1>7. RefInv(d, Wanted, app.uniform, shaders, uniforms)
  <2> HIDE DEF Refs, Wanted
  <2> QED BY <1>4, <1>5, <1>6, FrameOnly
<1>8. Becomes(d) BY <1>1 DEF Becomes, Refs, shaderVars
<1>9. /\ shaders' = shaders /\ programs' = programs /\ uniforms' = uniforms
      /\ shaderRef' = shaderRef /\ uniformMap' = uniformMap
      /\ programRef' = programRef /\ programMap' = programMap /\ app' = app
      /\ stage' = stage /\ render' = render
  BY <1>1 DEF handleVars, shaderVars, progVars, rendVars
<1>10. \A s : (LinksTo(s))' = LinksTo(s) BY <1>9, LinksStay
<1>11. Wanted = Wanted' BY <1>9, <1>10 DEF Wanted
<1>12. ProgramsExact'
  <2>1. \A q \in programs : programRef'[q].refCount = app'.program[q]
    BY <1>2, <1>9 DEF ProgramsExact
  <2>2. Wants(app'.program, Programs, programs) BY <1>2, <1>9 DEF ProgramsExact
  <2>3. \A s \in Shaders : IsFiniteSet((LinksTo(s))') BY <1>5, <1>10
  <2>4. \A q \in programs : programRef'[q].vsh = programRef[q].vsh
                            /\ programRef'[q].fsh = programRef[q].fsh
    BY <1>9
  <2>5. submit'.freeProgram = submit.freeProgram
        /\ Named(submit'.post, "DestroyProgram") = Named(submit.post, "DestroyProgram")
    BY <1>1, <1>4
  <2>6. \A s \in shaders : shaderRef'[s].bin = shaderRef[s].bin BY <1>9
  <2> QED BY <1>9, <2>1, <2>2, <2>3, <2>4, <2>5, <2>6, ProgramsStay
<1> HIDE DEF d
<1>13. ApiInv'
  <2>1. submit'.draws \subseteq programs' BY <1>1, <1>3, <1>4, <1>9 DEF ApiInv
  <2>2. RefInv(d, Wanted, app'.uniform, shaders', uniforms') BY <1>7, <1>9
  <2> QED BY <1>1, <1>8, <1>11, <1>12, <2>1, <2>2, CallKeeps
<1>14. Types'
  <2>1. calls' \in 0 .. MaxCalls BY <1>1, CallTypes
  <2>2. FirstTaken' BY <1>9 DEF Types, FirstTaken
  <2> QED BY <1>1, <1>4, <1>9, <2>1, <2>2 DEF Types
<1>15. Releases
  <2>1. Remains BY <1>1, <1>4, <1>9 DEF Remains
  <2> QED BY <1>1, <1>3, <1>4, <1>9, <2>1 DEF Releases, SameLinks, rendVars
<1> QED BY <1>13, <1>14, <1>15

-----------------------------------------------------------------------------
(* Calls about one shader that is there already.                            *)

\* What is the same in createShader for a known binary and in destroyShader.
LEMMA ShaderCallKeeps ==
    ASSUME Types, ApiInv, MayCall, NEW s \in Shaders, NEW n \in 0 .. MaxRefs.shader,
           HoldsShader(app', s, n), UNCHANGED <<handleVars, progVars, rendVars>>,
           NEW d, NEW k, Becomes(d), Kept(Refs, d),
           RefInv(d, [Wanted EXCEPT ![s] = k], app.uniform, shaders, uniforms),
           k = n + Cardinality(LinksTo(s)), s = FirstShader => n > 0
    PROVE  Types' /\ ApiInv' /\ Releases
<1> DEFINE W == [Wanted EXCEPT ![s] = k]
<1>1. Wanted \in [Shaders -> Nat] /\ shaders \subseteq Shaders /\ programs \subseteq Programs
      /\ (\A x \in Shaders : IsFiniteSet(LinksTo(x)))
  BY ApiFacts
<1>2. d \in RefRecords BY RefInvCounts
<1>3. /\ Remains /\ submit'.pre = submit.pre /\ submit'.draws = submit.draws
      /\ submit'.freeProgram = submit.freeProgram
      /\ Named(submit'.post, "DestroyProgram") = Named(submit.post, "DestroyProgram")
      /\ \A x \in Shaders : shaderRef'[x].bin = shaderRef[x].bin
      /\ submit' \in Frames
  BY <1>2, KeptFollows, BecomesIs
<1>4. programs' = programs /\ programRef' = programRef /\ programMap' = programMap
      /\ shaders' = shaders /\ uniforms' = uniforms /\ stage' = stage /\ render' = render
  BY DEF handleVars, progVars, rendVars
<1>5. \A x : (LinksTo(x))' = LinksTo(x) BY <1>4, LinksStay
<1>6. W = Wanted'
  <2>1. Wanted' = [x \in Shaders |-> app'.shader[x] + Cardinality((LinksTo(x))')] BY DEF Wanted
  <2>2. \A x \in Shaders : Wanted[x] = app.shader[x] + Cardinality(LinksTo(x)) BY ApiFacts
  <2> HIDE DEF Wanted
  <2>3. W = [x \in Shaders |-> IF x = s THEN k ELSE Wanted[x]] BY <1>1
  <2>4. \A x \in Shaders : (IF x = s THEN k ELSE Wanted[x]) = app'.shader[x] + Cardinality((LinksTo(x))')
    BY <1>5, <2>2 DEF HoldsShader
  <2> QED BY <2>1, <2>3, <2>4
<1>7. ProgramsExact'
  <2>1. app'.program = app.program BY DEF HoldsShader
  <2>2. ProgramsExact BY DEF ApiInv
  <2>3. \A q \in programs : programRef'[q].refCount = app'.program[q]
    BY <1>4, <2>1, <2>2 DEF ProgramsExact
  <2>4. Wants(app'.program, Programs, programs) BY <2>1, <2>2 DEF ProgramsExact
  <2>5. \A x \in shaders : shaderRef'[x].bin = shaderRef[x].bin BY <1>1, <1>3
  <2>6. \A x \in Shaders : IsFiniteSet((LinksTo(x))') BY <1>1, <1>5
  <2>7. \A q \in programs : programRef'[q].vsh = programRef[q].vsh
                            /\ programRef'[q].fsh = programRef[q].fsh
    BY <1>4
  <2> QED BY <1>3, <1>4, <2>1, <2>3, <2>4, <2>5, <2>6, <2>7, ProgramsStay
<1>8. ApiInv'
  <2>1. submit'.draws \subseteq programs' BY <1>3, <1>4 DEF ApiInv
  <2>2. RefInv(d, W, app'.uniform, shaders', uniforms') BY <1>4 DEF HoldsShader
  <2> HIDE DEF W
  <2> QED BY <1>6, <1>7, <2>1, <2>2, CallKeeps
<1>9. Types'
  <2>1. calls' \in 0 .. MaxCalls BY CallTypes
  <2>2. app' \in Apps BY DEF HoldsShader
  <2>3. app'.shader[FirstShader] > 0
    BY AppTypes, ShadersAssumption DEF HoldsShader, Types, FirstTaken
  <2>4. FirstTaken' BY <1>3, <2>3, FirstStays DEF Types
  <2> QED BY <1>3, <1>4, <2>1, <2>2, <2>4 DEF Types
<1>10. Releases
  <2>1. render' = render /\ stage' = stage /\ UNCHANGED objectVars BY DEF rendVars
  <2> QED BY <1>3, <1>4, <2>1 DEF Releases, SameLinks
<1> QED BY <1>8, <1>9, <1>10

\* destroyShader of a shader the application has.
LEMMA DestroyShaderKeeps ==
    ASSUME Types, ApiInv, NEW s \in Shaders, DestroyShader(s)
    PROVE  Types' /\ ApiInv' /\ Releases
<1> DEFINE d == ShaderDecRef(Refs, s)
           n == app.shader[s] - 1
<1>1. /\ MayCall /\ Becomes(d) /\ app' = [app EXCEPT !.shader[s] = n]
      /\ UNCHANGED <<handleVars, progVars, rendVars>>
      /\ app.shader[s] > 0 /\ (s = FirstShader => n > 0)
  <2>1. app.shader[s] > InitHolds(s) /\ app.shader[s] \in Nat BY AppTypes DEF DestroyShader
  <2>2. app.shader[s] > 0 /\ (s = FirstShader => n > 0) BY <2>1 DEF InitHolds, InitShaders
  <2> QED BY <2>2 DEF DestroyShader
<1>2. n \in 0 .. MaxRefs.shader /\ n \in Nat /\ app.shader[s] = n + 1 BY <1>1, ShaderCount
<1>3. HoldsShader(app', s, n) BY <1>1, <1>2, HoldsShaderIs
<1>4. /\ Wanted[s] = app.shader[s] + Cardinality(LinksTo(s)) /\ Cardinality(LinksTo(s)) \in Nat
      /\ Wanted[s] > 0 => s \in shaders
      /\ RefInv(Refs, Wanted, app.uniform, shaders, uniforms)
  BY ApiFacts
<1> HIDE DEF d, n, Wanted, Refs
<1>5. Wanted[s] > 0 /\ Wanted[s] - 1 = n + Cardinality(LinksTo(s)) BY <1>2, <1>4
<1>6. s \in shaders BY <1>4, <1>5
<1>7. RefInv(d, [Wanted EXCEPT ![s] = Wanted[s] - 1], app.uniform, shaders, uniforms) /\ Kept(Refs, d)
  BY <1>4, <1>5, <1>6, DecRefKeeps, ZenonT(30) DEF d
<1> QED BY <1>1, <1>2, <1>3, <1>5, <1>7, ShaderCallKeeps

\* createShader of a binary that is loaded already.
LEMMA ShareShaderKeeps ==
    ASSUME Types, ApiInv, NEW bin \in Binaries, ShareShader(bin)
    PROVE  Types' /\ ApiInv' /\ Releases
<1> DEFINE s == Find(shaderMap, bin)
           d == ShaderIncRef(Refs, s)
           n == app.shader[s] + 1
<1>1. /\ MayCall /\ s # NoHandle /\ app.shader[s] < MaxRefs.shader
      /\ Becomes(d) /\ app' = [app EXCEPT !.shader[s] = n]
      /\ UNCHANGED <<handleVars, progVars, rendVars>>
  BY DEF ShareShader
<1>2. RefInv(Refs, Wanted, app.uniform, shaders, uniforms) /\ Refs \in RefRecords BY ApiFacts
<1>3. Refs.shaders = MapOf(Refs.shader, Wanted, shaders) /\ OneToOne(Refs.shaders)
  BY <1>2 DEF RefInv, Exact, ShadersExact
<1>4. Refs.shaders = shaderMap BY DEF Refs
<1>5. shaderMap \subseteq Binaries \X Shaders BY <1>2, <1>4 DEF RefRecords
<1>6. <<bin, s>> \in shaderMap BY <1>1, <1>3, <1>4, <1>5, FindIs, NoHandleAssumption
<1>7. s \in shaders /\ Wanted[s] > 0
  <2> HIDE DEF s, Wanted
  <2> QED BY <1>3, <1>4, <1>6 DEF MapOf
<1>8. s \in Shaders BY <1>7, ApiFacts
<1> HIDE DEF s
<1>9. n \in 0 .. MaxRefs.shader /\ app.shader[s] \in Nat /\ n > 0 BY <1>1, <1>8, ShaderCount
<1>10. HoldsShader(app', s, n) BY <1>1, <1>8, <1>9, HoldsShaderIs
<1>11. /\ Wanted[s] = app.shader[s] + Cardinality(LinksTo(s)) /\ Cardinality(LinksTo(s)) \in Nat
  BY <1>8, ApiFacts
<1>12. Wanted[s] + 1 = n + Cardinality(LinksTo(s))
  <2> HIDE DEF Wanted
  <2> QED BY <1>9, <1>11
<1> HIDE DEF d, n, Wanted, Refs
<1>13. RefInv(d, [Wanted EXCEPT ![s] = Wanted[s] + 1], app.uniform, shaders, uniforms) /\ Kept(Refs, d)
  BY <1>2, <1>7, IncRefKeeps, ZenonT(30) DEF d
<1> QED BY <1>1, <1>8, <1>9, <1>10, <1>12, <1>13, ShaderCallKeeps

-----------------------------------------------------------------------------
(* Calls about one uniform.                                                 *)

\* Uniforms may come, none goes, and no count reaches or leaves zero.
MoreUniforms(r, d, wu, w2, Y, Y2) ==
    /\ Y \subseteq Y2 /\ Wants(w2, Uniforms, Y2)
    /\ \A u \in Y2 : d.uniform[u].refCount = w2[u]
    /\ \A u \in Y : w2[u] = 0 <=> wu[u] = 0
    /\ \A u \in Y2 \ Y : w2[u] > 0
    /\ d.frame.freeUniform = r.frame.freeUniform
    /\ Named(d.frame.post, "DestroyUniform") = Named(r.frame.post, "DestroyUniform")
    /\ Mapped(d.uniforms, w2, Y2)

\* Uniforms with more names and higher counts.
LEMMA UniformsGrow ==
    ASSUME NEW r, NEW d, NEW wu, NEW w2, NEW Y, NEW Y2, UniformsExact(r, wu, Y),
           MoreUniforms(r, d, wu, w2, Y, Y2)
    PROVE  UniformsExact(d, w2, Y2)
<1> USE DEF MoreUniforms
<1>1. QueueExact(r.frame.freeUniform, wu, Y, r.frame.post, "DestroyUniform") BY DEF UniformsExact
<1>2. {s \in Y : wu[s] = 0} = {s \in Y2 : w2[s] = 0} BY DEF Wants
<1>3. QueueExact(d.frame.freeUniform, w2, Y2, d.frame.post, "DestroyUniform")
  BY <1>1, <1>2 DEF QueueExact
<1> QED BY <1>3 DEF UniformsExact

\* The names of new uniforms come into the map.
Pairs(N, c) == {<<n, c[n]>> : n \in N}

NewNames(m, Y, N, c) ==
    /\ \A n \in N : c[n] \notin Y /\ \A h : <<n, h>> \notin m
    /\ \A k, n \in N : c[k] = c[n] => k = n

MoreCounted(Y, Y2, w, w2, N, c) ==
    /\ \A u : u \in Y2 <=> u \in Y \/ \E n \in N : u = c[n]
    /\ \A u \in Y : w2[u] > 0 <=> w[u] > 0
    /\ \A n \in N : w2[c[n]] > 0

IsRelation(m) == \A e \in m : e = <<e[1], e[2]>>

\* The map of uniforms with more names.
LEMMA MapGrows ==
    ASSUME NEW m, IsRelation(m), NEW Y, NEW Y2, NEW w, NEW w2, Mapped(m, w, Y),
           NEW N, NEW c, NewNames(m, Y, N, c), MoreCounted(Y, Y2, w, w2, N, c)
    PROVE  Mapped(m \union Pairs(N, c), w2, Y2)
<1> USE DEF Pairs, MoreCounted, IsRelation
<1> DEFINE m2 == m \union {<<n, c[n]>> : n \in N}
<1>1. OneToOne(m) /\ {e[2] : e \in m} = {u \in Y : w[u] > 0} BY DEF Mapped
<1>5. /\ \A n \in N : c[n] \notin Y /\ \A h : <<n, h>> \notin m
      /\ \A k, n \in N : c[k] = c[n] => k = n
  BY DEF NewNames
<1>2. \A e \in m : e[2] \in Y /\ e = <<e[1], e[2]>> BY <1>1
<1>3. OneToOne(m2)
  <2> SUFFICES ASSUME NEW d \in m2, NEW e \in m2, d[1] = e[1] \/ d[2] = e[2]
               PROVE  d = e
    BY DEF OneToOne
  <2>1. CASE d \in m /\ e \in m BY <1>1, <2>1 DEF OneToOne
  <2>2. CASE d \in m /\ e \notin m
    <3>1. PICK n \in N : e = <<n, c[n]>> BY <2>2
    <3> QED BY <1>2, <1>5, <2>2, <3>1
  <2>3. CASE d \notin m /\ e \in m
    <3>1. PICK n \in N : d = <<n, c[n]>> BY <2>3
    <3> QED BY <1>2, <1>5, <2>3, <3>1
  <2>4. CASE d \notin m /\ e \notin m
    <3>1. PICK n \in N : e = <<n, c[n]>> BY <2>4
    <3>2. PICK k \in N : d = <<k, c[k]>> BY <2>4
    <3> QED BY <1>5, <3>1, <3>2
  <2> QED BY <2>1, <2>2, <2>3, <2>4
<1>4. {e[2] : e \in m2} = {u \in Y2 : w2[u] > 0}
  <2>1. {e[2] : e \in m2} = {e[2] : e \in m} \union {c[n] : n \in N}
    <3>1. ASSUME NEW n \in N PROVE c[n] \in {e[2] : e \in m2}
      <4>1. <<n, c[n]>> \in m2 /\ <<n, c[n]>>[2] = c[n] OBVIOUS
      <4> QED BY <4>1
    <3> QED BY <3>1
  <2>2. {u \in Y2 : w2[u] > 0} = {u \in Y : w[u] > 0} \union {c[n] : n \in N} BY <1>5
  <2> QED BY <1>1, <2>1, <2>2
<1> QED BY <1>3, <1>4 DEF Mapped

\* What the three calls have in common.
SameApart(f, g) ==
    g.draws = f.draws /\ g.freeProgram = f.freeProgram
    /\ Named(g.post, "DestroyProgram") = Named(f.post, "DestroyProgram")

\* A call that changes uniforms only.
LEMMA UniformCallKeeps ==
    ASSUME Types, ApiInv, MayCall, NEW u \in Uniforms, NEW n \in 0 .. MaxRefs.uniform,
           HoldsUniform(app', u, n), UNCHANGED <<shaders, programs, progVars, rendVars>>,
           NEW d, Becomes(d), RefInv(d, Wanted, app'.uniform, shaders, uniforms'),
           d.shader = shaderRef, SameApart(submit, submit')
    PROVE  Types' /\ ApiInv'
<1>1. shaders \subseteq Shaders /\ programs \subseteq Programs
      /\ (\A x \in Shaders : IsFiniteSet(LinksTo(x)))
  BY ApiFacts
<1>2. d \in RefRecords BY RefInvCounts
<1>3. submit' \in Frames /\ shaderRef' = shaderRef BY <1>2, BecomesIs
<1>4. programs' = programs /\ programRef' = programRef /\ programMap' = programMap
      /\ shaders' = shaders /\ stage' = stage /\ render' = render
  BY DEF progVars, rendVars
<1>5. \A x : (LinksTo(x))' = LinksTo(x) BY <1>4, LinksStay
<1>6. app'.shader \in [Shaders -> Nat] /\ app.shader \in [Shaders -> Nat]
  <2>1. app'.shader = app.shader BY DEF HoldsUniform
  <2> QED BY <2>1, AppTypes
<1>7. Wanted = Wanted'
  <2>1. app'.shader = app.shader BY DEF HoldsUniform
  <2> QED BY <1>5, <2>1 DEF Wanted
<1>8. ProgramsExact'
  <2>1. app'.program = app.program BY DEF HoldsUniform
  <2>2. ProgramsExact BY DEF ApiInv
  <2>3. \A q \in programs : programRef'[q].refCount = app'.program[q]
    BY <1>4, <2>1, <2>2 DEF ProgramsExact
  <2>4. Wants(app'.program, Programs, programs) BY <2>1, <2>2 DEF ProgramsExact
  <2>5. \A x \in shaders : shaderRef'[x].bin = shaderRef[x].bin BY <1>3
  <2>6. \A x \in Shaders : IsFiniteSet((LinksTo(x))') BY <1>1, <1>5
  <2>7. \A q \in programs : programRef'[q].vsh = programRef[q].vsh
                            /\ programRef'[q].fsh = programRef[q].fsh
    BY <1>4
  <2>8. submit'.freeProgram = submit.freeProgram
        /\ Named(submit'.post, "DestroyProgram") = Named(submit.post, "DestroyProgram")
    BY DEF SameApart
  <2> QED BY <1>4, <2>1, <2>3, <2>4, <2>5, <2>6, <2>7, <2>8, ProgramsStay
<1>9. ApiInv'
  <2>1. submit'.draws \subseteq programs' BY <1>4 DEF ApiInv, SameApart
  <2>2. RefInv(d, Wanted, app'.uniform, shaders', uniforms') BY <1>4
  <2> QED BY <1>7, <1>8, <2>1, <2>2, CallKeeps
<1>10. Types'
  <2>1. calls' \in 0 .. MaxCalls BY CallTypes
  <2>2. app' \in Apps BY DEF HoldsUniform
  <2>3. FirstTaken' BY <1>3 DEF HoldsUniform, Types, FirstTaken
  <2> QED BY <1>3, <1>4, <2>1, <2>2, <2>3 DEF Types
<1> QED BY <1>9, <1>10

\* destroyUniform of a uniform the application has.
LEMMA DestroyUniformKeeps ==
    ASSUME Types, ApiInv, NEW u \in Uniforms, DestroyUniform(u)
    PROVE  Types' /\ ApiInv' /\ Releases
<1> DEFINE d == DropUniform(Refs, u)
           n == app.uniform[u] - 1
           wu == Totals(Refs.shader, app.uniform)
<1>1. /\ MayCall /\ app.uniform[u] > 0 /\ Becomes(d) /\ app' = [app EXCEPT !.uniform[u] = n]
      /\ UNCHANGED <<handleVars, progVars, rendVars>>
  BY DEF DestroyUniform
<1>2. n \in 0 .. MaxRefs.uniform /\ n \in Nat /\ app.uniform[u] = n + 1 BY <1>1, UniformCount
<1>3. HoldsUniform(app', u, n) BY <1>1, <1>2, HoldsUniformIs
<1>4. RefInv(Refs, Wanted, app.uniform, shaders, uniforms) /\ Refs \in RefRecords
  BY ApiFacts
<1>5. /\ Exact(Refs, Wanted, wu, shaders, uniforms) /\ Lists(Refs.shader, Wanted, uniforms)
      /\ app.uniform \in [Uniforms -> Nat]
  BY <1>4 DEF RefInv
<1>6. wu \in [Uniforms -> Nat] /\ wu[u] = app.uniform[u] + Cardinality(Users(Refs.shader, u))
      /\ Cardinality(Users(Refs.shader, u)) \in Nat
  BY <1>5, TotalsType, UsersFinite
<1>7. Wants(wu, Uniforms, uniforms) BY <1>5 DEF Exact, UniformsExact
<1> HIDE DEF wu
<1>8. wu[u] > 0 /\ u \in uniforms /\ wu[u] - 1 = n + Cardinality(Users(Refs.shader, u))
  BY <1>2, <1>6, <1>7 DEF Wants
<1>9. UniformDropped(Refs, d, u) BY <1>4, DropUniformIs
<1>10. Totals(Refs.shader, app'.uniform) = [wu EXCEPT ![u] = wu[u] - 1]
  <2>1. \A x \in Uniforms : app'.uniform[x] = IF x = u THEN n ELSE app.uniform[x]
    BY <1>3 DEF HoldsUniform
  <2>2. Totals(Refs.shader, app'.uniform)
           = [Totals(Refs.shader, app.uniform) EXCEPT ![u] = n + Cardinality(Users(Refs.shader, u))]
    <3> HIDE DEF n, Refs
    <3> QED BY <2>1 DEF Totals
  <2> QED BY <1>8, <2>2 DEF wu
<1> HIDE DEF d, n
<1>11. Exact(d, Wanted, [wu EXCEPT ![u] = wu[u] - 1], shaders, uniforms) /\ Kept(Refs, d)
  <2> HIDE DEF Refs, Wanted
  <2> QED BY <1>5, <1>8, <1>9, DropKeeps
<1>12. d \in RefRecords /\ d.shader = Refs.shader BY <1>9 DEF UniformDropped
<1>13. RefInv(d, Wanted, app'.uniform, shaders, uniforms)
  <2>1. app'.uniform \in [Uniforms -> Nat]
    <3>1. app' \in Apps BY <1>3 DEF HoldsUniform
    <3>2. MaxRefs.uniform \in Nat BY BoundsAssumption
    <3> QED BY <3>1, <3>2 DEF Apps
  <2> QED BY <1>5, <1>10, <1>11, <1>12, <2>1 DEF RefInv
<1>14. /\ Remains /\ submit'.pre = submit.pre /\ SameApart(submit, submit')
       /\ submit'.draws = submit.draws
  BY <1>1, <1>11, <1>12, KeptFollows DEF SameApart
<1>15. UNCHANGED <<shaders, programs, progVars, rendVars>> /\ uniforms' = uniforms
  BY <1>1 DEF handleVars
<1>16. d.shader = shaderRef BY <1>12 DEF Refs
<1>17. Types' /\ ApiInv'
  <2> HIDE DEF Wanted
  <2>1. RefInv(d, Wanted, app'.uniform, shaders, uniforms') BY <1>13, <1>15
  <2> QED BY <1>1, <1>2, <1>3, <1>14, <1>15, <1>16, <2>1, UniformCallKeeps
<1>18. Releases
  BY <1>14, <1>15 DEF Releases, SameLinks, progVars, rendVars
<1> QED BY <1>17, <1>18

\* What is left when createUniform has recorded CreateUniform.
UniformMade(n, u) ==
    /\ UNCHANGED <<shaders, programs, render, stage, objectVars>>
    /\ uniforms' = uniforms \union {u}
    /\ uniformMap' = uniformMap \union {<<n, u>>}
    /\ u \in uniforms => <<n, u>> \in uniformMap
    /\ u \notin uniforms => \A x : <<n, x>> \notin uniformMap
    /\ submit'.freeUniform = submit.freeUniform
    /\ shaderRef' = shaderRef /\ SameLinks
    /\ submit'.pre = Append(submit.pre, [op |-> "CreateUniform", h |-> u, name |-> n])
    /\ submit'.draws = submit.draws

\* A frame with one more command.
LEMMA RecordedIs ==
    ASSUME NEW f \in Frames, NEW c \in PreCommands, NoRepeat(f.post)
    PROVE  LET g == [f EXCEPT !.pre = Append(@, c)]
           IN  /\ g \in Frames /\ g.pre = Append(f.pre, c) /\ g.post = f.post
               /\ SameApart(f, g) /\ SameQueues(f, g) /\ g.freeUniform = f.freeUniform
<1> DEFINE g == [f EXCEPT !.pre = Append(@, c)]
<1>1. f.pre \in Seq(PreCommands) BY DEF Frames
<1>2. Append(f.pre, c) \in Seq(PreCommands) BY <1>1
<1>3. /\ g \in Frames /\ g.pre = Append(f.pre, c) /\ g.post = f.post /\ g.draws = f.draws
      /\ g.freeProgram = f.freeProgram /\ g.freeShader = f.freeShader
      /\ g.freeUniform = f.freeUniform
  BY <1>2 DEF Frames
<1> QED BY <1>3 DEF SameApart, SameQueues

\* The invariant of the counts when only the uniforms, their map and the frame change.
LEMMA UniformsKeep ==
    ASSUME NEW r, NEW ws, NEW a, NEW X, NEW Y, RefInv(r, ws, a, X, Y),
           NEW b \in [Uniforms -> Nat], NEW Y2, Y \subseteq Y2,
           NEW d \in RefRecords, d.shader = r.shader, d.shaders = r.shaders,
           SameQueues(r.frame, d.frame), UniformsExact(d, Totals(r.shader, b), Y2)
    PROVE  RefInv(d, ws, b, X, Y2)
<1>1. /\ ShadersExact(r, ws, X) /\ Lists(r.shader, ws, Y) BY DEF RefInv, Exact
<1>2. d.frame.freeShader = r.frame.freeShader /\ NoRepeat(d.frame.post)
      /\ Named(d.frame.post, "DestroyShader") = Named(r.frame.post, "DestroyShader")
  BY DEF SameQueues
<1>3. ShadersExact(d, ws, X) BY <1>1, <1>2, ShadersStay
<1>4. Lists(d.shader, ws, Y2) BY <1>1 DEF Lists, Listed
<1> QED BY <1>2, <1>3, <1>4 DEF RefInv, Exact

\* createUniform, whether the name is known or not.
LEMMA UniformMoreKeeps ==
    ASSUME Types, ApiInv, MayCall, NEW u \in Uniforms, NEW n \in Nat \ {0},
           n \in 0 .. MaxRefs.uniform, n = app.uniform[u] + 1,
           HoldsUniform(app', u, n), UNCHANGED <<shaders, programs, progVars, rendVars>>,
           u \in uniforms => Totals(shaderRef, app.uniform)[u] > 0,
           uniforms' = uniforms \union {u}, shaderRef' = shaderRef, shaderMap' = shaderMap,
           NEW k, uniformRef' = [uniformRef EXCEPT ![u] = k], k \in UniformRefs,
           k.refCount = IF u \in uniforms THEN uniformRef[u].refCount + 1 ELSE 1,
           uniformMap' \subseteq Names \X Uniforms,
           u \in uniforms => uniformMap' = uniformMap,
           u \notin uniforms => \E name \in Names : /\ uniformMap' = uniformMap \union {<<name, u>>}
                                                    /\ \A h : <<name, h>> \notin uniformMap,
           submit' \in Frames, SameQueues(submit, submit'), SameApart(submit, submit')
    PROVE  Types' /\ ApiInv'
<1> DEFINE d == [shader |-> shaderRef, shaders |-> shaderMap, uniform |-> uniformRef',
                 uniforms |-> uniformMap', frame |-> submit']
           wu == Totals(shaderRef, app.uniform)
           w2 == Totals(shaderRef, app'.uniform)
<1>1. RefInv(Refs, Wanted, app.uniform, shaders, uniforms) /\ Refs \in RefRecords
      /\ uniforms \subseteq Uniforms
  BY ApiFacts
<1>2. Refs.shader = shaderRef /\ Refs.shaders = shaderMap /\ Refs.frame = submit
      /\ Refs.uniform = uniformRef /\ Refs.uniforms = uniformMap
  BY DEF Refs
<1>3. uniformRef \in [Uniforms -> UniformRefs] /\ uniformMap \subseteq Names \X Uniforms
      /\ shaderRef \in [Shaders -> ShaderRefs] /\ shaderMap \in SUBSET (Binaries \X Shaders)
  BY <1>1, <1>2 DEF RefRecords
<1>4. app.uniform \in [Uniforms -> Nat] /\ app'.uniform \in [Uniforms -> Nat]
  <2>1. app' \in Apps BY DEF HoldsUniform
  <2>2. MaxRefs.uniform \in Nat BY BoundsAssumption
  <2> QED BY <2>1, <2>2, AppTypes DEF Apps
<1>5. /\ wu \in [Uniforms -> Nat] /\ w2 \in [Uniforms -> Nat]
      /\ \A x \in Uniforms : wu[x] = app.uniform[x] + Cardinality(Users(shaderRef, x))
      /\ \A x \in Uniforms : w2[x] = app'.uniform[x] + Cardinality(Users(shaderRef, x))
      /\ \A x \in Uniforms : Cardinality(Users(shaderRef, x)) \in Nat
  BY <1>4, TotalsType, UsersFinite
<1>6. UniformsExact(Refs, wu, uniforms) BY <1>1, <1>2 DEF RefInv, Exact
<1>7. Wants(wu, Uniforms, uniforms) /\ Mapped(uniformMap, wu, uniforms)
      /\ \A x \in uniforms : uniformRef[x].refCount = wu[x]
  BY <1>2, <1>6 DEF UniformsExact
<1>8. d \in RefRecords
  <2>1. uniformRef' \in [Uniforms -> UniformRefs] BY <1>3
  <2> QED BY <1>3, <2>1 DEF RefRecords
<1>9. /\ d.shader = shaderRef /\ d.shaders = shaderMap /\ d.uniform = uniformRef'
      /\ d.uniforms = uniformMap' /\ d.frame = submit'
  OBVIOUS
<1>10. Becomes(d) BY <1>9 DEF Becomes
<1> HIDE DEF d, wu, w2, Refs, Wanted
<1>11. \A x \in Uniforms : w2[x] = IF x = u THEN wu[u] + 1 ELSE wu[x]
  <2>1. \A x \in Uniforms : app'.uniform[x] = IF x = u THEN app.uniform[u] + 1 ELSE app.uniform[x]
    BY DEF HoldsUniform
  <2>2. app.uniform[u] \in Nat /\ wu[u] \in Nat BY <1>4, <1>5
  <2> QED BY <1>5, <2>1, <2>2
<1>12. Wants(w2, Uniforms, uniforms') BY <1>1, <1>5, <1>7, <1>11 DEF Wants
<1>13. u \in uniforms => wu[u] > 0 BY DEF wu
<1>14. u \notin uniforms => wu[u] = 0 BY <1>7 DEF Wants
<1>15. \A x \in uniforms' : d.uniform[x].refCount = w2[x]
  <2>1. d.uniform[u].refCount = w2[u] BY <1>3, <1>7, <1>9, <1>11, <1>14
  <2>2. ASSUME NEW x \in uniforms, x # u PROVE d.uniform[x].refCount = w2[x]
    <3>1. x \in Uniforms BY <1>1
    <3> QED BY <1>3, <1>7, <1>9, <1>11, <2>2, <3>1
  <2> QED BY <2>1, <2>2
<1>16. \A x \in uniforms : (w2[x] = 0 <=> wu[x] = 0) /\ (w2[x] > 0 <=> wu[x] > 0)
  <2> SUFFICES ASSUME NEW x \in uniforms PROVE (w2[x] = 0 <=> wu[x] = 0) /\ (w2[x] > 0 <=> wu[x] > 0)
    OBVIOUS
  <2>1. x \in Uniforms /\ wu[x] \in Nat BY <1>1, <1>5
  <2> QED BY <1>11, <1>13, <2>1
<1>17. \A x \in uniforms' \ uniforms : w2[x] > 0 BY <1>11, <1>14
<1>18. Mapped(d.uniforms, w2, uniforms')
  <2>1. CASE u \in uniforms
    <3>1. uniforms' = uniforms /\ d.uniforms = uniformMap BY <1>9, <2>1
    <3> QED BY <1>7, <1>16, <3>1, MapStays
  <2>2. CASE u \notin uniforms
    <3>1. PICK name \in Names : /\ uniformMap' = uniformMap \union {<<name, u>>}
                                /\ \A h : <<name, h>> \notin uniformMap
      BY <2>2
    <3> DEFINE N == {name}
               c == [x \in N |-> u]
    <3>2. uniformMap' = uniformMap \union Pairs(N, c) BY <3>1 DEF Pairs
    <3>3. NewNames(uniformMap, uniforms, N, c) BY <2>2, <3>1 DEF NewNames
    <3>4. MoreCounted(uniforms, uniforms', wu, w2, N, c)
      <4>1. \A x : x \in uniforms' <=> x \in uniforms \/ \E y \in N : x = c[y] OBVIOUS
      <4>2. \A x \in N : w2[c[x]] > 0 BY <1>11, <1>14, <2>2
      <4> QED BY <1>16, <4>1, <4>2 DEF MoreCounted
    <3>5. IsRelation(uniformMap) BY <1>3 DEF IsRelation
    <3> HIDE DEF N, c
    <3>8. Mapped(uniformMap \union Pairs(N, c), w2, uniforms')
      BY <1>7, <3>3, <3>4, <3>5, MapGrows
    <3> QED BY <1>9, <3>2, <3>8
  <2> QED BY <2>1, <2>2
<1>19. UniformsExact(d, w2, uniforms')
  <2>1. d.frame.freeUniform = Refs.frame.freeUniform
        /\ Named(d.frame.post, "DestroyUniform") = Named(Refs.frame.post, "DestroyUniform")
    BY <1>2, <1>9 DEF SameQueues
  <2>2. uniforms \subseteq uniforms' OBVIOUS
  <2>3. \A x \in uniforms : w2[x] = 0 <=> wu[x] = 0 BY <1>16
  <2>4. MoreUniforms(Refs, d, wu, w2, uniforms, uniforms')
    BY <1>12, <1>15, <1>17, <1>18, <2>1, <2>2, <2>3 DEF MoreUniforms
  <2> QED BY <1>6, <2>4, UniformsGrow
<1>20. RefInv(d, Wanted, app'.uniform, shaders, uniforms')
  <2>1. UniformsExact(d, Totals(Refs.shader, app'.uniform), uniforms') BY <1>2, <1>19 DEF w2
  <2>2. uniforms \subseteq uniforms' OBVIOUS
  <2>3. SameQueues(Refs.frame, d.frame) BY <1>2, <1>9
  <2>4. d.shader = Refs.shader /\ d.shaders = Refs.shaders BY <1>2, <1>9
  <2> QED BY <1>1, <1>4, <1>8, <2>1, <2>2, <2>3, <2>4, UniformsKeep
<1> QED BY <1>9, <1>10, <1>20, UniformCallKeeps

\* A uniform in the map is counted.
LEMMA NamedUniform ==
    ASSUME Types, ApiInv, NEW n, NEW u, <<n, u>> \in uniformMap
    PROVE  /\ u \in uniforms /\ Totals(shaderRef, app.uniform)[u] > 0
           /\ uniformRef[u].refCount = Totals(shaderRef, app.uniform)[u]
<1>1. RefInv(Refs, Wanted, app.uniform, shaders, uniforms) BY ApiFacts
<1>2. Refs.shader = shaderRef /\ Refs.uniforms = uniformMap /\ Refs.uniform = uniformRef BY DEF Refs
<1> HIDE DEF Refs, Wanted
<1> DEFINE wu == Totals(Refs.shader, app.uniform)
<1>3. UniformsExact(Refs, wu, uniforms) BY <1>1 DEF RefInv, Exact
<1> HIDE DEF wu
<1>4. {e[2] : e \in uniformMap} = {x \in uniforms : wu[x] > 0}
      /\ (\A x \in uniforms : uniformRef[x].refCount = wu[x])
  BY <1>2, <1>3 DEF UniformsExact, Mapped
<1>5. u \in {e[2] : e \in uniformMap}
  <2>1. <<n, u>>[2] = u OBVIOUS
  <2> QED BY <2>1
<1>6. u \in uniforms /\ wu[u] > 0 BY <1>4, <1>5
<1> QED BY <1>2, <1>4, <1>6 DEF wu

\* The map of the uniforms.
LEMMA UniformMapIs ==
    ASSUME Types, ApiInv
    PROVE  /\ uniformMap \subseteq Names \X Uniforms /\ OneToOne(uniformMap)
           /\ uniformRef \in [Uniforms -> UniformRefs]
           /\ \A n : /\ Find(uniformMap, n) # NoHandle => <<n, Find(uniformMap, n)>> \in uniformMap
                     /\ Find(uniformMap, n) = NoHandle => \A h : <<n, h>> \notin uniformMap
                     /\ \A h : <<n, h>> \in uniformMap => Find(uniformMap, n) = h
<1>1. RefInv(Refs, Wanted, app.uniform, shaders, uniforms) /\ Refs \in RefRecords BY ApiFacts
<1>2. Refs.uniforms = uniformMap /\ Refs.uniform = uniformRef BY DEF Refs
<1> HIDE DEF Refs, Wanted
<1>3. uniformMap \subseteq Names \X Uniforms /\ uniformRef \in [Uniforms -> UniformRefs]
  BY <1>1, <1>2 DEF RefRecords
<1>4. OneToOne(uniformMap) BY <1>1, <1>2 DEF RefInv, Exact, UniformsExact, Mapped
<1> QED BY <1>3, <1>4, FindIs, NoHandleAssumption

\* createUniform of a name that is known already.
LEMMA ShareUniformKeeps ==
    ASSUME Types, ApiInv, NEW name \in Names, NEW num \in Nums[name], ShareUniform(name, num)
    PROVE  /\ Types' /\ ApiInv'
           /\ Releases \/ \E u \in Uniforms : UniformMade(name, u)
<1> DEFINE u == Find(uniformMap, name)
           grows == uniformRef[u].num < num
           k == [uniformRef[u] EXCEPT !.refCount = @ + 1, !.num = IF grows THEN num ELSE @]
           c == [op |-> "CreateUniform", h |-> u, name |-> name]
           g == [submit EXCEPT !.pre = Append(@, c)]
           n == app.uniform[u] + 1
<1>1. /\ MayCall /\ u # NoHandle /\ app.uniform[u] < MaxRefs.uniform
      /\ uniformRef' = [uniformRef EXCEPT ![u].refCount = @ + 1, ![u].num = IF grows THEN num ELSE @]
      /\ submit' = (IF grows THEN g ELSE submit)
      /\ app' = [app EXCEPT !.uniform[u] = n]
      /\ UNCHANGED <<handleVars, shaderRef, shaderMap, uniformMap, progVars, rendVars>>
  BY DEF ShareUniform
<1>2. <<name, u>> \in uniformMap BY <1>1, UniformMapIs
<1>3. uniformRef \in [Uniforms -> UniformRefs] /\ uniformMap \subseteq Names \X Uniforms
  BY UniformMapIs
<1>4. u \in uniforms /\ Totals(shaderRef, app.uniform)[u] > 0 BY <1>2, NamedUniform
<1>5. u \in Uniforms BY <1>4, ApiFacts
<1> HIDE DEF u
<1>6. n \in 0 .. MaxRefs.uniform /\ app.uniform[u] \in Nat BY <1>1, <1>5, UniformCount
<1>7. HoldsUniform(app', u, n) BY <1>1, <1>5, <1>6, HoldsUniformIs
<1>8. n \in Nat \ {0} BY <1>6
<1>9. uniformRef[u] \in UniformRefs BY <1>3, <1>5
<1>10. num \in UNION {Nums[m] : m \in Names} OBVIOUS
<1>11. k \in UniformRefs /\ k.refCount = uniformRef[u].refCount + 1
  <2> DEFINE m == IF grows THEN num ELSE uniformRef[u].num
  <2>1. uniformRef[u].refCount \in Int /\ m \in {0, 1} \union UNION {Nums[x] : x \in Names}
    <3> HIDE DEF grows
    <3> QED BY <1>9, <1>10 DEF UniformRefs
  <2>2. k = [uniformRef[u] EXCEPT !.refCount = @ + 1, !.num = m] OBVIOUS
  <2> HIDE DEF m, k, grows
  <2>3. k = [refCount |-> uniformRef[u].refCount + 1, num |-> m] BY <1>9, <2>2 DEF UniformRefs
  <2> QED BY <2>1, <2>3 DEF UniformRefs
<1>12. uniformRef' = [uniformRef EXCEPT ![u] = k]
  <2> DEFINE r == uniformRef
             x == [r[u] EXCEPT !.refCount = @ + 1]
  <2>1. [r EXCEPT ![u].refCount = @ + 1] = [r EXCEPT ![u] = x] OBVIOUS
  <2> HIDE DEF grows
  <2>2. [[r EXCEPT ![u] = x] EXCEPT ![u].num = IF grows THEN num ELSE @]
           = [r EXCEPT ![u] = [x EXCEPT !.num = IF grows THEN num ELSE @]]
    BY <1>3, <1>5
  <2> QED BY <1>1, <2>1, <2>2
<1> HIDE DEF k, n, grows
<1>13. c \in PreCommands BY <1>5 DEF PreCommands
<1>14. submit \in Frames /\ NoRepeat(submit.post)
  <2>1. RefInv(Refs, Wanted, app.uniform, shaders, uniforms) BY ApiFacts
  <2>2. Refs.frame = submit BY DEF Refs
  <2>3. NoRepeat(Refs.frame.post) BY <2>1 DEF RefInv, Exact
  <2> QED BY <2>2, <2>3 DEF Types
<1> HIDE DEF c
<1>15. /\ g \in Frames /\ g.pre = Append(submit.pre, c) /\ g.post = submit.post
       /\ SameApart(submit, g) /\ SameQueues(submit, g) /\ g.freeUniform = submit.freeUniform
  BY <1>13, <1>14, RecordedIs
<1>16. SameApart(submit, submit) /\ SameQueues(submit, submit) BY <1>14 DEF SameApart, SameQueues
<1> HIDE DEF g
<1>17. submit' \in Frames /\ SameQueues(submit, submit') /\ SameApart(submit, submit')
  BY <1>1, <1>14, <1>15, <1>16
<1>18. UNCHANGED <<shaders, programs, progVars, rendVars>> /\ uniforms' = uniforms
       /\ shaderRef' = shaderRef /\ shaderMap' = shaderMap /\ uniformMap' = uniformMap
       /\ programRef' = programRef /\ render' = render /\ stage' = stage /\ UNCHANGED objectVars
  BY <1>1 DEF handleVars, progVars, rendVars
<1>19. uniforms' = uniforms \union {u} BY <1>4, <1>18
<1>20. n = app.uniform[u] + 1 BY DEF n
<1>21. k.refCount = IF u \in uniforms THEN uniformRef[u].refCount + 1 ELSE 1 BY <1>4, <1>11
<1>22. uniformMap' \subseteq Names \X Uniforms BY <1>3, <1>18
<1>23. Types' /\ ApiInv'
  BY <1>1, <1>4, <1>5, <1>6, <1>7, <1>8, <1>11, <1>12, <1>17, <1>18, <1>19, <1>20, <1>21, <1>22,
     UniformMoreKeeps
<1>24. CASE grows
  <2>1. submit' = g BY <1>1, <1>24
  <2>2. submit'.draws = submit.draws BY <1>15, <2>1 DEF SameApart
  <2>3. UniformMade(name, u)
    BY <1>2, <1>4, <1>15, <1>18, <1>19, <2>1, <2>2 DEF UniformMade, SameLinks, c
  <2> QED BY <1>5, <1>23, <2>3
<1>25. CASE ~grows
  <2>1. submit' = submit BY <1>1, <1>25
  <2>2. Releases BY <1>18, <2>1 DEF Releases, Remains, SameLinks
  <2> QED BY <1>23, <2>2
<1> QED BY <1>24, <1>25

\* createUniform of a new name.
LEMMA CreateUniformKeeps ==
    ASSUME Types, ApiInv, NEW u \in Uniforms, NEW name \in Names, NEW num \in Nums[name],
           CreateUniform(u, name, num)
    PROVE  Types' /\ ApiInv' /\ UniformMade(name, u)
<1> DEFINE k == [refCount |-> 1, num |-> num]
           c == [op |-> "CreateUniform", h |-> u, name |-> name]
           g == [submit EXCEPT !.pre = Append(@, c)]
           n == app.uniform[u] + 1
<1>1. /\ MayCall /\ Find(uniformMap, name) = NoHandle /\ u \notin uniforms
      /\ uniforms' = uniforms \union {u}
      /\ uniformRef' = [uniformRef EXCEPT ![u] = k]
      /\ uniformMap' = uniformMap \union {<<name, u>>}
      /\ submit' = g /\ app' = [app EXCEPT !.uniform[u] = n]
      /\ UNCHANGED <<shaders, programs, shaderRef, shaderMap, progVars, rendVars>>
  BY DEF CreateUniform
<1>2. uniformMap \subseteq Names \X Uniforms /\ \A h : <<name, h>> \notin uniformMap
  BY <1>1, UniformMapIs
<1>3. app.uniform[u] = 0
  <2>1. RefInv(Refs, Wanted, app.uniform, shaders, uniforms) BY ApiFacts
  <2>2. UniformsExact(Refs, Totals(Refs.shader, app.uniform), uniforms)
        /\ app.uniform \in [Uniforms -> Nat]
    BY <2>1 DEF RefInv, Exact
  <2>3. Totals(Refs.shader, app.uniform)[u] = 0 BY <1>1, <2>2 DEF UniformsExact, Wants
  <2>4. Totals(Refs.shader, app.uniform)[u] = app.uniform[u] + Cardinality(Users(Refs.shader, u))
        /\ Cardinality(Users(Refs.shader, u)) \in Nat /\ app.uniform[u] \in Nat
    BY <2>2, TotalsType, UsersFinite
  <2> QED BY <2>3, <2>4
<1>4. n \in 0 .. MaxRefs.uniform /\ n \in Nat \ {0}
  <2>1. MaxRefs.uniform \in Nat \ {0} BY BoundsAssumption
  <2> QED BY <1>3, <2>1
<1>5. HoldsUniform(app', u, n) BY <1>1, <1>4, HoldsUniformIs
<1>6. num \in UNION {Nums[m] : m \in Names} OBVIOUS
<1>7. k \in UniformRefs /\ k.refCount = 1 BY <1>6 DEF UniformRefs
<1>8. n = app.uniform[u] + 1 OBVIOUS
<1> HIDE DEF k, n
<1>9. c \in PreCommands BY DEF PreCommands
<1>10. submit \in Frames /\ NoRepeat(submit.post)
  <2>1. RefInv(Refs, Wanted, app.uniform, shaders, uniforms) BY ApiFacts
  <2>2. Refs.frame = submit BY DEF Refs
  <2>3. NoRepeat(Refs.frame.post) BY <2>1 DEF RefInv, Exact
  <2> QED BY <2>2, <2>3 DEF Types
<1> HIDE DEF c
<1>11. /\ g \in Frames /\ g.pre = Append(submit.pre, c) /\ g.post = submit.post
       /\ SameApart(submit, g) /\ SameQueues(submit, g) /\ g.freeUniform = submit.freeUniform
  BY <1>9, <1>10, RecordedIs
<1> HIDE DEF g
<1>12. submit' \in Frames /\ SameQueues(submit, submit') /\ SameApart(submit, submit')
  BY <1>1, <1>11
<1>13. UNCHANGED <<shaders, programs, progVars, rendVars>>
       /\ shaderRef' = shaderRef /\ shaderMap' = shaderMap
       /\ programRef' = programRef /\ render' = render /\ stage' = stage /\ UNCHANGED objectVars
  BY <1>1 DEF progVars, rendVars
<1>14. k.refCount = IF u \in uniforms THEN uniformRef[u].refCount + 1 ELSE 1 BY <1>1, <1>7
<1>15. uniformMap' \subseteq Names \X Uniforms BY <1>1, <1>2
<1>16. \E m \in Names : uniformMap' = uniformMap \union {<<m, u>>} /\ \A h : <<m, h>> \notin uniformMap
  BY <1>1, <1>2
<1>17. Types' /\ ApiInv'
  BY <1>1, <1>4, <1>5, <1>7, <1>8, <1>12, <1>13, <1>14, <1>15, <1>16, UniformMoreKeeps
<1>18. UniformMade(name, u)
  <2>1. submit'.draws = submit.draws BY <1>12 DEF SameApart
  <2>2. submit'.pre = Append(submit.pre, [op |-> "CreateUniform", h |-> u, name |-> name])
        /\ submit'.freeUniform = submit.freeUniform
    BY <1>1, <1>11 DEF c
  <2> QED BY <1>1, <1>2, <1>13, <2>1, <2>2 DEF UniformMade, SameLinks
<1> QED BY <1>17, <1>18

-----------------------------------------------------------------------------
(* createShader with a new binary: its uniforms.                            *)

NewIn(names, choice) == {n \in ToSet(names) : choice[n] \notin uniforms \union {NoHandle}}
ListOf(names, choice) == [i \in DOMAIN names |-> choice[names[i]]]

\* What createUniform returned for the names of the shader.
Chosen(names, choice) ==
    /\ names \in Seq(Names) /\ IsInjective(names)
    /\ \A n \in ToSet(names) : choice[n] \in Uniforms \union {NoHandle}
    /\ NewNames(uniformMap, uniforms, NewIn(names, choice), choice)
    /\ \A n \in ToSet(names) : \/ n \in NewIn(names, choice) \/ choice[n] = NoHandle
                               \/ <<n, choice[n]>> \in uniformMap
    /\ \A m, n \in ToSet(names) : choice[m] = choice[n] => m = n \/ choice[n] = NoHandle

\* The handles createUniform gives the names of a shader: one that is mapped, a free one or none.
LEMMA ChosenIs ==
    ASSUME Types, ApiInv, NEW bin \in Binaries, NEW choice \in UniformChoices(bin)
    PROVE  Chosen(UniformsOf[bin], choice)
<1> DEFINE names == UniformsOf[bin]
           N == NewIn(names, choice)
           known == {n \in ToSet(names) : Find(uniformMap, n) # NoHandle}
<1>1. names \in Seq(Names) /\ IsInjective(names) BY UniformsOfAssumption
<1>2. /\ choice \in [ToSet(names) -> Uniforms \union {NoHandle}]
      /\ \A n \in known : choice[n] = Find(uniformMap, n)
      /\ \A n \in ToSet(names) \ known : choice[n] \in (Uniforms \ uniforms) \union {NoHandle}
      /\ \A m, n \in ToSet(names) : m # n /\ choice[m] = choice[n] => choice[m] = NoHandle
  BY DEF UniformChoices
<1>3. \A n \in ToSet(names) : choice[n] \in Uniforms \union {NoHandle} BY <1>2
<1>4. \A n \in known : <<n, choice[n]>> \in uniformMap /\ choice[n] \in uniforms
  <2> TAKE n \in known
  <2>1. choice[n] = Find(uniformMap, n) /\ Find(uniformMap, n) # NoHandle BY <1>2
  <2>2. <<n, choice[n]>> \in uniformMap BY <2>1, UniformMapIs
  <2> QED BY <2>2, NamedUniform
<1>5. \A n \in N : n \in ToSet(names) /\ n \notin known /\ choice[n] \notin uniforms
                   /\ choice[n] # NoHandle
  BY <1>4 DEF NewIn
<1>6. NewNames(uniformMap, uniforms, N, choice)
  <2>1. \A n \in N : \A h : <<n, h>> \notin uniformMap
    <3> TAKE n \in N
    <3>1. Find(uniformMap, n) = NoHandle BY <1>5
    <3> QED BY <3>1, UniformMapIs
  <2>2. \A k, n \in N : choice[k] = choice[n] => k = n BY <1>2, <1>5
  <2> QED BY <1>5, <2>1, <2>2 DEF NewNames
<1>7. ASSUME NEW n \in ToSet(names)
      PROVE  n \in N \/ choice[n] = NoHandle \/ <<n, choice[n]>> \in uniformMap
  <2>1. CASE n \in known BY <1>4, <2>1
  <2>2. CASE n \notin known
    <3>1. choice[n] \in (Uniforms \ uniforms) \union {NoHandle} BY <1>2, <2>2
    <3> QED BY <3>1 DEF NewIn
  <2> QED BY <2>1, <2>2
<1>8. \A m, n \in ToSet(names) : choice[m] = choice[n] => m = n \/ choice[n] = NoHandle BY <1>2
<1> HIDE DEF N, known
<1>9. NewNames(uniformMap, uniforms, NewIn(names, choice), choice)
      /\ \A n \in ToSet(names) : \/ n \in NewIn(names, choice) \/ choice[n] = NoHandle
                                 \/ <<n, choice[n]>> \in uniformMap
  BY <1>6, <1>7 DEF N
<1> HIDE DEF names
<1>10. Chosen(names, choice) BY <1>1, <1>3, <1>8, <1>9 DEF Chosen
<1> QED BY <1>10 DEF names

\* What the shader lists.
LEMMA ListOfIs ==
    ASSUME NEW names, NEW choice, Chosen(names, choice)
    PROVE  /\ ListOf(names, choice) \in Seq(Uniforms \union {NoHandle})
           /\ Once(ListOf(names, choice))
           /\ ToSet(ListOf(names, choice)) = {choice[n] : n \in ToSet(names)}
<1> DEFINE l == ListOf(names, choice)
<1>1. /\ names \in Seq(Names) /\ IsInjective(names)
      /\ \A n \in ToSet(names) : choice[n] \in Uniforms \union {NoHandle}
      /\ \A m, n \in ToSet(names) : choice[m] = choice[n] => m = n \/ choice[n] = NoHandle
  BY DEF Chosen
<1>2. Len(names) \in Nat /\ DOMAIN names = 1 .. Len(names) BY <1>1, LenProperties
<1>3. \A i \in DOMAIN names : names[i] \in ToSet(names) BY DEF ToSet
<1>4. l = [i \in 1 .. Len(names) |-> choice[names[i]]] BY <1>2 DEF ListOf
<1>5. \A i \in 1 .. Len(names) : choice[names[i]] \in Uniforms \union {NoHandle} BY <1>1, <1>2, <1>3
<1>6. l \in Seq(Uniforms \union {NoHandle}) BY <1>2, <1>4, <1>5, IsASeq
<1>7. \A i, j \in DOMAIN names : names[i] = names[j] => i = j BY <1>1 DEF IsInjective
<1>8. Once(l)
  <2>1. DOMAIN l = DOMAIN names /\ \A i \in DOMAIN names : l[i] = choice[names[i]] BY DEF ListOf
  <2> HIDE DEF l
  <2> QED BY <1>1, <1>3, <1>7, <2>1 DEF Once
<1>9. ToSet(l) = {choice[n] : n \in ToSet(names)} BY DEF ListOf, ToSet
<1> QED BY <1>6, <1>8, <1>9

\* The commands, name after name.
Commands(made, names, choice) ==
    /\ made \in [0 .. Len(names) -> Seq(PreCommands)] /\ made[0] = <<>>
    /\ \A i \in 1 .. Len(names) :
          made[i] = IF names[i] \in NewIn(names, choice)
                       THEN Append(made[i - 1],
                                   [op |-> "CreateUniform", h |-> choice[names[i]], name |-> names[i]])
                       ELSE made[i - 1]

\* The commands that create the new uniforms of a shader are appended one after the other.
LEMMA CommandsAre ==
    ASSUME NEW names, NEW choice, Chosen(names, choice)
    PROVE  \E made : Commands(made, names, choice)
                     /\ made[Len(names)] = UniformCommands(names, choice)
<1> DEFINE n == Len(names)
           c(i) == [op |-> "CreateUniform", h |-> choice[names[i]], name |-> names[i]]
           Next1(q, i) == IF choice[names[i]] \in uniforms \union {NoHandle} THEN q
                          ELSE Append(q, c(i))
           Is(f, k) == f[0] = <<>> /\ \A i \in 1 .. k : f[i] = Next1(f[i - 1], i)
           S == {k \in 0 .. n : \E f \in [0 .. k -> Seq(PreCommands)] : Is(f, k)}
<1>1. names \in Seq(Names) /\ \A x \in ToSet(names) : choice[x] \in Uniforms \union {NoHandle}
  BY DEF Chosen
<1>2. n \in Nat /\ DOMAIN names = 1 .. n BY <1>1, LenProperties
<1>3. \A i \in 1 .. n : names[i] \in ToSet(names) /\ names[i] \in Names BY <1>1, <1>2 DEF ToSet
<1>4. ASSUME NEW q \in Seq(PreCommands), NEW i \in 1 .. n PROVE Next1(q, i) \in Seq(PreCommands)
  <2>1. CASE choice[names[i]] \in uniforms \union {NoHandle} BY <2>1
  <2>2. CASE choice[names[i]] \notin uniforms \union {NoHandle}
    <3>1. choice[names[i]] \in Uniforms BY <1>1, <1>3, <2>2
    <3>2. c(i) \in PreCommands BY <1>3, <3>1 DEF PreCommands
    <3> HIDE DEF c
    <3> QED BY <2>2, <3>2
  <2> QED BY <2>1, <2>2
<1> HIDE DEF n, Next1
<1>5. 0 \in S
  <2> DEFINE f == [i \in 0 .. 0 |-> <<>>]
  <2>1. <<>> \in Seq(PreCommands) BY EmptySeq
  <2>2. f \in [0 .. 0 -> Seq(PreCommands)] /\ Is(f, 0) BY <2>1
  <2>3. 0 \in 0 .. n BY <1>2
  <2> HIDE DEF f, Is
  <2> QED BY <2>2, <2>3
<1>6. ASSUME NEW k \in 0 .. n - 1, k \in S PROVE k + 1 \in S
  <2>1. PICK f \in [0 .. k -> Seq(PreCommands)] : Is(f, k) BY <1>6
  <2>2. k \in Nat /\ k + 1 \in 1 .. n /\ k + 1 \in 0 .. n /\ (k + 1) - 1 = k BY <1>2
  <2> DEFINE q == Next1(f[k], k + 1)
             g == [i \in 0 .. k + 1 |-> IF i = k + 1 THEN q ELSE f[i]]
  <2>3. f[k] \in Seq(PreCommands) BY <2>1, <2>2
  <2>4. q \in Seq(PreCommands) BY <1>4, <2>2, <2>3
  <2> HIDE DEF q
  <2>5. \A i \in 0 .. k : g[i] = f[i] BY <2>2
  <2>6. g[k + 1] = q BY <2>2
  <2>7. g \in [0 .. k + 1 -> Seq(PreCommands)] BY <2>1, <2>2, <2>4
  <2> HIDE DEF g
  <2>8. \A i \in 1 .. k + 1 : g[i] = Next1(g[i - 1], i)
    <3> TAKE i \in 1 .. k + 1
    <3>1. CASE i = k + 1
      <4>1. i - 1 = k /\ k \in 0 .. k BY <2>2, <3>1
      <4> QED BY <2>5, <2>6, <3>1, <4>1 DEF q
    <3>2. CASE i # k + 1
      <4>1. i \in 1 .. k /\ i - 1 \in 0 .. k /\ i \in 0 .. k BY <2>2, <3>2
      <4> QED BY <2>1, <2>5, <4>1
    <3> QED BY <3>1, <3>2
  <2>9. g[0] = <<>> BY <2>1, <2>2, <2>5
  <2> QED BY <2>2, <2>7, <2>8, <2>9
<1>7. n \in S
  <2> HIDE DEF S
  <2>1. \A k \in 0 .. n : k \in S BY <1>2, <1>5, <1>6, UpTo
  <2>2. n \in 0 .. n BY <1>2
  <2> QED BY <2>1, <2>2
<1> DEFINE Rec(f) == f = [i \in 0 .. Len(names) |->
               IF i = 0 THEN <<>>
               ELSE IF choice[names[i]] \in uniforms \union {NoHandle} THEN f[i - 1]
               ELSE Append(f[i - 1],
                           [op |-> "CreateUniform", h |-> choice[names[i]], name |-> names[i]])]
<1>8. \E f : Rec(f)
  <2>1. PICK f \in [0 .. n -> Seq(PreCommands)] : Is(f, n) BY <1>7
  <2>2. f = [i \in 0 .. n |-> f[i]] BY <2>1
  <2>3. \A i \in 0 .. n : i = 0 \/ i \in 1 .. n BY <1>2
  <2>4. \A i \in 0 .. n : f[i] = IF i = 0 THEN <<>> ELSE Next1(f[i - 1], i) BY <2>1, <2>3
  <2>5. [i \in 0 .. n |-> f[i]] = [i \in 0 .. n |-> IF i = 0 THEN <<>> ELSE Next1(f[i - 1], i)]
    BY <2>4
  <2>6. f = [i \in 0 .. n |-> IF i = 0 THEN <<>> ELSE Next1(f[i - 1], i)] BY <2>2, <2>5
  <2>7. Rec(f) BY <2>6 DEF n, Next1
  <2> QED BY <2>7
<1> DEFINE made == CHOOSE f : Rec(f)
<1>9. Rec(made) BY <1>8
<1>10. UniformCommands(names, choice) = made[Len(names)] BY DEF UniformCommands
<1> HIDE DEF made
<1>11. /\ \A i \in 0 .. n : made[i] = IF i = 0 THEN <<>> ELSE Next1(made[i - 1], i)
       /\ DOMAIN made = 0 .. n /\ made = [i \in 0 .. n |-> made[i]]
  BY <1>9 DEF n, Next1
<1> HIDE DEF Rec
<1>12. \A k \in 0 .. n : made[k] \in Seq(PreCommands)
  <2> DEFINE R == {k \in 0 .. n : made[k] \in Seq(PreCommands)}
  <2>1. 0 \in R
    <3>1. 0 \in 0 .. n BY <1>2
    <3>2. made[0] = <<>> BY <1>11, <3>1
    <3>3. <<>> \in Seq(PreCommands) BY EmptySeq
    <3> QED BY <3>1, <3>2, <3>3
  <2>2. ASSUME NEW k \in 0 .. n - 1, k \in R PROVE k + 1 \in R
    <3>1. k + 1 \in 1 .. n /\ k + 1 \in 0 .. n /\ (k + 1) - 1 = k /\ k + 1 # 0 BY <1>2
    <3>2. made[k + 1] = Next1(made[k], k + 1) BY <1>11, <3>1
    <3>3. made[k] \in Seq(PreCommands) BY <2>2
    <3>4. made[k + 1] \in Seq(PreCommands) BY <1>4, <3>1, <3>2, <3>3
    <3> QED BY <3>1, <3>4
  <2> HIDE DEF R
  <2>3. \A k \in 0 .. n : k \in R BY <1>2, <2>1, <2>2, UpTo
  <2> QED BY <2>3 DEF R
<1>13. made \in [0 .. n -> Seq(PreCommands)] BY <1>11, <1>12
<1>14. made[0] = <<>>
  <2>1. 0 \in 0 .. n BY <1>2
  <2> QED BY <1>11, <2>1
<1>15. ASSUME NEW i \in 1 .. n
       PROVE  made[i] = IF names[i] \in NewIn(names, choice) THEN Append(made[i - 1], c(i))
                                                             ELSE made[i - 1]
  <2>1. i \in 0 .. n /\ i # 0 BY <1>2
  <2>2. made[i] = Next1(made[i - 1], i) BY <1>11, <2>1
  <2>3. names[i] \in NewIn(names, choice) <=> choice[names[i]] \notin uniforms \union {NoHandle}
    BY <1>3 DEF NewIn
  <2> HIDE DEF c
  <2> QED BY <2>2, <2>3 DEF Next1
<1>16. Commands(made, names, choice) BY <1>13, <1>14, <1>15 DEF Commands, n
<1> QED BY <1>10, <1>16

-----------------------------------------------------------------------------
(* createShader with a new binary: its shader.                              *)

\* A shader more, with a count of one.
LEMMA ShadersGrow ==
    ASSUME NEW r, NEW d, NEW ws, NEW X, ShadersExact(r, ws, X), NEW s \in Shaders \ X, NEW b,
           \A x \in X : d.shader[x].refCount = r.shader[x].refCount /\ d.shader[x].bin = r.shader[x].bin,
           d.shader[s].refCount = 1, d.shader[s].bin = b,
           d.shaders = r.shaders \union {<<b, s>>}, \A h : <<b, h>> \notin r.shaders,
           d.frame.freeShader = r.frame.freeShader,
           Named(d.frame.post, "DestroyShader") = Named(r.frame.post, "DestroyShader")
    PROVE  ShadersExact(d, [ws EXCEPT ![s] = 1], X \union {s})
<1> DEFINE w2 == [ws EXCEPT ![s] = 1]
           X2 == X \union {s}
<1>1. /\ Wants(ws, Shaders, X) /\ \A x \in X : r.shader[x].refCount = ws[x]
      /\ QueueExact(r.frame.freeShader, ws, X, r.frame.post, "DestroyShader")
      /\ r.shaders = MapOf(r.shader, ws, X) /\ OneToOne(r.shaders)
  BY DEF ShadersExact
<1>2. ws \in [Shaders -> Nat] /\ X \subseteq Shaders /\ \A x \in Shaders \ X : ws[x] = 0
  BY <1>1 DEF Wants
<1>3. /\ w2 \in [Shaders -> Nat] /\ w2[s] = 1 /\ \A x \in X : w2[x] = ws[x]
      /\ \A x \in Shaders \ X2 : w2[x] = 0
  BY <1>2
<1> HIDE DEF w2
<1>4. Wants(w2, Shaders, X2) BY <1>2, <1>3 DEF Wants
<1>5. \A x \in X2 : d.shader[x].refCount = w2[x] BY <1>1, <1>3
<1>6. {x \in X2 : w2[x] = 0} = {x \in X : ws[x] = 0} BY <1>3
<1>7. QueueExact(d.frame.freeShader, w2, X2, d.frame.post, "DestroyShader")
  BY <1>1, <1>6 DEF QueueExact
<1>8. d.shaders = MapOf(d.shader, w2, X2)
  <2>1. {x \in X2 : w2[x] > 0} = {x \in X : ws[x] > 0} \union {s} BY <1>3
  <2>2. MapOf(d.shader, w2, X2) = {<<d.shader[x].bin, x>> : x \in {x \in X : ws[x] > 0}}
                                     \union {<<b, s>>}
    BY <2>1 DEF MapOf
  <2>3. {<<d.shader[x].bin, x>> : x \in {x \in X : ws[x] > 0}}
           = {<<r.shader[x].bin, x>> : x \in {x \in X : ws[x] > 0}}
    OBVIOUS
  <2> QED BY <1>1, <2>2, <2>3 DEF MapOf
<1>9. OneToOne(d.shaders)
  <2>1. \A e \in r.shaders : e = <<e[1], e[2]>> /\ e[2] # s /\ e[1] # b
    <3>1. \A e \in r.shaders : e = <<e[1], e[2]>> /\ e[2] # s BY <1>1 DEF MapOf
    <3>2. \A e \in r.shaders : e[1] # b BY <3>1
    <3> QED BY <3>1, <3>2
  <2> QED BY <1>1, <2>1 DEF OneToOne
<1>10. ShadersExact(d, w2, X2) BY <1>4, <1>5, <1>7, <1>8, <1>9 DEF ShadersExact
<1> QED BY <1>10 DEF w2

\* It lists l.
Relisted(sh, sh2, s, l) ==
    \A x \in Shaders : sh2[x].uniforms = IF x = s THEN l ELSE sh[x].uniforms

\* A new shader counts once for each uniform it lists.
LEMMA UsersMore ==
    ASSUME NEW sh, NEW sh2, NEW s \in Shaders, NEW l, NEW a \in [Uniforms -> Nat],
           Relisted(sh, sh2, s, l), sh[s].uniforms = <<>>
    PROVE  \A u \in Uniforms : Totals(sh2, a)[u] = IF u \in ToSet(l) THEN Totals(sh, a)[u] + 1
                                                                    ELSE Totals(sh, a)[u]
<1> USE DEF Relisted
<1>1. ToSet(<<>>) = {} BY DEF ToSet
<1> TAKE u \in Uniforms
<1>2. /\ IsFiniteSet(Users(sh, u)) /\ Cardinality(Users(sh, u)) \in Nat
      /\ Cardinality(Users(sh2, u)) \in Nat /\ a[u] \in Nat
  BY UsersFinite
<1>3. /\ Totals(sh, a)[u] = a[u] + Cardinality(Users(sh, u))
      /\ Totals(sh2, a)[u] = a[u] + Cardinality(Users(sh2, u))
  BY TotalsType
<1>4. CASE u \in ToSet(l)
  <2>1. Users(sh2, u) = Users(sh, u) \union {s} /\ s \notin Users(sh, u) BY <1>1, <1>4 DEF Users
  <2>2. Cardinality(Users(sh2, u)) = Cardinality(Users(sh, u)) + 1
    BY <1>2, <2>1, FS_AddElement
  <2> QED BY <1>2, <1>3, <1>4, <2>2
<1>5. CASE u \notin ToSet(l)
  <2>1. Users(sh2, u) = Users(sh, u) BY <1>1, <1>5 DEF Users
  <2> QED BY <1>3, <1>5, <2>1
<1> QED BY <1>4, <1>5

\* What is left when createShader has recorded its commands.
ShaderMade(s, bin, choice) ==
    LET names == UniformsOf[bin]
        New == NewIn(names, choice)
    IN  /\ UNCHANGED <<programs, render, stage, objectVars>>
        /\ s \in Shaders \ shaders /\ shaders' = shaders \union {s}
        /\ uniforms' = uniforms \union {choice[n] : n \in New}
        /\ uniformMap' = uniformMap \union Pairs(New, choice)
        /\ submit'.freeUniform = submit.freeUniform
        /\ \A x \in Shaders \ {s} : shaderRef'[x] = shaderRef[x]
        /\ shaderRef'[s].uniforms = ListOf(names, choice)
        /\ SameLinks
        /\ submit'.pre = submit.pre \o (UniformCommands(names, choice)
                                           \o <<[op |-> "CreateShader", h |-> s, bin |-> bin]>>)
        /\ submit'.draws = submit.draws

ChoiceMade(names, choice, New, ur, Y2) ==
    /\ New = NewIn(names, choice)
    /\ ur = [u \in Uniforms |->
                IF \E n \in New : choice[n] = u THEN [refCount |-> 1, num |-> 1]
                ELSE IF \E n \in ToSet(names) : choice[n] = u
                     THEN [uniformRef[u] EXCEPT !.refCount = @ + 1]
                     ELSE uniformRef[u]]
    /\ Y2 = uniforms \union {choice[n] : n \in New}

\* The uniforms the new shader lists are counted once more, those it has made once.
LEMMA ChoiceCounts ==
    ASSUME Types, ApiInv, NEW names, NEW choice, Chosen(names, choice),
           NEW s \in Shaders \ shaders, NEW sh2, Relisted(shaderRef, sh2, s, ListOf(names, choice)),
           NEW New, NEW ur, NEW Y2, ChoiceMade(names, choice, New, ur, Y2),
           NEW d, d.uniform = ur, d.uniforms = uniformMap \union Pairs(New, choice),
           SameQueues(submit, d.frame)
    PROVE  /\ UniformsExact(d, Totals(sh2, app.uniform), Y2)
           /\ ur \in [Uniforms -> UniformRefs]
           /\ Y2 \subseteq Uniforms
           /\ uniformMap \union Pairs(New, choice) \subseteq Names \X Uniforms
           /\ Listed(ListOf(names, choice), Y2)
<1> DEFINE l == ListOf(names, choice)
           wu == Totals(shaderRef, app.uniform)
           w2 == Totals(sh2, app.uniform)
<1> USE DEF ChoiceMade
<1>1. RefInv(Refs, Wanted, app.uniform, shaders, uniforms) /\ uniforms \subseteq Uniforms BY ApiFacts
<1>2. Refs.shader = shaderRef /\ Refs.frame = submit /\ Refs.uniform = uniformRef
      /\ Refs.uniforms = uniformMap
  BY DEF Refs
<1> HIDE DEF Refs
<1>3. UniformsExact(Refs, wu, uniforms) /\ Lists(shaderRef, Wanted, uniforms)
      /\ app.uniform \in [Uniforms -> Nat]
  BY <1>1, <1>2 DEF RefInv, Exact
<1>4. Wants(wu, Uniforms, uniforms) /\ Mapped(uniformMap, wu, uniforms)
      /\ \A u \in uniforms : uniformRef[u].refCount = wu[u]
  BY <1>2, <1>3 DEF UniformsExact
<1>5. wu \in [Uniforms -> Nat] /\ w2 \in [Uniforms -> Nat] BY <1>3, TotalsType
<1>6. shaderRef[s].uniforms = <<>>
  <2>1. Wanted[s] = 0
    <3> HIDE DEF Wanted
    <3>1. Wanted \in [Shaders -> Nat] /\ (Wanted[s] > 0 => s \in shaders) BY ApiFacts
    <3> QED BY <3>1
  <2> HIDE DEF Wanted
  <2> QED BY <1>3, <2>1 DEF Lists
<1>7. \A u \in Uniforms : w2[u] = IF u \in ToSet(l) THEN wu[u] + 1 ELSE wu[u]
  <2>1. Relisted(shaderRef, sh2, s, l) OBVIOUS
  <2> HIDE DEF l, ChoiceMade
  <2>2. \A u \in Uniforms : Totals(sh2, app.uniform)[u]
                              = IF u \in ToSet(l) THEN Totals(shaderRef, app.uniform)[u] + 1
                                                  ELSE Totals(shaderRef, app.uniform)[u]
    <3> DEFINE a == app.uniform
               sh == shaderRef
    <3>1. a \in [Uniforms -> Nat] /\ sh[s].uniforms = <<>> BY <1>3, <1>6
    <3>2. Relisted(sh, sh2, s, l) BY <2>1
    <3> HIDE DEF a, sh
    <3>3. \A u \in Uniforms : Totals(sh2, a)[u] = IF u \in ToSet(l) THEN Totals(sh, a)[u] + 1
                                                                    ELSE Totals(sh, a)[u]
      BY <3>1, <3>2, UsersMore
    <3> QED BY <3>3 DEF a, sh
  <2> QED BY <2>2
<1> HIDE DEF wu, w2
<1>8. /\ l \in Seq(Uniforms \union {NoHandle}) /\ Once(l)
      /\ ToSet(l) = {choice[n] : n \in ToSet(names)}
  BY ListOfIs
<1> HIDE DEF l
<1>9. /\ names \in Seq(Names)
      /\ \A n \in ToSet(names) : choice[n] \in Uniforms \union {NoHandle}
      /\ NewNames(uniformMap, uniforms, New, choice)
      /\ \A n \in ToSet(names) : n \in New \/ choice[n] = NoHandle \/ <<n, choice[n]>> \in uniformMap
  BY DEF Chosen
<1>10. /\ \A n \in New : /\ n \in ToSet(names) /\ choice[n] \in Uniforms \ uniforms
                         /\ choice[n] \in ToSet(l) /\ wu[choice[n]] = 0 /\ w2[choice[n]] = 1
  <2>1. \A n \in New : n \in ToSet(names) /\ choice[n] \in Uniforms \ uniforms /\ choice[n] \in ToSet(l)
    BY <1>8, <1>9 DEF NewIn
  <2>2. \A n \in New : wu[choice[n]] = 0 BY <1>4, <2>1 DEF Wants
  <2> QED BY <1>7, <2>1, <2>2
<1>11. \A u \in Uniforms : u \in ToSet(l) => u \in Y2 /\ (u \in uniforms => wu[u] > 0)
  <2> TAKE u \in Uniforms
  <2> HAVE u \in ToSet(l)
  <2>1. PICK n \in ToSet(names) : u = choice[n] BY <1>8
  <2>2. u # NoHandle BY NoHandleAssumption
  <2>3. CASE n \in New BY <1>10, <2>1, <2>3
  <2>4. CASE n \notin New
    <3>1. <<n, u>> \in uniformMap BY <1>9, <2>1, <2>2, <2>4
    <3>2. u \in uniforms /\ wu[u] > 0 BY <3>1, NamedUniform DEF wu
    <3> QED BY <3>2
  <2> QED BY <2>3, <2>4
<1>12. Y2 \subseteq Uniforms BY <1>1, <1>10
<1>13. Wants(w2, Uniforms, Y2)
  <2>1. \A u \in Uniforms \ Y2 : w2[u] = 0
    <3> TAKE u \in Uniforms \ Y2
    <3>1. u \notin ToSet(l) /\ u \notin uniforms BY <1>11
    <3>2. wu[u] = 0 BY <1>4, <3>1 DEF Wants
    <3> QED BY <1>7, <3>1, <3>2
  <2> QED BY <1>5, <1>12, <2>1 DEF Wants
<1>14. uniformRef \in [Uniforms -> UniformRefs] /\ uniformMap \subseteq Names \X Uniforms
  BY UniformMapIs
<1>15. \A u \in Y2 : d.uniform[u].refCount = w2[u]
  <2> TAKE u \in Y2
  <2>1. u \in Uniforms BY <1>12
  <2>2. CASE \E n \in New : choice[n] = u
    <3>1. d.uniform[u] = [refCount |-> 1, num |-> 1] BY <2>1, <2>2
    <3> QED BY <1>10, <2>2, <3>1
  <2>3. CASE ~ \E n \in New : choice[n] = u
    <3>1. u \in uniforms BY <2>3
    <3>2. uniformRef[u].refCount = wu[u] /\ uniformRef[u] \in UniformRefs BY <1>4, <1>14, <2>1, <3>1
    <3>3. u \in ToSet(l) <=> \E n \in ToSet(names) : choice[n] = u BY <1>8
    <3>4. CASE u \in ToSet(l)
      <4>1. d.uniform[u] = [uniformRef[u] EXCEPT !.refCount = @ + 1] BY <2>1, <2>3, <3>3, <3>4
      <4>2. d.uniform[u].refCount = uniformRef[u].refCount + 1 BY <3>2, <4>1 DEF UniformRefs
      <4> QED BY <1>7, <2>1, <3>2, <3>4, <4>2
    <3>5. CASE u \notin ToSet(l)
      <4>1. d.uniform[u] = uniformRef[u] BY <2>1, <2>3, <3>3, <3>5
      <4> QED BY <1>7, <2>1, <3>2, <3>5, <4>1
    <3> QED BY <3>4, <3>5
  <2> QED BY <2>2, <2>3
<1>16. ur \in [Uniforms -> UniformRefs]
  <2> SUFFICES ASSUME NEW u \in Uniforms PROVE ur[u] \in UniformRefs
    OBVIOUS
  <2>1. [refCount |-> 1, num |-> 1] \in UniformRefs BY DEF UniformRefs
  <2>2. uniformRef[u] \in UniformRefs /\ [uniformRef[u] EXCEPT !.refCount = @ + 1] \in UniformRefs
    BY <1>14 DEF UniformRefs
  <2> QED BY <2>1, <2>2
<1>17. \A u \in uniforms : (w2[u] = 0 <=> wu[u] = 0) /\ (w2[u] > 0 <=> wu[u] > 0)
  <2> TAKE u \in uniforms
  <2>1. u \in Uniforms /\ wu[u] \in Nat BY <1>1, <1>5
  <2> QED BY <1>7, <1>11, <2>1
<1>18. \A u \in Y2 \ uniforms : w2[u] > 0 BY <1>10
<1>19. Mapped(d.uniforms, w2, Y2)
  <2>1. MoreCounted(uniforms, Y2, wu, w2, New, choice)
    <3>1. \A u : u \in Y2 <=> u \in uniforms \/ \E n \in New : u = choice[n] OBVIOUS
    <3>2. \A n \in New : w2[choice[n]] > 0 BY <1>10
    <3> QED BY <1>17, <3>1, <3>2 DEF MoreCounted
  <2>2. IsRelation(uniformMap) BY <1>14 DEF IsRelation
  <2>3. Mapped(uniformMap \union Pairs(New, choice), w2, Y2)
    <3> QED BY <1>4, <1>9, <2>1, <2>2, MapGrows
  <2> QED BY <2>3
<1>20. UniformsExact(d, w2, Y2)
  <2>1. d.frame.freeUniform = Refs.frame.freeUniform
        /\ Named(d.frame.post, "DestroyUniform") = Named(Refs.frame.post, "DestroyUniform")
    BY <1>2 DEF SameQueues
  <2>2. uniforms \subseteq Y2 OBVIOUS
  <2>3. \A u \in uniforms : w2[u] = 0 <=> wu[u] = 0 BY <1>17
  <2>4. MoreUniforms(Refs, d, wu, w2, uniforms, Y2)
    BY <1>13, <1>15, <1>18, <1>19, <2>1, <2>2, <2>3 DEF MoreUniforms
  <2> QED BY <1>3, <2>4, UniformsGrow
<1>21. uniformMap \union Pairs(New, choice) \subseteq Names \X Uniforms
  <2>1. ToSet(names) \subseteq Names
    <3>1. DOMAIN names = 1 .. Len(names) /\ \A i \in 1 .. Len(names) : names[i] \in Names
      BY <1>9, LenProperties
    <3> QED BY <3>1 DEF ToSet
  <2>2. \A n \in New : n \in Names /\ choice[n] \in Uniforms BY <1>10, <2>1
  <2> QED BY <1>14, <2>2 DEF Pairs
<1>22. Listed(l, Y2)
  <2>1. ToSet(l) \subseteq Uniforms \union {NoHandle} BY <1>8, <1>9
  <2> QED BY <1>8, <1>11, <2>1 DEF Listed
<1>23. UniformsExact(d, Totals(sh2, app.uniform), Y2) BY <1>20 DEF w2
<1>24. Listed(ListOf(names, choice), Y2) BY <1>22 DEF l
<1> QED BY <1>12, <1>16, <1>21, <1>23, <1>24

\* createShader of a new binary, with the uniforms it shares and those it creates.
LEMMA CreateShaderKeeps ==
    ASSUME Types, ApiInv, NEW s \in Shaders, NEW bin \in Binaries,
           NEW choice \in UniformChoices(bin), CreateShader(s, bin, choice)
    PROVE  /\ Types' /\ ApiInv' /\ ShaderMade(s, bin, choice)
           /\ Chosen(UniformsOf[bin], choice) /\ shaderRef'[s].refCount > 0
<1> DEFINE names == UniformsOf[bin]
           New == NewIn(names, choice)
           l == ListOf(names, choice)
           k == [refCount |-> 1, bin |-> bin, uniforms |-> l]
           sh2 == [shaderRef EXCEPT ![s] = k]
           ur == [u \in Uniforms |->
                 IF \E n \in New : choice[n] = u THEN [refCount |-> 1, num |-> 1]
                 ELSE IF \E n \in ToSet(names) : choice[n] = u
                      THEN [uniformRef[u] EXCEPT !.refCount = @ + 1]
                      ELSE uniformRef[u]]
           Y2 == uniforms \union {choice[n] : n \in New}
           cmds == UniformCommands(names, choice) \o <<[op |-> "CreateShader", h |-> s, bin |-> bin]>>
           g == [submit EXCEPT !.pre = @ \o cmds]
           d == [shader |-> sh2, shaders |-> shaderMap \union {<<bin, s>>}, uniform |-> ur,
                 uniforms |-> uniformMap \union Pairs(New, choice), frame |-> g]
           W == [Wanted EXCEPT ![s] = 1]
<1>1. /\ MayCall /\ Find(shaderMap, bin) = NoHandle /\ s \notin shaders
      /\ shaders' = shaders \union {s} /\ shaderMap' = shaderMap \union {<<bin, s>>}
      /\ shaderRef' = sh2 /\ uniforms' = Y2
      /\ uniformMap' = uniformMap \union Pairs(New, choice) /\ uniformRef' = ur
      /\ submit' = g /\ app' = [app EXCEPT !.shader[s] = @ + 1]
      /\ UNCHANGED <<programs, progVars, rendVars>>
  BY DEF CreateShader, NewIn, Pairs, ListOf, ShaderCommands
<1>2. Chosen(names, choice) BY ChosenIs
<1>3. /\ l \in Seq(Uniforms \union {NoHandle}) /\ Once(l) BY <1>2, ListOfIs
<1>4. RefInv(Refs, Wanted, app.uniform, shaders, uniforms) /\ Refs \in RefRecords
      /\ Wanted \in [Shaders -> Nat] /\ shaders \subseteq Shaders /\ programs \subseteq Programs
  BY ApiFacts
<1>5. Refs.shader = shaderRef /\ Refs.shaders = shaderMap /\ Refs.frame = submit BY DEF Refs
<1>6. shaderRef \in [Shaders -> ShaderRefs] /\ shaderMap \subseteq Binaries \X Shaders
  BY <1>4, <1>5 DEF RefRecords
<1>7. ShadersExact(Refs, Wanted, shaders) /\ Lists(shaderRef, Wanted, uniforms)
      /\ NoRepeat(submit.post) /\ app.uniform \in [Uniforms -> Nat]
  BY <1>4, <1>5 DEF RefInv, Exact
<1>8. UniformCommands(names, choice) \in Seq(PreCommands)
  <2>1. PICK made : Commands(made, names, choice) /\ made[Len(names)] = UniformCommands(names, choice)
    BY <1>2, CommandsAre
  <2>2. Len(names) \in 0 .. Len(names)
    <3>1. names \in Seq(Names) BY <1>2 DEF Chosen
    <3>2. Len(names) \in Nat BY <3>1, LenProperties
    <3> QED BY <3>2
  <2> QED BY <2>1, <2>2 DEF Commands
<1>9. cmds \in Seq(PreCommands)
  <2>1. [op |-> "CreateShader", h |-> s, bin |-> bin] \in PreCommands BY DEF PreCommands
  <2> QED BY <1>8, <2>1
<1> HIDE DEF cmds
<1>10. submit \in Frames BY DEF Types
<1>11. /\ g \in Frames /\ g.pre = submit.pre \o cmds /\ g.post = submit.post
       /\ g.draws = submit.draws /\ g.freeProgram = submit.freeProgram
       /\ g.freeShader = submit.freeShader /\ g.freeUniform = submit.freeUniform
  <2>1. submit.pre \in Seq(PreCommands) BY <1>10 DEF Frames
  <2>2. submit.pre \o cmds \in Seq(PreCommands) BY <1>9, <2>1
  <2> QED BY <1>10, <2>2 DEF Frames
<1> HIDE DEF g
<1>12. SameQueues(submit, g) /\ SameApart(submit, g) BY <1>7, <1>11 DEF SameQueues, SameApart
<1>13. k \in ShaderRefs BY <1>3 DEF ShaderRefs
<1>14. /\ sh2 \in [Shaders -> ShaderRefs] /\ sh2[s] = k
       /\ \A x \in Shaders \ {s} : sh2[x] = shaderRef[x]
  BY <1>6, <1>13
<1>15. k.refCount = 1 /\ k.bin = bin /\ k.uniforms = l OBVIOUS
<1> HIDE DEF k, l, sh2
<1>16. Relisted(shaderRef, sh2, s, ListOf(names, choice)) BY <1>14, <1>15 DEF l, Relisted
<1>17. /\ d.shader = sh2 /\ d.shaders = shaderMap \union {<<bin, s>>} /\ d.uniform = ur
       /\ d.uniforms = uniformMap \union Pairs(New, choice) /\ d.frame = g
  OBVIOUS
<1> HIDE DEF New
<1>18. New = NewIn(names, choice) BY DEF New
<1>19. ChoiceMade(names, choice, New, ur, Y2) /\ Y2 = uniforms \union {choice[n] : n \in New}
  BY <1>18 DEF ChoiceMade
<1>20. d = [shader |-> sh2, shaders |-> shaderMap \union {<<bin, s>>}, uniform |-> ur,
            uniforms |-> uniformMap \union Pairs(New, choice), frame |-> g]
  OBVIOUS
<1> HIDE DEF d, ur, Y2, names
<1>21. s \in Shaders \ shaders BY <1>1
<1>22. /\ UniformsExact(d, Totals(sh2, app.uniform), Y2)
       /\ ur \in [Uniforms -> UniformRefs] /\ Y2 \subseteq Uniforms
       /\ uniformMap \union Pairs(New, choice) \subseteq Names \X Uniforms
       /\ Listed(ListOf(names, choice), Y2)
  <2>1. SameQueues(submit, d.frame) BY <1>12, <1>17
  <2> HIDE DEF Wanted, W
  <2> QED BY <1>2, <1>16, <1>17, <1>19, <1>21, <2>1, ChoiceCounts
<1>23. d \in RefRecords
  <2>1. shaderMap \union {<<bin, s>>} \subseteq Binaries \X Shaders BY <1>6
  <2> QED BY <1>11, <1>14, <1>20, <1>22, <2>1 DEF RefRecords
<1> HIDE DEF Refs, Wanted
<1>24. Wanted[s] = 0 /\ app.shader[s] = 0 /\ Cardinality(LinksTo(s)) = 0
  <2>1. /\ Wanted[s] = app.shader[s] + Cardinality(LinksTo(s))
        /\ app.shader[s] \in Nat /\ Cardinality(LinksTo(s)) \in Nat
        /\ Wanted[s] > 0 => s \in shaders
    BY ApiFacts
  <2>2. Wanted[s] = 0 BY <1>1, <2>1
  <2> QED BY <2>1, <2>2
<1>25. /\ W \in [Shaders -> Nat] /\ W[s] = 1 /\ \A x \in Shaders \ {s} : W[x] = Wanted[x]
  BY <1>4
<1>26. ShadersExact(d, W, shaders \union {s})
  <2>1. \A x \in shaders : d.shader[x].refCount = Refs.shader[x].refCount
                           /\ d.shader[x].bin = Refs.shader[x].bin
    BY <1>1, <1>4, <1>5, <1>14, <1>17
  <2>2. d.shader[s].refCount = 1 /\ d.shader[s].bin = bin BY <1>14, <1>15, <1>17
  <2>3. OneToOne(shaderMap) BY <1>5, <1>7 DEF ShadersExact
  <2>4. \A h : <<bin, h>> \notin Refs.shaders BY <1>1, <1>5, <1>6, <2>3, FindIs, NoHandleAssumption
  <2>5. d.frame.freeShader = Refs.frame.freeShader
        /\ Named(d.frame.post, "DestroyShader") = Named(Refs.frame.post, "DestroyShader")
    BY <1>5, <1>11, <1>17
  <2>6. d.shaders = Refs.shaders \union {<<bin, s>>} BY <1>5, <1>17
  <2> QED BY <1>7, <1>21, <2>1, <2>2, <2>4, <2>5, <2>6, ShadersGrow
<1> HIDE DEF W
<1>27. Lists(sh2, W, Y2)
  <2> SUFFICES ASSUME NEW x \in Shaders
               PROVE  Listed(sh2[x].uniforms, Y2) /\ (W[x] = 0 => sh2[x].uniforms = <<>>)
    BY DEF Lists
  <2>1. CASE x = s BY <1>16, <1>22, <1>25, <2>1 DEF Relisted
  <2>2. CASE x # s
    <3>1. sh2[x].uniforms = shaderRef[x].uniforms /\ W[x] = Wanted[x] BY <1>16, <1>25, <2>2 DEF Relisted
    <3>2. Listed(shaderRef[x].uniforms, uniforms) /\ (Wanted[x] = 0 => shaderRef[x].uniforms = <<>>)
      BY <1>7 DEF Lists
    <3>3. uniforms \subseteq Y2 BY <1>19
    <3> QED BY <3>1, <3>2, <3>3 DEF Listed
  <2> QED BY <2>1, <2>2
<1>28. RefInv(d, W, app.uniform, shaders \union {s}, Y2)
  <2>1. NoRepeat(d.frame.post) BY <1>7, <1>11, <1>17
  <2> QED BY <1>7, <1>17, <1>22, <1>23, <1>26, <1>27, <2>1 DEF RefInv, Exact
<1>29. HoldsShader(app', s, 1)
  <2>1. MaxRefs.shader \in Nat \ {0} BY BoundsAssumption
  <2>2. 1 \in 0 .. MaxRefs.shader BY <2>1
  <2>3. app' = [app EXCEPT !.shader[s] = 1] BY <1>1, <1>24
  <2> QED BY <2>2, <2>3, HoldsShaderIs
<1>30. programs' = programs /\ programRef' = programRef /\ programMap' = programMap
       /\ stage' = stage /\ render' = render /\ UNCHANGED objectVars
  BY <1>1 DEF progVars, rendVars
<1>31. \A x : (LinksTo(x))' = LinksTo(x) BY <1>30, LinksStay
<1>32. W = Wanted'
  <2>1. Wanted' = [x \in Shaders |-> app'.shader[x] + Cardinality((LinksTo(x))')] BY DEF Wanted
  <2>2. \A x \in Shaders : Wanted[x] = app.shader[x] + Cardinality(LinksTo(x)) BY ApiFacts
  <2>3. \A x \in Shaders : W[x] = app'.shader[x] + Cardinality((LinksTo(x))')
    BY <1>24, <1>25, <1>29, <1>31, <2>2 DEF HoldsShader
  <2> QED BY <1>25, <2>1, <2>3
<1>33. ProgramsExact'
  <2>1. app'.program = app.program BY <1>29 DEF HoldsShader
  <2>2. ProgramsExact BY DEF ApiInv
  <2>3. \A q \in programs : programRef'[q].refCount = app'.program[q]
    BY <1>30, <2>1, <2>2 DEF ProgramsExact
  <2>4. Wants(app'.program, Programs, programs) BY <2>1, <2>2 DEF ProgramsExact
  <2>5. \A x \in shaders : shaderRef'[x].bin = shaderRef[x].bin BY <1>1, <1>4, <1>14
  <2>6. \A x \in Shaders : IsFiniteSet((LinksTo(x))') BY <1>31, ApiFacts
  <2>7. \A q \in programs : programRef'[q].vsh = programRef[q].vsh
                            /\ programRef'[q].fsh = programRef[q].fsh
    BY <1>30
  <2>8. submit'.freeProgram = submit.freeProgram
        /\ Named(submit'.post, "DestroyProgram") = Named(submit.post, "DestroyProgram")
    BY <1>1, <1>11
  <2>9. shaders \subseteq shaders' BY <1>1
  <2> QED BY <1>30, <2>1, <2>3, <2>4, <2>5, <2>6, <2>7, <2>8, <2>9, ProgramsStay
<1>34. Becomes(d) BY <1>1, <1>17 DEF Becomes
<1>35. ApiInv'
  <2>1. submit'.draws \subseteq programs' BY <1>1, <1>11, <1>30 DEF ApiInv
  <2>2. app'.uniform = app.uniform BY <1>29 DEF HoldsShader
  <2>3. RefInv(d, W, app'.uniform, shaders', uniforms') BY <1>1, <1>28, <2>2
  <2> QED BY <1>1, <1>32, <1>33, <1>34, <2>1, <2>3, CallKeeps
<1>36. Types'
  <2>1. calls' \in 0 .. MaxCalls BY <1>1, CallTypes
  <2>2. app' \in Apps BY <1>29 DEF HoldsShader
  <2>3. FirstShader \in shaders
    <3>1. Wanted[FirstShader] > 0 BY AppTypes, ApiFacts, ShadersAssumption DEF Types, FirstTaken
    <3> QED BY <3>1, ApiFacts, ShadersAssumption
  <2>4. shaderRef'[FirstShader].bin = shaderRef[FirstShader].bin BY <1>1, <1>4, <1>14, <2>3
  <2>5. app'.shader[FirstShader] = app.shader[FirstShader]
    BY <1>1, <1>29, <2>3, ShadersAssumption DEF HoldsShader
  <2>6. FirstTaken' BY <2>4, <2>5 DEF Types, FirstTaken
  <2> QED BY <1>1, <1>11, <1>30, <2>1, <2>2, <2>6 DEF Types
<1>37. ShaderMade(s, bin, choice)
  <2>1. submit'.pre = submit.pre \o (UniformCommands(names, choice)
                                        \o <<[op |-> "CreateShader", h |-> s, bin |-> bin]>>)
    BY <1>1, <1>11 DEF cmds
  <2>2. shaderRef'[s].uniforms = ListOf(names, choice)
        /\ \A x \in Shaders \ {s} : shaderRef'[x] = shaderRef[x]
    BY <1>1, <1>14, <1>15 DEF l
  <2> QED BY <1>1, <1>11, <1>18, <1>19, <1>21, <1>30, <2>1, <2>2 DEF ShaderMade, SameLinks, names
<1>38. shaderRef'[s].refCount > 0 BY <1>1, <1>14, <1>15
<1> QED BY <1>2, <1>35, <1>36, <1>37, <1>38 DEF names

-----------------------------------------------------------------------------
(* frame.                                                                   *)

\* The queued handles are released.
Emptied(w, S, X, X2, op) ==
    /\ Wants(w, S, X2) /\ QueueExact(<<>>, w, X2, <<>>, op)
    /\ {x \in X2 : w[x] > 0} = {x \in X : w[x] > 0}
    /\ \A x \in X : w[x] > 0 => x \in X2
    /\ \A x \in X \ X2 : w[x] = 0

\* frame gives the handles back that are queued: exactly those of no count, which its commands destroy.
LEMMA QueueEmptied ==
    ASSUME NEW q, NEW w, NEW S, NEW X, NEW post, NEW op, QueueExact(q, w, X, post, op), Wants(w, S, X)
    PROVE  Emptied(w, S, X, X \ ToSet(q), op) /\ ToSet(q) \subseteq X /\ Named(post, op) = ToSet(q)
<1> DEFINE X2 == X \ ToSet(q)
<1>1. ToSet(q) = {s \in X : w[s] = 0} /\ Named(post, op) = ToSet(q) BY DEF QueueExact
<1>2. w \in [S -> Nat] /\ X \subseteq S /\ \A s \in S \ X : w[s] = 0 BY DEF Wants
<1>3. Wants(w, S, X2) BY <1>1, <1>2 DEF Wants
<1>4. ToSet(<<>>) = {} /\ IsInjective(<<>>) /\ Named(<<>>, op) = {}
  <2>1. ToSet(<<>>) = {} BY DEF ToSet
  <2>2. IsInjective(<<>>) BY DEF IsInjective
  <2> QED BY <2>1, <2>2, NamedNothing
<1>5. QueueExact(<<>>, w, X2, <<>>, op) BY <1>1, <1>4 DEF QueueExact
<1>6. \A x \in X : w[x] \in Nat BY <1>2
<1>7. \A x \in X : w[x] > 0 => x \in X2 BY <1>1
<1>8. {x \in X2 : w[x] > 0} = {x \in X : w[x] > 0} BY <1>7
<1>9. \A x \in X \ X2 : w[x] = 0 BY <1>1
<1>10. Emptied(w, S, X, X2, op) BY <1>3, <1>5, <1>7, <1>8, <1>9 DEF Emptied
<1> QED BY <1>1, <1>10

\* The counts once that is done.
LEMMA RefsFreed ==
    ASSUME NEW r, NEW ws, NEW a, NEW X, NEW Y, RefInv(r, ws, a, X, Y),
           NEW d, d = [r EXCEPT !.frame = EmptyFrame]
    PROVE  /\ RefInv(d, ws, a, X \ ToSet(r.frame.freeShader), Y \ ToSet(r.frame.freeUniform))
           /\ Emptied(ws, Shaders, X, X \ ToSet(r.frame.freeShader), "DestroyShader")
<1> DEFINE wu == Totals(r.shader, a)
           X2 == X \ ToSet(r.frame.freeShader)
           Y2 == Y \ ToSet(r.frame.freeUniform)
<1>1. /\ r \in RefRecords /\ ShadersExact(r, ws, X) /\ UniformsExact(r, wu, Y)
      /\ Lists(r.shader, ws, Y) /\ a \in [Uniforms -> Nat]
  BY DEF RefInv, Exact
<1>2. EmptyFrame \in Frames
  <2>1. <<>> \in Seq(PreCommands) /\ <<>> \in Seq(PostCommands) /\ <<>> \in Seq(Shaders)
        /\ <<>> \in Seq(Programs) /\ <<>> \in Seq(Uniforms)
    BY EmptySeq
  <2> QED BY <2>1 DEF EmptyFrame, Frames
<1>3. /\ d \in RefRecords /\ d.shader = r.shader /\ d.shaders = r.shaders
      /\ d.uniform = r.uniform /\ d.uniforms = r.uniforms /\ d.frame = EmptyFrame
  <2> HIDE DEF EmptyFrame
  <2> QED BY <1>1, <1>2 DEF RefRecords
<1>4. /\ d.frame.freeShader = <<>> /\ d.frame.freeUniform = <<>> /\ d.frame.post = <<>>
  BY <1>3 DEF EmptyFrame
<1>5. /\ Wants(ws, Shaders, X) /\ \A s \in X : r.shader[s].refCount = ws[s]
      /\ QueueExact(r.frame.freeShader, ws, X, r.frame.post, "DestroyShader")
      /\ r.shaders = MapOf(r.shader, ws, X) /\ OneToOne(r.shaders)
  BY <1>1 DEF ShadersExact
<1>6. /\ Wants(wu, Uniforms, Y) /\ \A u \in Y : r.uniform[u].refCount = wu[u]
      /\ QueueExact(r.frame.freeUniform, wu, Y, r.frame.post, "DestroyUniform")
      /\ Mapped(r.uniforms, wu, Y)
  BY <1>1 DEF UniformsExact
<1> HIDE DEF wu
<1>7. Emptied(ws, Shaders, X, X2, "DestroyShader") BY <1>5, QueueEmptied
<1>8. Emptied(wu, Uniforms, Y, Y2, "DestroyUniform") BY <1>6, QueueEmptied
<1>9. X2 \subseteq X /\ Y2 \subseteq Y OBVIOUS
<1>10. RefInv(d, ws, a, X2, Y2)
  <2> HIDE DEF X2, Y2
  <2>1. d.shaders = MapOf(d.shader, ws, X2) BY <1>3, <1>5, <1>7 DEF MapOf, Emptied
  <2>2. ShadersExact(d, ws, X2) BY <1>3, <1>4, <1>5, <1>7, <1>9, <2>1 DEF ShadersExact, Emptied
  <2>3. Mapped(d.uniforms, wu, Y2) BY <1>3, <1>6, <1>8 DEF Mapped, Emptied
  <2>4. UniformsExact(d, wu, Y2) BY <1>3, <1>4, <1>6, <1>8, <1>9, <2>3 DEF UniformsExact, Emptied
  <2>5. ASSUME NEW s \in Shaders, NEW u \in Uniforms, u \in ToSet(r.shader[s].uniforms)
        PROVE  wu[u] > 0
    <3> DEFINE sh == r.shader
               sh2 == [x \in Shaders |-> IF x = s THEN [uniforms |-> <<>>] ELSE sh[x]]
    <3>1. \A x \in Shaders : sh2[x].uniforms = IF x = s THEN <<>> ELSE sh[x].uniforms OBVIOUS
    <3> HIDE DEF sh, sh2
    <3>2. \A x \in Uniforms : x \in ToSet(sh[s].uniforms) => Totals(sh, a)[x] > 0
      BY <1>1, <3>1, UsersLess
    <3> QED BY <2>5, <3>2 DEF wu, sh
  <2>6. Lists(d.shader, ws, Y2)
    <3> SUFFICES ASSUME NEW s \in Shaders
                 PROVE  Listed(r.shader[s].uniforms, Y2) /\ (ws[s] = 0 => r.shader[s].uniforms = <<>>)
      BY <1>3 DEF Lists
    <3>1. Listed(r.shader[s].uniforms, Y) /\ (ws[s] = 0 => r.shader[s].uniforms = <<>>)
      BY <1>1 DEF Lists
    <3>2. \A u \in ToSet(r.shader[s].uniforms) : u = NoHandle \/ u \in Y2
      <4>1. Y \subseteq Uniforms BY <1>6 DEF Wants
      <4> QED BY <1>8, <2>5, <3>1, <4>1 DEF Listed, Emptied
    <3> QED BY <3>1, <3>2 DEF Listed
  <2>7. NoRepeat(d.frame.post) BY <1>4, NamedNothing
  <2> QED BY <1>1, <1>3, <2>2, <2>4, <2>6, <2>7 DEF RefInv, Exact, wu
<1> QED BY <1>7, <1>10

\* What frame leaves: the frame recorded is the one to be rendered.
FrameTaken ==
    /\ stage = "idle" /\ stage' = "pre"
    /\ shaders' = shaders \ Named(submit.post, "DestroyShader")
    /\ programs' = programs \ Named(submit.post, "DestroyProgram")
    /\ uniforms' = uniforms \ Named(submit.post, "DestroyUniform")
    /\ render'.pre = submit.pre /\ render'.post = submit.post /\ render'.draws = submit.draws
    /\ submit' = EmptyFrame
    /\ UNCHANGED <<uniformMap, shaderRef, programRef, objectVars>>

\* What frame does.
LEMMA FrameIs ==
    ASSUME Types, Frame
    PROVE  /\ render' \in Frames
           /\ render'.pre = submit.pre /\ render'.post = submit.post
           /\ render'.draws = submit.draws /\ submit' = EmptyFrame
           /\ stage = "idle" /\ stage' = "pre" /\ calls' = 0
           /\ UNCHANGED <<shaderRef, shaderMap, uniformRef, uniformMap, programRef, programMap, app,
                          objectVars>>
           /\ shaders' = shaders \ ToSet(submit.freeShader)
           /\ programs' = programs \ ToSet(submit.freeProgram)
           /\ uniforms' = uniforms \ ToSet(submit.freeUniform)
<1>1. submit \in Frames BY DEF Types
<1>2. render' = [submit EXCEPT !.freeShader = <<>>, !.freeProgram = <<>>, !.freeUniform = <<>>]
  BY DEF Frame
<1>3. <<>> \in Seq(Shaders) /\ <<>> \in Seq(Programs) /\ <<>> \in Seq(Uniforms) BY EmptySeq
<1>4. /\ render' \in Frames /\ render'.pre = submit.pre /\ render'.post = submit.post
      /\ render'.draws = submit.draws
  <2> DEFINE r == render'
  <2>1. r = [submit EXCEPT !.freeShader = <<>>, !.freeProgram = <<>>, !.freeUniform = <<>>] BY <1>2
  <2> HIDE DEF r
  <2>2. r \in Frames /\ r.pre = submit.pre /\ r.post = submit.post /\ r.draws = submit.draws
    BY <1>1, <1>3, <2>1 DEF Frames
  <2> QED BY <2>2 DEF r
<1> QED BY <1>4 DEF Frame, shaderVars, progVars

\* frame keeps the records of the API thread right.
LEMMA FrameKeeps ==
    ASSUME Types, ApiInv, Frame
    PROVE  Types' /\ ApiInv' /\ FrameTaken
<1> DEFINE d == [Refs EXCEPT !.frame = EmptyFrame]
<1>1. /\ render' \in Frames
      /\ render'.pre = submit.pre /\ render'.post = submit.post
      /\ render'.draws = submit.draws /\ submit' = EmptyFrame
      /\ stage = "idle" /\ stage' = "pre" /\ calls' = 0
      /\ shaderRef' = shaderRef /\ shaderMap' = shaderMap /\ uniformRef' = uniformRef
      /\ uniformMap' = uniformMap /\ programRef' = programRef /\ programMap' = programMap
      /\ app' = app /\ UNCHANGED objectVars
      /\ shaders' = shaders \ ToSet(submit.freeShader)
      /\ programs' = programs \ ToSet(submit.freeProgram)
      /\ uniforms' = uniforms \ ToSet(submit.freeUniform)
  BY FrameIs
<1>2. /\ RefInv(Refs, Wanted, app.uniform, shaders, uniforms) /\ Refs \in RefRecords
      /\ Wanted \in [Shaders -> Nat] /\ shaders \subseteq Shaders
      /\ \A s \in Shaders : IsFiniteSet(LinksTo(s))
  BY ApiFacts
<1>3. ProgramsExact BY DEF ApiInv
<1>4. /\ Wants(app.program, Programs, programs)
      /\ \A p \in programs : programRef[p].refCount = app.program[p]
      /\ QueueExact(submit.freeProgram, app.program, programs, submit.post, "DestroyProgram")
      /\ programMap = {<<Key(programRef[p].vsh, programRef[p].fsh), p>> :
                        p \in {x \in programs : app.program[x] > 0}}
      /\ OneToOne(programMap)
      /\ \A p \in programs : app.program[p] > 0 => MadeOf(p)
  BY <1>3 DEF ProgramsExact
<1>5. Refs.frame = submit BY DEF Refs
<1>6. /\ ShadersExact(Refs, Wanted, shaders)
      /\ UniformsExact(Refs, Totals(Refs.shader, app.uniform), uniforms)
  BY <1>2 DEF RefInv, Exact
<1>7. /\ Named(submit.post, "DestroyShader") = ToSet(submit.freeShader)
      /\ Named(submit.post, "DestroyUniform") = ToSet(submit.freeUniform)
      /\ Named(submit.post, "DestroyProgram") = ToSet(submit.freeProgram)
  BY <1>4, <1>5, <1>6 DEF ShadersExact, UniformsExact, QueueExact
<1>8. FrameTaken BY <1>1, <1>7 DEF FrameTaken
<1>9. Emptied(app.program, Programs, programs, programs', "DestroyProgram") BY <1>1, <1>4, QueueEmptied
<1>10. \A s : (LinksTo(s))' = LinksTo(s)
  <2>1. \A p \in programs \ programs' : programRef[p].refCount = 0 BY <1>4, <1>9 DEF Emptied
  <2>2. programs' \in SUBSET programs BY <1>1
  <2>3. \A s : Links(programs', programRef, s) = Links(programs, programRef, s)
    BY <2>1, <2>2, LinksFreed
  <2>4. \A s : (LinksTo(s))' = Links(programs', programRef', s) BY LinksIs DEF LinksTo, Links, Made
  <2> QED BY <1>1, <2>3, <2>4, LinksIs
<1>11. Wanted = Wanted' BY <1>1, <1>10 DEF Wanted
<1>12. d = Refs' BY <1>1 DEF Refs
<1> HIDE DEF Wanted, Refs
<1>13. RefInv(d, Wanted, app.uniform, shaders', uniforms')
       /\ Emptied(Wanted, Shaders, shaders, shaders', "DestroyShader")
  <2> HIDE DEF d
  <2>1. d = [Refs EXCEPT !.frame = EmptyFrame] BY DEF d
  <2> QED BY <1>1, <1>2, <1>5, <2>1, RefsFreed
<1>14. RefInv(d, Wanted', app'.uniform, shaders', uniforms') BY <1>1, <1>11, <1>13
<1> HIDE DEF d
<1>15. ASSUME NEW p \in programs', app.program[p] > 0 PROVE MadeOf(p)'
  <2>1. p \in programs /\ MadeOf(p) BY <1>1, <1>4, <1>15
  <2> DEFINE v == programRef[p].vsh
             f == programRef[p].fsh
  <2>2. Counted(Wanted, shaders, v, f) BY <1>15, <2>1, LinkedIs
  <2>3. v \in shaders' /\ (f # NoHandle => f \in shaders')
    BY <1>13, <2>2 DEF Counted, Emptied
  <2>4. NoHandle \notin shaders BY <1>2, NoHandleAssumption
  <2> QED BY <1>1, <2>1, <2>3, <2>4 DEF MadeOf
<1>16. ProgramsExact'
  <2>1. /\ submit'.freeProgram = <<>> /\ submit'.post = <<>> BY <1>1 DEF EmptyFrame
  <2>2. \A s \in Shaders : IsFiniteSet((LinksTo(s))') BY <1>2, <1>10
  <2>3. programs' \subseteq programs BY <1>1
  <2>4. {x \in programs' : app'.program[x] > 0} = {x \in programs : app.program[x] > 0}
    BY <1>1, <1>9 DEF Emptied
  <2>5. Wants(app'.program, Programs, programs')
        /\ QueueExact(submit'.freeProgram, app'.program, programs', submit'.post, "DestroyProgram")
    BY <1>1, <1>9, <2>1 DEF Emptied
  <2>6. \A p \in programs' : programRef'[p].refCount = app'.program[p] BY <1>1, <1>4, <2>3
  <2>7. programMap' = {<<Key(programRef'[p].vsh, programRef'[p].fsh), p>> :
                        p \in {x \in programs' : app'.program[x] > 0}}
    BY <1>1, <1>4, <2>4
  <2>8. OneToOne(programMap') BY <1>1, <1>4
  <2>9. \A p \in programs' : app'.program[p] > 0 => MadeOf(p)' BY <1>1, <1>15
  <2> QED BY <2>2, <2>5, <2>6, <2>7, <2>8, <2>9 DEF ProgramsExact
<1>17. ApiInv'
  <2>1. submit'.draws \subseteq programs' BY <1>1 DEF EmptyFrame
  <2> QED BY <1>1, <1>12, <1>14, <1>16, <2>1 DEF ApiInv
<1>18. Types'
  <2>1. submit' \in Frames
    <3>1. d \in RefRecords BY <1>13 DEF RefInv, Exact
    <3>2. Refs'.frame = submit' BY DEF Refs
    <3> QED BY <1>12, <3>1, <3>2 DEF RefRecords
  <2>2. MaxCalls \in Nat BY BoundsAssumption
  <2>3. 0 \in 0 .. MaxCalls BY <2>2
  <2>4. FirstTaken' BY <1>1 DEF Types, FirstTaken
  <2> QED BY <1>1, <2>1, <2>3, <2>4 DEF Types
<1> QED BY <1>8, <1>17, <1>18

-----------------------------------------------------------------------------
(* The renderer and the calls.                                              *)

\* A uniform in use has a name, or it is queued.
NamesExact ==
    /\ uniforms \subseteq Uniforms /\ ToSet(submit.freeUniform) \subseteq uniforms
    /\ \A n, u : <<n, u>> \in uniformMap
           => n \in Names /\ u \in uniforms /\ u \notin ToSet(submit.freeUniform)
    /\ \A u \in uniforms : u \in ToSet(submit.freeUniform) \/ \E n \in Names : <<n, u>> \in uniformMap
    /\ \A m, n, u : <<m, u>> \in uniformMap /\ <<n, u>> \in uniformMap => m = n
    /\ \A n, u, w : <<n, u>> \in uniformMap /\ <<n, w>> \in uniformMap => u = w

\* A name is mapped to at most one uniform in use.
LEMMA MapFacts ==
    Types /\ ApiInv => NamesExact
<1> SUFFICES ASSUME Types, ApiInv PROVE NamesExact
  OBVIOUS
<1>1. RefInv(Refs, Wanted, app.uniform, shaders, uniforms) /\ uniforms \subseteq Uniforms BY ApiFacts
<1>2. Refs.uniforms = uniformMap /\ Refs.frame = submit BY DEF Refs
<1> HIDE DEF Refs, Wanted
<1> DEFINE wu == Totals(Refs.shader, app.uniform)
<1>3. UniformsExact(Refs, wu, uniforms) BY <1>1 DEF RefInv, Exact
<1> HIDE DEF wu
<1>4. /\ ToSet(submit.freeUniform) = {u \in uniforms : wu[u] = 0}
      /\ OneToOne(uniformMap) /\ {e[2] : e \in uniformMap} = {u \in uniforms : wu[u] > 0}
      /\ wu \in [Uniforms -> Nat]
  BY <1>2, <1>3 DEF UniformsExact, QueueExact, Mapped, Wants
<1>5. uniformMap \subseteq Names \X Uniforms BY UniformMapIs
<1>6. \A n, u : <<n, u>> \in uniformMap
                  => n \in Names /\ u \in uniforms /\ u \notin ToSet(submit.freeUniform)
  <2> TAKE n, u
  <2> HAVE <<n, u>> \in uniformMap
  <2>1. u \in {e[2] : e \in uniformMap}
    <3>1. <<n, u>>[2] = u OBVIOUS
    <3> QED BY <3>1
  <2>2. n \in Names BY <1>5
  <2> QED BY <1>4, <2>1, <2>2
<1>7. \A u \in uniforms : u \in ToSet(submit.freeUniform) \/ \E n \in Names : <<n, u>> \in uniformMap
  <2> TAKE u \in uniforms
  <2>1. CASE wu[u] = 0 BY <1>4, <2>1
  <2>2. CASE wu[u] # 0
    <3>1. wu[u] > 0 BY <1>1, <1>4, <2>2
    <3>2. u \in {e[2] : e \in uniformMap} BY <1>4, <3>1
    <3>3. PICK e \in uniformMap : u = e[2] BY <3>2
    <3>4. e[1] \in Names /\ e = <<e[1], e[2]>> BY <1>5, <3>3
    <3> QED BY <3>3, <3>4
  <2> QED BY <2>1, <2>2
<1>8. \A m, n, u : <<m, u>> \in uniformMap /\ <<n, u>> \in uniformMap => m = n
  <2> TAKE m, n, u
  <2>1. <<m, u>>[2] = <<n, u>>[2] /\ <<m, u>>[1] = m /\ <<n, u>>[1] = n OBVIOUS
  <2> QED BY <1>4, <2>1 DEF OneToOne
<1>9. \A n, u, w : <<n, u>> \in uniformMap /\ <<n, w>> \in uniformMap => u = w
  <2> TAKE n, u, w
  <2>1. <<n, u>>[1] = <<n, w>>[1] /\ <<n, u>>[2] = u /\ <<n, w>>[2] = w OBVIOUS
  <2> QED BY <1>4, <2>1 DEF OneToOne
<1> QED BY <1>1, <1>4, <1>6, <1>7, <1>8, <1>9 DEF NamesExact

\* The same in the next state.
LEMMA MapFactsNext == (Types /\ ApiInv => NamesExact)'
BY MapFacts, PTL

NamesAgree(reg) ==
    \A n \in Names : \/ <<n, reg[n]>> \in uniformMap
                     \/ /\ \A u \in Uniforms : <<n, u>> \notin uniformMap
                        /\ reg[n] \in ToSet(submit.freeUniform) \union {NoHandle}

\* What Agrees says, in parts.
LEMMA AgreesIs ==
    ASSUME NEW x, NEW full \in BOOLEAN
    PROVE  Agrees(x, full)
              <=> /\ x \in Renderers
                  /\ x.uniforms = uniforms /\ x.shaders = shaders /\ x.programs = programs
                  /\ NamesAgree(x.registry)
                  /\ \A p \in programs : x.links[p] = {programRef[p].vsh, programRef[p].fsh} \ {NoHandle}
                  /\ Complete(x, submit.draws, full)
                  /\ full => \A s \in shaders : shaderRef[s].refCount > 0
                                                   => x.uses[s] = ToSet(shaderRef[s].uniforms)
BY DEF Agrees, NamesAgree

\* Names that go leave uniforms that are queued.
LEMMA NamesRemain ==
    ASSUME Types, ApiInv, Types', ApiInv', uniforms' = uniforms, Remains,
           NEW reg, NamesAgree(reg)
    PROVE  NamesAgree(reg)'
<1>1. \A n, u : <<n, u>> \in uniformMap => u \in uniforms /\ u \in Uniforms BY MapFacts DEF NamesExact
<1>2. \A u \in uniforms' : u \in ToSet(submit'.freeUniform) \/ \E n \in Names : <<n, u>> \in uniformMap'
  BY MapFactsNext DEF NamesExact
<1>3. \A m, n, u : <<m, u>> \in uniformMap /\ <<n, u>> \in uniformMap => m = n BY MapFacts DEF NamesExact
<1>4. \A n, u, w : <<n, u>> \in uniformMap /\ <<n, w>> \in uniformMap => u = w BY MapFacts DEF NamesExact
<1>5. uniformMap' \subseteq uniformMap /\ ToSet(submit.freeUniform) \subseteq ToSet(submit'.freeUniform)
  BY DEF Remains
<1> SUFFICES ASSUME NEW n \in Names
             PROVE  \/ <<n, reg[n]>> \in uniformMap'
                    \/ /\ \A u \in Uniforms : <<n, u>> \notin uniformMap'
                       /\ reg[n] \in ToSet(submit'.freeUniform) \union {NoHandle}
  BY DEF NamesAgree
<1>6. CASE <<n, reg[n]>> \in uniformMap' BY <1>6
<1>7. CASE <<n, reg[n]>> \in uniformMap /\ <<n, reg[n]>> \notin uniformMap'
  <2>1. \A u : <<n, u>> \notin uniformMap' BY <1>4, <1>5, <1>7
  <2>2. reg[n] \in uniforms' BY <1>1, <1>7
  <2>3. \A m : <<m, reg[n]>> \notin uniformMap'
    <3> SUFFICES ASSUME NEW m, <<m, reg[n]>> \in uniformMap' PROVE FALSE
      OBVIOUS
    <3>1. m = n BY <1>3, <1>5, <1>7
    <3> QED BY <1>7, <3>1
  <2>4. reg[n] \in ToSet(submit'.freeUniform) BY <1>2, <2>2, <2>3
  <2> QED BY <2>1, <2>4
<1>8. CASE <<n, reg[n]>> \notin uniformMap BY <1>5, <1>8 DEF NamesAgree
<1> QED BY <1>6, <1>7, <1>8

\* A call that only releases.
LEMMA AgreesReleases ==
    ASSUME Types, ApiInv, Types', ApiInv', Releases, NEW y, NEW full \in BOOLEAN, Agrees(y, full)
    PROVE  Agrees(y, full)'
<1>1. /\ y \in Renderers
      /\ y.uniforms = uniforms /\ y.shaders = shaders /\ y.programs = programs
      /\ NamesAgree(y.registry)
      /\ \A p \in programs : y.links[p] = {programRef[p].vsh, programRef[p].fsh} \ {NoHandle}
      /\ Complete(y, submit.draws, full)
      /\ full => \A s \in shaders : shaderRef[s].refCount > 0 => y.uses[s] = ToSet(shaderRef[s].uniforms)
  BY AgreesIs
<1>2. /\ shaders' = shaders /\ programs' = programs /\ uniforms' = uniforms
      /\ Remains /\ SameLinks /\ submit'.draws \subseteq submit.draws \union programs
  BY DEF Releases
<1>3. NamesAgree(y.registry)' BY <1>1, <1>2, NamesRemain
<1>4. \A p \in programs' : y.links[p] = {programRef'[p].vsh, programRef'[p].fsh} \ {NoHandle}
  BY <1>1, <1>2 DEF SameLinks
<1>5. Complete(y, submit'.draws, full) BY <1>1, <1>2 DEF Complete
<1>6. full => \A s \in shaders' : shaderRef'[s].refCount > 0 => y.uses[s] = ToSet(shaderRef'[s].uniforms)
  <2>1. shaders \subseteq Shaders BY ApiFacts
  <2> QED BY <1>1, <1>2, <2>1 DEF Remains
<1> QED BY <1>1, <1>2, <1>3, <1>4, <1>5, <1>6 DEF Agrees, NamesAgree

\* A program is made.
LEMMA AgreesProgram ==
    ASSUME Types, ApiInv, Types', ApiInv', NEW p, NEW v \in Shaders, NEW f \in Shaders \union {NoHandle},
           ProgramMade(p, v, f), NEW y, NEW full \in BOOLEAN, Agrees(y, full),
           NEW c, c = [op |-> "CreateProgram", h |-> p, vsh |-> v, fsh |-> f],
           NEW z, z = Effect(y, c)
    PROVE  c \in PreCommands /\ Fits(y, c, full) /\ Agrees(z, full)'
<1>1. /\ y \in Renderers
      /\ y.uniforms = uniforms /\ y.shaders = shaders /\ y.programs = programs
      /\ NamesAgree(y.registry)
      /\ \A q \in programs : y.links[q] = {programRef[q].vsh, programRef[q].fsh} \ {NoHandle}
      /\ Complete(y, submit.draws, full)
      /\ full => \A s \in shaders : shaderRef[s].refCount > 0 => y.uses[s] = ToSet(shaderRef[s].uniforms)
  BY AgreesIs
<1>2. /\ shaders' = shaders /\ programs' = programs \union {p} /\ uniforms' = uniforms
      /\ p \in Programs \ programs
      /\ Remains /\ SameLinks /\ submit'.draws = submit.draws
      /\ programRef'[p].vsh = v /\ programRef'[p].fsh = f
      /\ v \in shaders /\ f \in shaders \union {NoHandle}
  BY DEF ProgramMade
<1>3. c \in PreCommands /\ c.op = "CreateProgram" /\ c.h = p /\ c.vsh = v /\ c.fsh = f
  BY <1>2 DEF PreCommands
<1>4. Fits(y, c, full) BY <1>1, <1>2, <1>3 DEF Fits
<1>5. z = [y EXCEPT !.programs = y.programs \union {p},
                    !.links = [y.links EXCEPT ![p] = {v, f} \ {NoHandle}]]
  BY <1>3 DEF Effect
<1>6. z \in Renderers BY <1>1, <1>3, EffectType
<1>7. /\ z.uniforms = y.uniforms /\ z.shaders = y.shaders /\ z.programs = y.programs \union {p}
      /\ z.uses = y.uses /\ z.registry = y.registry
      /\ \A q \in Programs : z.links[q] = IF q = p THEN {v, f} \ {NoHandle} ELSE y.links[q]
  <2> DEFINE l == [y.links EXCEPT ![p] = {v, f} \ {NoHandle}]
  <2>1. \A q \in Programs : l[q] = IF q = p THEN {v, f} \ {NoHandle} ELSE y.links[q]
    BY <1>1, <1>2 DEF Renderers
  <2> HIDE DEF l
  <2>2. z.uniforms = y.uniforms /\ z.shaders = y.shaders /\ z.programs = y.programs \union {p}
        /\ z.uses = y.uses /\ z.registry = y.registry /\ z.links = l
    BY <1>1, <1>5 DEF Renderers, l
  <2> QED BY <2>1, <2>2
<1>8. NamesAgree(z.registry)'
  <2>1. NamesAgree(y.registry)' BY <1>1, <1>2, NamesRemain
  <2> QED BY <1>7, <2>1 DEF NamesAgree
<1>9. programs \subseteq Programs BY ApiFacts
<1>10. \A q \in programs' : z.links[q] = {programRef'[q].vsh, programRef'[q].fsh} \ {NoHandle}
  BY <1>1, <1>2, <1>7, <1>9 DEF SameLinks
<1>11. Complete(z, submit'.draws, full) BY <1>1, <1>2, <1>7, <1>9 DEF Complete
<1>12. full => \A s \in shaders' : shaderRef'[s].refCount > 0 => z.uses[s] = ToSet(shaderRef'[s].uniforms)
  <2>1. shaders \subseteq Shaders BY ApiFacts
  <2> QED BY <1>1, <1>2, <1>7, <2>1 DEF Remains
<1>13. z.uniforms = uniforms' /\ z.shaders = shaders' /\ z.programs = programs' BY <1>1, <1>2, <1>7
<1> HIDE DEF Effect
<1>14. Agrees(z, full)' BY <1>6, <1>8, <1>10, <1>11, <1>12, <1>13 DEF Agrees, NamesAgree
<1> QED BY <1>3, <1>4, <1>14

\* A uniform is made, or told of again.
LEMMA AgreesUniform ==
    ASSUME Types, ApiInv, NEW n \in Names, NEW u \in Uniforms, UniformMade(n, u),
           NEW y, NEW full \in BOOLEAN, Agrees(y, full),
           NEW c, c = [op |-> "CreateUniform", h |-> u, name |-> n],
           NEW z, z = Effect(y, c)
    PROVE  c \in PreCommands /\ Fits(y, c, full) /\ Agrees(z, full)'
<1>1. /\ y \in Renderers
      /\ y.uniforms = uniforms /\ y.shaders = shaders /\ y.programs = programs
      /\ NamesAgree(y.registry)
      /\ \A q \in programs : y.links[q] = {programRef[q].vsh, programRef[q].fsh} \ {NoHandle}
      /\ Complete(y, submit.draws, full)
      /\ full => \A s \in shaders : shaderRef[s].refCount > 0 => y.uses[s] = ToSet(shaderRef[s].uniforms)
  BY AgreesIs
<1>2. /\ shaders' = shaders /\ programs' = programs /\ uniforms' = uniforms \union {u}
      /\ uniformMap' = uniformMap \union {<<n, u>>}
      /\ u \in uniforms => <<n, u>> \in uniformMap
      /\ u \notin uniforms => \A x : <<n, x>> \notin uniformMap
      /\ submit'.freeUniform = submit.freeUniform
      /\ shaderRef' = shaderRef /\ SameLinks /\ submit'.draws = submit.draws
  BY DEF UniformMade
<1>3. c \in PreCommands /\ c.op = "CreateUniform" /\ c.h = u /\ c.name = n BY DEF PreCommands
<1>4. Fits(y, c, full)
  <2>1. u \in uniforms => y.registry[n] = u
    <3> SUFFICES ASSUME u \in uniforms PROVE y.registry[n] = u
      OBVIOUS
    <3>1. <<n, u>> \in uniformMap BY <1>2
    <3>2. <<n, y.registry[n]>> \in uniformMap BY <1>1, <3>1 DEF NamesAgree
    <3> QED BY <3>1, <3>2, MapFacts DEF NamesExact
  <2> QED BY <1>1, <1>3, <2>1 DEF Fits
<1>5. z = [y EXCEPT !.uniforms = y.uniforms \union {u}, !.registry = [y.registry EXCEPT ![n] = u]]
  BY <1>3 DEF Effect
<1>6. z \in Renderers BY <1>1, <1>3, EffectType
<1>7. /\ z.uniforms = y.uniforms \union {u} /\ z.shaders = y.shaders /\ z.programs = y.programs
      /\ z.uses = y.uses /\ z.links = y.links
      /\ \A m \in Names : z.registry[m] = IF m = n THEN u ELSE y.registry[m]
  <2> DEFINE l == [y.registry EXCEPT ![n] = u]
  <2>1. \A m \in Names : l[m] = IF m = n THEN u ELSE y.registry[m]
    BY <1>1 DEF Renderers
  <2> HIDE DEF l
  <2>2. z.uniforms = y.uniforms \union {u} /\ z.shaders = y.shaders /\ z.programs = y.programs
        /\ z.uses = y.uses /\ z.links = y.links /\ z.registry = l
    BY <1>1, <1>5 DEF Renderers, l
  <2> QED BY <2>1, <2>2
<1>8. NamesAgree(z.registry)'
  <2> SUFFICES ASSUME NEW m \in Names
               PROVE  \/ <<m, z.registry[m]>> \in uniformMap'
                      \/ /\ \A x \in Uniforms : <<m, x>> \notin uniformMap'
                         /\ z.registry[m] \in ToSet(submit'.freeUniform) \union {NoHandle}
    BY DEF NamesAgree
  <2>1. CASE m = n BY <1>2, <1>7, <2>1
  <2>2. CASE m # n
    <3>1. z.registry[m] = y.registry[m] BY <1>7, <2>2
    <3>2. \A x : <<m, x>> \in uniformMap' <=> <<m, x>> \in uniformMap BY <1>2, <2>2
    <3> QED BY <1>1, <1>2, <3>1, <3>2 DEF NamesAgree
  <2> QED BY <2>1, <2>2
<1>9. \A q \in programs' : z.links[q] = {programRef'[q].vsh, programRef'[q].fsh} \ {NoHandle}
  BY <1>1, <1>2, <1>7 DEF SameLinks
<1>10. Complete(z, submit'.draws, full) BY <1>1, <1>2, <1>7 DEF Complete
<1>11. full => \A s \in shaders' : shaderRef'[s].refCount > 0 => z.uses[s] = ToSet(shaderRef'[s].uniforms)
  BY <1>1, <1>2, <1>7
<1>12. z.uniforms = uniforms' /\ z.shaders = shaders' /\ z.programs = programs' BY <1>1, <1>2, <1>7
<1>13. Agrees(z, full)' BY <1>6, <1>8, <1>9, <1>10, <1>11, <1>12 DEF Agrees, NamesAgree
<1> QED BY <1>3, <1>4, <1>13

\* The renderer's state is given by its parts.
LEMMA SameRenderer ==
    ASSUME NEW x \in Renderers, NEW y \in Renderers, x.uniforms = y.uniforms, x.shaders = y.shaders,
           x.programs = y.programs, x.uses = y.uses, x.links = y.links, x.registry = y.registry
    PROVE  x = y
<1>1. \A r \in Renderers : r = [uniforms |-> r.uniforms, shaders |-> r.shaders,
                                programs |-> r.programs, uses |-> r.uses, links |-> r.links,
                                registry |-> r.registry]
  BY DEF Renderers
<1> QED BY <1>1, Zenon

\* y, and the uniforms of the first k names that are new.
Among(names, choice, k) == {i \in 1 .. k : names[i] \in NewIn(names, choice)}

MadeUpTo(y, names, choice, k) ==
    [y EXCEPT !.uniforms = y.uniforms \union {choice[names[i]] : i \in Among(names, choice, k)},
              !.registry = [n \in Names |-> IF \E i \in Among(names, choice, k) : names[i] = n
                                               THEN choice[n] ELSE y.registry[n]]]

HasUpTo(z, y, names, choice, k) ==
    /\ z \in Renderers
    /\ z.uniforms = y.uniforms \union {choice[names[i]] : i \in Among(names, choice, k)}
    /\ \A n \in Names : z.registry[n] = IF \E i \in Among(names, choice, k) : names[i] = n
                                            THEN choice[n] ELSE y.registry[n]
    /\ z.shaders = y.shaders /\ z.programs = y.programs
    /\ z.uses = y.uses /\ z.links = y.links

\* The renderer after the commands for the first k names.
LEMMA MadeUpToIs ==
    ASSUME NEW y \in Renderers, NEW names \in Seq(Names), NEW choice, Chosen(names, choice),
           NEW k \in 0 .. Len(names)
    PROVE  HasUpTo(MadeUpTo(y, names, choice, k), y, names, choice, k)
<1> DEFINE made == {i \in 1 .. k : names[i] \in NewIn(names, choice)}
           z == MadeUpTo(y, names, choice, k)
           us == y.uniforms \union {choice[names[i]] : i \in made}
           reg == [n \in Names |-> IF \E i \in made : names[i] = n THEN choice[n] ELSE y.registry[n]]
<1>1. z = [y EXCEPT !.uniforms = us, !.registry = reg] BY DEF MadeUpTo, Among
<1>2. \A n \in NewIn(names, choice) : choice[n] \in Uniforms BY DEF NewIn, Chosen
<1>3. us \in SUBSET Uniforms BY <1>2 DEF Renderers
<1>4. reg \in [Names -> Uniforms \union {NoHandle}]
      /\ \A n \in Names : reg[n] = IF \E i \in made : names[i] = n THEN choice[n] ELSE y.registry[n]
  BY <1>2 DEF Renderers
<1>5. us = y.uniforms \union {choice[names[i]] : i \in made} OBVIOUS
<1> HIDE DEF us, reg, z, made
<1>6. /\ z \in Renderers /\ z.uniforms = us /\ z.registry = reg
      /\ z.shaders = y.shaders /\ z.programs = y.programs
      /\ z.uses = y.uses /\ z.links = y.links
  BY <1>1, <1>3, <1>4 DEF Renderers
<1> QED BY <1>4, <1>5, <1>6 DEF z, made, HasUpTo, Among

\* The command for one name more, if it is new.
LEMMA MadeUpToNext ==
    ASSUME NEW y \in Renderers, NEW names \in Seq(Names), NEW choice, Chosen(names, choice),
           y.uniforms = uniforms, NEW k \in 0 .. Len(names) - 1, NEW full \in BOOLEAN,
           NEW c, c = [op |-> "CreateUniform", h |-> choice[names[k + 1]], name |-> names[k + 1]]
    PROVE  LET z == MadeUpTo(y, names, choice, k)
               z2 == MadeUpTo(y, names, choice, k + 1)
           IN  IF names[k + 1] \in NewIn(names, choice)
               THEN c \in PreCommands /\ Fits(z, c, full) /\ Effect(z, c) = z2
               ELSE z2 = z
<1> DEFINE z == MadeUpTo(y, names, choice, k)
           z2 == MadeUpTo(y, names, choice, k + 1)
           n == names[k + 1]
           New == NewIn(names, choice)
           made == {i \in 1 .. k : names[i] \in New}
           made2 == {i \in 1 .. k + 1 : names[i] \in New}
<1>1. Len(names) \in Nat /\ DOMAIN names = 1 .. Len(names) /\ \A i \in 1 .. Len(names) : names[i] \in Names
  BY LenProperties
<1>2. /\ k \in 0 .. Len(names) /\ k + 1 \in 0 .. Len(names) /\ k + 1 \in 1 .. Len(names)
      /\ k + 1 \notin 1 .. k /\ 1 .. (k + 1) = (1 .. k) \union {k + 1} /\ 1 .. k \subseteq 1 .. Len(names)
  BY <1>1
<1>3. n \in Names BY <1>1, <1>2
<1>4. \A i \in 1 .. k : names[i] # n
  <2>1. IsInjective(names) BY DEF Chosen
  <2> QED BY <1>1, <1>2, <2>1 DEF IsInjective
<1>5. /\ z \in Renderers
      /\ z.uniforms = y.uniforms \union {choice[names[i]] : i \in made}
      /\ \A m \in Names : z.registry[m] = IF \E i \in made : names[i] = m
                                             THEN choice[m] ELSE y.registry[m]
      /\ z.shaders = y.shaders /\ z.programs = y.programs
      /\ z.uses = y.uses /\ z.links = y.links
  <2>1. HasUpTo(z, y, names, choice, k) BY <1>2, MadeUpToIs
  <2>2. Among(names, choice, k) = made BY DEF Among
  <2> HIDE DEF z, made
  <2> QED BY <2>1, <2>2 DEF HasUpTo
<1>6. /\ z2 \in Renderers
      /\ z2.uniforms = y.uniforms \union {choice[names[i]] : i \in made2}
      /\ \A m \in Names : z2.registry[m] = IF \E i \in made2 : names[i] = m
                                              THEN choice[m] ELSE y.registry[m]
      /\ z2.shaders = y.shaders /\ z2.programs = y.programs
      /\ z2.uses = y.uses /\ z2.links = y.links
  <2>1. HasUpTo(z2, y, names, choice, k + 1) BY <1>2, MadeUpToIs
  <2>2. Among(names, choice, k + 1) = made2 BY DEF Among
  <2> HIDE DEF z2, made2
  <2> QED BY <2>1, <2>2 DEF HasUpTo
<1>7. CASE n \in New
  <2>1. choice[n] \in Uniforms /\ choice[n] \notin uniforms BY <1>7 DEF NewIn, Chosen
  <2>2. c \in PreCommands /\ c.op = "CreateUniform" /\ c.h = choice[n] /\ c.name = n
    BY <1>3, <2>1 DEF PreCommands
  <2>3. made2 = made \union {k + 1} BY <1>2, <1>7
  <2>4. \A i \in made : choice[names[i]] # choice[n]
    <3> TAKE i \in made
    <3>1. names[i] \in New /\ names[i] # n BY <1>4
    <3> QED BY <1>7, <3>1 DEF Chosen, NewNames
  <2>5. choice[n] \notin z.uniforms BY <1>5, <2>1, <2>4
  <2>6. Fits(z, c, full) BY <2>2, <2>5 DEF Fits
  <2> DEFINE e == Effect(z, c)
             reg == [z.registry EXCEPT ![n] = choice[n]]
  <2>7. e = [z EXCEPT !.uniforms = z.uniforms \union {choice[n]}, !.registry = reg]
    BY <2>2 DEF Effect
  <2>8. reg \in [Names -> Uniforms \union {NoHandle}]
        /\ \A m \in Names : reg[m] = IF m = n THEN choice[n] ELSE z.registry[m]
    BY <1>3, <1>5, <2>1 DEF Renderers
  <2> HIDE DEF e, reg, z, z2, n, made, made2
  <2>9. /\ e \in Renderers /\ e.uniforms = z.uniforms \union {choice[n]} /\ e.registry = reg
        /\ e.shaders = z.shaders /\ e.programs = z.programs /\ e.uses = z.uses /\ e.links = z.links
    BY <1>5, <2>1, <2>7, <2>8 DEF Renderers
  <2>10. e.uniforms = z2.uniforms
    <3>1. {choice[names[i]] : i \in made \union {k + 1}}
             = {choice[names[i]] : i \in made} \union {choice[names[k + 1]]}
      OBVIOUS
    <3> QED BY <1>5, <1>6, <2>3, <2>9, <3>1 DEF n
  <2>11. e.registry = z2.registry
    <3>1. z2.registry \in [Names -> Uniforms \union {NoHandle}] BY <1>6 DEF Renderers
    <3>2. ASSUME NEW m \in Names PROVE reg[m] = z2.registry[m]
      <4>1. CASE m = n BY <1>6, <2>3, <2>8, <4>1 DEF n
      <4>2. CASE m # n
        <5>1. (\E i \in made2 : names[i] = m) <=> (\E i \in made : names[i] = m)
          BY <2>3, <4>2 DEF n
        <5> QED BY <1>5, <1>6, <2>8, <4>2, <5>1
      <4> QED BY <4>1, <4>2
    <3> QED BY <2>8, <2>9, <3>1, <3>2
  <2>12. e = z2
    <3>1. e.shaders = z2.shaders /\ e.programs = z2.programs /\ e.uses = z2.uses /\ e.links = z2.links
      BY <1>5, <1>6, <2>9
    <3> QED BY <1>6, <2>9, <2>10, <2>11, <3>1, SameRenderer
  <2> QED BY <1>7, <2>2, <2>6, <2>12 DEF e, z, z2, n
<1>8. CASE n \notin New
  <2>1. made2 = made BY <1>2, <1>8
  <2>2. z2 = z BY <2>1 DEF MadeUpTo, Among
  <2> QED BY <1>8, <2>2
<1> QED BY <1>7, <1>8

\* The commands of createUniform lead to MadeUpTo.
LEMMA UniformsRun ==
    ASSUME NEW y \in Renderers, NEW names \in Seq(Names), NEW choice, Chosen(names, choice),
           y.uniforms = uniforms, NEW full \in BOOLEAN,
           NEW pre \in Seq(PreCommands), NEW x, Runs(pre, x, y, full)
    PROVE  /\ UniformCommands(names, choice) \in Seq(PreCommands)
           /\ Runs(pre \o UniformCommands(names, choice), x, MadeUpTo(y, names, choice, Len(names)), full)
<1> DEFINE n == Len(names)
           z(k) == MadeUpTo(y, names, choice, k)
           c(i) == [op |-> "CreateUniform", h |-> choice[names[i]], name |-> names[i]]
<1>1. PICK made : Commands(made, names, choice) /\ made[n] = UniformCommands(names, choice)
  BY CommandsAre
<1>2. n \in Nat BY LenProperties
<1>3. /\ \A k \in 0 .. n : made[k] \in Seq(PreCommands)
      /\ made[0] = <<>>
      /\ \A i \in 1 .. n : made[i] = IF names[i] \in NewIn(names, choice)
                                        THEN Append(made[i - 1], c(i)) ELSE made[i - 1]
  BY <1>1 DEF Commands
<1> DEFINE S == {k \in 0 .. n : Runs(pre \o made[k], x, z(k), full)}
<1>4. 0 \in S
  <2>1. 0 \in 0 .. n BY <1>2
  <2>2. pre \o made[0] = pre
    <3>1. pre \o <<>> = pre OBVIOUS
    <3> QED BY <1>3, <3>1
  <2>3. HasUpTo(z(0), y, names, choice, 0) BY <2>1, MadeUpToIs
  <2>4. Among(names, choice, 0) = {} BY DEF Among
  <2> DEFINE e == z(0)
  <2> HIDE DEF z
  <2>5. HasUpTo(e, y, names, choice, 0) BY <2>3
  <2> HIDE DEF e
  <2>6. /\ e \in Renderers /\ e.uniforms = y.uniforms
        /\ \A m \in Names : e.registry[m] = y.registry[m]
        /\ e.shaders = y.shaders /\ e.programs = y.programs
        /\ e.uses = y.uses /\ e.links = y.links
    BY <2>4, <2>5 DEF HasUpTo
  <2>7. e.registry = y.registry
    <3>1. e.registry \in [Names -> Uniforms \union {NoHandle}]
          /\ y.registry \in [Names -> Uniforms \union {NoHandle}]
      BY <2>6 DEF Renderers
    <3> QED BY <2>6, <3>1
  <2>8. e = y BY <2>6, <2>7, SameRenderer
  <2>9. Runs(pre \o made[0], x, z(0), full) BY <2>2, <2>8 DEF e
  <2> QED BY <2>1, <2>9
<1>5. ASSUME NEW k \in 0 .. n - 1, k \in S PROVE k + 1 \in S
  <2>1. k + 1 \in 1 .. n /\ k + 1 \in 0 .. n /\ k \in 0 .. n /\ (k + 1) - 1 = k BY <1>2
  <2>2. Runs(pre \o made[k], x, z(k), full) BY <1>5
  <2>3. made[k] \in Seq(PreCommands) /\ pre \o made[k] \in Seq(PreCommands) BY <1>3, <2>1
  <2>4. IF names[k + 1] \in NewIn(names, choice)
        THEN c(k + 1) \in PreCommands /\ Fits(z(k), c(k + 1), full) /\ Effect(z(k), c(k + 1)) = z(k + 1)
        ELSE z(k + 1) = z(k)
    <3> DEFINE cc == c(k + 1)
    <3>1. cc = [op |-> "CreateUniform", h |-> choice[names[k + 1]], name |-> names[k + 1]] OBVIOUS
    <3> HIDE DEF cc
    <3>2. IF names[k + 1] \in NewIn(names, choice)
          THEN cc \in PreCommands /\ Fits(MadeUpTo(y, names, choice, k), cc, full)
               /\ Effect(MadeUpTo(y, names, choice, k), cc) = MadeUpTo(y, names, choice, k + 1)
          ELSE MadeUpTo(y, names, choice, k + 1) = MadeUpTo(y, names, choice, k)
      BY <1>2, <3>1, MadeUpToNext
    <3> QED BY <3>2 DEF cc
  <2> HIDE DEF z, c
  <2>5. CASE names[k + 1] \in NewIn(names, choice)
    <3>1. made[k + 1] = Append(made[k], c(k + 1)) BY <1>3, <2>1, <2>5
    <3>2. c(k + 1) \in PreCommands BY <2>4, <2>5
    <3>3. pre \o made[k + 1] = Append(pre \o made[k], c(k + 1)) BY <2>3, <3>1, <3>2
    <3>4. Runs(Append(pre \o made[k], c(k + 1)), x, Effect(z(k), c(k + 1)), full)
      BY <2>2, <2>3, <2>4, <2>5, <3>2, RunsAppend
    <3> QED BY <2>1, <2>4, <2>5, <3>3, <3>4
  <2>6. CASE names[k + 1] \notin NewIn(names, choice)
    <3>1. made[k + 1] = made[k] BY <1>3, <2>1, <2>6
    <3> QED BY <2>1, <2>2, <2>4, <2>6, <3>1
  <2> QED BY <2>5, <2>6
<1>6. n \in S
  <2> HIDE DEF S
  <2>1. \A k \in 0 .. n : k \in S BY <1>2, <1>4, <1>5, UpTo
  <2>2. n \in 0 .. n BY <1>2
  <2> QED BY <2>1, <2>2
<1>7. n \in 0 .. n BY <1>2
<1> QED BY <1>1, <1>3, <1>6, <1>7

\* What they leave.
LEMMA UniformsMade ==
    ASSUME NEW y \in Renderers, NEW names \in Seq(Names), NEW choice, Chosen(names, choice),
           NEW New, New = NewIn(names, choice), NEW z, z = MadeUpTo(y, names, choice, Len(names))
    PROVE  /\ z \in Renderers
           /\ z.uniforms = y.uniforms \union {choice[n] : n \in New}
           /\ \A n \in Names : z.registry[n] = IF n \in New THEN choice[n] ELSE y.registry[n]
           /\ z.shaders = y.shaders /\ z.programs = y.programs
           /\ z.uses = y.uses /\ z.links = y.links
<1> DEFINE A == Among(names, choice, Len(names))
<1>1. Len(names) \in Nat /\ DOMAIN names = 1 .. Len(names) BY LenProperties
<1>2. Len(names) \in 0 .. Len(names) BY <1>1
<1>3. HasUpTo(z, y, names, choice, Len(names)) BY <1>2, MadeUpToIs
<1>4. \A n : n \in New <=> \E i \in A : names[i] = n
  <2>1. \A n \in New : n \in ToSet(names) BY DEF NewIn
  <2>2. ToSet(names) = {names[i] : i \in 1 .. Len(names)} BY <1>1 DEF ToSet
  <2>3. \A i \in A : i \in 1 .. Len(names) /\ names[i] \in New BY DEF Among
  <2>4. \A i \in 1 .. Len(names) : names[i] \in New => i \in A BY DEF Among
  <2> QED BY <2>1, <2>2, <2>3, <2>4
<1>5. {choice[names[i]] : i \in A} = {choice[n] : n \in New}
  <2> HIDE DEF A
  <2>1. \A i \in A : names[i] \in New BY <1>4
  <2>2. \A n \in New : \E i \in A : names[i] = n BY <1>4
  <2> QED BY <2>1, <2>2
<1> QED BY <1>3, <1>4, <1>5 DEF HasUpTo

\* A command after a list of them.
LEMMA ConcatAppend ==
    ASSUME NEW p \in Seq(PreCommands), NEW q \in Seq(PreCommands), NEW e \in PreCommands
    PROVE  p \o (q \o <<e>>) = Append(p \o q, e)
<1>1. <<e>> \in Seq(PreCommands) /\ Len(<<e>>) = 1 OBVIOUS
<1>2. p \o (q \o <<e>>) = (p \o q) \o <<e>> BY <1>1, ConcatAssociative
<1>3. p \o q \in Seq(PreCommands) OBVIOUS
<1>4. Append(p \o q, e) = (p \o q) \o <<e>> BY <1>3, AppendIsConcat
<1> QED BY <1>2, <1>3, <1>4

\* A shader is made, after the uniforms that are new.
LEMMA AgreesShader ==
    ASSUME Types, ApiInv, NEW s, NEW bin \in Binaries, NEW choice, ShaderMade(s, bin, choice),
           NEW names, names = UniformsOf[bin], Chosen(names, choice),
           NEW full \in BOOLEAN, full => HandlesSuffice',
           NEW x, NEW y, Runs(submit.pre, x, y, full), Agrees(y, full)
    PROVE  \E z \in Renderers : Runs(submit'.pre, x, z, full) /\ Agrees(z, full)'
<1> DEFINE New == NewIn(names, choice)
           l == ListOf(names, choice)
           cmds == UniformCommands(names, choice)
           c == [op |-> "CreateShader", h |-> s, bin |-> bin]
           m == MadeUpTo(y, names, choice, Len(names))
<1>1. /\ y \in Renderers
      /\ y.uniforms = uniforms /\ y.shaders = shaders /\ y.programs = programs
      /\ NamesAgree(y.registry)
      /\ \A q \in programs : y.links[q] = {programRef[q].vsh, programRef[q].fsh} \ {NoHandle}
      /\ Complete(y, submit.draws, full)
      /\ full => \A t \in shaders : shaderRef[t].refCount > 0 => y.uses[t] = ToSet(shaderRef[t].uniforms)
  BY AgreesIs
<1>2. /\ programs' = programs
      /\ s \in Shaders \ shaders /\ shaders' = shaders \union {s}
      /\ uniforms' = uniforms \union {choice[n] : n \in New}
      /\ uniformMap' = uniformMap \union Pairs(New, choice)
      /\ submit'.freeUniform = submit.freeUniform
      /\ \A t \in Shaders \ {s} : shaderRef'[t] = shaderRef[t]
      /\ shaderRef'[s].uniforms = l
      /\ SameLinks
      /\ submit'.pre = submit.pre \o (cmds \o <<c>>)
      /\ submit'.draws = submit.draws
  BY DEF ShaderMade
<1>3. submit.pre \in Seq(PreCommands)
  <2>1. submit \in Frames BY DEF Types
  <2> QED BY <2>1 DEF Frames
<1>4. names \in Seq(Names) BY DEF Chosen
<1> HIDE DEF c, m, cmds, New, l
<1>5. c \in PreCommands /\ c.op = "CreateShader" /\ c.h = s /\ c.bin = bin BY <1>2 DEF c, PreCommands
<1>6. cmds \in Seq(PreCommands) /\ Runs(submit.pre \o cmds, x, m, full)
  BY <1>1, <1>3, <1>4, UniformsRun DEF cmds, m
<1>7. /\ m \in Renderers
      /\ m.uniforms = y.uniforms \union {choice[n] : n \in New}
      /\ \A n \in Names : m.registry[n] = IF n \in New THEN choice[n] ELSE y.registry[n]
      /\ m.shaders = y.shaders /\ m.programs = y.programs
      /\ m.uses = y.uses /\ m.links = y.links
  <2>1. New = NewIn(names, choice) /\ m = MadeUpTo(y, names, choice, Len(names)) BY DEF New, m
  <2> QED BY <1>1, <1>4, <2>1, UniformsMade
<1>8. m.uniforms = uniforms' BY <1>1, <1>2, <1>7
<1>9. ToSet(names) \subseteq Names /\ New \subseteq ToSet(names)
  <2>1. DOMAIN names = 1 .. Len(names) /\ \A i \in 1 .. Len(names) : names[i] \in Names
    BY <1>4, LenProperties
  <2> QED BY <2>1 DEF ToSet, New, NewIn
<1>10. ToSet(l) = {choice[n] : n \in ToSet(names)} BY ListOfIs DEF l
<1>11. full => \A n \in ToSet(names) : m.registry[n] = choice[n] /\ choice[n] \in uniforms'
  <2> SUFFICES ASSUME full, NEW n \in ToSet(names)
               PROVE  m.registry[n] = choice[n] /\ choice[n] \in uniforms'
    OBVIOUS
  <2>1. NoHandle \notin ToSet(l) BY <1>2 DEF HandlesSuffice
  <2>2. choice[n] # NoHandle BY <1>10, <2>1
  <2>3. CASE n \in New BY <1>2, <1>7, <1>9, <2>3
  <2>4. CASE n \notin New
    <3>1. <<n, choice[n]>> \in uniformMap BY <2>2, <2>4 DEF Chosen, New
    <3>2. <<n, y.registry[n]>> \in uniformMap BY <1>1, <1>9, <3>1, MapFacts DEF NamesAgree, NamesExact
    <3>3. y.registry[n] = choice[n] /\ choice[n] \in uniforms BY <3>1, <3>2, MapFacts DEF NamesExact
    <3> QED BY <1>2, <1>7, <1>9, <2>4, <3>3
  <2> QED BY <2>3, <2>4
<1>12. Fits(m, c, full)
  <2>1. c.h \notin m.shaders BY <1>1, <1>2, <1>5, <1>7
  <2>2. full => \A n \in ToSet(names) : m.registry[n] \in m.uniforms BY <1>8, <1>11
  <2> QED BY <1>5, <2>1, <2>2 DEF Fits
<1>13. Runs(submit'.pre, x, Effect(m, c), full)
  <2>1. submit.pre \o cmds \in Seq(PreCommands) BY <1>3, <1>6
  <2>2. submit.pre \o (cmds \o <<c>>) = Append(submit.pre \o cmds, c)
    <3>1. submit.pre \in Seq(PreCommands) /\ cmds \in Seq(PreCommands) /\ c \in PreCommands
      BY <1>3, <1>5, <1>6
    <3> QED BY <3>1, ConcatAppend
  <2>3. Runs(Append(submit.pre \o cmds, c), x, Effect(m, c), full)
    BY <1>5, <1>6, <1>12, <2>1, RunsAppend
  <2> QED BY <1>2, <2>2, <2>3
<1>14. PICK z : z = Effect(m, c) OBVIOUS
<1>15. z \in Renderers BY <1>5, <1>7, <1>14, EffectType
<1> DEFINE f == {m.registry[n] : n \in ToSet(names)} \ {NoHandle}
           u == [m.uses EXCEPT ![s] = f]
<1>16. z = [m EXCEPT !.shaders = m.shaders \union {s}, !.uses = u] BY <1>5, <1>14 DEF Effect, FoundIn
<1>17. \A t \in Shaders : u[t] = IF t = s THEN f ELSE y.uses[t] BY <1>7 DEF Renderers
<1> HIDE DEF f, u
<1>18. /\ z.uniforms = m.uniforms /\ z.shaders = m.shaders \union {s} /\ z.programs = m.programs
       /\ z.uses = u /\ z.links = m.links /\ z.registry = m.registry
  BY <1>7, <1>16 DEF Renderers
<1>19. full => f = ToSet(l) /\ f \subseteq uniforms'
  <2> SUFFICES ASSUME full PROVE f = ToSet(l) /\ f \subseteq uniforms'
    OBVIOUS
  <2>1. NoHandle \notin ToSet(l) BY <1>2 DEF HandlesSuffice
  <2>2. {m.registry[n] : n \in ToSet(names)} = {choice[n] : n \in ToSet(names)} BY <1>11
  <2>3. f = ToSet(l) BY <1>10, <2>1, <2>2 DEF f
  <2> QED BY <1>10, <1>11, <2>3
<1>20. shaders \subseteq Shaders BY ApiFacts
<1>21. NamesAgree(z.registry)'
  <2> SUFFICES ASSUME NEW n \in Names
               PROVE  \/ <<n, z.registry[n]>> \in uniformMap'
                      \/ /\ \A h \in Uniforms : <<n, h>> \notin uniformMap'
                         /\ z.registry[n] \in ToSet(submit'.freeUniform) \union {NoHandle}
    BY DEF NamesAgree
  <2>1. CASE n \in New
    <3>1. z.registry[n] = choice[n] BY <1>7, <1>18, <2>1
    <3>2. <<n, choice[n]>> \in Pairs(New, choice) BY <2>1 DEF Pairs
    <3> QED BY <1>2, <3>1, <3>2
  <2>2. CASE n \notin New
    <3>1. z.registry[n] = y.registry[n] BY <1>7, <1>18, <2>2
    <3>2. \A h : <<n, h>> \in uniformMap' <=> <<n, h>> \in uniformMap BY <1>2, <2>2 DEF Pairs
    <3> QED BY <1>1, <1>2, <3>1, <3>2 DEF NamesAgree
  <2> QED BY <2>1, <2>2
<1>22. \A q \in programs' : z.links[q] = {programRef'[q].vsh, programRef'[q].fsh} \ {NoHandle}
  BY <1>1, <1>2, <1>7, <1>18 DEF SameLinks
<1>23. Complete(z, submit'.draws, full)
  <2>1. z.programs = y.programs /\ z.links = y.links /\ z.shaders = shaders' /\ z.uniforms = uniforms'
    BY <1>1, <1>2, <1>7, <1>8, <1>18
  <2>2. full => \A t \in z.shaders : z.uses[t] \subseteq z.uniforms
    <3> SUFFICES ASSUME full, NEW t \in shaders' PROVE z.uses[t] \subseteq uniforms'
      BY <2>1
    <3>1. CASE t = s BY <1>2, <1>17, <1>18, <1>19, <3>1
    <3>2. CASE t # s
      <4>1. t \in shaders /\ t \in Shaders BY <1>2, <1>20, <3>2
      <4>2. z.uses[t] = y.uses[t] BY <1>17, <1>18, <3>2, <4>1
      <4>3. y.uses[t] \subseteq uniforms BY <1>1, <4>1 DEF Complete
      <4> QED BY <1>2, <4>2, <4>3
    <3> QED BY <3>1, <3>2
  <2> QED BY <1>1, <1>2, <2>1, <2>2 DEF Complete
<1>24. full => \A t \in shaders' : shaderRef'[t].refCount > 0 => z.uses[t] = ToSet(shaderRef'[t].uniforms)
  <2> SUFFICES ASSUME full, NEW t \in shaders', shaderRef'[t].refCount > 0
               PROVE  z.uses[t] = ToSet(shaderRef'[t].uniforms)
    OBVIOUS
  <2>1. CASE t = s BY <1>2, <1>17, <1>18, <1>19, <2>1
  <2>2. CASE t # s
    <3>1. t \in shaders /\ t \in Shaders BY <1>2, <1>20, <2>2
    <3>2. shaderRef'[t] = shaderRef[t] BY <1>2, <2>2, <3>1
    <3> QED BY <1>1, <1>17, <1>18, <2>2, <3>1, <3>2
  <2> QED BY <2>1, <2>2
<1>25. z.uniforms = uniforms' /\ z.shaders = shaders' /\ z.programs = programs'
  BY <1>1, <1>2, <1>7, <1>8, <1>18
<1>26. Agrees(z, full)' BY <1>15, <1>21, <1>22, <1>23, <1>24, <1>25 DEF Agrees, NamesAgree
<1> QED BY <1>13, <1>14, <1>15, <1>26

\* What is queued is what nobody refers to, and it is what the frame destroys.
QueuesExact ==
    /\ NoRepeat(submit.post)
    /\ ToSet(submit.freeShader) = Named(submit.post, "DestroyShader")
    /\ ToSet(submit.freeProgram) = Named(submit.post, "DestroyProgram")
    /\ ToSet(submit.freeUniform) = Named(submit.post, "DestroyUniform")
    /\ Named(submit.post, "DestroyShader") = {s \in shaders : shaderRef[s].refCount = 0}
    /\ Named(submit.post, "DestroyProgram") = {p \in programs : app.program[p] = 0}
    /\ Named(submit.post, "DestroyUniform") \subseteq uniforms
    /\ \A s \in shaders : shaderRef[s].refCount \in Nat
    /\ \A s \in Shaders : ToSet(shaderRef[s].uniforms) \subseteq uniforms \union {NoHandle}

\* What is queued is in use and no longer counted.
LEMMA QueueFacts ==
    Types /\ ApiInv => QueuesExact
<1> SUFFICES ASSUME Types, ApiInv PROVE QueuesExact
  OBVIOUS
<1>1. /\ RefInv(Refs, Wanted, app.uniform, shaders, uniforms)
      /\ Wanted \in [Shaders -> Nat] /\ shaders \subseteq Shaders
      /\ \A s \in shaders : shaderRef[s].refCount = Wanted[s]
  BY ApiFacts
<1>2. Refs.frame = submit /\ Refs.shader = shaderRef BY DEF Refs
<1>3. ProgramsExact BY DEF ApiInv
<1>4. QueueExact(submit.freeProgram, app.program, programs, submit.post, "DestroyProgram")
  BY <1>3 DEF ProgramsExact
<1> HIDE DEF Refs, Wanted
<1> DEFINE wu == Totals(Refs.shader, app.uniform)
<1>5. /\ ShadersExact(Refs, Wanted, shaders) /\ UniformsExact(Refs, wu, uniforms)
      /\ NoRepeat(submit.post) /\ Lists(Refs.shader, Wanted, uniforms)
  BY <1>1, <1>2 DEF RefInv, Exact
<1> HIDE DEF wu
<1>6. /\ ToSet(submit.freeShader) = {s \in shaders : Wanted[s] = 0}
      /\ Named(submit.post, "DestroyShader") = ToSet(submit.freeShader)
  BY <1>2, <1>5 DEF ShadersExact, QueueExact
<1>7. /\ ToSet(submit.freeUniform) \subseteq uniforms
      /\ Named(submit.post, "DestroyUniform") = ToSet(submit.freeUniform)
  BY <1>2, <1>5 DEF UniformsExact, QueueExact
<1>8. /\ ToSet(submit.freeProgram) = {p \in programs : app.program[p] = 0}
      /\ Named(submit.post, "DestroyProgram") = ToSet(submit.freeProgram)
  BY <1>4 DEF QueueExact
<1>9. {s \in shaders : Wanted[s] = 0} = {s \in shaders : shaderRef[s].refCount = 0} BY <1>1
<1>10. \A s \in shaders : shaderRef[s].refCount \in Nat BY <1>1
<1>11. \A s \in Shaders : ToSet(shaderRef[s].uniforms) \subseteq uniforms \union {NoHandle}
  BY <1>2, <1>5 DEF Lists, Listed
<1> QED BY <1>5, <1>6, <1>7, <1>8, <1>9, <1>10, <1>11 DEF QueuesExact

\* The same in the next state.
LEMMA QueueFactsNext == (Types /\ ApiInv => QueuesExact)'
BY QueueFacts, PTL

\* What a list of commands that destroy objects leaves.
LEMMA AfterIs ==
    ASSUME NEW post, NEW x \in Renderers
    PROVE  LET z == After(post, x)
           IN  /\ z \in Renderers
               /\ z.uniforms = x.uniforms \ Named(post, "DestroyUniform")
               /\ z.shaders = x.shaders \ Named(post, "DestroyShader")
               /\ z.programs = x.programs \ Named(post, "DestroyProgram")
               /\ \A s \in Shaders : z.uses[s] = IF s \in Named(post, "DestroyShader") THEN {} ELSE x.uses[s]
               /\ \A p \in Programs : z.links[p] = IF p \in Named(post, "DestroyProgram") THEN {} ELSE x.links[p]
               /\ \A n \in Names : z.registry[n] = IF x.registry[n] \in Named(post, "DestroyUniform")
                                                      THEN NoHandle ELSE x.registry[n]
<1> DEFINE us == [s \in Shaders |-> IF s \in Named(post, "DestroyShader") THEN {} ELSE x.uses[s]]
           ls == [p \in Programs |-> IF p \in Named(post, "DestroyProgram") THEN {} ELSE x.links[p]]
           rs == [n \in Names |-> IF x.registry[n] \in Named(post, "DestroyUniform")
                                     THEN NoHandle ELSE x.registry[n]]
           z == After(post, x)
<1>1. /\ x.uniforms \subseteq Uniforms /\ x.shaders \subseteq Shaders /\ x.programs \subseteq Programs
      /\ \A s \in Shaders : x.uses[s] \subseteq Uniforms
      /\ \A p \in Programs : x.links[p] \subseteq Shaders
      /\ \A n \in Names : x.registry[n] \in Uniforms \union {NoHandle}
  BY DEF Renderers
<1>2. us \in [Shaders -> SUBSET Uniforms] BY <1>1
<1>3. ls \in [Programs -> SUBSET Shaders] BY <1>1
<1>4. rs \in [Names -> Uniforms \union {NoHandle}] BY <1>1
<1>5. /\ \A s \in Shaders : us[s] = IF s \in Named(post, "DestroyShader") THEN {} ELSE x.uses[s]
      /\ \A p \in Programs : ls[p] = IF p \in Named(post, "DestroyProgram") THEN {} ELSE x.links[p]
      /\ \A n \in Names : rs[n] = IF x.registry[n] \in Named(post, "DestroyUniform")
                                     THEN NoHandle ELSE x.registry[n]
  OBVIOUS
<1>6. z = [uniforms |-> x.uniforms \ Named(post, "DestroyUniform"),
           shaders  |-> x.shaders \ Named(post, "DestroyShader"),
           programs |-> x.programs \ Named(post, "DestroyProgram"),
           uses |-> us, links |-> ls, registry |-> rs]
  BY DEF After
<1> HIDE DEF z, us, ls, rs
<1>7. z \in Renderers BY <1>1, <1>2, <1>3, <1>4, <1>6 DEF Renderers
<1>8. /\ z.uniforms = x.uniforms \ Named(post, "DestroyUniform")
      /\ z.shaders = x.shaders \ Named(post, "DestroyShader")
      /\ z.programs = x.programs \ Named(post, "DestroyProgram")
      /\ z.uses = us /\ z.links = ls /\ z.registry = rs
  BY <1>6
<1>9. /\ \A s \in Shaders : z.uses[s] = IF s \in Named(post, "DestroyShader") THEN {} ELSE x.uses[s]
      /\ \A p \in Programs : z.links[p] = IF p \in Named(post, "DestroyProgram") THEN {} ELSE x.links[p]
      /\ \A n \in Names : z.registry[n] = IF x.registry[n] \in Named(post, "DestroyUniform")
                                             THEN NoHandle ELSE x.registry[n]
  BY <1>5, <1>8
<1> QED BY <1>7, <1>8, <1>9 DEF z

\* An empty list leaves everything.
LEMMA AfterNothing ==
    ASSUME NEW x \in Renderers
    PROVE  After(<<>>, x) = x
<1> DEFINE z == After(<<>>, x)
<1>1. /\ z \in Renderers
      /\ z.uniforms = x.uniforms \ Named(<<>>, "DestroyUniform")
      /\ z.shaders = x.shaders \ Named(<<>>, "DestroyShader")
      /\ z.programs = x.programs \ Named(<<>>, "DestroyProgram")
      /\ \A s \in Shaders : z.uses[s] = IF s \in Named(<<>>, "DestroyShader") THEN {} ELSE x.uses[s]
      /\ \A p \in Programs : z.links[p] = IF p \in Named(<<>>, "DestroyProgram") THEN {} ELSE x.links[p]
      /\ \A n \in Names : z.registry[n] = IF x.registry[n] \in Named(<<>>, "DestroyUniform")
                                             THEN NoHandle ELSE x.registry[n]
  BY AfterIs
<1> HIDE DEF z
<1>2. \A op : Named(<<>>, op) = {} BY NamedNothing
<1>3. z.uses = x.uses BY <1>1, <1>2 DEF Renderers
<1>4. z.links = x.links BY <1>1, <1>2 DEF Renderers
<1>5. z.registry = x.registry BY <1>1, <1>2 DEF Renderers
<1>6. z.uniforms = x.uniforms /\ z.shaders = x.shaders /\ z.programs = x.programs BY <1>1, <1>2
<1>7. z = x BY <1>1, <1>3, <1>4, <1>5, <1>6, SameRenderer
<1> QED BY <1>7 DEF z

\* frame: what the API thread counts on then is what the frame leaves.
LEMMA AgreesFrame ==
    ASSUME Types, ApiInv, Types', ApiInv', FrameTaken, NEW full \in BOOLEAN,
           NEW y, Agrees(y, full), NEW z, z = After(submit.post, y)
    PROVE  Destroyable(submit.post, y) /\ Agrees(z, full)'
<1>1. /\ y \in Renderers
      /\ y.uniforms = uniforms /\ y.shaders = shaders /\ y.programs = programs
      /\ NamesAgree(y.registry)
      /\ \A q \in programs : y.links[q] = {programRef[q].vsh, programRef[q].fsh} \ {NoHandle}
      /\ Complete(y, submit.draws, full)
      /\ full => \A s \in shaders : shaderRef[s].refCount > 0 => y.uses[s] = ToSet(shaderRef[s].uniforms)
  BY AgreesIs
<1> DEFINE GoneS == Named(submit.post, "DestroyShader")
           GoneP == Named(submit.post, "DestroyProgram")
           GoneU == Named(submit.post, "DestroyUniform")
<1>2. /\ shaders' = shaders \ GoneS /\ programs' = programs \ GoneP /\ uniforms' = uniforms \ GoneU
      /\ submit'.draws = {} /\ submit'.freeUniform = <<>>
      /\ uniformMap' = uniformMap /\ shaderRef' = shaderRef /\ programRef' = programRef
  BY DEF FrameTaken, EmptyFrame
<1>3. /\ NoRepeat(submit.post)
      /\ ToSet(submit.freeUniform) = GoneU
      /\ GoneS = {s \in shaders : shaderRef[s].refCount = 0}
      /\ GoneP = {p \in programs : app.program[p] = 0}
      /\ GoneU \subseteq uniforms
      /\ \A s \in shaders : shaderRef[s].refCount \in Nat
  BY QueueFacts DEF QueuesExact
<1>4. Destroyable(submit.post, y) BY <1>1, <1>3 DEF Destroyable
<1>5. /\ z \in Renderers
      /\ z.uniforms = y.uniforms \ GoneU /\ z.shaders = y.shaders \ GoneS
      /\ z.programs = y.programs \ GoneP
      /\ \A s \in Shaders : z.uses[s] = IF s \in GoneS THEN {} ELSE y.uses[s]
      /\ \A p \in Programs : z.links[p] = IF p \in GoneP THEN {} ELSE y.links[p]
      /\ \A n \in Names : z.registry[n] = IF y.registry[n] \in GoneU THEN NoHandle ELSE y.registry[n]
  BY <1>1, AfterIs
<1> HIDE DEF GoneS, GoneP, GoneU
<1>6. z.uniforms = uniforms' /\ z.shaders = shaders' /\ z.programs = programs' BY <1>1, <1>2, <1>5
<1>7. NamesAgree(z.registry)'
  <2> SUFFICES ASSUME NEW n \in Names
               PROVE  \/ <<n, z.registry[n]>> \in uniformMap'
                      \/ /\ \A u \in Uniforms : <<n, u>> \notin uniformMap'
                         /\ z.registry[n] \in ToSet(submit'.freeUniform) \union {NoHandle}
    BY DEF NamesAgree
  <2>1. CASE <<n, y.registry[n]>> \in uniformMap
    <3>1. y.registry[n] \notin GoneU BY <1>3, <2>1, MapFacts DEF NamesExact
    <3> QED BY <1>2, <1>5, <2>1, <3>1
  <2>2. CASE <<n, y.registry[n]>> \notin uniformMap
    <3>1. /\ \A u \in Uniforms : <<n, u>> \notin uniformMap
          /\ y.registry[n] \in GoneU \union {NoHandle}
      BY <1>1, <1>3, <2>2 DEF NamesAgree
    <3>2. z.registry[n] = NoHandle BY <1>5, <3>1
    <3> QED BY <1>2, <3>1, <3>2
  <2> QED BY <2>1, <2>2
<1>8. shaders \subseteq Shaders /\ programs \subseteq Programs BY ApiFacts
<1>9. \A q \in programs' : z.links[q] = {programRef'[q].vsh, programRef'[q].fsh} \ {NoHandle}
  BY <1>1, <1>2, <1>5, <1>8
<1>10. \A s \in shaders' : s \in shaders /\ shaderRef[s].refCount > 0 /\ z.uses[s] = y.uses[s]
  BY <1>2, <1>3, <1>5, <1>8
<1>11. \A q \in programs' : z.links[q] \subseteq shaders'
  <2> SUFFICES ASSUME NEW q \in programs' PROVE z.links[q] \subseteq shaders'
    OBVIOUS
  <2>1. app.program \in [Programs -> Nat] BY AppTypes
  <2>2. q \in programs /\ app.program[q] > 0 BY <1>2, <1>3, <1>8, <2>1
  <2> DEFINE v == programRef[q].vsh
             f == programRef[q].fsh
  <2>3. Counted(Wanted, shaders, v, f) BY <2>2, LinkedIs
  <2>4. \A s \in shaders : Wanted[s] > 0 => s \in shaders'
    <3>1. \A s \in shaders : shaderRef[s].refCount = Wanted[s] BY ApiFacts
    <3> HIDE DEF Wanted
    <3> QED BY <1>2, <1>3, <3>1
  <2>5. v \in shaders' /\ (f # NoHandle => f \in shaders')
    <3> HIDE DEF Wanted
    <3> QED BY <2>3, <2>4 DEF Counted
  <2> QED BY <1>2, <1>9, <2>5
<1>12. full => \A s \in shaders' : z.uses[s] \subseteq uniforms'
  <2> SUFFICES ASSUME full, NEW s \in shaders' PROVE z.uses[s] \subseteq uniforms'
    OBVIOUS
  <2>1. s \in Shaders BY <1>8, <1>10
  <2>2. ToSet(shaderRef'[s].uniforms) \subseteq uniforms' \union {NoHandle}
    BY <2>1, QueueFactsNext DEF QueuesExact
  <2>3. z.uses[s] = ToSet(shaderRef[s].uniforms) BY <1>1, <1>10
  <2>4. z.uses[s] \subseteq Uniforms BY <1>5, <2>1 DEF Renderers
  <2> QED BY <1>2, <2>2, <2>3, <2>4, NoHandleAssumption
<1>13. Complete(z, submit'.draws, full) BY <1>2, <1>6, <1>11, <1>12 DEF Complete
<1>14. full => \A s \in shaders' : shaderRef'[s].refCount > 0 => z.uses[s] = ToSet(shaderRef'[s].uniforms)
  BY <1>1, <1>2, <1>10
<1>15. Agrees(z, full)' BY <1>5, <1>6, <1>7, <1>9, <1>13, <1>14 DEF Agrees, NamesAgree
<1> QED BY <1>4, <1>15

-----------------------------------------------------------------------------
(* The renderer executes.                                                   *)

\* A command that destroys an object, if the renderer has x.
Without(z, x, c) ==
    /\ z \in Renderers
    /\ z.uniforms = x.uniforms \ {h \in {c.h} : c.op = "DestroyUniform"}
    /\ z.shaders = x.shaders \ {h \in {c.h} : c.op = "DestroyShader"}
    /\ z.programs = x.programs \ {h \in {c.h} : c.op = "DestroyProgram"}
    /\ \A s \in Shaders : z.uses[s] = IF c.op = "DestroyShader" /\ s = c.h THEN {} ELSE x.uses[s]
    /\ \A p \in Programs : z.links[p] = IF c.op = "DestroyProgram" /\ p = c.h THEN {} ELSE x.links[p]
    /\ \A n \in Names : z.registry[n] = IF c.op = "DestroyUniform" /\ x.registry[n] = c.h
                                           THEN NoHandle ELSE x.registry[n]

\* What Execute changes, command by command.
LEMMA ExecuteCases ==
    ASSUME NEW c, Execute(c)
    PROVE  /\ c.op = "CreateUniform" =>
                 /\ rUniforms' = rUniforms \union {c.h}
                 /\ registry' = RegistryAdd(c.name, c.h)
                 /\ UNCHANGED <<rShaders, rPrograms, rUses, rLinks>>
           /\ c.op = "DestroyUniform" =>
                 /\ rUniforms' = rUniforms \ {c.h}
                 /\ registry' = RegistryRemove(c.h)
                 /\ UNCHANGED <<rShaders, rPrograms, rUses, rLinks>>
           /\ c.op = "CreateShader" =>
                 /\ rShaders' = rShaders \union {c.h}
                 /\ rUses' = [rUses EXCEPT ![c.h] = Found(c.bin)]
                 /\ UNCHANGED <<rPrograms, rUniforms, rLinks, registry>>
           /\ c.op = "DestroyShader" =>
                 /\ rShaders' = rShaders \ {c.h}
                 /\ rUses' = [rUses EXCEPT ![c.h] = {}]
                 /\ UNCHANGED <<rPrograms, rUniforms, rLinks, registry>>
           /\ c.op = "CreateProgram" =>
                 /\ rPrograms' = rPrograms \union {c.h}
                 /\ rLinks' = [rLinks EXCEPT ![c.h] = {c.vsh, c.fsh} \ {NoHandle}]
                 /\ UNCHANGED <<rShaders, rUniforms, rUses, registry>>
           /\ c.op = "DestroyProgram" =>
                 /\ rPrograms' = rPrograms \ {c.h}
                 /\ rLinks' = [rLinks EXCEPT ![c.h] = {}]
                 /\ UNCHANGED <<rShaders, rUniforms, rUses, registry>>
<1>1. CASE c.op = "CreateUniform" BY <1>1, Zenon DEF Execute
<1>2. CASE c.op = "DestroyUniform" BY <1>2, Zenon DEF Execute
<1>3. CASE c.op = "CreateShader" BY <1>3, Zenon DEF Execute
<1>4. CASE c.op = "DestroyShader" BY <1>4, Zenon DEF Execute
<1>5. CASE c.op = "CreateProgram" BY <1>5, Zenon DEF Execute
<1>6. CASE c.op = "DestroyProgram" BY <1>6, Zenon DEF Execute
<1> QED BY <1>1, <1>2, <1>3, <1>4, <1>5, <1>6

\* The parts of what the renderer has.
LEMMA ObjectsAre ==
    /\ Objects.uniforms = rUniforms /\ Objects.shaders = rShaders /\ Objects.programs = rPrograms
    /\ Objects.uses = rUses /\ Objects.links = rLinks /\ Objects.registry = registry
BY DEF Objects

\* The same in the next state.
LEMMA ObjectsNext ==
    Objects' = [uniforms |-> rUniforms', shaders |-> rShaders', programs |-> rPrograms',
                uses |-> rUses', links |-> rLinks', registry |-> registry']
BY DEF Objects

\* A command that creates has its effect.
LEMMA ExecuteCreates ==
    ASSUME Objects \in Renderers, NEW c \in PreCommands, Execute(c)
    PROVE  Objects' = Effect(Objects, c)
<1> DEFINE x == Objects
           e == Effect(x, c)
<1>1. x.uniforms = rUniforms /\ x.shaders = rShaders /\ x.programs = rPrograms
      /\ x.uses = rUses /\ x.links = rLinks /\ x.registry = registry
  BY ObjectsAre
<1>2. c.op \in {"CreateUniform", "CreateShader", "CreateProgram"} BY DEF PreCommands
<1>3. x \in Renderers /\ e \in Renderers BY EffectType
<1> HIDE DEF x
<1> DEFINE Same == /\ e.uniforms = rUniforms' /\ e.shaders = rShaders' /\ e.programs = rPrograms'
                   /\ e.uses = rUses' /\ e.links = rLinks' /\ e.registry = registry'
<1>4. ASSUME c.op = "CreateUniform" PROVE Same
  <2> DEFINE g == [x.registry EXCEPT ![c.name] = c.h]
             u == x.uniforms \union {c.h}
  <2>1. rUniforms' = u /\ registry' = g
        /\ rShaders' = rShaders /\ rPrograms' = rPrograms /\ rUses' = rUses /\ rLinks' = rLinks
    BY <1>1, <1>4, ExecuteCases DEF RegistryAdd
  <2>2. e = [x EXCEPT !.uniforms = u, !.registry = g] BY <1>4 DEF Effect
  <2> HIDE DEF e, g, u
  <2>3. e.uniforms = u /\ e.registry = g /\ e.shaders = x.shaders /\ e.programs = x.programs
        /\ e.uses = x.uses /\ e.links = x.links
    BY <1>3, <2>2 DEF Renderers
  <2> QED BY <1>1, <2>1, <2>3
<1>5. ASSUME c.op = "CreateShader" PROVE Same
  <2> DEFINE g == [x.uses EXCEPT ![c.h] = FoundIn(x, c.bin)]
             u == x.shaders \union {c.h}
  <2>1. Found(c.bin) = FoundIn(x, c.bin) BY <1>1 DEF Found, FoundIn
  <2>2. rShaders' = u /\ rUses' = g
        /\ rUniforms' = rUniforms /\ rPrograms' = rPrograms /\ registry' = registry /\ rLinks' = rLinks
    BY <1>1, <1>5, <2>1, ExecuteCases
  <2>3. e = [x EXCEPT !.shaders = u, !.uses = g] BY <1>5 DEF Effect
  <2> HIDE DEF e, g, u
  <2>4. e.uniforms = x.uniforms /\ e.registry = x.registry /\ e.shaders = u /\ e.programs = x.programs
        /\ e.uses = g /\ e.links = x.links
    BY <1>3, <2>3 DEF Renderers
  <2> QED BY <1>1, <2>2, <2>4
<1>6. ASSUME c.op = "CreateProgram" PROVE Same
  <2> DEFINE g == [x.links EXCEPT ![c.h] = {c.vsh, c.fsh} \ {NoHandle}]
             u == x.programs \union {c.h}
  <2>1. rPrograms' = u /\ rLinks' = g
        /\ rUniforms' = rUniforms /\ rShaders' = rShaders /\ registry' = registry /\ rUses' = rUses
    BY <1>1, <1>6, ExecuteCases
  <2>2. e = [x EXCEPT !.programs = u, !.links = g] BY <1>6 DEF Effect
  <2> HIDE DEF e, g, u
  <2>3. e.uniforms = x.uniforms /\ e.registry = x.registry /\ e.shaders = x.shaders /\ e.programs = u
        /\ e.uses = x.uses /\ e.links = g
    BY <1>3, <2>2 DEF Renderers
  <2> QED BY <1>1, <2>1, <2>3
<1>7. Same BY <1>2, <1>4, <1>5, <1>6
<1> HIDE DEF e
<1>8. PICK z : z = Objects' OBVIOUS
<1>9. /\ z.uniforms = rUniforms' /\ z.shaders = rShaders' /\ z.programs = rPrograms'
      /\ z.uses = rUses' /\ z.links = rLinks' /\ z.registry = registry'
  BY <1>8, ObjectsNext
<1>10. z \in Renderers BY <1>3, <1>7, <1>8, ObjectsNext DEF Renderers
<1>11. z = e BY <1>3, <1>7, <1>9, <1>10, SameRenderer
<1> QED BY <1>8, <1>11 DEF e, x

\* A command that destroys takes its object away.
LEMMA ExecuteDestroys ==
    ASSUME Objects \in Renderers, NEW c \in PostCommands, Execute(c),
           NEW z, z = Objects'
    PROVE  Without(z, Objects, c)
<1>1. /\ rUniforms \subseteq Uniforms /\ rShaders \subseteq Shaders /\ rPrograms \subseteq Programs
      /\ rUses \in [Shaders -> SUBSET Uniforms] /\ rLinks \in [Programs -> SUBSET Shaders]
      /\ registry \in [Names -> Uniforms \union {NoHandle}]
  BY ObjectsAre DEF Renderers
<1>2. /\ z.uniforms = rUniforms' /\ z.shaders = rShaders' /\ z.programs = rPrograms'
      /\ z.uses = rUses' /\ z.links = rLinks' /\ z.registry = registry'
  BY ObjectsNext
<1>3. z = [uniforms |-> rUniforms', shaders |-> rShaders', programs |-> rPrograms',
           uses |-> rUses', links |-> rLinks', registry |-> registry']
  BY ObjectsNext
<1>4. \/ c.op = "DestroyUniform" /\ c.h \in Uniforms
      \/ c.op = "DestroyShader" /\ c.h \in Shaders
      \/ c.op = "DestroyProgram" /\ c.h \in Programs
  BY DEF PostCommands
<1>5. /\ rUniforms' = rUniforms \ {h \in {c.h} : c.op = "DestroyUniform"}
      /\ rShaders' = rShaders \ {h \in {c.h} : c.op = "DestroyShader"}
      /\ rPrograms' = rPrograms \ {h \in {c.h} : c.op = "DestroyProgram"}
  BY <1>4, ExecuteCases
<1>6. /\ rUses' \in [Shaders -> SUBSET Uniforms]
      /\ \A s \in Shaders : rUses'[s] = IF c.op = "DestroyShader" /\ s = c.h THEN {} ELSE rUses[s]
  <2>1. CASE c.op = "DestroyShader"
    <3>1. rUses' = [rUses EXCEPT ![c.h] = {}] BY <2>1, ExecuteCases
    <3> QED BY <1>1, <2>1, <3>1
  <2>2. CASE c.op # "DestroyShader"
    <3>1. rUses' = rUses BY <1>4, <2>2, ExecuteCases
    <3> QED BY <1>1, <2>2, <3>1
  <2> QED BY <2>1, <2>2
<1>7. /\ rLinks' \in [Programs -> SUBSET Shaders]
      /\ \A p \in Programs : rLinks'[p] = IF c.op = "DestroyProgram" /\ p = c.h THEN {} ELSE rLinks[p]
  <2>1. CASE c.op = "DestroyProgram"
    <3>1. rLinks' = [rLinks EXCEPT ![c.h] = {}] BY <2>1, ExecuteCases
    <3> QED BY <1>1, <2>1, <3>1
  <2>2. CASE c.op # "DestroyProgram"
    <3>1. rLinks' = rLinks BY <1>4, <2>2, ExecuteCases
    <3> QED BY <1>1, <2>2, <3>1
  <2> QED BY <2>1, <2>2
<1>8. /\ registry' \in [Names -> Uniforms \union {NoHandle}]
      /\ \A n \in Names : registry'[n] = IF c.op = "DestroyUniform" /\ registry[n] = c.h
                                            THEN NoHandle ELSE registry[n]
  <2>1. CASE c.op = "DestroyUniform"
    <3>1. registry' = RegistryRemove(c.h) BY <2>1, ExecuteCases
    <3>2. registry' = [n \in Names |-> IF registry[n] = c.h THEN NoHandle ELSE registry[n]]
      BY <3>1 DEF RegistryRemove
    <3> QED BY <1>1, <2>1, <3>2
  <2>2. CASE c.op # "DestroyUniform"
    <3>1. registry' = registry BY <1>4, <2>2, ExecuteCases
    <3> QED BY <1>1, <2>2, <3>1
  <2> QED BY <2>1, <2>2
<1>9. z \in Renderers BY <1>1, <1>3, <1>5, <1>6, <1>7, <1>8 DEF Renderers
<1> QED BY <1>2, <1>5, <1>6, <1>7, <1>8, <1>9, ObjectsAre DEF Without

\* The rest of the commands do the rest.
LEMMA AfterTail ==
    ASSUME NEW p \in Seq(PostCommands), p # <<>>, NEW x \in Renderers, Destroyable(p, x),
           NEW z, Without(z, x, Head(p))
    PROVE  After(Tail(p), z) = After(p, x) /\ Destroyable(Tail(p), z)
<1> DEFINE c == Head(p)
           a == After(Tail(p), z)
           b == After(p, x)
<1>1. /\ \A op : Named(p, op) = Named(Tail(p), op) \union {h \in {c.h} : c.op = op}
      /\ NoRepeat(Tail(p)) /\ c.h \notin Named(Tail(p), c.op)
  BY NamedTail DEF Destroyable
<1>2. /\ z \in Renderers
      /\ z.uniforms = x.uniforms \ {h \in {c.h} : c.op = "DestroyUniform"}
      /\ z.shaders = x.shaders \ {h \in {c.h} : c.op = "DestroyShader"}
      /\ z.programs = x.programs \ {h \in {c.h} : c.op = "DestroyProgram"}
      /\ \A s \in Shaders : z.uses[s] = IF c.op = "DestroyShader" /\ s = c.h THEN {} ELSE x.uses[s]
      /\ \A q \in Programs : z.links[q] = IF c.op = "DestroyProgram" /\ q = c.h THEN {} ELSE x.links[q]
      /\ \A n \in Names : z.registry[n] = IF c.op = "DestroyUniform" /\ x.registry[n] = c.h
                                             THEN NoHandle ELSE x.registry[n]
  BY DEF Without
<1>3. /\ a \in Renderers
      /\ a.uniforms = z.uniforms \ Named(Tail(p), "DestroyUniform")
      /\ a.shaders = z.shaders \ Named(Tail(p), "DestroyShader")
      /\ a.programs = z.programs \ Named(Tail(p), "DestroyProgram")
      /\ \A s \in Shaders : a.uses[s] = IF s \in Named(Tail(p), "DestroyShader") THEN {} ELSE z.uses[s]
      /\ \A q \in Programs : a.links[q] = IF q \in Named(Tail(p), "DestroyProgram") THEN {} ELSE z.links[q]
      /\ \A n \in Names : a.registry[n] = IF z.registry[n] \in Named(Tail(p), "DestroyUniform")
                                             THEN NoHandle ELSE z.registry[n]
  BY <1>2, AfterIs
<1>4. /\ b \in Renderers
      /\ b.uniforms = x.uniforms \ Named(p, "DestroyUniform")
      /\ b.shaders = x.shaders \ Named(p, "DestroyShader")
      /\ b.programs = x.programs \ Named(p, "DestroyProgram")
      /\ \A s \in Shaders : b.uses[s] = IF s \in Named(p, "DestroyShader") THEN {} ELSE x.uses[s]
      /\ \A q \in Programs : b.links[q] = IF q \in Named(p, "DestroyProgram") THEN {} ELSE x.links[q]
      /\ \A n \in Names : b.registry[n] = IF x.registry[n] \in Named(p, "DestroyUniform")
                                             THEN NoHandle ELSE x.registry[n]
  BY AfterIs
<1> HIDE DEF a, b, c
<1>5. a.uniforms = b.uniforms /\ a.shaders = b.shaders /\ a.programs = b.programs
  BY <1>1, <1>2, <1>3, <1>4
<1>6. a.uses = b.uses
  <2>1. \A s \in Shaders : a.uses[s] = b.uses[s]
    <3>1. \A s : s \in Named(p, "DestroyShader")
                   <=> s \in Named(Tail(p), "DestroyShader") \/ (c.op = "DestroyShader" /\ s = c.h)
      BY <1>1
    <3> QED BY <1>2, <1>3, <1>4, <3>1
  <2> QED BY <1>3, <1>4, <2>1 DEF Renderers
<1>7. a.links = b.links
  <2>1. \A q \in Programs : a.links[q] = b.links[q]
    <3>1. \A q : q \in Named(p, "DestroyProgram")
                   <=> q \in Named(Tail(p), "DestroyProgram") \/ (c.op = "DestroyProgram" /\ q = c.h)
      BY <1>1
    <3> QED BY <1>2, <1>3, <1>4, <3>1
  <2> QED BY <1>3, <1>4, <2>1 DEF Renderers
<1>8. a.registry = b.registry
  <2>1. \A n \in Names : a.registry[n] = b.registry[n]
    <3>1. \A h : h \in Named(p, "DestroyUniform")
                   <=> h \in Named(Tail(p), "DestroyUniform") \/ (c.op = "DestroyUniform" /\ h = c.h)
      BY <1>1
    <3> QED BY <1>2, <1>3, <1>4, <3>1
  <2> QED BY <1>3, <1>4, <2>1 DEF Renderers
<1>9. a = b BY <1>3, <1>4, <1>5, <1>6, <1>7, <1>8, SameRenderer
<1>10. Destroyable(Tail(p), z)
  <2>1. /\ Named(p, "DestroyUniform") \subseteq x.uniforms
        /\ Named(p, "DestroyShader") \subseteq x.shaders
        /\ Named(p, "DestroyProgram") \subseteq x.programs
    BY DEF Destroyable
  <2>2. Named(Tail(p), "DestroyUniform") \subseteq z.uniforms BY <1>1, <1>2, <2>1
  <2>3. Named(Tail(p), "DestroyShader") \subseteq z.shaders BY <1>1, <1>2, <2>1
  <2>4. Named(Tail(p), "DestroyProgram") \subseteq z.programs BY <1>1, <1>2, <2>1
  <2> QED BY <1>1, <2>2, <2>3, <2>4 DEF Destroyable
<1> QED BY <1>9, <1>10 DEF a, b

-----------------------------------------------------------------------------
(* What is recorded stays what the renderer can execute.                    *)

\* Wherever the commands recorded lead, they lead on to what the API thread then counts on.
Carries(full) ==
    \A w, y : Runs(submit.pre, w, y, full) /\ Agrees(y, full)
                  => \E z \in Renderers : Runs(submit'.pre, w, z, full) /\ Agrees(z, full)'

\* A call of the API thread leaves the rendered frame as it is.
LEMMA RendererSame ==
    ASSUME UNCHANGED <<render, stage, objectVars>>, NEW x, NEW full, RenderRuns(x, full)
    PROVE  RenderRuns(x, full)'
<1>1. render' = render /\ stage' = stage BY DEF objectVars
<1>2. Objects' = Objects BY DEF objectVars, Objects
<1> HIDE DEF Objects
<1> QED BY <1>1, <1>2 DEF RenderRuns

\* A call.
LEMMA CallRecorded ==
    ASSUME UNCHANGED <<render, stage, objectVars>>, NEW full, Recorded(full), Carries(full)
    PROVE  Recorded(full)'
<1>1. PICK x, y \in Renderers : /\ RenderRuns(x, full)
                                /\ Runs(submit.pre, After(render.post, x), y, full)
                                /\ Agrees(y, full)
  BY DEF Recorded
<1>2. PICK z \in Renderers : Runs(submit'.pre, After(render.post, x), z, full) /\ Agrees(z, full)'
  BY <1>1 DEF Carries
<1>3. RenderRuns(x, full)' BY <1>1, RendererSame
<1>4. render' = render OBVIOUS
<1> QED BY <1>2, <1>3, <1>4 DEF Recorded

\* A release of references records what the renderer will find.
LEMMA ReleasesCarry ==
    ASSUME Types, ApiInv, Types', ApiInv', Releases, NEW full \in BOOLEAN
    PROVE  Carries(full)
<1> SUFFICES ASSUME NEW w, NEW y, Runs(submit.pre, w, y, full), Agrees(y, full)
             PROVE  \E z \in Renderers : Runs(submit'.pre, w, z, full) /\ Agrees(z, full)'
  BY DEF Carries
<1>1. submit'.pre = submit.pre BY DEF Releases
<1>2. y \in Renderers BY AgreesIs
<1>3. Agrees(y, full)' BY AgreesReleases
<1> QED BY <1>1, <1>2, <1>3

\* The types of the commands of both frames.
LEMMA PreType ==
    ASSUME Types
    PROVE  /\ submit.pre \in Seq(PreCommands) /\ render.pre \in Seq(PreCommands)
           /\ render.post \in Seq(PostCommands) /\ render.draws \in SUBSET Programs
BY DEF Types, Frames

\* A new program finds its shaders when it is created.
LEMMA ProgramCarries ==
    ASSUME Types, ApiInv, Types', ApiInv', NEW p, NEW v \in Shaders, NEW f \in Shaders \union {NoHandle},
           ProgramMade(p, v, f), NEW full \in BOOLEAN
    PROVE  Carries(full)
<1> SUFFICES ASSUME NEW w, NEW y, Runs(submit.pre, w, y, full), Agrees(y, full)
             PROVE  \E z \in Renderers : Runs(submit'.pre, w, z, full) /\ Agrees(z, full)'
  BY DEF Carries
<1>1. PICK c : c = [op |-> "CreateProgram", h |-> p, vsh |-> v, fsh |-> f] OBVIOUS
<1>2. PICK z : z = Effect(y, c) OBVIOUS
<1>3. c \in PreCommands /\ Fits(y, c, full) /\ Agrees(z, full)' BY <1>1, <1>2, AgreesProgram
<1>4. submit'.pre = Append(submit.pre, c) BY <1>1 DEF ProgramMade
<1>5. Runs(submit'.pre, w, z, full) BY <1>2, <1>3, <1>4, PreType, RunsAppend
<1>6. z \in Renderers BY <1>2, <1>3, EffectType, AgreesIs
<1> QED BY <1>3, <1>5, <1>6

\* A new uniform finds its name free or its own.
LEMMA UniformCarries ==
    ASSUME Types, ApiInv, NEW n \in Names, NEW u \in Uniforms, UniformMade(n, u), NEW full \in BOOLEAN
    PROVE  Carries(full)
<1> SUFFICES ASSUME NEW w, NEW y, Runs(submit.pre, w, y, full), Agrees(y, full)
             PROVE  \E z \in Renderers : Runs(submit'.pre, w, z, full) /\ Agrees(z, full)'
  BY DEF Carries
<1>1. PICK c : c = [op |-> "CreateUniform", h |-> u, name |-> n] OBVIOUS
<1>2. PICK z : z = Effect(y, c) OBVIOUS
<1>3. c \in PreCommands /\ Fits(y, c, full) /\ Agrees(z, full)' BY <1>1, <1>2, AgreesUniform
<1>4. submit'.pre = Append(submit.pre, c) BY <1>1 DEF UniformMade
<1>5. Runs(submit'.pre, w, z, full) BY <1>2, <1>3, <1>4, PreType, RunsAppend
<1>6. z \in Renderers BY <1>2, <1>3, EffectType, AgreesIs
<1> QED BY <1>3, <1>5, <1>6

\* A new shader finds its uniforms created before it, if it got a handle for each.
LEMMA ShaderCarries ==
    ASSUME Types, ApiInv, NEW s, NEW bin \in Binaries, NEW choice, ShaderMade(s, bin, choice),
           Chosen(UniformsOf[bin], choice), NEW full \in BOOLEAN, full => HandlesSuffice'
    PROVE  Carries(full)
<1> SUFFICES ASSUME NEW w, NEW y, Runs(submit.pre, w, y, full), Agrees(y, full)
             PROVE  \E z \in Renderers : Runs(submit'.pre, w, z, full) /\ Agrees(z, full)'
  BY DEF Carries
<1>1. PICK names : names = UniformsOf[bin] OBVIOUS
<1> QED BY <1>1, AgreesShader

\* frame.
LEMMA FrameRecorded ==
    ASSUME Types, ApiInv, Types', ApiInv', FrameTaken, NEW full \in BOOLEAN, Recorded(full)
    PROVE  Recorded(full)'
<1>1. PICK x, y \in Renderers : /\ RenderRuns(x, full)
                                /\ Runs(submit.pre, After(render.post, x), y, full)
                                /\ Agrees(y, full)
  BY DEF Recorded
<1>2. stage = "idle" /\ stage' = "pre" /\ UNCHANGED objectVars
      /\ render'.pre = submit.pre /\ render'.post = submit.post /\ render'.draws = submit.draws
      /\ submit'.pre = <<>>
  BY DEF FrameTaken, EmptyFrame
<1>3. render.pre = <<>> /\ render.post = <<>> /\ Runs(render.pre, Objects, x, full)
  BY <1>1, <1>2 DEF RenderRuns
<1>4. After(render.post, x) = x BY <1>3, AfterNothing
<1>5. Objects = x BY <1>3, RunsNothing
<1>6. Runs(submit.pre, Objects, y, full) BY <1>1, <1>4, <1>5
<1>7. PICK z : z = After(submit.post, y) OBVIOUS
<1>8. Destroyable(submit.post, y) /\ Agrees(z, full)' BY <1>1, <1>7, AgreesFrame
<1>9. z \in Renderers BY <1>7, AfterIs
<1>10. Objects' = Objects BY <1>2 DEF objectVars, Objects
<1>11. Complete(y, submit.draws, full) BY <1>1, AgreesIs
<1> HIDE DEF Objects
<1>12. RenderRuns(y, full)' BY <1>2, <1>6, <1>8, <1>10, <1>11 DEF RenderRuns
<1>13. Runs(submit'.pre, After(render'.post, y), z, full) BY <1>2, <1>7, <1>9, RunsNothing
<1> QED BY <1>8, <1>9, <1>12, <1>13 DEF Recorded

\* While the renderer executes, nothing changes for the API thread.
LEMMA AgreesStays ==
    ASSUME UNCHANGED apiVars, NEW y, NEW full, Agrees(y, full)
    PROVE  Agrees(y, full)'
BY DEF Agrees, apiVars, handleVars, shaderVars, progVars

\* Executing a command leaves the rest of them as they were recorded.
LEMMA ExecPreRecorded ==
    ASSUME Types, ExecPre, NEW full \in BOOLEAN, Recorded(full)
    PROVE  Recorded(full)'
<1>1. PICK x, y \in Renderers : /\ RenderRuns(x, full)
                                /\ Runs(submit.pre, After(render.post, x), y, full)
                                /\ Agrees(y, full)
  BY DEF Recorded
<1>2. stage = "pre" /\ UNCHANGED apiVars BY DEF ExecPre
<1>3. submit' = submit BY <1>2 DEF apiVars
<1>4. Agrees(y, full)' BY <1>1, <1>2, AgreesStays
<1>5. /\ Runs(render.pre, Objects, x, full) /\ Complete(x, render.draws, full)
      /\ Destroyable(render.post, x)
  BY <1>1, <1>2 DEF RenderRuns
<1>6. RenderRuns(x, full)' /\ render'.post = render.post
  <2>1. CASE render.pre = <<>>
    <3>1. stage' = "submit" /\ render' = render /\ UNCHANGED objectVars BY <2>1 DEF ExecPre
    <3>2. Objects' = Objects BY <3>1 DEF objectVars, Objects
    <3> HIDE DEF Objects
    <3> QED BY <1>5, <2>1, <3>1, <3>2 DEF RenderRuns
  <2>2. CASE render.pre # <<>>
    <3>1. Execute(Head(render.pre)) /\ render' = [render EXCEPT !.pre = Tail(@)] /\ stage' = stage
      BY <2>2 DEF ExecPre
    <3>2. render'.pre = Tail(render.pre) /\ render'.post = render.post /\ render'.draws = render.draws
      BY <3>1 DEF Types, Frames
    <3>3. render.pre \in Seq(PreCommands) BY PreType
    <3>4. Head(render.pre) \in PreCommands BY <2>2, <3>3
    <3>5. Objects \in Renderers
      <4>1. Len(render.pre) \in Nat BY <3>3
      <4> QED BY <1>5, <4>1, RunsFrom
    <3>6. Objects' = Effect(Objects, Head(render.pre)) BY <3>1, <3>4, <3>5, ExecuteCreates
    <3> HIDE DEF Objects
    <3>7. Runs(Tail(render.pre), Objects', x, full) BY <1>5, <2>2, <3>3, <3>6, RunsTail
    <3> QED BY <1>2, <1>5, <3>1, <3>2, <3>7 DEF RenderRuns
  <2> QED BY <2>1, <2>2
<1> QED BY <1>1, <1>3, <1>4, <1>6 DEF Recorded

\* Submitting the draws changes no object.
LEMMA SubmitRecorded ==
    ASSUME Types, Submit, NEW full \in BOOLEAN, Recorded(full)
    PROVE  Recorded(full)'
<1>1. PICK x, y \in Renderers : /\ RenderRuns(x, full)
                                /\ Runs(submit.pre, After(render.post, x), y, full)
                                /\ Agrees(y, full)
  BY DEF Recorded
<1>2. stage = "submit" /\ stage' = "post" /\ UNCHANGED <<objectVars, apiVars>> BY DEF Submit
<1>3. submit' = submit BY <1>2 DEF apiVars
<1>4. Agrees(y, full)' BY <1>1, <1>2, AgreesStays
<1>5. /\ Runs(render.pre, Objects, x, full) /\ render.pre = <<>> /\ Destroyable(render.post, x)
  BY <1>1, <1>2 DEF RenderRuns
<1>6. render'.pre = render.pre /\ render'.post = render.post BY DEF Submit, Types, Frames
<1>7. Objects' = Objects BY <1>2 DEF objectVars, Objects
<1> HIDE DEF Objects
<1>8. RenderRuns(x, full)' BY <1>2, <1>5, <1>6, <1>7 DEF RenderRuns
<1> QED BY <1>1, <1>3, <1>4, <1>6, <1>8 DEF Recorded

\* Executing a command that destroys leaves the rest of them as they were recorded.
LEMMA ExecPostRecorded ==
    ASSUME Types, ExecPost, NEW full \in BOOLEAN, Recorded(full)
    PROVE  Recorded(full)'
<1>1. PICK x, y \in Renderers : /\ RenderRuns(x, full)
                                /\ Runs(submit.pre, After(render.post, x), y, full)
                                /\ Agrees(y, full)
  BY DEF Recorded
<1>2. stage = "post" /\ UNCHANGED apiVars BY DEF ExecPost
<1>3. submit' = submit BY <1>2 DEF apiVars
<1>4. Agrees(y, full)' BY <1>1, <1>2, AgreesStays
<1>5. /\ Runs(render.pre, Objects, x, full) /\ render.pre = <<>> /\ Destroyable(render.post, x)
  BY <1>1, <1>2 DEF RenderRuns
<1>6. Objects = x BY <1>5, RunsNothing
<1>7. CASE render.post = <<>>
  <2>1. stage' = "idle" /\ render' = render /\ UNCHANGED objectVars BY <1>7 DEF ExecPost
  <2>2. Objects' = Objects BY <2>1 DEF objectVars, Objects
  <2> HIDE DEF Objects
  <2>3. RenderRuns(x, full)' BY <1>5, <1>7, <2>1, <2>2 DEF RenderRuns
  <2> QED BY <1>1, <1>3, <1>4, <2>1, <2>3 DEF Recorded
<1>8. CASE render.post # <<>>
  <2>1. Execute(Head(render.post)) /\ render' = [render EXCEPT !.post = Tail(@)] /\ stage' = stage
    BY <1>8 DEF ExecPost
  <2>2. render'.pre = render.pre /\ render'.post = Tail(render.post) BY <2>1 DEF Types, Frames
  <2>3. render.post \in Seq(PostCommands) BY PreType
  <2>4. Head(render.post) \in PostCommands BY <1>8, <2>3
  <2>5. PICK z : z = Objects' OBVIOUS
  <2>6. Without(z, Objects, Head(render.post)) BY <1>6, <2>1, <2>4, <2>5, ExecuteDestroys
  <2> HIDE DEF Objects
  <2>7. z \in Renderers BY <2>6 DEF Without
  <2>8. After(Tail(render.post), z) = After(render.post, x) /\ Destroyable(Tail(render.post), z)
    BY <1>5, <1>6, <1>8, <2>3, <2>6, AfterTail
  <2>9. Runs(<<>>, z, z, full) BY <2>7, RunsNothing
  <2>10. RenderRuns(z, full)' BY <1>2, <1>5, <2>1, <2>2, <2>5, <2>8, <2>9 DEF RenderRuns
  <2> QED BY <1>1, <1>3, <1>4, <2>2, <2>7, <2>8, <2>10 DEF Recorded
<1> QED BY <1>7, <1>8

\* While the renderer executes, the API thread's part is as it was.
LEMMA RenderStepKeeps ==
    ASSUME Types, ApiInv, ExecPre \/ Submit \/ ExecPost
    PROVE  Types' /\ ApiInv'
<1>1. UNCHANGED apiVars BY DEF ExecPre, Submit, ExecPost
<1>2. /\ shaders' = shaders /\ programs' = programs /\ uniforms' = uniforms
      /\ shaderRef' = shaderRef /\ shaderMap' = shaderMap
      /\ uniformRef' = uniformRef /\ uniformMap' = uniformMap
      /\ programRef' = programRef /\ programMap' = programMap
      /\ app' = app /\ submit' = submit /\ calls' = calls
  BY <1>1 DEF apiVars, handleVars, shaderVars, progVars
<1>3. \A s : (LinksTo(s))' = LinksTo(s) BY <1>2, LinksStay
<1>4. Wanted' = Wanted BY <1>2, <1>3 DEF Wanted
<1>5. Refs' = Refs BY <1>2 DEF Refs
<1>6. ProgramsExact' BY <1>2, <1>3 DEF ApiInv, ProgramsExact, MadeOf
<1>7. ApiInv'
  <2> HIDE DEF Refs, Wanted
  <2> QED BY <1>2, <1>4, <1>5, <1>6 DEF ApiInv
<1>8. render \in Frames BY DEF Types
<1>9. render' \in Frames
  <2>1. CASE render' = render BY <1>8, <2>1
  <2>2. CASE render' = [render EXCEPT !.draws = {}] BY <1>8, <2>2 DEF Frames
  <2>3. CASE render.pre # <<>> /\ render' = [render EXCEPT !.pre = Tail(@)]
    <3>1. Tail(render.pre) \in Seq(PreCommands) BY <2>3, PreType
    <3> QED BY <1>8, <2>3, <3>1 DEF Frames
  <2>4. CASE render.post # <<>> /\ render' = [render EXCEPT !.post = Tail(@)]
    <3>1. Tail(render.post) \in Seq(PostCommands) BY <2>4, PreType
    <3> QED BY <1>8, <2>4, <3>1 DEF Frames
  <2> QED BY <2>1, <2>2, <2>3, <2>4 DEF ExecPre, Submit, ExecPost
<1>10. stage' \in {"idle", "pre", "submit", "post"} BY DEF Types, ExecPre, Submit, ExecPost
<1>11. Types' BY <1>2, <1>9, <1>10 DEF Types, FirstTaken
<1> QED BY <1>7, <1>11

\* Nothing happens.
LEMMA StutterKeeps ==
    ASSUME NEW full, Inv(full), UNCHANGED vars
    PROVE  Inv(full)'
<1>1. UNCHANGED apiVars /\ UNCHANGED <<render, stage, objectVars>>
  BY DEF vars, apiVars, rendVars, handleVars, shaderVars, progVars
<1>2. /\ shaders' = shaders /\ programs' = programs /\ uniforms' = uniforms
      /\ shaderRef' = shaderRef /\ shaderMap' = shaderMap
      /\ uniformRef' = uniformRef /\ uniformMap' = uniformMap
      /\ programRef' = programRef /\ programMap' = programMap
      /\ app' = app /\ submit' = submit /\ calls' = calls
      /\ render' = render /\ stage' = stage
  BY <1>1 DEF apiVars, handleVars, shaderVars, progVars
<1>3. \A s : (LinksTo(s))' = LinksTo(s) BY <1>2, LinksStay
<1>4. Wanted' = Wanted BY <1>2, <1>3 DEF Wanted
<1>5. Refs' = Refs BY <1>2 DEF Refs
<1>6. Types /\ ApiInv /\ Recorded(full) BY DEF Inv
<1>7. ProgramsExact' BY <1>2, <1>3, <1>6 DEF ApiInv, ProgramsExact, MadeOf
<1>8. ApiInv'
  <2> HIDE DEF Refs, Wanted
  <2> QED BY <1>2, <1>4, <1>5, <1>6, <1>7 DEF ApiInv
<1>9. Types' BY <1>2, <1>6 DEF Types, FirstTaken
<1>10. Recorded(full)'
  <2>1. PICK x, y \in Renderers : /\ RenderRuns(x, full)
                                  /\ Runs(submit.pre, After(render.post, x), y, full)
                                  /\ Agrees(y, full)
    BY <1>6 DEF Recorded
  <2>2. RenderRuns(x, full)' BY <1>1, <2>1, RendererSame
  <2>3. Agrees(y, full)' BY <1>1, <2>1, AgreesStays
  <2> QED BY <1>2, <2>1, <2>2, <2>3 DEF Recorded
<1> QED BY <1>8, <1>9, <1>10 DEF Inv

-----------------------------------------------------------------------------
(* The invariant.                                                           *)

\* A program function, whichever it is.
LEMMA ProgramCallKeeps ==
    ASSUME Types, ApiInv, ProgramCall, NEW full \in BOOLEAN
    PROVE  Types' /\ ApiInv' /\ Carries(full) /\ UNCHANGED <<render, stage, objectVars>>
<1>1. ASSUME NEW v \in Shaders, NEW f \in Shaders \union {NoHandle}, CreateProgramFails(v, f)
      PROVE  Types' /\ ApiInv' /\ Carries(full) /\ UNCHANGED <<render, stage, objectVars>>
  <2>1. Types' /\ ApiInv' /\ Releases BY <1>1, CreateProgramFailsKeeps
  <2>2. Carries(full) BY <2>1, ReleasesCarry
  <2> QED BY <2>1, <2>2 DEF Releases
<1>2. ASSUME NEW v \in Shaders, NEW f \in Shaders \union {NoHandle}, NEW ds \in BOOLEAN,
             ShareProgram(v, f, ds)
      PROVE  Types' /\ ApiInv' /\ Carries(full) /\ UNCHANGED <<render, stage, objectVars>>
  <2>1. Types' /\ ApiInv' /\ Releases BY <1>2, ShareProgramKeeps
  <2>2. Carries(full) BY <2>1, ReleasesCarry
  <2> QED BY <2>1, <2>2 DEF Releases
<1>3. ASSUME NEW v \in Shaders, NEW f \in Shaders \union {NoHandle}, NEW ds \in BOOLEAN,
             NEW p \in Programs, CreateProgram(p, v, f, ds)
      PROVE  Types' /\ ApiInv' /\ Carries(full) /\ UNCHANGED <<render, stage, objectVars>>
  <2>1. Types' /\ ApiInv' /\ ProgramMade(p, v, f) BY <1>3, CreateProgramKeeps
  <2>2. Carries(full) BY <2>1, ProgramCarries
  <2> QED BY <2>1, <2>2 DEF ProgramMade
<1>4. ASSUME NEW p \in Programs, DestroyProgram(p)
      PROVE  Types' /\ ApiInv' /\ Carries(full) /\ UNCHANGED <<render, stage, objectVars>>
  <2>1. Types' /\ ApiInv' /\ Releases BY <1>4, DestroyProgramKeeps
  <2>2. Carries(full) BY <2>1, ReleasesCarry
  <2> QED BY <2>1, <2>2 DEF Releases
<1>5. ASSUME NEW p \in Programs, Draw(p)
      PROVE  Types' /\ ApiInv' /\ Carries(full) /\ UNCHANGED <<render, stage, objectVars>>
  <2>1. Types' /\ ApiInv' /\ Releases BY <1>5, DrawKeeps
  <2>2. Carries(full) BY <2>1, ReleasesCarry
  <2> QED BY <2>1, <2>2 DEF Releases
<1> QED BY <1>1, <1>2, <1>3, <1>4, <1>5 DEF ProgramCall

\* Every step keeps the invariant; that shaders find their uniforms, as long as
\* every shader in use got a handle for each of them.
LEMMA NextKeeps ==
    ASSUME NEW full \in BOOLEAN, Inv(full), [Next]_vars, full => HandlesSuffice'
    PROVE  Inv(full)'
<1>1. Types /\ ApiInv /\ Recorded(full) BY DEF Inv
<1> DEFINE Called == Types' /\ ApiInv' /\ Carries(full) /\ UNCHANGED <<render, stage, objectVars>>
<1>2. ASSUME Called PROVE Inv(full)'
  <2>1. Recorded(full)' BY <1>1, <1>2, CallRecorded
  <2> QED BY <1>2, <2>1 DEF Inv
<1>3. ASSUME Releases, Types', ApiInv' PROVE Inv(full)'
  <2>1. Carries(full) BY <1>1, <1>3, ReleasesCarry
  <2>2. UNCHANGED <<render, stage, objectVars>> BY <1>3 DEF Releases
  <2> QED BY <1>2, <1>3, <2>1, <2>2
<1>4. ASSUME NEW n \in Names, NEW u \in Uniforms, UniformMade(n, u), Types', ApiInv' PROVE Inv(full)'
  <2>1. Carries(full) BY <1>1, <1>4, UniformCarries
  <2>2. UNCHANGED <<render, stage, objectVars>> BY <1>4 DEF UniformMade
  <2> QED BY <1>2, <1>4, <2>1, <2>2
<1>5. ASSUME NEW n \in Names, NEW num \in Nums[n], ShareUniform(n, num) PROVE Inv(full)'
  <2>1. Types' /\ ApiInv' /\ (Releases \/ \E u \in Uniforms : UniformMade(n, u))
    BY <1>1, <1>5, ShareUniformKeeps
  <2> QED BY <1>3, <1>4, <2>1
<1>6. ASSUME NEW n \in Names, NEW num \in Nums[n], NEW u \in Uniforms, CreateUniform(u, n, num)
      PROVE  Inv(full)'
  <2>1. Types' /\ ApiInv' /\ UniformMade(n, u) BY <1>1, <1>6, CreateUniformKeeps
  <2> QED BY <1>4, <2>1
<1>7. ASSUME NEW u \in Uniforms, DestroyUniform(u) PROVE Inv(full)'
  <2>1. Types' /\ ApiInv' /\ Releases BY <1>1, <1>7, DestroyUniformKeeps
  <2> QED BY <1>3, <2>1
<1>8. ASSUME NEW bin \in Binaries, ShareShader(bin) PROVE Inv(full)'
  <2>1. Types' /\ ApiInv' /\ Releases BY <1>1, <1>8, ShareShaderKeeps
  <2> QED BY <1>3, <2>1
<1>9. ASSUME NEW bin \in Binaries, NEW s \in Shaders, NEW choice \in UniformChoices(bin),
             CreateShader(s, bin, choice)
      PROVE  Inv(full)'
  <2>1. /\ Types' /\ ApiInv' /\ ShaderMade(s, bin, choice) /\ Chosen(UniformsOf[bin], choice)
    BY <1>1, <1>9, CreateShaderKeeps
  <2>2. Carries(full) BY <1>1, <2>1, ShaderCarries
  <2>3. UNCHANGED <<render, stage, objectVars>> BY <2>1 DEF ShaderMade
  <2> QED BY <1>2, <2>1, <2>2, <2>3
<1>10. ASSUME NEW s \in Shaders, DestroyShader(s) PROVE Inv(full)'
  <2>1. Types' /\ ApiInv' /\ Releases BY <1>1, <1>10, DestroyShaderKeeps
  <2> QED BY <1>3, <2>1
<1>11. CASE ProgramCall BY <1>1, <1>2, <1>11, ProgramCallKeeps
<1>12. CASE Frame
  <2>1. Types' /\ ApiInv' /\ FrameTaken BY <1>1, <1>12, FrameKeeps
  <2>2. Recorded(full)' BY <1>1, <2>1, FrameRecorded
  <2> QED BY <2>1, <2>2 DEF Inv
<1>13. CASE ExecPre
  <2>1. Types' /\ ApiInv' BY <1>1, <1>13, RenderStepKeeps
  <2>2. Recorded(full)' BY <1>1, <1>13, ExecPreRecorded
  <2> QED BY <2>1, <2>2 DEF Inv
<1>14. CASE Submit
  <2>1. Types' /\ ApiInv' BY <1>1, <1>14, RenderStepKeeps
  <2>2. Recorded(full)' BY <1>1, <1>14, SubmitRecorded
  <2> QED BY <2>1, <2>2 DEF Inv
<1>15. CASE ExecPost
  <2>1. Types' /\ ApiInv' BY <1>1, <1>15, RenderStepKeeps
  <2>2. Recorded(full)' BY <1>1, <1>15, ExecPostRecorded
  <2> QED BY <2>1, <2>2 DEF Inv
<1>16. CASE UNCHANGED vars BY <1>16, StutterKeeps
<1> HIDE DEF Called
<1> QED BY <1>5, <1>6, <1>7, <1>8, <1>9, <1>10, <1>11, <1>12, <1>13, <1>14, <1>15, <1>16 DEF Next

-----------------------------------------------------------------------------
(* The start.                                                               *)

\* A frame with nothing recorded.
LEMMA EmptyFrameType == EmptyFrame \in Frames
<1>1. <<>> \in Seq(PreCommands) /\ <<>> \in Seq(PostCommands) /\ <<>> \in Seq(Shaders)
      /\ <<>> \in Seq(Programs) /\ <<>> \in Seq(Uniforms)
  BY EmptySeq
<1> QED BY <1>1 DEF EmptyFrame, Frames

\* Nothing is queued while all that is in use is counted.
LEMMA NothingQueued ==
    ASSUME NEW w, NEW X, \A s \in X : w[s] # 0, NEW op
    PROVE  QueueExact(<<>>, w, X, <<>>, op)
<1>1. ToSet(<<>>) = {} BY DEF ToSet
<1>2. IsInjective(<<>>) BY DEF IsInjective
<1> QED BY <1>1, <1>2, NamedNothing DEF QueueExact

\* What Context::init makes.
LEMMA InitIs ==
    ASSUME Init
    PROVE  /\ shaders = {FirstShader} /\ programs = {} /\ uniforms = {}
           /\ shaderRef \in [Shaders -> ShaderRefs]
           /\ \A s \in Shaders : /\ shaderRef[s].refCount = InitHolds(s)
                                 /\ shaderRef[s].uniforms = <<>>
           /\ shaderRef[FirstShader].bin = DebugFont
           /\ uniformRef \in [Uniforms -> UniformRefs]
           /\ app.shader = [s \in Shaders |-> InitHolds(s)] /\ app.program = [p \in Programs |-> 0]
           /\ app.uniform = [u \in Uniforms |-> 0]
           /\ submit = EmptyFrame /\ render = EmptyFrame
<1>1. <<>> \in Seq(Uniforms \union {NoHandle}) BY EmptySeq
<1>2. shaderRef \in [Shaders -> ShaderRefs]
  <2>1. \A s : InitHolds(s) \in Int BY DEF InitHolds
  <2>2. \A s : (IF s \in InitShaders THEN DebugFont ELSE NoHandle) \in Binaries \union {NoHandle}
    BY DebugFontAssumption DEF Binaries
  <2> QED BY <1>1, <2>1, <2>2 DEF Init, ShaderRefs
<1>3. uniformRef \in [Uniforms -> UniformRefs] BY DEF Init, UniformRefs
<1>4. /\ \A s \in Shaders : shaderRef[s].refCount = InitHolds(s) /\ shaderRef[s].uniforms = <<>>
      /\ app.shader = [s \in Shaders |-> InitHolds(s)]
  BY DEF Init
<1>5. shaders = {FirstShader} BY DEF Init, InitShaders
<1>6. shaderRef[FirstShader].bin = DebugFont BY ShadersAssumption DEF Init, InitShaders
<1> QED BY <1>2, <1>3, <1>4, <1>5, <1>6 DEF Init

\* It has the types.
LEMMA InitTypes ==
    ASSUME Init
    PROVE  Types
<1>1. programRef \in [Programs -> ProgramRefs] BY ShadersAssumption DEF Init, ProgramRefs
<1>2. app \in Apps
  <2>1. MaxRefs.shader \in Nat \ {0} /\ MaxRefs.program \in Nat /\ MaxRefs.uniform \in Nat
    BY BoundsAssumption
  <2>2. 0 \in 0 .. MaxRefs.program /\ 0 \in 0 .. MaxRefs.uniform BY <2>1
  <2>3. \A s : InitHolds(s) \in 0 .. MaxRefs.shader BY <2>1 DEF InitHolds
  <2> QED BY <2>2, <2>3 DEF Init, Apps
<1>3. calls \in 0 .. MaxCalls
  <2>1. MaxCalls \in Nat BY BoundsAssumption
  <2> QED BY <2>1 DEF Init
<1>4. submit \in Frames /\ render \in Frames BY EmptyFrameType DEF Init
<1>5. stage = "idle" BY DEF Init
<1>6. FirstTaken
  <2>1. InitHolds(FirstShader) = 1 BY DEF InitHolds, InitShaders
  <2> QED BY <2>1, InitIs, ShadersAssumption DEF FirstTaken
<1> QED BY <1>1, <1>2, <1>3, <1>4, <1>5, <1>6 DEF Types

\* Nothing is counted where nothing is listed.
LEMMA NothingListed ==
    ASSUME NEW sh, \A s \in Shaders : sh[s].uniforms = <<>>, NEW a, a = [u \in Uniforms |-> 0]
    PROVE  Totals(sh, a) = a
<1>1. ToSet(<<>>) = {} BY DEF ToSet
<1>2. \A u : Users(sh, u) = {} BY <1>1 DEF Users
<1>3. Cardinality({}) = 0 BY FS_EmptySet
<1>4. \A u \in Uniforms : a[u] + Cardinality(Users(sh, u)) = 0
  <2> TAKE u \in Uniforms
  <2>1. Cardinality(Users(sh, u)) = 0 BY <1>2, <1>3
  <2>2. a[u] = 0 OBVIOUS
  <2> QED BY <2>1, <2>2
<1>5. [u \in Uniforms |-> a[u] + Cardinality(Users(sh, u))] = [u \in Uniforms |-> 0] BY <1>4
<1> QED BY <1>5 DEF Totals

\* The API thread's records are right.
LEMMA InitApi ==
    ASSUME Init
    PROVE  ApiInv
<1> DEFINE wu == Totals(Refs.shader, app.uniform)
<1> DEFINE X == {FirstShader}
           first == {<<DebugFont, FirstShader>>}
<1>1. /\ shaders = X /\ programs = {} /\ uniforms = {}
      /\ shaderRef \in [Shaders -> ShaderRefs]
      /\ \A s \in Shaders : shaderRef[s].refCount = InitHolds(s) /\ shaderRef[s].uniforms = <<>>
      /\ shaderRef[FirstShader].bin = DebugFont
      /\ uniformRef \in [Uniforms -> UniformRefs]
      /\ app.shader = [s \in Shaders |-> InitHolds(s)] /\ app.program = [p \in Programs |-> 0]
      /\ app.uniform = [u \in Uniforms |-> 0]
      /\ submit = EmptyFrame
  BY InitIs
<1>2. shaderMap = first /\ programMap = {} /\ uniformMap = {} BY DEF Init, InitShaders
<1>3. \A s : LinksTo(s) = {} BY <1>1 DEF LinksTo
<1>4. IsFiniteSet({}) /\ Cardinality({}) = 0 BY FS_EmptySet
<1>5. Wanted \in [Shaders -> Nat] /\ \A s \in Shaders : Wanted[s] = InitHolds(s)
  <2>1. \A s \in Shaders : /\ app.shader[s] + Cardinality(LinksTo(s)) = InitHolds(s)
                           /\ InitHolds(s) \in Nat
    <3> TAKE s \in Shaders
    <3>1. Cardinality(LinksTo(s)) = 0 BY <1>3, <1>4
    <3>2. app.shader[s] = InitHolds(s) BY <1>1
    <3>3. InitHolds(s) \in Nat BY DEF InitHolds
    <3> QED BY <3>1, <3>2, <3>3
  <2> QED BY <2>1 DEF Wanted
<1>6. /\ Refs.shader = shaderRef /\ Refs.shaders = first /\ Refs.uniform = uniformRef
      /\ Refs.uniforms = {} /\ Refs.frame = EmptyFrame
  BY <1>1, <1>2 DEF Refs
<1>7. Refs \in RefRecords
  <2>1. first \in SUBSET (Binaries \X Shaders)
    BY DebugFontAssumption, ShadersAssumption DEF Binaries
  <2> HIDE DEF first
  <2> QED BY <1>1, <1>2, <2>1, EmptyFrameType DEF Refs, RefRecords
<1>8. wu = [u \in Uniforms |-> 0] BY <1>1, <1>6, NothingListed
<1> HIDE DEF wu, Refs, Wanted
<1>9. EmptyFrame.freeShader = <<>> /\ EmptyFrame.freeUniform = <<>> /\ EmptyFrame.freeProgram = <<>>
      /\ EmptyFrame.post = <<>> /\ EmptyFrame.draws = {}
  BY DEF EmptyFrame
<1>10. OneToOne({}) /\ OneToOne(first) BY DEF OneToOne
<1>11. ShadersExact(Refs, Wanted, shaders)
  <2>1. FirstShader \in Shaders /\ InitHolds(FirstShader) = 1
        /\ \A s \in Shaders \ X : InitHolds(s) = 0
    BY ShadersAssumption DEF InitHolds, InitShaders
  <2>2. Wants(Wanted, Shaders, X) BY <1>5, <2>1 DEF Wants
  <2>3. {x \in X : Wanted[x] > 0} = X BY <1>5, <2>1
  <2>4. MapOf(shaderRef, Wanted, X) = first BY <1>1, <2>3 DEF MapOf
  <2>5. \A s \in X : Wanted[s] # 0 BY <1>5, <2>1
  <2>6. QueueExact(<<>>, Wanted, X, <<>>, "DestroyShader") BY <2>5, NothingQueued
  <2>7. \A s \in X : shaderRef[s].refCount = Wanted[s] BY <1>1, <1>5, <2>1
  <2> HIDE DEF X, first
  <2> QED BY <1>1, <1>6, <1>9, <1>10, <2>2, <2>4, <2>6, <2>7 DEF ShadersExact
<1>12. UniformsExact(Refs, wu, uniforms)
  <2>1. Wants(wu, Uniforms, {}) BY <1>8 DEF Wants
  <2>2. Mapped({}, wu, {}) BY <1>10 DEF Mapped
  <2>3. QueueExact(<<>>, wu, {}, <<>>, "DestroyUniform") BY NothingQueued
  <2> QED BY <1>1, <1>6, <1>9, <2>1, <2>2, <2>3 DEF UniformsExact
<1>13. Lists(Refs.shader, Wanted, uniforms)
  <2>1. Listed(<<>>, {}) BY DEF Listed, Once, ToSet
  <2> QED BY <1>1, <1>6, <2>1 DEF Lists
<1>14. Exact(Refs, Wanted, wu, shaders, uniforms)
  BY <1>6, <1>7, <1>9, <1>11, <1>12, NamedNothing DEF Exact
<1>15. app.uniform \in [Uniforms -> Nat] BY <1>1
<1>16. RefInv(Refs, Wanted, app.uniform, shaders, uniforms) BY <1>13, <1>14, <1>15 DEF RefInv, wu
<1>17. ProgramsExact
  <2>1. Wants(app.program, Programs, {}) BY <1>1 DEF Wants
  <2>2. QueueExact(<<>>, app.program, {}, <<>>, "DestroyProgram") BY NothingQueued
  <2>3. {<<Key(programRef[p].vsh, programRef[p].fsh), p>> : p \in {x \in {} : app.program[x] > 0}} = {}
    OBVIOUS
  <2>4. \A s \in Shaders : IsFiniteSet(LinksTo(s)) BY <1>3, <1>4
  <2> QED BY <1>1, <1>2, <1>9, <1>10, <2>1, <2>2, <2>3, <2>4 DEF ProgramsExact
<1> QED BY <1>1, <1>9, <1>16, <1>17 DEF ApiInv

\* Nothing is recorded, and the renderer has nothing.
LEMMA InitRecorded ==
    ASSUME Init, NEW full \in BOOLEAN
    PROVE  Recorded(full)
<1> DEFINE x == Objects
<1>1. /\ x.uniforms = {} /\ x.shaders = {FirstShader} /\ x.programs = {}
      /\ x.uses = [s \in Shaders |-> {}] /\ x.links = [p \in Programs |-> {}]
      /\ x.registry = [n \in Names |-> NoHandle]
  BY ObjectsAre DEF Init, InitShaders
<1>2. x \in Renderers BY ShadersAssumption DEF Objects, Init, InitShaders, Renderers
<1> HIDE DEF x
<1>3. /\ shaders = {FirstShader} /\ programs = {} /\ uniforms = {} /\ uniformMap = {}
      /\ shaderRef[FirstShader].uniforms = <<>> /\ FirstShader \in Shaders
      /\ submit = EmptyFrame /\ render = EmptyFrame /\ stage = "idle"
  BY ShadersAssumption, InitIs DEF Init
<1>4. /\ submit.pre = <<>> /\ submit.draws = {} /\ render.pre = <<>> /\ render.post = <<>>
  BY <1>3 DEF EmptyFrame
<1>5. Runs(<<>>, x, x, full) BY <1>2, RunsNothing
<1>6. Destroyable(<<>>, x) BY NamedNothing DEF Destroyable
<1>7. RenderRuns(x, full) BY <1>3, <1>4, <1>5, <1>6 DEF RenderRuns, x
<1>8. NamesAgree(x.registry) BY <1>1, <1>3 DEF NamesAgree
<1>9. Complete(x, submit.draws, full) BY <1>1, <1>3, <1>4 DEF Complete
<1>10. Agrees(x, full)
  <2>1. ToSet(<<>>) = {} BY DEF ToSet
  <2>2. \A s \in shaders : x.uses[s] = ToSet(shaderRef[s].uniforms) BY <1>1, <1>3, <2>1
  <2> QED BY <1>1, <1>2, <1>3, <1>8, <1>9, <2>2, AgreesIs
<1>11. Runs(submit.pre, After(render.post, x), x, full) BY <1>2, <1>4, <1>5, AfterNothing
<1> QED BY <1>2, <1>7, <1>10, <1>11 DEF Recorded

\* The invariant holds at first.
LEMMA InitKeeps ==
    ASSUME Init, NEW full \in BOOLEAN
    PROVE  Inv(full)
BY InitTypes, InitApi, InitRecorded DEF Inv

-----------------------------------------------------------------------------
(* What the invariant says.                                                 *)

\* The counts, as the API thread keeps them.
CountsExact ==
    /\ \A s \in shaders : shaderRef[s].refCount = Wanted[s]
    /\ \A u \in uniforms : /\ uniformRef[u].refCount = Totals(shaderRef, app.uniform)[u]
                           /\ uniformRef[u].refCount \in Nat
    /\ QueueExact(submit.freeShader, Wanted, shaders, submit.post, "DestroyShader")
    /\ QueueExact(submit.freeUniform, Totals(shaderRef, app.uniform), uniforms, submit.post, "DestroyUniform")
    /\ shaderMap = MapOf(shaderRef, Wanted, shaders) /\ OneToOne(shaderMap)
    /\ Mapped(uniformMap, Totals(shaderRef, app.uniform), uniforms)
    /\ \A s \in Shaders \ shaders : shaderRef[s].uniforms = <<>>

\* What the invariant says of the counts.
LEMMA CountsAre ==
    ASSUME Types, ApiInv
    PROVE  CountsExact
<1>1. RefInv(Refs, Wanted, app.uniform, shaders, uniforms) BY ApiFacts
<1>2. /\ Refs.shader = shaderRef /\ Refs.uniform = uniformRef /\ Refs.shaders = shaderMap
      /\ Refs.uniforms = uniformMap /\ Refs.frame = submit
  BY DEF Refs
<1> DEFINE wu == Totals(shaderRef, app.uniform)
<1> HIDE DEF Refs, Wanted
<1>3. /\ ShadersExact(Refs, Wanted, shaders) /\ UniformsExact(Refs, wu, uniforms)
      /\ Lists(shaderRef, Wanted, uniforms)
  BY <1>1, <1>2 DEF RefInv, Exact
<1> HIDE DEF wu
<1>4. /\ \A s \in shaders : shaderRef[s].refCount = Wanted[s]
      /\ QueueExact(submit.freeShader, Wanted, shaders, submit.post, "DestroyShader")
      /\ shaderMap = MapOf(shaderRef, Wanted, shaders) /\ OneToOne(shaderMap)
      /\ \A s \in Shaders \ shaders : Wanted[s] = 0
  BY <1>2, <1>3 DEF ShadersExact, Wants
<1>5. /\ \A u \in uniforms : uniformRef[u].refCount = wu[u]
      /\ QueueExact(submit.freeUniform, wu, uniforms, submit.post, "DestroyUniform")
      /\ Mapped(uniformMap, wu, uniforms)
      /\ wu \in [Uniforms -> Nat] /\ uniforms \subseteq Uniforms
  BY <1>2, <1>3 DEF UniformsExact, Wants
<1>6. \A u \in uniforms : uniformRef[u].refCount \in Nat BY <1>5
<1>7. \A s \in Shaders \ shaders : shaderRef[s].uniforms = <<>> BY <1>3, <1>4 DEF Lists
<1> QED BY <1>4, <1>5, <1>6, <1>7 DEF CountsExact, wu

\* The invariant implies that each count is exact.
LEMMA CountsHold ==
    ASSUME Types, ApiInv
    PROVE  RefCountExact
<1>1. CountsExact /\ ProgramsExact BY CountsAre DEF ApiInv
<1>2. /\ shaders \subseteq Shaders /\ uniforms \subseteq Uniforms
      /\ \A s \in Shaders : Wanted[s] = app.shader[s] + Cardinality(LinksTo(s))
  BY ApiFacts
<1>3. /\ \A p \in programs : programRef[p].refCount = app.program[p]
      /\ QueueExact(submit.freeProgram, app.program, programs, submit.post, "DestroyProgram")
  BY <1>1 DEF ProgramsExact
<1> DEFINE wu == Totals(shaderRef, app.uniform)
<1>4. \A u \in Uniforms : wu[u] = app.uniform[u] + Cardinality(Users(shaderRef, u)) BY DEF Totals
<1> HIDE DEF wu, Wanted
<1>5. /\ \A s \in shaders : shaderRef[s].refCount = Wanted[s]
      /\ \A u \in uniforms : uniformRef[u].refCount = wu[u]
      /\ QueueExact(submit.freeShader, Wanted, shaders, submit.post, "DestroyShader")
      /\ QueueExact(submit.freeUniform, wu, uniforms, submit.post, "DestroyUniform")
      /\ \A s \in Shaders \ shaders : shaderRef[s].uniforms = <<>>
  BY <1>1 DEF CountsExact, wu
<1>6. \A s \in Shaders : shaderRef[s].uniforms \in Seq(Uniforms \union {NoHandle})
  <2>1. Refs \in RefRecords /\ Refs.shader = shaderRef BY ApiFacts DEF Refs
  <2>2. shaderRef \in [Shaders -> ShaderRefs] BY <2>1 DEF RefRecords
  <2> QED BY <2>2 DEF ShaderRefs
<1>7. \A s \in Shaders : \A u : Contains(shaderRef[s].uniforms, u) <=> u \in ToSet(shaderRef[s].uniforms)
  <2> TAKE s \in Shaders
  <2> TAKE u
  <2> DEFINE l == shaderRef[s].uniforms
  <2>1. l \in Seq(Uniforms \union {NoHandle}) BY <1>6
  <2> HIDE DEF l
  <2>2. DOMAIN l = 1 .. Len(l) BY <2>1
  <2>3. Contains(l, u) <=> u \in ToSet(l) BY <2>2 DEF Contains, ToSet
  <2> QED BY <2>3 DEF l
<1>8. \A u : Users(shaderRef, u) = {s \in shaders : Contains(shaderRef[s].uniforms, u)}
  <2> TAKE u
  <2>1. u \notin ToSet(<<>>) BY DEF ToSet
  <2>2. \A s \in Shaders \ shaders : u \notin ToSet(shaderRef[s].uniforms) BY <1>5, <2>1
  <2>3. {s \in Shaders : u \in ToSet(shaderRef[s].uniforms)}
           = {s \in shaders : Contains(shaderRef[s].uniforms, u)}
    BY <1>2, <1>7, <2>2
  <2> QED BY <2>3 DEF Users
<1>9. \A p \in programs : /\ programRef[p].refCount = app.program[p]
                          /\ programRef[p].refCount = 0 <=> p \in ToSet(submit.freeProgram)
  BY <1>3 DEF QueueExact
<1>10. \A s \in shaders : /\ shaderRef[s].refCount = app.shader[s] + Cardinality(LinksTo(s))
                          /\ shaderRef[s].refCount = 0 <=> s \in ToSet(submit.freeShader)
  BY <1>2, <1>5 DEF QueueExact
<1>11. \A u \in uniforms :
          /\ uniformRef[u].refCount = app.uniform[u] +
                Cardinality({s \in shaders : Contains(shaderRef[s].uniforms, u)})
          /\ uniformRef[u].refCount = 0 <=> u \in ToSet(submit.freeUniform)
  <2> TAKE u \in uniforms
  <2>1. uniformRef[u].refCount = app.uniform[u] + Cardinality(Users(shaderRef, u))
    BY <1>2, <1>4, <1>5
  <2>2. uniformRef[u].refCount = 0 <=> u \in ToSet(submit.freeUniform) BY <1>5 DEF QueueExact
  <2> QED BY <1>8, <2>1, <2>2
<1>12. IsInjective(submit.freeProgram) /\ IsInjective(submit.freeShader) /\ IsInjective(submit.freeUniform)
  BY <1>3, <1>5 DEF QueueExact
<1> QED BY <1>9, <1>10, <1>11, <1>12 DEF RefCountExact

\* It implies that the maps have what is counted.
LEMMA MapsHold ==
    ASSUME Types, ApiInv
    PROVE  MapsExact
<1>1. CountsExact /\ ProgramsExact BY CountsAre DEF ApiInv
<1> DEFINE wu == Totals(shaderRef, app.uniform)
<1> HIDE DEF wu, Wanted
<1>2. /\ \A s \in shaders : shaderRef[s].refCount = Wanted[s]
      /\ \A u \in uniforms : uniformRef[u].refCount = wu[u]
      /\ shaderMap = MapOf(shaderRef, Wanted, shaders) /\ OneToOne(shaderMap)
      /\ Mapped(uniformMap, wu, uniforms)
  BY <1>1 DEF CountsExact, wu
<1>3. {x \in shaders : Wanted[x] > 0} = {x \in shaders : shaderRef[x].refCount > 0} BY <1>2
<1>4. shaderMap = {<<shaderRef[s].bin, s>> : s \in {x \in shaders : shaderRef[x].refCount > 0}}
  BY <1>2, <1>3 DEF MapOf
<1>5. /\ \A p \in programs : programRef[p].refCount = app.program[p]
      /\ programMap = {<<Key(programRef[p].vsh, programRef[p].fsh), p>> :
                          p \in {x \in programs : app.program[x] > 0}}
      /\ OneToOne(programMap)
  BY <1>1 DEF ProgramsExact
<1>6. {x \in programs : app.program[x] > 0} = {x \in programs : programRef[x].refCount > 0} BY <1>5
<1>7. programMap = {<<Key(programRef[p].vsh, programRef[p].fsh), p>> :
                        p \in {x \in programs : programRef[x].refCount > 0}}
  BY <1>5, <1>6
<1>8. {u \in uniforms : wu[u] > 0} = {u \in uniforms : uniformRef[u].refCount > 0} BY <1>2
<1>9. OneToOne(uniformMap) /\ {e[2] : e \in uniformMap} = {u \in uniforms : uniformRef[u].refCount > 0}
  BY <1>2, <1>8 DEF Mapped
<1>10. ASSUME NEW v \in Shaders, NEW f \in Shaders \union {NoHandle}, CanLink(v, f),
              NEW p, p = Find(programMap, Key(v, f)), p # NoHandle
       PROVE  programRef[p].vsh = v /\ programRef[p].fsh = f
  BY <1>10, SharedIs
<1> QED BY <1>2, <1>4, <1>5, <1>7, <1>9, <1>10 DEF MapsExact

\* It gives the types of the renderer.
LEMMA RendererType ==
    ASSUME Types, NEW full \in BOOLEAN, Recorded(full)
    PROVE  Objects \in Renderers
<1>1. PICK x \in Renderers : RenderRuns(x, full) BY DEF Recorded
<1>2. Runs(render.pre, Objects, x, full) BY <1>1 DEF RenderRuns
<1>3. Len(render.pre) \in Nat BY PreType
<1> HIDE DEF Objects
<1> QED BY <1>2, <1>3, RunsFrom

\* It implies the types of all variables.
LEMMA TypesHold ==
    ASSUME NEW full \in BOOLEAN, Inv(full)
    PROVE  TypeOK
<1>1. Types /\ ApiInv /\ Recorded(full) BY DEF Inv
<1>2. shaders \subseteq Shaders /\ programs \subseteq Programs /\ uniforms \subseteq Uniforms
  BY <1>1, ApiFacts
<1>3. /\ shaderRef \in [Shaders -> ShaderRefs] /\ uniformRef \in [Uniforms -> UniformRefs]
      /\ shaderMap \subseteq Binaries \X Shaders
  <2>1. Refs \in RefRecords BY <1>1, ApiFacts
  <2>2. Refs.shader = shaderRef /\ Refs.uniform = uniformRef /\ Refs.shaders = shaderMap BY DEF Refs
  <2> HIDE DEF Refs
  <2> QED BY <2>1, <2>2 DEF RefRecords
<1>4. shaderMap \subseteq Binaries \X shaders
  <2>1. shaderMap = MapOf(shaderRef, Wanted, shaders) BY <1>1, CountsAre DEF CountsExact
  <2>2. \A e \in shaderMap : e[2] \in shaders BY <2>1 DEF MapOf
  <2>3. \A e \in shaderMap : e = <<e[1], e[2]>> /\ e[1] \in Binaries BY <1>3
  <2> QED BY <2>2, <2>3
<1>5. programMap \subseteq (Shaders \X Shaders) \X programs
  <2>1. programMap = {<<Key(programRef[p].vsh, programRef[p].fsh), p>> :
                          p \in {x \in programs : app.program[x] > 0}}
    BY <1>1 DEF ApiInv, ProgramsExact
  <2>2. programRef \in [Programs -> ProgramRefs] BY <1>1 DEF Types
  <2>3. \A p \in programs : programRef[p].vsh \in Shaders /\ programRef[p].fsh \in Shaders \union {NoHandle}
    BY <1>2, <2>2 DEF ProgramRefs
  <2>4. \A p \in programs : Key(programRef[p].vsh, programRef[p].fsh) \in Shaders \X Shaders
    BY <2>3, KeyIs
  <2> QED BY <2>1, <2>4
<1>6. uniformMap \subseteq Names \X uniforms
  <2>1. uniformMap \subseteq Names \X Uniforms BY <1>1, UniformMapIs
  <2>2. \A n, u : <<n, u>> \in uniformMap => n \in Names /\ u \in uniforms
    BY <1>1, MapFacts DEF NamesExact
  <2>3. \A e \in uniformMap : e = <<e[1], e[2]>> BY <2>1
  <2> QED BY <2>2, <2>3
<1>7. /\ app.shader \in [Shaders -> 0 .. MaxRefs.shader]
      /\ app.program \in [Programs -> 0 .. MaxRefs.program]
      /\ app.uniform \in [Uniforms -> 0 .. MaxRefs.uniform]
  BY <1>1 DEF Types, Apps
<1>8. DOMAIN submit = DOMAIN EmptyFrame /\ DOMAIN render = DOMAIN EmptyFrame
  BY <1>1 DEF Types, Frames, EmptyFrame
<1>9. /\ rShaders \subseteq Shaders /\ rPrograms \subseteq Programs /\ rUniforms \subseteq Uniforms
      /\ rUses \in [Shaders -> SUBSET Uniforms] /\ rLinks \in [Programs -> SUBSET Shaders]
      /\ registry \in [Names -> Uniforms \union {NoHandle}]
  BY <1>1, RendererType, ObjectsAre DEF Renderers
<1>10. /\ programRef \in [Programs -> ProgramRefs] /\ stage \in {"idle", "pre", "submit", "post"}
       /\ calls \in 0 .. MaxCalls
  BY <1>1 DEF Types
<1> QED BY <1>2, <1>3, <1>4, <1>5, <1>6, <1>7, <1>8, <1>9, <1>10 DEF TypeOK

\* It implies that the renderer's registry agrees with the names once it has caught up.
LEMMA RegistryHolds ==
    ASSUME NEW full \in BOOLEAN, Inv(full)
    PROVE  RegistryAgrees
<1> SUFFICES ASSUME stage = "idle", calls = 0, NEW n \in Names
             PROVE  registry[n] = Find(uniformMap, n)
  BY DEF RegistryAgrees
<1>1. Types /\ ApiInv /\ Recorded(full) BY DEF Inv
<1>2. PICK x, y \in Renderers : /\ RenderRuns(x, full)
                                /\ Runs(submit.pre, After(render.post, x), y, full)
                                /\ Agrees(y, full)
  BY <1>1 DEF Recorded
<1>3. submit = EmptyFrame BY <1>1 DEF ApiInv
<1>4. submit.pre = <<>> /\ submit.freeUniform = <<>> BY <1>3 DEF EmptyFrame
<1>5. render.pre = <<>> /\ render.post = <<>> /\ Runs(render.pre, Objects, x, full)
  BY <1>2 DEF RenderRuns
<1>6. Objects = x BY <1>5, RunsNothing
<1>7. After(render.post, x) = x BY <1>5, AfterNothing
<1>8. y = x BY <1>2, <1>4, <1>7, RunsNothing
<1>9. y.registry = registry BY <1>6, <1>8, ObjectsAre
<1>10. NamesAgree(registry) BY <1>2, <1>9, AgreesIs
<1>11. /\ Find(uniformMap, n) # NoHandle => <<n, Find(uniformMap, n)>> \in uniformMap
       /\ \A h : <<n, h>> \in uniformMap => Find(uniformMap, n) = h
  BY <1>1, UniformMapIs
<1>12. uniformMap \subseteq Names \X Uniforms BY <1>1, UniformMapIs
<1>13. ToSet(<<>>) = {} BY DEF ToSet
<1>14. CASE <<n, registry[n]>> \in uniformMap BY <1>11, <1>14
<1>15. CASE <<n, registry[n]>> \notin uniformMap
  <2>1. registry[n] = NoHandle /\ \A u \in Uniforms : <<n, u>> \notin uniformMap
    BY <1>4, <1>10, <1>13, <1>15 DEF NamesAgree
  <2> QED BY <1>11, <1>12, <2>1
<1> QED BY <1>14, <1>15

\* Whatever handles are left: commands and draws find the shaders and programs they
\* need, and what a frame destroys is there.
ObjectsFound(full) ==
    /\ stage = "pre" /\ render.pre # <<>> => Fits(Objects, Head(render.pre), full)
    /\ stage = "post" /\ render.post # <<>> => Applicable(Head(render.post))
    /\ stage = "submit" => Complete(Objects, render.draws, full)

\* The invariant implies it.
LEMMA FoundHolds ==
    ASSUME NEW full \in BOOLEAN, Inv(full)
    PROVE  ObjectsFound(full)
<1>1. Types /\ Recorded(full) BY DEF Inv
<1>2. PICK x \in Renderers : RenderRuns(x, full) BY <1>1 DEF Recorded
<1>3. Runs(render.pre, Objects, x, full) BY <1>2 DEF RenderRuns
<1> HIDE DEF Objects
<1>4. render.pre # <<>> => Fits(Objects, Head(render.pre), full) BY <1>1, <1>3, PreType, RunsTail
<1>5. stage \in {"submit", "post"} => Objects = x
  <2>1. stage \in {"submit", "post"} => render.pre = <<>> BY <1>2 DEF RenderRuns
  <2> QED BY <1>3, <2>1, RunsNothing
<1>6. stage = "submit" => Complete(Objects, render.draws, full) BY <1>2, <1>5 DEF RenderRuns
<1>7. ASSUME stage = "post", render.post # <<>> PROVE Applicable(Head(render.post))
  <2> DEFINE c == Head(render.post)
  <2>1. render.post \in Seq(PostCommands) BY <1>1, PreType
  <2>2. c \in PostCommands BY <1>7, <2>1
  <2>3. Destroyable(render.post, Objects) BY <1>2, <1>5, <1>7 DEF RenderRuns
  <2>4. c.h \in Named(render.post, c.op) BY <1>7, <2>1, <2>3, NamedTail DEF Destroyable
  <2> HIDE DEF c
  <2>5. \/ c.op = "DestroyUniform" /\ c.h \in rUniforms
        \/ c.op = "DestroyShader" /\ c.h \in rShaders
        \/ c.op = "DestroyProgram" /\ c.h \in rPrograms
    <3>1. c.op \in {"DestroyUniform", "DestroyShader", "DestroyProgram"} BY <2>2 DEF PostCommands
    <3> QED BY <2>3, <2>4, <3>1, ObjectsAre DEF Destroyable
  <2>6. ASSUME c.op = "DestroyUniform" /\ c.h \in rUniforms PROVE Applicable(c)
    BY <2>6, Zenon DEF Applicable
  <2>7. ASSUME c.op = "DestroyShader" /\ c.h \in rShaders PROVE Applicable(c)
    BY <2>7, Zenon DEF Applicable
  <2>8. ASSUME c.op = "DestroyProgram" /\ c.h \in rPrograms PROVE Applicable(c)
    BY <2>8, Zenon DEF Applicable
  <2>9. Applicable(c) BY <2>5, <2>6, <2>7, <2>8
  <2> QED BY <2>9 DEF c
<1> QED BY <1>4, <1>6, <1>7 DEF ObjectsFound

\* A command that finds what it needs, uniforms too, can be executed.
LEMMA FitsApplies ==
    ASSUME NEW c \in PreCommands, Fits(Objects, c, TRUE)
    PROVE  Applicable(c)
<1>1. CASE c.op = "CreateUniform"
  <2>1. c.h \in rUniforms => registry[c.name] = c.h BY <1>1, ObjectsAre DEF Fits
  <2> QED BY <1>1, <2>1, Zenon DEF Applicable
<1>2. CASE c.op = "CreateShader"
  <2>1. c.h \notin rShaders /\ \A n \in ToSet(UniformsOf[c.bin]) : registry[n] \in rUniforms
    BY <1>2, ObjectsAre DEF Fits
  <2> QED BY <1>2, <2>1, Zenon DEF Applicable
<1>3. CASE c.op = "CreateProgram"
  <2>1. c.h \notin rPrograms /\ {c.vsh, c.fsh} \ {NoHandle} \subseteq rShaders
    BY <1>3, ObjectsAre DEF Fits
  <2> QED BY <1>3, <2>1, Zenon DEF Applicable
<1>4. c.op \in {"CreateUniform", "CreateShader", "CreateProgram"} BY DEF PreCommands
<1> QED BY <1>1, <1>2, <1>3, <1>4

\* With a handle for each uniform the invariant implies that all that is executed and drawn is there.
LEMMA SafeHolds ==
    ASSUME Inv(TRUE)
    PROVE  RendererSafe
<1>1. ObjectsFound(TRUE) BY FoundHolds
<1>2. Types BY DEF Inv
<1>3. stage = "pre" /\ render.pre # <<>> => Applicable(Head(render.pre))
  <2> SUFFICES ASSUME stage = "pre", render.pre # <<>> PROVE Applicable(Head(render.pre))
    OBVIOUS
  <2>1. Head(render.pre) \in PreCommands BY <1>2, PreType
  <2>2. Fits(Objects, Head(render.pre), TRUE) BY <1>1 DEF ObjectsFound
  <2> QED BY <2>1, <2>2, FitsApplies
<1>4. CommandsApply BY <1>1, <1>3 DEF CommandsApply, ObjectsFound
<1>5. DrawsComplete BY <1>1, ObjectsAre DEF DrawsComplete, ObjectsFound, Complete
<1> QED BY <1>4, <1>5 DEF RendererSafe

-----------------------------------------------------------------------------
(* Theorems.                                                                *)

\* The records of the API thread are exact, and what is recorded finds what it needs,
\* whatever handles are left.
THEOREM Invariance == Spec => []Inv(FALSE)
<1>1. Init => Inv(FALSE) BY InitKeeps
<1>2. Inv(FALSE) /\ [Next]_vars => Inv(FALSE)' BY NextKeeps
<1> QED BY <1>1, <1>2, PTL DEF Spec

\* The variables keep their types, for any number of shaders, programs, uniforms and
\* calls.
THEOREM TypeCorrect == Spec => []TypeOK
<1>1. Inv(FALSE) => TypeOK BY TypesHold
<1> QED BY <1>1, Invariance, PTL

\* The reference count of each shader, program and uniform is the number of those who hold
\* it: no destroy frees what another still uses, and nothing is left over.
THEOREM CountsExactly == Spec => []RefCountExact
<1>1. Inv(FALSE) => RefCountExact BY CountsHold DEF Inv
<1> QED BY <1>1, Invariance, PTL

\* The maps by binary, by pair of shaders and by name have exactly the objects that are
\* counted, so that a create finds what can be shared and nothing that waits for release.
THEOREM MapsExactly == Spec => []MapsExact
<1>1. Inv(FALSE) => MapsExact BY MapsHold DEF Inv
<1> QED BY <1>1, Invariance, PTL

\* The uniform registry of the renderer has, for each name, the handle the API thread
\* maps it to, as far as the renderer has come.
THEOREM NamesFound == Spec => []RegistryAgrees
<1>1. Inv(FALSE) => RegistryAgrees BY RegistryHolds
<1> QED BY <1>1, Invariance, PTL

\* No command creates a shader or a program that is there or links a shader that is not,
\* none destroys what is not there, and draws find their program and its shaders.
THEOREM ObjectsAlwaysFound == Spec => []ObjectsFound(FALSE)
<1>1. Inv(FALSE) => ObjectsFound(FALSE) BY FoundHolds
<1> QED BY <1>1, Invariance, PTL

\* While no uniform handle has been missing when a shader was created, every command and
\* draw finds all it needs: the uniforms of its shaders too.  createShader does not look
\* at the handle it gets for a uniform, hence the condition.
THEOREM RendererServed == Spec /\ []HandlesSuffice => []RendererSafe
<1>1. Init => Inv(TRUE) BY InitKeeps
<1>2. Inv(TRUE) /\ [Next]_vars /\ HandlesSuffice' => Inv(TRUE)' BY NextKeeps
<1>3. Inv(TRUE) => RendererSafe BY SafeHolds
<1> QED BY <1>1, <1>2, <1>3, PTL DEF Spec

-----------------------------------------------------------------------------
(* Handles for all uniforms.                                                *)

\* A name is mapped to one handle, and a handle waits for release from the call that
\* destroys its uniform to the end of the frame.  To use up handles the calls of a frame
\* must destroy and create by turns.
EnoughUniforms ==
    /\ IsFiniteSet(Names) /\ IsFiniteSet(Uniforms)
    /\ Cardinality(Uniforms) >= Cardinality(Names) * (1 + MaxCalls \div 2)

Queued == ToSet(submit.freeUniform)

\* c calls of the frame have created uniforms, d have destroyed some.
HandlesBounded(c, d) ==
    /\ c + d <= calls
    /\ Cardinality(uniforms) <= Cardinality(Names) * (c + 1)
    /\ Cardinality(Queued) <= Cardinality(Names) * d

FewHandles == \E c, d \in Nat : HandlesBounded(c, d)

\* An image of a set of names is no larger than the set.
LEMMA ImageOfNames ==
    ASSUME IsFiniteSet(Names), NEW N \in SUBSET Names, NEW f
    PROVE  LET T == {f[n] : n \in N}
           IN  IsFiniteSet(T) /\ Cardinality(T) \in Nat /\ Cardinality(T) <= Cardinality(N)
<1> DEFINE T == {f[n] : n \in N}
           g == [n \in N |-> f[n]]
<1>1. IsFiniteSet(N) BY FS_Subset
<1>2. g \in Surjection(N, T) BY DEF Surjection
<1> HIDE DEF T, g
<1>3. IsFiniteSet(T) /\ Cardinality(T) <= Cardinality(N) BY <1>1, <1>2, FS_Surjection
<1>4. Cardinality(T) \in Nat BY <1>3, FS_CardinalityType
<1> QED BY <1>3, <1>4 DEF T

\* The names that are mapped are in M.
MapWithin(M) == \A n, u : <<n, u>> \in uniformMap => n \in M

MappedAre ==
    /\ IsFiniteSet(uniforms) /\ Queued \subseteq uniforms /\ uniforms \subseteq Uniforms
    /\ \A M \in SUBSET Names : MapWithin(M) => Cardinality(uniforms \ Queued) <= Cardinality(M)
    /\ Cardinality(uniforms \ Queued) <= Cardinality(Names)

\* Handles in use that are not queued are those of names that are mapped.
LEMMA MappedFew ==
    IsFiniteSet(Names) /\ IsFiniteSet(Uniforms) /\ Types /\ ApiInv => MappedAre
<1> SUFFICES ASSUME IsFiniteSet(Names), IsFiniteSet(Uniforms), Types, ApiInv PROVE MappedAre
    OBVIOUS
<1>1. NamesExact BY MapFacts
<1>2. IsFiniteSet(uniforms) /\ Queued \subseteq uniforms /\ uniforms \subseteq Uniforms
  BY <1>1, FS_Subset DEF NamesExact, Queued
<1>3. ASSUME NEW M \in SUBSET Names, MapWithin(M)
      PROVE  Cardinality(uniforms \ Queued) <= Cardinality(M)
  <2> DEFINE f == [n \in M |-> CHOOSE u : <<n, u>> \in uniformMap]
             T == {f[n] : n \in M}
  <2>1. ASSUME NEW u \in uniforms \ Queued PROVE u \in T
    <3>1. PICK n \in M : <<n, u>> \in uniformMap BY <1>1, <1>3 DEF NamesExact, Queued, MapWithin
    <3>2. <<n, f[n]>> \in uniformMap BY <3>1
    <3>3. f[n] = u BY <1>1, <3>1, <3>2, Zenon DEF NamesExact
    <3> QED BY <3>1, <3>3
  <2> HIDE DEF f
  <2>2. IsFiniteSet(T) /\ Cardinality(T) \in Nat /\ Cardinality(T) <= Cardinality(M)
    BY ImageOfNames
  <2> HIDE DEF T
  <2>3. uniforms \ Queued \in SUBSET T BY <2>1
  <2>4. Cardinality(uniforms \ Queued) <= Cardinality(T) BY <2>2, <2>3, FS_Subset
  <2>5. IsFiniteSet(uniforms \ Queued) /\ IsFiniteSet(M) BY <1>2, FS_Subset
  <2>6. Cardinality(uniforms \ Queued) \in Nat /\ Cardinality(M) \in Nat
    BY <2>5, FS_CardinalityType
  <2> QED BY <2>2, <2>4, <2>6
<1>4. MapWithin(Names) BY <1>1 DEF NamesExact, MapWithin
<1>5. Cardinality(uniforms \ Queued) <= Cardinality(Names) BY <1>3, <1>4
<1> QED BY <1>2, <1>3, <1>5 DEF MappedAre

\* The same in the next state.
LEMMA MappedFewNext ==
    (IsFiniteSet(Names) /\ IsFiniteSet(Uniforms) /\ Types /\ ApiInv => MappedAre)'
BY MappedFew, PTL

\* Multiplication by one more.
LEMMA OneMoreTimes == \A n, c \in Nat : n * (c + 1) = n * c + n /\ n * c \in Nat
OBVIOUS

\* A call that creates no uniform may queue as many handles as there are names.
LEMMA ReleaseFew ==
    ASSUME IsFiniteSet(Names), IsFiniteSet(Uniforms), Types, ApiInv, Types', ApiInv', FewHandles,
           uniforms' = uniforms, Queued \subseteq Queued', calls' = calls + 1
    PROVE  FewHandles'
<1>1. PICK c \in Nat, d \in Nat : HandlesBounded(c, d) BY DEF FewHandles
<1>2. /\ IsFiniteSet(uniforms) /\ Queued \subseteq uniforms
      /\ Cardinality(uniforms \ Queued) <= Cardinality(Names)
  BY MappedFew DEF MappedAre
<1>3. Queued' \subseteq uniforms BY MappedFewNext DEF MappedAre
<1> DEFINE X == uniforms \ Queued
<1>4. IsFiniteSet(Queued) /\ IsFiniteSet(X) /\ IsFiniteSet(Queued') BY <1>2, <1>3, FS_Subset
<1>5. /\ Cardinality(Queued) \in Nat /\ Cardinality(X) \in Nat /\ Cardinality(Queued') \in Nat
      /\ Cardinality(Names) \in Nat
  BY <1>4, FS_CardinalityType
<1>6. Cardinality(Queued') <= Cardinality(uniforms) BY <1>2, <1>3, FS_Subset
<1>7. Cardinality(uniforms) = Cardinality(Queued) + Cardinality(X)
  <2>1. uniforms = Queued \union X /\ Queued \intersect X = {} BY <1>2
  <2> HIDE DEF X
  <2>2. Cardinality(Queued \union X) = Cardinality(Queued) + Cardinality(X) - Cardinality(Queued \intersect X)
    BY <1>4, FS_Union
  <2> QED BY <1>5, <2>1, <2>2, FS_EmptySet
<1>8. Cardinality(Names) * (d + 1) = Cardinality(Names) * d + Cardinality(Names)
      /\ Cardinality(Names) * d \in Nat
  BY <1>5, OneMoreTimes
<1> DEFINE nd == Cardinality(Names) * d
<1>9. Cardinality(Queued) <= nd /\ c + d <= calls /\ Cardinality(uniforms) <= Cardinality(Names) * (c + 1)
  BY <1>1 DEF HandlesBounded
<1>10. Cardinality(Queued') <= Cardinality(Names) * (d + 1)
  <2> HIDE DEF X, nd
  <2>1. Cardinality(X) <= Cardinality(Names) BY <1>2 DEF X
  <2>2. nd \in Nat /\ Cardinality(Names) * (d + 1) = nd + Cardinality(Names) BY <1>8 DEF nd
  <2> QED BY <1>5, <1>6, <1>7, <1>9, <2>1, <2>2
<1>11. calls \in Nat BY BoundsAssumption DEF Types
<1>12. HandlesBounded(c, d + 1)' BY <1>9, <1>10, <1>11 DEF HandlesBounded
<1> QED BY <1>12 DEF FewHandles

\* A call that creates uniforms queues none.
LEMMA CreateFew ==
    ASSUME IsFiniteSet(Names), IsFiniteSet(Uniforms), Types, ApiInv, FewHandles,
           NEW X, IsFiniteSet(X), Cardinality(X) <= Cardinality(Names),
           uniforms' = uniforms \union X, Queued' = Queued, calls' = calls + 1
    PROVE  FewHandles'
<1>1. PICK c \in Nat, d \in Nat : HandlesBounded(c, d) BY DEF FewHandles
<1>2. IsFiniteSet(uniforms) BY MappedFew DEF MappedAre
<1>3. Cardinality(uniforms') <= Cardinality(uniforms) + Cardinality(X)
  <2>1. IsFiniteSet(uniforms \intersect X) BY <1>2, FS_Subset
  <2>2. Cardinality(uniforms \intersect X) \in Nat /\ Cardinality(uniforms) \in Nat
        /\ Cardinality(X) \in Nat
    BY <1>2, <2>1, FS_CardinalityType
  <2>3. Cardinality(uniforms \union X)
           = Cardinality(uniforms) + Cardinality(X) - Cardinality(uniforms \intersect X)
    BY <1>2, FS_Union
  <2> QED BY <2>2, <2>3
<1>4. Cardinality(uniforms) \in Nat /\ Cardinality(X) \in Nat /\ Cardinality(Names) \in Nat
      /\ Cardinality(uniforms') \in Nat
  <2>1. IsFiniteSet(uniforms') BY <1>2, FS_Union
  <2> QED BY <1>2, <2>1, FS_CardinalityType
<1> DEFINE nc == Cardinality(Names) * (c + 1)
<1>5. /\ Cardinality(Names) * ((c + 1) + 1) = nc + Cardinality(Names) /\ nc \in Nat
  BY <1>4, OneMoreTimes
<1>6. Cardinality(uniforms) <= nc /\ c + d <= calls /\ Cardinality(Queued) <= Cardinality(Names) * d
  BY <1>1 DEF HandlesBounded
<1> HIDE DEF nc
<1>7. Cardinality(uniforms') <= Cardinality(Names) * ((c + 1) + 1) BY <1>3, <1>4, <1>5, <1>6
<1>8. calls \in Nat BY BoundsAssumption DEF Types
<1>9. HandlesBounded(c + 1, d)' BY <1>6, <1>7, <1>8 DEF HandlesBounded
<1> QED BY <1>9 DEF FewHandles

\* What was left is no less than half of the calls can use up.
LEMMA NeverUsedUp ==
    ASSUME NEW n \in Nat, NEW c \in Nat, NEW d \in Nat, NEW m \in Nat, c + d + 1 <= m, NEW all \in Nat,
           all < n * (d + 1), all < n * ((c + 1) + 1)
    PROVE  all < n * (1 + m \div 2)
<1> DEFINE k == m \div 2
<1>1. k \in Nat /\ 2 * k + 1 >= m BY SMT
<1> HIDE DEF k
<1>2. d + 1 <= 1 + k \/ (c + 1) + 1 <= 1 + k BY <1>1
<1>3. ASSUME NEW a \in Nat, NEW b \in Nat, a <= b PROVE n * a <= n * b /\ n * a \in Nat /\ n * b \in Nat
  <2>1. PICK e \in Nat : b = a + e
    <3>1. b - a \in Nat /\ b = a + (b - a) BY <1>3
    <3> QED BY <3>1
  <2>2. n * b = n * a + n * e BY <2>1
  <2>3. n * a \in Nat /\ n * e \in Nat OBVIOUS
  <2> QED BY <2>2, <2>3
<1>4. CASE d + 1 <= 1 + k
  <2>1. n * (d + 1) <= n * (1 + k) /\ n * (d + 1) \in Nat /\ n * (1 + k) \in Nat BY <1>1, <1>3, <1>4
  <2> QED BY <2>1 DEF k
<1>5. CASE (c + 1) + 1 <= 1 + k
  <2>1. n * ((c + 1) + 1) <= n * (1 + k) /\ n * ((c + 1) + 1) \in Nat /\ n * (1 + k) \in Nat
    BY <1>1, <1>3, <1>5
  <2> QED BY <2>1 DEF k
<1> QED BY <1>2, <1>4, <1>5

\* createShader gets a handle for each uniform.
LEMMA ShaderServed ==
    ASSUME EnoughUniforms, Types, ApiInv, Types', ApiInv', FewHandles,
           NEW s \in Shaders, NEW bin \in Binaries, NEW choice \in UniformChoices(bin),
           CreateShader(s, bin, choice), ShaderMade(s, bin, choice), Chosen(UniformsOf[bin], choice),
           NEW n \in ToSet(UniformsOf[bin]), choice[n] = NoHandle
    PROVE  FALSE
<1> DEFINE names == ToSet(UniformsOf[bin])
           New == NewIn(UniformsOf[bin], choice)
           X == {choice[m] : m \in New}
           N == Cardinality(Names)
<1>1. PICK c \in Nat, d \in Nat : HandlesBounded(c, d) BY DEF FewHandles
<1>2. IsFiniteSet(Names) /\ IsFiniteSet(Uniforms) /\ Cardinality(Uniforms) >= N * (1 + MaxCalls \div 2)
  BY DEF EnoughUniforms
<1>3. names \subseteq Names /\ n \in Names
  <2>1. UniformsOf[bin] \in Seq(Names) BY DEF Chosen
  <2> QED BY <2>1 DEF ToSet
<1>4. uniforms' = uniforms \union X /\ uniformMap' = uniformMap \union Pairs(New, choice)
      /\ submit'.freeUniform = submit.freeUniform
  BY DEF ShaderMade
<1>5. New \subseteq names /\ n \notin New BY DEF NewIn
<1>6. Find(uniformMap, n) = NoHandle
  <2>1. \A m \in names : Find(uniformMap, m) # NoHandle => choice[m] = Find(uniformMap, m)
    BY DEF UniformChoices
  <2> QED BY <2>1
<1>7. \A h : <<n, h>> \notin uniformMap
  <2>1. uniformMap \in SUBSET (Names \X Uniforms) /\ OneToOne(uniformMap)
    <3>1. RefInv(Refs, Wanted, app.uniform, shaders, uniforms) /\ Refs \in RefRecords BY ApiFacts
    <3>2. Refs.uniforms = uniformMap BY DEF Refs
    <3>3. UniformsExact(Refs, Totals(Refs.shader, app.uniform), uniforms) BY <3>1 DEF RefInv, Exact
    <3> QED BY <3>1, <3>2, <3>3 DEF RefRecords, UniformsExact, Mapped
  <2>2. NoHandle \notin Uniforms BY NoHandleAssumption
  <2> QED BY <1>6, <2>1, <2>2, FindIs
<1>8. MapWithin(Names \ {n})'
  <2>1. NamesExact BY MapFacts
  <2> SUFFICES ASSUME NEW m, NEW u, <<m, u>> \in uniformMap' PROVE m \in Names \ {n}
    BY DEF MapWithin
  <2>2. CASE <<m, u>> \in uniformMap BY <1>7, <2>1, <2>2 DEF NamesExact
  <2>3. CASE <<m, u>> \in Pairs(New, choice)
    <3>1. m \in New BY <2>3 DEF Pairs
    <3> QED BY <1>3, <1>5, <3>1
  <2> HIDE DEF New
  <2> QED BY <1>4, <2>2, <2>3
<1>9. uniforms' = Uniforms
  <2>1. uniforms' \subseteq Uniforms BY <1>2, MappedFewNext DEF MappedAre
  <2>2. \E m \in names : choice[m] = NoHandle OBVIOUS
  <2>3. Uniforms \ uniforms \subseteq {choice[m] : m \in names}
    <3>1. (\E m \in names : choice[m] = NoHandle) => Uniforms \ uniforms \subseteq {choice[m] : m \in names}
      BY DEF UniformChoices
    <3> QED BY <2>2, <3>1
  <2>4. ASSUME NEW u \in Uniforms, u \notin uniforms PROVE u \in X
    <3>1. PICK m \in names : u = choice[m] BY <2>3, <2>4
    <3>2. m \in New BY <2>4, <3>1, NoHandleAssumption DEF NewIn
    <3> QED BY <3>1, <3>2
  <2> HIDE DEF X
  <2> QED BY <1>4, <2>1, <2>4
<1>10. Queued' = Queued BY <1>4 DEF Queued
<1> DEFINE all == Cardinality(Uniforms)
<1>11. N \in Nat /\ all \in Nat /\ Cardinality(Names \ {n}) = N - 1
  BY <1>2, <1>3, FS_CardinalityType, FS_RemoveElement
<1>12. IsFiniteSet(X) /\ Cardinality(X) \in Nat /\ Cardinality(X) <= N - 1
  <2>1. New \in SUBSET (Names \ {n}) BY <1>3, <1>5
  <2>2. IsFiniteSet(Names \ {n}) BY <1>2, FS_Subset
  <2>3. IsFiniteSet(New) /\ Cardinality(New) <= Cardinality(Names \ {n}) BY <2>1, <2>2, FS_Subset
  <2>4. Cardinality(New) \in Nat BY <2>3, FS_CardinalityType
  <2>5. New \in SUBSET Names BY <2>1
  <2> HIDE DEF New
  <2>6. IsFiniteSet(X) /\ Cardinality(X) \in Nat /\ Cardinality(X) <= Cardinality(New)
    BY <1>2, <2>5, ImageOfNames
  <2> QED BY <1>11, <2>3, <2>4, <2>6
<1> HIDE DEF X, New
<1>13. IsFiniteSet(uniforms) /\ Queued \subseteq uniforms BY <1>2, MappedFew DEF MappedAre
<1>14. IsFiniteSet(Queued) BY <1>13, FS_Subset
<1>15. all <= Cardinality(uniforms) + Cardinality(X)
  <2>1. IsFiniteSet(uniforms \intersect X) BY <1>13, FS_Subset
  <2>2. /\ Cardinality(uniforms \intersect X) \in Nat /\ Cardinality(uniforms) \in Nat
    BY <1>13, <2>1, FS_CardinalityType
  <2>3. Cardinality(uniforms \union X)
           = Cardinality(uniforms) + Cardinality(X) - Cardinality(uniforms \intersect X)
    BY <1>12, <1>13, FS_Union
  <2>4. Uniforms = uniforms \union X BY <1>4, <1>9
  <2>5. all = Cardinality(uniforms \union X) BY <2>4, Zenon
  <2>6. all \in Nat BY <1>11
  <2> HIDE DEF all
  <2> QED BY <1>12, <2>2, <2>3, <2>5, <2>6
<1>16. all <= Cardinality(Queued) + N - 1
  <2> DEFINE Y == Uniforms \ Queued
  <2>1. Cardinality(Y) <= N - 1
    <3>1. Names \ {n} \in SUBSET Names OBVIOUS
    <3>2. MappedAre' BY <1>2, MappedFewNext
    <3>3. (\A M \in SUBSET Names : MapWithin(M) => Cardinality(uniforms \ Queued) <= Cardinality(M))'
      BY <3>2, Zenon DEF MappedAre
    <3>4. Cardinality(uniforms' \ Queued') <= Cardinality(Names \ {n})
      BY <1>8, <3>1, <3>3, Zenon
    <3>5. Cardinality(Y) <= Cardinality(Names \ {n}) BY <1>9, <1>10, <3>4, Zenon
    <3> HIDE DEF Y, N
    <3> QED BY <1>11, <3>5
  <2>2. IsFiniteSet(Y) BY <1>2, FS_Subset
  <2>3. Queued \union Y = Uniforms /\ Queued \intersect Y = {}
    <3>1. uniforms \subseteq Uniforms BY <1>2, MappedFew DEF MappedAre
    <3> QED BY <1>13, <3>1
  <2> HIDE DEF Y
  <2>4. Cardinality(Queued \union Y) = Cardinality(Queued) + Cardinality(Y) - Cardinality(Queued \intersect Y)
    BY <1>14, <2>2, FS_Union
  <2>5. Cardinality(Y) \in Nat /\ Cardinality(Queued) \in Nat BY <1>14, <2>2, FS_CardinalityType
  <2>6. Cardinality(Queued \intersect Y) = 0 BY <2>3, FS_EmptySet, Zenon
  <2>7. all = Cardinality(Queued \union Y) BY <2>3, Zenon
  <2>8. all \in Nat /\ N \in Nat BY <1>11
  <2> HIDE DEF all, N
  <2> QED BY <2>1, <2>4, <2>5, <2>6, <2>7, <2>8
<1>17. Cardinality(uniforms) \in Nat /\ Cardinality(Queued) \in Nat BY <1>13, <1>14, FS_CardinalityType
<1>18. /\ c + d <= calls /\ Cardinality(uniforms) <= N * (c + 1) /\ Cardinality(Queued) <= N * d
  BY <1>1 DEF HandlesBounded
<1>19. c + d + 1 <= MaxCalls /\ MaxCalls \in Nat
  <2>1. calls < MaxCalls BY DEF CreateShader, MayCall
  <2>2. calls \in Nat /\ MaxCalls \in Nat BY BoundsAssumption DEF Types
  <2> QED BY <1>18, <2>1, <2>2
<1> HIDE DEF N, all
<1>20. /\ N * (d + 1) = N * d + N /\ N * d \in Nat
       /\ N * ((c + 1) + 1) = N * (c + 1) + N /\ N * (c + 1) \in Nat
  BY <1>11, OneMoreTimes
<1>21. all < N * (d + 1) /\ all < N * ((c + 1) + 1)
  <2> DEFINE nd == N * d
             nc == N * (c + 1)
  <2>1. nd \in Nat /\ nc \in Nat BY <1>20
  <2>2. Cardinality(Queued) <= nd /\ Cardinality(uniforms) <= nc BY <1>18
  <2> HIDE DEF nd, nc
  <2>3. all < nd + N /\ all < nc + N BY <1>11, <1>12, <1>15, <1>16, <1>17, <2>1, <2>2
  <2> QED BY <1>20, <2>3 DEF nd, nc
<1>22. all < N * (1 + MaxCalls \div 2) BY <1>11, <1>19, <1>21, NeverUsedUp
<1>23. all >= N * (1 + MaxCalls \div 2) BY <1>2 DEF all, N
<1>24. N * (1 + MaxCalls \div 2) \in Nat
  <2>1. 1 + MaxCalls \div 2 \in Nat BY <1>19, SMT
  <2> QED BY <1>11, <2>1
<1> QED BY <1>11, <1>22, <1>23, <1>24

\* A shader that is not counted lists no uniforms.
ListsEmptied ==
    \A s \in shaders : /\ shaderRef[s].refCount \in Nat
                       /\ shaderRef[s].refCount = 0 => shaderRef[s].uniforms = <<>>

\* So the invariant says.
LEMMA EmptyLists == Types /\ ApiInv => ListsEmptied
<1> SUFFICES ASSUME Types, ApiInv, NEW s \in shaders
             PROVE  /\ shaderRef[s].refCount \in Nat
                    /\ shaderRef[s].refCount = 0 => shaderRef[s].uniforms = <<>>
    BY DEF ListsEmptied
<1>1. RefInv(Refs, Wanted, app.uniform, shaders, uniforms) /\ s \in Shaders BY ApiFacts
<1>2. shaderRef[s].refCount = Wanted[s] /\ Wanted[s] \in Nat BY <1>1, ApiFacts
<1>3. Lists(Refs.shader, Wanted, uniforms) BY <1>1 DEF RefInv
<1>4. Refs.shader = shaderRef BY DEF Refs
<1> HIDE DEF Refs, Wanted
<1>5. Wanted[s] = 0 => shaderRef[s].uniforms = <<>> BY <1>1, <1>3, <1>4 DEF Lists
<1> QED BY <1>2, <1>5

\* The same in the next state.
LEMMA EmptyListsNext == (Types /\ ApiInv => ListsEmptied)'
BY EmptyLists, PTL

\* A call that creates neither shaders nor uniforms.
LEMMA ReleasesServe ==
    ASSUME EnoughUniforms, Types, ApiInv, Types', ApiInv', FewHandles, HandlesSuffice,
           shaders' = shaders, uniforms' = uniforms, Remains, calls' = calls + 1
    PROVE  FewHandles' /\ HandlesSuffice'
<1>1. IsFiniteSet(Names) /\ IsFiniteSet(Uniforms) BY DEF EnoughUniforms
<1>2. Queued \subseteq Queued' BY DEF Remains, Queued
<1>3. FewHandles' BY <1>1, <1>2, ReleaseFew
<1>4. ASSUME NEW s \in shaders' PROVE NoHandle \notin ToSet(shaderRef'[s].uniforms)
  <2>1. s \in shaders /\ s \in Shaders BY <1>4, ApiFacts
  <2>2. ListsEmptied' BY EmptyListsNext
  <2>3. shaderRef'[s].refCount \in Nat /\ (shaderRef'[s].refCount = 0 => shaderRef'[s].uniforms = <<>>)
    BY <1>4, <2>2 DEF ListsEmptied
  <2>4. CASE shaderRef'[s].refCount = 0
    <3>1. ToSet(<<>>) = {} BY DEF ToSet
    <3> QED BY <2>3, <2>4, <3>1
  <2>5. CASE shaderRef'[s].refCount > 0 BY <2>1, <2>5 DEF Remains, HandlesSuffice
  <2> QED BY <2>3, <2>4, <2>5
<1> QED BY <1>3, <1>4 DEF HandlesSuffice

\* createUniform.
LEMMA UniformServes ==
    ASSUME EnoughUniforms, Types, ApiInv, FewHandles, HandlesSuffice,
           NEW n \in Names, NEW u \in Uniforms, UniformMade(n, u), calls' = calls + 1
    PROVE  FewHandles' /\ HandlesSuffice'
<1>1. IsFiniteSet(Names) /\ IsFiniteSet(Uniforms) BY DEF EnoughUniforms
<1>2. uniforms' = uniforms \union {u} /\ Queued' = Queued BY DEF UniformMade, Queued
<1>3. IsFiniteSet({u}) /\ Cardinality({u}) <= Cardinality(Names)
  <2>1. IsFiniteSet({u}) /\ Cardinality({u}) = 1 BY FS_Singleton
  <2>2. Cardinality(Names) \in Nat /\ Cardinality(Names) # 0
    BY <1>1, FS_CardinalityType, FS_EmptySet
  <2> QED BY <2>1, <2>2
<1>4. FewHandles' BY <1>1, <1>2, <1>3, CreateFew
<1>5. HandlesSuffice' BY DEF UniformMade, HandlesSuffice
<1> QED BY <1>4, <1>5

\* createShader of a new binary.
LEMMA ShaderServes ==
    ASSUME EnoughUniforms, Types, ApiInv, Types', ApiInv', FewHandles, HandlesSuffice,
           NEW s \in Shaders, NEW bin \in Binaries, NEW choice \in UniformChoices(bin),
           CreateShader(s, bin, choice), ShaderMade(s, bin, choice), Chosen(UniformsOf[bin], choice)
    PROVE  FewHandles' /\ HandlesSuffice'
<1> DEFINE names == UniformsOf[bin]
           New == NewIn(names, choice)
           X == {choice[n] : n \in New}
<1>1. IsFiniteSet(Names) /\ IsFiniteSet(Uniforms) BY DEF EnoughUniforms
<1>2. uniforms' = uniforms \union X /\ Queued' = Queued BY DEF ShaderMade, Queued
<1>3. names \in Seq(Names) BY DEF Chosen
<1>4. New \in SUBSET Names BY <1>3 DEF NewIn, ToSet
<1>5. IsFiniteSet(X) /\ Cardinality(X) <= Cardinality(Names)
  <2> HIDE DEF New
  <2>1. IsFiniteSet(X) /\ Cardinality(X) \in Nat /\ Cardinality(X) <= Cardinality(New)
    BY <1>1, <1>4, ImageOfNames
  <2>2. IsFiniteSet(New) /\ Cardinality(New) <= Cardinality(Names) BY <1>1, <1>4, FS_Subset
  <2>3. Cardinality(New) \in Nat /\ Cardinality(Names) \in Nat BY <1>1, <2>2, FS_CardinalityType
  <2> QED BY <2>1, <2>2, <2>3
<1>6. calls' = calls + 1 BY DEF CreateShader, MayCall
<1>7. FewHandles'
  <2> HIDE DEF X
  <2> QED BY <1>1, <1>2, <1>5, <1>6, CreateFew
<1>8. ASSUME NEW x \in shaders' PROVE NoHandle \notin ToSet(shaderRef'[x].uniforms)
  <2>1. shaders' = shaders \union {s} /\ \A y \in Shaders \ {s} : shaderRef'[y] = shaderRef[y]
    BY DEF ShaderMade
  <2>2. shaders \subseteq Shaders BY ApiFacts
  <2>3. CASE x # s
    <3>1. x \in shaders /\ shaderRef'[x] = shaderRef[x] BY <1>8, <2>1, <2>2, <2>3
    <3> QED BY <3>1 DEF HandlesSuffice
  <2>4. CASE x = s
    <3>1. shaderRef'[s].uniforms = ListOf(names, choice) BY DEF ShaderMade
    <3>2. \A n \in ToSet(names) : choice[n] # NoHandle BY ShaderServed
    <3>3. ToSet(ListOf(names, choice)) = {choice[names[i]] : i \in DOMAIN names} BY DEF ToSet, ListOf
    <3>4. ASSUME NEW i \in DOMAIN names PROVE choice[names[i]] # NoHandle BY <3>2 DEF ToSet
    <3> HIDE DEF names
    <3> QED BY <2>4, <3>1, <3>3, <3>4
  <2> QED BY <2>3, <2>4
<1> QED BY <1>7, <1>8 DEF HandlesSuffice

\* frame gives the queued handles back.
LEMMA FrameServes ==
    ASSUME EnoughUniforms, Types, ApiInv, HandlesSuffice, Frame
    PROVE  FewHandles' /\ HandlesSuffice'
<1>1. /\ IsFiniteSet(Names) /\ IsFiniteSet(Uniforms) BY DEF EnoughUniforms
<1>2. /\ uniforms' = uniforms \ Queued /\ shaders' \subseteq shaders /\ submit' = EmptyFrame
      /\ calls' = 0 /\ shaderRef' = shaderRef
  BY FrameIs DEF Queued
<1>3. Cardinality(uniforms \ Queued) <= Cardinality(Names) BY <1>1, MappedFew DEF MappedAre
<1>4. Queued' = {} BY <1>2 DEF Queued, EmptyFrame, ToSet
<1>5. Cardinality(Names) \in Nat BY <1>1, FS_CardinalityType
<1>6. Cardinality(Names) * (0 + 1) = Cardinality(Names) /\ Cardinality(Names) * 0 = 0 BY <1>5
<1>7. Cardinality({}) = 0 BY FS_EmptySet
<1>8. HandlesBounded(0, 0)'
  <2>1. 0 + 0 <= calls' BY <1>2
  <2>2. Cardinality(uniforms') <= Cardinality(Names) * (0 + 1) BY <1>2, <1>3, <1>6
  <2>3. Cardinality(Queued') <= Cardinality(Names) * 0 BY <1>4, <1>6, <1>7
  <2> QED BY <2>1, <2>2, <2>3 DEF HandlesBounded
<1>9. HandlesSuffice' BY <1>2 DEF HandlesSuffice
<1> QED BY <1>8, <1>9 DEF FewHandles

\* With enough handles no shader is ever left without one.
LEMMA NextServes ==
    ASSUME EnoughUniforms, Types, ApiInv, FewHandles, HandlesSuffice, [Next]_vars
    PROVE  FewHandles' /\ HandlesSuffice'
<1>1. ASSUME Releases, Types', ApiInv', calls' = calls + 1 PROVE FewHandles' /\ HandlesSuffice'
  BY <1>1, ReleasesServe DEF Releases
<1>2. ASSUME NEW n \in Names, NEW num \in Nums[n], ShareUniform(n, num)
      PROVE  FewHandles' /\ HandlesSuffice'
  <2>1. Types' /\ ApiInv' /\ (Releases \/ \E u \in Uniforms : UniformMade(n, u))
    BY <1>2, ShareUniformKeeps
  <2>2. calls' = calls + 1 BY <1>2 DEF ShareUniform, MayCall
  <2> QED BY <1>1, <2>1, <2>2, UniformServes
<1>3. ASSUME NEW n \in Names, NEW num \in Nums[n], NEW u \in Uniforms, CreateUniform(u, n, num)
      PROVE  FewHandles' /\ HandlesSuffice'
  <2>1. UniformMade(n, u) BY <1>3, CreateUniformKeeps
  <2>2. calls' = calls + 1 BY <1>3 DEF CreateUniform, MayCall
  <2> QED BY <2>1, <2>2, UniformServes
<1>4. ASSUME NEW u \in Uniforms, DestroyUniform(u) PROVE FewHandles' /\ HandlesSuffice'
  <2>1. Types' /\ ApiInv' /\ Releases BY <1>4, DestroyUniformKeeps
  <2>2. calls' = calls + 1 BY <1>4 DEF DestroyUniform, MayCall
  <2> QED BY <1>1, <2>1, <2>2
<1>5. ASSUME NEW bin \in Binaries, ShareShader(bin) PROVE FewHandles' /\ HandlesSuffice'
  <2>1. Types' /\ ApiInv' /\ Releases BY <1>5, ShareShaderKeeps
  <2>2. calls' = calls + 1 BY <1>5 DEF ShareShader, MayCall
  <2> QED BY <1>1, <2>1, <2>2
<1>6. ASSUME NEW bin \in Binaries, NEW s \in Shaders, NEW choice \in UniformChoices(bin),
             CreateShader(s, bin, choice)
      PROVE  FewHandles' /\ HandlesSuffice'
  <2>1. Types' /\ ApiInv' /\ ShaderMade(s, bin, choice) /\ Chosen(UniformsOf[bin], choice)
    BY <1>6, CreateShaderKeeps
  <2> QED BY <1>6, <2>1, ShaderServes
<1>7. ASSUME NEW s \in Shaders, DestroyShader(s) PROVE FewHandles' /\ HandlesSuffice'
  <2>1. Types' /\ ApiInv' /\ Releases BY <1>7, DestroyShaderKeeps
  <2>2. calls' = calls + 1 BY <1>7 DEF DestroyShader, MayCall
  <2> QED BY <1>1, <2>1, <2>2
<1>8. ASSUME NEW v \in Shaders, NEW f \in Shaders \union {NoHandle}, CreateProgramFails(v, f)
      PROVE  FewHandles' /\ HandlesSuffice'
  <2>1. Types' /\ ApiInv' /\ Releases BY <1>8, CreateProgramFailsKeeps
  <2>2. calls' = calls + 1 BY <1>8 DEF CreateProgramFails, MayCall
  <2> QED BY <1>1, <2>1, <2>2
<1>9. ASSUME NEW v \in Shaders, NEW f \in Shaders \union {NoHandle}, NEW ds \in BOOLEAN,
             ShareProgram(v, f, ds)
      PROVE  FewHandles' /\ HandlesSuffice'
  <2>1. Types' /\ ApiInv' /\ Releases BY <1>9, ShareProgramKeeps
  <2>2. calls' = calls + 1 BY <1>9 DEF ShareProgram, MayCall
  <2> QED BY <1>1, <2>1, <2>2
<1>10. ASSUME NEW v \in Shaders, NEW f \in Shaders \union {NoHandle}, NEW ds \in BOOLEAN,
              NEW p \in Programs, CreateProgram(p, v, f, ds)
       PROVE  FewHandles' /\ HandlesSuffice'
  <2>1. Types' /\ ApiInv' /\ ProgramMade(p, v, f) BY <1>10, CreateProgramKeeps
  <2>2. calls' = calls + 1 BY <1>10 DEF CreateProgram, MayCall
  <2> QED BY <2>1, <2>2, ReleasesServe DEF ProgramMade
<1>11. ASSUME NEW p \in Programs, DestroyProgram(p) PROVE FewHandles' /\ HandlesSuffice'
  <2>1. Types' /\ ApiInv' /\ Releases BY <1>11, DestroyProgramKeeps
  <2>2. calls' = calls + 1 BY <1>11 DEF DestroyProgram, MayCall
  <2> QED BY <1>1, <2>1, <2>2
<1>12. ASSUME NEW p \in Programs, Draw(p) PROVE FewHandles' /\ HandlesSuffice'
  <2>1. Types' /\ ApiInv' /\ Releases BY <1>12, DrawKeeps
  <2>2. calls' = calls + 1 BY <1>12 DEF Draw, MayCall
  <2> QED BY <1>1, <2>1, <2>2
<1>13. CASE ProgramCall BY <1>8, <1>9, <1>10, <1>11, <1>12, <1>13 DEF ProgramCall
<1>14. CASE Frame BY <1>14, FrameServes
<1>15. ASSUME UNCHANGED <<shaders, uniforms, shaderRef, submit, calls>>
       PROVE  FewHandles' /\ HandlesSuffice'
  BY <1>15 DEF FewHandles, HandlesBounded, Queued, HandlesSuffice
<1>16. CASE ExecPre \/ Submit \/ ExecPost
  <2>1. UNCHANGED apiVars BY <1>16 DEF ExecPre, Submit, ExecPost
  <2> QED BY <1>15, <2>1 DEF apiVars, handleVars, shaderVars
<1>17. CASE UNCHANGED vars BY <1>15, <1>17 DEF vars, apiVars, handleVars, shaderVars
<1> QED BY <1>2, <1>3, <1>4, <1>5, <1>6, <1>7, <1>13, <1>14, <1>16, <1>17 DEF Next

\* If the renderer can hold as many uniforms as EnoughUniforms asks for, for the names of
\* the shaders and the calls a frame makes, every command and every draw finds all it
\* needs: createShader then never meets the handle it does not look at.  The bound is
\* that of the run, which fails with one handle less.
THEOREM RendererAlwaysServed == EnoughUniforms => (Spec => []RendererSafe)
<1> SUFFICES ASSUME EnoughUniforms PROVE Spec => []RendererSafe
    OBVIOUS
<1>1. Init => Inv(TRUE) /\ FewHandles /\ HandlesSuffice
  <2> SUFFICES ASSUME Init PROVE Inv(TRUE) /\ FewHandles /\ HandlesSuffice
      OBVIOUS
  <2>1. /\ shaders = {FirstShader} /\ uniforms = {} /\ submit = EmptyFrame
        /\ shaderRef[FirstShader].uniforms = <<>>
    BY InitIs, ShadersAssumption
  <2>2. Queued = {} BY <2>1 DEF Queued, EmptyFrame, ToSet
  <2>3. calls \in Nat BY InitTypes, BoundsAssumption DEF Types
  <2>4. Cardinality({}) = 0 /\ Cardinality(Names) \in Nat
    BY FS_EmptySet, FS_CardinalityType DEF EnoughUniforms
  <2>5. 0 <= Cardinality(Names) * (0 + 1) /\ 0 <= Cardinality(Names) * 0 BY <2>4
  <2>6. HandlesBounded(0, 0) BY <2>1, <2>2, <2>3, <2>4, <2>5 DEF HandlesBounded
  <2>7. ToSet(<<>>) = {} BY DEF ToSet
  <2>8. HandlesSuffice BY <2>1, <2>7 DEF HandlesSuffice
  <2> QED BY <2>6, <2>8, InitKeeps DEF FewHandles
<1>2. Inv(TRUE) /\ FewHandles /\ HandlesSuffice /\ [Next]_vars
         => (Inv(TRUE) /\ FewHandles /\ HandlesSuffice)'
  <2> SUFFICES ASSUME Inv(TRUE), FewHandles, HandlesSuffice, [Next]_vars
               PROVE  (Inv(TRUE) /\ FewHandles /\ HandlesSuffice)'
      OBVIOUS
  <2>1. Types /\ ApiInv BY DEF Inv
  <2>2. FewHandles' /\ HandlesSuffice' BY <2>1, NextServes
  <2>3. Inv(TRUE)' BY <2>2, NextKeeps
  <2> QED BY <2>2, <2>3
<1>3. Inv(TRUE) => RendererSafe BY SafeHolds
<1> QED BY <1>1, <1>2, <1>3, PTL DEF Spec
===============================================================================
