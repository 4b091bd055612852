# Specifications of e-star's rendering core

The repository is a physically based rendering demo (`homework/`) on top of a copy
of **bgfx** (the rendering library), **bx** (its base library) and **bimg** (image
codecs). The demo is a fixed sequence of calls; what can go wrong in an
interesting way is in bgfx: two threads that hand frames to each other, handles
that are released on one thread before the other has destroyed what they stand
for, reference counts spread over a dozen functions, encoders on several threads,
blocks of buffers that move while draws of them are recorded.
That is what these modules specify.

Paths below are relative to the repository: `bgfx.cpp` and `bgfx_p.h` are in
`bgfx/src/`, `handlealloc.inl` in `bx/include/bx/inline/`.

## 1. Inventory

### The system in one paragraph

The application calls the API from one thread (the API thread), and records draw
calls from any number of threads through encoders. Everything it does goes into
the `Frame` that `m_submit` points to: commands that create, change and destroy
objects (`m_cmdPre`, `m_cmdPost`), draw items, and queues of handles to release.
`frame()` waits for the encoders and for the render thread, releases the queued
handles, exchanges `m_submit` and `m_render` and posts a semaphore. The render
thread executes `m_cmdPre`, draws, executes `m_cmdPost` and posts back. Handles
are small integers given out by `bx::HandleAlloc`; what they stand for in the
renderer lives in tables indexed by handle.

### Components

| Component | State | Operations | What makes it correct |
|---|---|---|---|
| Frame hand-over (`Context::init`, `frame`, `swap`, `renderFrame`, `shutdown`; `entry_windows.cpp` main loop) | `m_submit`, `m_render`, `m_apiSem`, `m_renderSem`, `s_ctx`, `m_exit`, `m_flipped`, `m_rendererInitialized` | `init`, `frame`, `reset`, `shutdown`; `renderFrame` | the two threads never touch one Frame at once; frames are executed once and in order; the context outlives its users; both threads end |
| Encoders (`begin`, `end`, `submit`, `dispatch`, `blit`, `encoderApiWait`) | `m_encoder[]`, `m_encoderHandle`, `m_encoderEndSem`, `m_numRenderItems`, `m_numBlitItems` | as named | one thread per encoder; items lie in the frame being built; counters equal the calls recorded |
| Handle allocator (`bx::HandleAlloc`) | dense and sparse array, count | `alloc`, `free`, `isValid`, `reset` | a set of handles; `isValid` exact |
| Handle hash map (`bx::HandleHashMapT`) | keys, handles, count | `insert`, `find`, `removeByKey`, `removeByHandle`, `reset` | a map; removal leaves no entry unreachable |
| Textures and frame buffers | `m_textureRef`, `m_frameBufferRef`, free queues, memory counters | create, destroy, update, read, share, resize | counts exact, handles released once, renderer never refers to something destroyed |
| Shaders, programs, uniforms | `m_shaderRef`, `m_programRef`, `m_uniformRef`, three hash maps, `UniformRegistry` | create (share), destroy, draw | the same, and names lead to the same uniform on both threads |
| Vertex layouts, static buffers | `VertexLayoutRef`, buffer tables | create, destroy | layouts counted; none released while a buffer uses it |
| Dynamic buffers | `NonLocalAllocator`, buffer tables | create, update (grow), destroy | blocks disjoint, emptied buffers given back |
| Transient buffers | `m_vboffset`, `m_iboffset` of a Frame | `getAvail...`, `alloc...` | ranges disjoint and inside the buffer |
| Memory | reference to data, release callback | `alloc`, `copy`, `makeRef`, `release` | released exactly once, after the renderer has used it |
| Matrix and rectangle caches, uniform buffers, sort keys | counters and arrays in a Frame | `reserve`, `add`, `encode`, `decode` | entries of different callers disjoint; decode inverts encode |
| bx threads, semaphores, mutexes | OS objects, or a futex word | `init`, `shutdown`, `post`, `wait`, `lock`, `unlock` | a post is never lost, mutual exclusion |
| bx queues, ring buffers, handle lists | linked nodes, read and write positions | `push`, `pop`, `reserve`, `commit`, `consume`; `touch` | first in, first out; no node freed while read |
| Renderer backends, GL contexts, shader byte code, vertex conversion, bimg, bx base library | objects of graphics APIs; none | | not modelled, section 7 |
| Entry (`bgfx/examples/common/entry`) | event queue, windows, mouse and key state | `pump`, `processEvents` | events reach the application in order |
| Application (`homework/homework.cpp`) | its handles | `init`, `update`, `shutdown` | every handle destroyed once |

### How they interact, and where it is hard

- **API thread and render thread** share the two Frames, `s_ctx`,
  `m_rendererInitialized` and the flip flags. Two counting semaphores are the only
  order between them. Hard: time-outs that coincide with a post, the hand-shake at
  shutdown, and that init and shutdown depend on *how many* frames they submit.
- **Recording threads** share one Frame with each other and, through
  `m_encoderHandle`, with `frame`. Hard: the compare-and-swap that claims items,
  what happens at its limit, and the part of `encoderApiWait` outside the lock.
- **Handles** are released by the API thread in `frame`, *before* the render thread
  destroys the objects. A new object may get the handle at once. Hard: nothing but
  the order of `cmdPre`, draw, `cmdPost` and the next frame keeps the two apart.
- **Objects refer to objects**: frame buffers to textures, programs to shaders,
  shaders to uniforms, buffers to layouts. Hard: who holds which reference, and
  what is still counted when a call fails half-way.
- **Blocks of larger buffers** belong to dynamic and transient buffers. Hard: a block
  released and given out again within one frame, and offsets that different sizes of
  elements round up differently.
- **Queues between threads** (`bx`): the main thread's events and each thread's
  messages. Hard: one side deletes nodes the other may still read.
- **Names**: the renderer finds a shader's uniforms by name. Hard: a name that moves
  from one handle to another while commands for both are waiting.

## 2. Modules

```
FramePipeline     <-- implements --  FrameSync       (FrameSyncProofs)
DrawList          <-- implements --  Encoders        (EncodersProofs)
HandleSet         <-- implements --  HandleAlloc     (ContainerProofs)
HandleMap         <-- implements --  HandleHashMap   (ContainerProofs)
Fifo              <-- implements --  SpScQueue       (ContainerProofs)
FrameBuffers      uses the promises of HandleSet, FramePipeline
                                     (FrameBuffersProofs, with FoldProofs)
Programs          uses the promises of HandleSet, HandleMap, FramePipeline
                                     (ProgramsProofs, with FoldProofs)
IndexBuffers      EXTENDS NonLocalAllocator, uses the same promises
                                     (IndexBuffersProofs, with FoldProofs)
VertexBuffers     EXTENDS TransientBuffers, uses the same promises
                                     (VertexBuffersProofs, with FoldProofs)
```

The abstract modules on the left say in a few lines what a component promises; the
detailed ones are checked and proved to implement them. The four resource modules build
on the abstract ones: their handles are a set, their maps are maps, and their renderer has
one frame at a time. `MC<Module>` gives the constants that a `.cfg` cannot, and the
symmetries.

### FrameSync

One variable per shared variable of `Context`, two program counters (`apc`, `rpc`),
one action per step between two accesses of shared state. `stage` says which of the
calls of `frame` that `init` and `shutdown` make themselves the API thread is in
(`kick` records `RendererInit`; `begin`, `destroy1`, `destroy2`, `layouts`, `end` are
the calls of `shutdown`), so that the commands at the right places are part of the model.
`mode` chooses the way of running: a render thread made by init (`internal`), a main
thread that calls `renderFrame` (`external`, what `entry_windows.cpp` does), or everything
on one thread (`single`). `m_apiSem.wait(msecs)` may time out at any moment after it has
blocked. Frames carry only their number and the three commands that start and stop a
renderer.

### Encoders

The state of `encoderApiWait` is kept step by step (`apc`): the handles are counted,
waited for, reset and allocated *before* the lock is taken, as in the code. `submit`
and `dispatch` read the counter (`Call`), try the compare-and-swap (`Claim`), and fill
the item (`Write`); `blit` reads and writes its plain counter in two steps. An item is
told apart by frame, encoder and number. The renderer has given `m_render` back
whenever `Swap` runs, which is what FrameSync shows (`NoFrameRace`).

### HandleAlloc and HandleHashMap

`dense`, `sparse` and the count, with the assignments of `alloc` and `free` in their
order. `sparse` starts with arbitrary contents (`Garbage`), as the constructor of
`HandleAllocT` does not clear it. In the hash map the home slot of each key is any function
of the key, so every pattern of collisions is there. A search is the first slot, counted
from the key's home, that is free or has the key. `removeIndex` empties a slot; its loop is
an action of its own (`Shift`), one round at a time, so that its end can be stated.

### SpScQueue

The linked list of `SpScUnboundedQueueT`, each access of a pointer both threads use a step
of its own. `mode` chooses between the two queues the program builds from it: the events of
entry (one producer, a consumer that polls, `peek` before `pop`) and the messages of a
`bx::Thread` (any producers under a mutex, one `post` per push, `pop` after a `wait`).
`push` deletes the nodes the consumer has left behind. Its definitions are called `QueueInit`,
`QueueNext`, `QueueSpec` and so on, so that one proof module can extend all three containers.

### FrameBuffers and Programs

Each function of `Context` holds `m_resourceApiLock` from start to end, so a call is
one action; the renderer executes one command at a time in between. A
call that drops several references in turn folds them over a record of what it
changes. `submit` and `render` are the two Frames, with the commands, the objects
drawn and the handles to release. `appTextures`, `app` and the like are what the
application may still legally name or destroy. The renderer is the set of
objects its tables hold, and what they refer to; `registry` is `UniformRegistry`, as
`renderer_d3d11.cpp` uses it. Hashes of binaries and names are taken as injective. A
uniform is created with one of several array sizes (`Nums`), of which the largest wins;
`MaxRefs` bounds how often the application holds one object.

Programs starts when `Context::init` has returned. Of what init makes it keeps one object, since a
property of the code hangs on it: `vs_debugfont`, the first shader (`bgfx.cpp` 694), has handle 0 and is
held by init's program until `shutdown` (`InitShaders`). A program is made of a vertex and a fragment
shader, or of one shader: a compute shader, or a vertex shader for which `bgfx::createProgram` gets no
fragment shader (4368). The key of a program of one shader is its handle, which is also the key of
that shader with a fragment shader of handle 0 (`bgfx_p.h` 4194, 4254). `ShareProgram` counts what each
of the two `createProgram` counts for the program it finds (`SharedShaders`), and `DestroyProgram` drops
what the program is made of; that the two agree is `RefCountExact`, and that what is found is made
of the shaders given is the last part of `MapsExact`. Both hold since no fragment shader has handle 0.

### NonLocalAllocator and IndexBuffers

NonLocalAllocator has the operations of that struct as operators on its two lists: first
fit, free, `compact`, and the loop over `remove`. IndexBuffers has the static and dynamic
index buffers of `Context` on top of it: pages shared by several dynamic buffers, buffers of
their own for `COMPUTE_READ`, `update` that grows and so moves a buffer or is cut short,
destruction put off until the frame is handed over, and pages given back with their last
block. A write and a draw carry the range of bytes they touch and whose data it is, so
that reading someone else's data can be stated: of the writes that reach a byte which is drawn the
last must be the owner's. (Not all: with four calls in a frame a block can change hands before its
new owner writes and draws it.) Handle 0 belongs to the index buffer `init` creates first, which the
loop over `remove` needs: it takes a block at handle 0 and offset 0 for the end of the list. The renderer executes a frame in one step,
since nothing of it is shared before it lets go of `m_render`.

### TransientBuffers and VertexBuffers

TransientBuffers has the arithmetic of `getAvailTransient...` and `allocTransient...`
modulo `Word` (2^32 in the code). VertexBuffers has layouts (`VertexLayoutRef`: found by
hash, counted by buffers, by `createVertexLayout`, and once for transient use), static vertex
buffers, dynamic ones that have a buffer to themselves, and the parts of the two transient
buffers a frame hands out. A layout whose count drops to zero in `frame` is queued with
`m_render` and is released one frame later; both queues are part of the state.

## 3. Runs

| Run | Asks | Bounds |
|---|---|---|
| `frame_sync` | do the two threads hand over frames one at a time and in order, do commands that start and stop the renderer come in order, does every call of `frame` and shutdown complete | all three modes; up to 7 frames (6 or more are those of init and shutdown); flip flag toggled; window not closed before init |
| `encoders` | are encoders, frames and items kept apart; is each call that was not dropped handed over once; does `frame` return | API thread and 2 workers, 3 encoders, 2 items, 1 blit, 2 frames, 1 call per encoder |
| `begin_race` (violated) | the assertion on handle 0 | `begin` allowed while `frame` runs, 1 frame |
| `handle_alloc` | do the arrays implement a set | 4 handles, all initial contents of `sparse` in 0..4 |
| `handle_hash_map` | does the table implement a map, does removal end | 3 slots, 4 keys, 3 handles, all home functions |
| `spsc_queue` | is a node ever used after it is deleted, is the queue first in first out, is every item popped | 2 producers, 4 pushes, 2 values, both uses |
| `frame_buffers` | counts, releases and commands of textures and frame buffers | 2 textures, 2 frame buffers, 2 attachments, 2 calls per frame, any number of frames |
| `programs` | counts, maps, commands and the registry of names | 3 shader handles of which init holds one, 4 binaries, 1 program, 4 uniform handles, 2 names, 2 array sizes, 2 calls per frame, any number of frames |
| `index_buffers` | do blocks tile their pages, has each buffer one owner, does a draw read its own data | 2 dynamic and 2 other buffers, of 32-bit indices that may be resized or read by compute shaders, pages of 48 bytes, sizes 16 and 36, 3 calls per frame, any number of frames |
| `index_resize` (violated) | is an update of a buffer just created complete | pages of 16 bytes, sizes 16, 18, 34, 3 dynamic buffers, 2 calls per frame |
| `vertex_buffers` | counts, releases and commands of layouts and buffers, transient parts | 2 buffers and the transient one, 1 dynamic, 3 layout handles for 2 layouts of 24 bytes, transient buffers of 48 and 8 bytes, 2 calls per frame, any number of frames |
| `transient_wrap` (violated) | are at most as many vertices promised as asked for | the same with a transient buffer of 20 bytes |

Each passing run but `handle_alloc` (whose types are proved) also checks the type invariant
of its module. Properties that say one thing in several parts are checked as one:
`EncodersSafe` (no two threads with one encoder, no write to the other Frame),
`RendererSafe` of the resource modules (commands find their objects, draws theirs,
attachments exist, transient parts are apart), `FindExact` (search and count),
`LayoutsExact` (counts, map, queues, and the comparison that `Context::shutdown` asserts). Each
property has a named mutation of the code's model (the definitions marked "Bug:", each next
to the one it changes) under which TLC finds it violated.

**Why the bounds suffice.** Frames alternate between two objects, so whatever can go wrong
with a reused Frame appears with the third frame; the frames of init and shutdown alone are
more. Handles are interchangeable: two show sharing and reuse of a released
handle by another object, and in `programs` four uniform handles let two names each move
while their old handles still wait for release, as three layout handles do for two layouts.
Two or three calls per frame over unboundedly many frames reach every combination of an object
created in one frame, shared in a later one and destroyed in a third; longer frames add
sequences, not new neighbours of a frame boundary. A table of three slots has chains that
wrap around, are full, and contain entries of three different homes. A page of 48 bytes holds
three smallest blocks: the fewest that let a block be freed between two others and merged with
both. Size 36 does not divide it, so blocks leave rests. In a transient buffer of 48 bytes an
element of 16 makes the next one of 24 round up and still fit. Two workers and the API
thread are the fewest that let one thread claim an item between two steps of another while a
third is in `frame`. Four pushes let nodes be deleted while two are waiting.

**What the violated runs show** (each quotes the sentence it contradicts in
`PROJECT.json`):

- `begin_race`: `begin` on another thread between `reset` and `alloc` in
  `encoderApiWait` takes handle 0.
- `index_resize`: `update` that grows a buffer allocates the size of the data as it is
  (`bgfx_p.h` 3465) where creation rounds up to 16 (3405). The next block starts at an offset
  that is no whole 32-bit index, and the data of a 32-bit buffer placed there does not fit: the
  assertion "Truncating dynamic index buffer update" (3479).
- `transient_wrap`: an offset rounded up to the stride can lie past the end of the transient
  buffer, and the difference with the end is taken without sign (`bgfx_p.h` 2151): where
  nothing is left, `getAvailTransientVertexBuffer` promises nearly 2^32 / stride vertices.
  `bgfx.h` 2444 says "Returns number of requested or maximum available vertices."

**More that the models show** when a switch is set that the runs leave off, or that a property
makes an exception of. No run states these.

- FrameSync: `reset` writes `m_flipAfterRender` without synchronisation and the render
  thread reads it twice per frame, so a frame can be submitted over one that was never flipped
  (`FlipBeforeNewFrame`). With `EarlyClose` the main loop of `entry_windows.cpp` (544) ends on
  `NoContext`, which `renderFrame` also returns before init, and init waits for ever.
- Encoders: a dispatch at the last place of a frame is dropped after its place has been
  counted (`bgfx.cpp` 1336), so one item of an earlier use of the Frame is drawn; `DrawsSubmitted`
  states this as its only exception. With two threads in `Blitters` two blits get one item,
  since `m_numBlitItems` is a plain counter (1382); the run has one blitting thread.
- FrameBuffers: with `AdoptShared`, `textureTakeOwnership` drops the application's reference
  a second time when `destroyTexture` has dropped it (`AttachmentsKept`).
- Programs: with fewer uniform handles than names, `createShader` stores an invalid handle and
  releases it later (`ReleasesValidUniforms`). If the application could get handle 0 for a fragment
  shader (`NoInitShaders`), `createProgram` of a vertex shader alone would find the program of both: it
  counts one shader (`bgfx_p.h` 4260), `destroyProgram` drops two (4302-4306), and the fragment shader
  goes while a program uses it. Nothing in these functions prevents that, only the order in which
  `init` makes its shaders. The renderer Noop is the exception, and left out: its embedded shaders are
  all the same ten bytes (`embedded_shader.h` 120), so that `vs_debugfont` and `fs_debugfont` share
  handle 0 and make the program (0, 0), which a program of that one shader would be taken for.
- IndexBuffers: with `GrowDrawn`, a buffer that is drawn and then grown in one frame has its old
  block given away before it is drawn. Left out of the model: a growth for which no block is
  left (`bgfx_p.h` 3468 uses `kInvalidBlock` as a handle), and a dynamic buffer destroyed twice
  in a frame, which nothing refuses (3496). A buffer with both
  `COMPUTE_READ` and `ALLOW_RESIZE` leaks when it grows: `update` gives its block back to the allocator,
  which never had it, and takes a new index buffer (3459-3468), so the old one has no owner
  (`OneOwner`). The passing run has no such buffer, and no sizes that suit one format of indices
  but not the other; `index_resize` has those.
- VertexBuffers: with `NewInVain`, a dynamic vertex buffer that cannot be created leaves the
  layout made for it behind (3581-3592), and the assertion of shutdown (`bgfx.cpp` 2084) fails.

## 4. Fairness

- `FrameSync`: weak fairness of each thread as a whole: the operating system schedules both. The
  application's `frame` and `reset` are not fair, so a behaviour may have any number of
  them; `shutdown` is, since liveness is about programs that end. A wait for a semaphore is
  enabled only when its count is positive; there is one waiter per semaphore, so weak fairness is
  enough.
- `Encoders`: weak fairness of the steps inside a call and inside `frame`; strong fairness of
  `End` for each worker, since recording disables and enables it: `bgfx.h` requires that
  every encoder is ended.
- `HandleHashMap`: weak fairness of `Shift`, one round of a loop of a function that has been
  called.
- `SpScQueue`: weak fairness of the steps of each producer's push and of the consumer's pop, which
  are functions that have been called; strong fairness of the consumer's call of `pop`, which its
  calls of `peek` disable for a while: every `processEvents` begins with a poll for any window.
- The four resource modules state safety only.

## 5. What is proved

For every value of the constants (any number of frames, workers, encoders, handles, keys,
pushes, layouts; any set of modes, any hash function, any content of `sparse`), with TLAPS. In
each proof module one lemma or step per action shows that the invariant is kept.

**FrameSyncProofs.** `IInv` is the inductive invariant. Its core is `OnePermission`:
there is one permission to touch the Frame pointers; either the API thread has it,
or the render thread, or it is the count of exactly one semaphore. That alone gives
`NoFrameRace`, but it is not inductive: at shutdown the render thread stops giving the
permission back, and where it is in that hand-shake depends on the frame it has
executed. `ProgressInv` ties `executed` to the holder of the permission, `EndInv` says
in which Frame `RendererShutdownEnd` is, `HandshakeInv` follows the last three
operations of the two semaphores step by step, `LifeInv` ties `s_ctx` and the context to it,
and `ModeInv` says which thread exists in which mode. `CmdInv` adds what the commands in the two
Frames and the state of the renderer are in each stage. From them: `TypeCorrect`,
`FramesNeverRace`, `TwoFramesSuffice` (data given to `makeRef` may go after two calls of
`frame`), `ContextSafe`, `SctxCleared`, `CommandsInOrder`, and `RefinesPipeline` (each step is
a step of FramePipeline or changes none of its variables): every safety property of the run.

**EncodersProofs.** `IInv` is the conjunction of the types, `ApiInv` (the API thread has encoder 0
and records outside `frame` only), `WorkerInv` (each worker's encoder is its own and records into
the frame being built until it has been waited for), `CountInv` (each handle but 0 is counted once:
by its worker, the semaphore or the wait), `CallInv` (a place claimed and not yet written is one
thread's own) and `ItemInv` (a written place of this frame is below the counter, is nobody's to
write any more, and holds a call its encoder has counted).
`DrawInv` follows the items of the frame being recorded: every place counted holds a call of this frame,
is being written, or is the last one, whose dispatch was dropped; no two places hold the same call; and each
call an encoder has counted is in one of them. It assumes `~BeginAnytime`, the restriction whose absence `begin_race` shows to be fatal. From
it: `TypeCorrect`, `EncodersApart`, `EndSemBalanced`, `InternalEncoder` (then handle 0 is the API
thread's), `DrawsHandedOver` (nothing recorded is lost but a dispatch dropped at the last place) and
`RefinesDrawList`.

**ContainerProofs**, on HandleAlloc, HandleHashMap and SpScQueue. The invariant of the allocator is `AllocTypeOK /\
Dual /\ Onto`: `sparse` inverts `dense` on the part in use, and `dense` reaches every handle. `Dual` alone
is what `isValid` needs; `Onto` makes `dense` a permutation, without which `alloc` could give out a handle
twice or run out early. From it: `AllocTypeCorrect`, `IsValidCorrect`, `FirstHandle` (handle 0 after
`reset`, which `encoderApiWait` asserts), and `RefinesHandleSet`.

In the hash map an entry is hidden if its search meets a free slot before it. While no
removal is under way none is; while `removeIndex` runs, one slot, the hole, may hide entries, and
only entries its loop has still to visit (`Reach`). With distinct entries and an exact count that is
inductive (`HInv`). From it: `TypeCorrect`, `FindCorrect`, `RefinesMap`.

In the queue, `Exclusion` (one producer at a time), `Chain` (from `m_first` to `m_last`
the nodes follow one another in the order made, and none is deleted), `Consumer` (what the consumer
has seen stays true until it acts on it), `Tokens` (the semaphore, the pushes and pops under way and
the items add up). From them: `QueueTypeCorrect`, `NoUseAfterFree`, `PopNeverEmpty`, `RefinesFifo`.

**VertexBuffersProofs.** First the arithmetic: as long as the
offset rounded up to the stride is not past the end of the buffer, what is available is right
(`AvailableExact`) and what is handed out lies after the offset and inside (`TakenFits`); a size
that is a multiple of the stride guarantees it (`WholeBuffer`), and otherwise the result is the
one `transient_wrap` finds (`AvailableWraps`). Then, for sizes that suit the strides in use
(`SizesSuit`), the parts a frame hands out are apart (`PartsApart`) and no more vertices are promised
than asked for (`PromisesKept`), whatever else the application does.

Then layouts and buffers. `LayoutInv` needs no condition. It is stated of the record `State` that
the calls work on and of the renderer after the commands recorded so far (`Recorded`), so that it can be
followed through `findOrCreate`, `add`, `release` and the others inside one call:
`Counts` (each count is that of the buffers, calls and transient uses that name the layout),
`Maps` (the map has the layouts that are counted, each under one hash), `Waits` (a handle waits for its
release in one queue, once, in use and not counted), `Knows` (the renderer will have each layout that
is counted, under the hash of the map), `Owners` (each vertex buffer is the transient one, the
application's, one dynamic buffer's, or queued), `Posts` (what is queued is what the frame destroys
at its end) and, for each draw of the frame, its buffer and layout as the renderer will have them. None
of these is inductive alone: that a draw finds its layout rests on `Knows`, that on the counts, and
the counts on who owns what is released. `frame` releases buffers and layouts in two
loops; `DynamicsFreed(k)` and `BuffersFreed(k)` are the invariants of those loops after k rounds. What
`RenderInv` says of the frame handed over then holds because nothing it draws is destroyed before
`cmdPost`. From it: `RendererFindsAll`, `TypesCorrect` and `LayoutsCounted`; the last says that every
handle in use which is not counted waits for its release, so it needs `NewInVain = FALSE`, without which a
dynamic buffer that fails leaves a layout behind. (Before it was proved `LayoutInv` was checked with TLC
on the instance of `vertex_buffers`: 2.9 million states.)

**FrameBuffersProofs.** `Inv` is `TypeOK` and four parts. `ApiInv`: each count is that of the application's
use and of the attachments that hold the texture, a texture that nobody holds is queued, and what is queued
is what `cmdPost` destroys. `SubmitInv` and `RenderInv`: the commands of each of the two Frames
*run*, that is each finds what it needs after those before it, from the objects there are when the
frame starts, and what a frame draws exists until `cmdPost`. `Agreement`: when the renderer is done with
`m_render` it has what the API thread knows, less what `m_submit` creates, so the commands of the next
frame run from there. A frame buffer's destruction drops the references of its attachments one by one;
`RefInv` says what holds between two of them. It was not inductive until it said that nothing is left to
draw once a frame has been drawn (then checked with TLC: 4.5 million states). It assumes
`AdoptShared = FALSE`: otherwise `textureTakeOwnership` drops a reference twice. From it: `TypeCorrect`,
`CountsExact`, `RendererFinds` and `RendererCatchesUp`: every property of the run.

**ProgramsProofs.** `Inv` is `Types /\ ApiInv /\ Recorded(FALSE)`. `ApiInv` is about the API thread
alone: each count is the number of references there are (by the application, programs, shaders), what
nobody refers to is queued once, and each hash map has exactly the objects that are counted. `Types` has
one conjunct more than types, `FirstTaken`: handle 0 is `vs_debugfont` and is held. From it `SharedIs`
concludes that a program found by its key is made of the shaders given, so that the counts of
`ShareProgram` are those `DestroyProgram` will drop. (In the run the application cannot ask for
`vs_debugfont` itself, `MaxRefs` being 1 for shaders; the theorems allow it.) A call drops
or adds several references in turn; `RefInv` says the same of the record such a call works on, between two
of them, with the references still to be dropped as a parameter, and is followed along the fold. `Recorded`
is about the two Frames and the renderer: the commands of a frame, applied one after the other to what the
renderer has when the frame begins, each find what they need, and lead to what the API thread counts on
less what the frame's releases take away; what is drawn is there until `cmdPost`; and the registry of names
leads to the uniform the API thread last gave that name to.

`Recorded(TRUE)` says in addition that each uniform a shader refers to is one the renderer has under its
name. That is not true of the code: `createShader` does not look at the handle `createUniform` returns
(`bgfx_p.h` 4053), so a shader made when no handle is left refers to none. Hence two theorems:
`RendererServed` has `[]HandlesSuffice` (every shader in use got its uniforms) as its hypothesis, and
`RendererAlwaysServed` shows `RendererSafe` for every behaviour if there are as many uniform handles as names
times one more than half the calls of a frame (`EnoughUniforms`): a name has one live handle, and a dead one
waiting for its release for each pair of calls that destroyed and made it anew (`FewHandles`). The bound is
tight: the run has 2 * (1 + 1) handles, and with 3 TLC finds a shader without its uniform. Without any
hypothesis: `TypeCorrect`, `CountsExactly`, `MapsExactly`, `NamesFound` and `ObjectsAlwaysFound` (all of
`RendererSafe` that does not speak of uniforms).

**IndexBuffersProofs.** The calls of IndexBuffers work on a record, `State`, and some pass through
several in one step, so the invariant is about records. `Whole(s, f, A, B0)`, for a state `s`, dynamic buffers
`f`, static ones `A` and the index buffers `B0` the renderer starts the frame with, has four parts. `Filled`: the
blocks of the allocator are apart and fill every page, and each starts at a whole index of every format.
`Held`: the blocks in use are those of the dynamic buffers, one each, and large enough.
`Owned`: the index buffers are the transient ones, the static ones, the pages, those of dynamic buffers
and those that wait for their release, with nothing in two of them or in none. `Prepared`: `cmdPre` of the frame
makes of `B0` exactly the index buffers in use, and `cmdPost` destroys those that wait. Before that come the lemmas on
the allocator: two lists of blocks are compared by the bytes they cover (`SameBytes`), which `alloc`,
`free` and `compact` do not change; `sort` finds an order because blocks that are apart have a least one
(`OrderExists`), and the fold of `Join` along it leaves no two free blocks side by side (`Merged`), so that a
page without blocks in use is a single block when `remove` is called (`OneBlockPerPage`), and each page is destroyed
once. `frame` destroys the buffers that are queued one after the other; `Released` is what
holds between two of them.

`Data` is about what is written and drawn. For each byte a dynamic buffer has written this frame the last write in
`cmdPre` is its own, a draw of a dynamic buffer lies within what that buffer has written and still holds, and static
data is in other index buffers than dynamic data. A write of another buffer cannot break it because two dynamic
buffers have no byte in common (`DataApart`), which follows from `Filled` and `Held`; a block given
back cannot, because buffers that are destroyed keep theirs until the frame is handed over. Only growth gives one back
at once, so without `~GrowDrawn` the invariant leaves draws out (`Seen`).

`UsedWell` is what the theorems assume of the application: no buffer has both `COMPUTE_READ` and
`ALLOW_RESIZE`, and if 16-bit buffers may be resized where there are 32-bit ones, sizes are multiples of 4. Without the
first the code leaks, without the second it truncates an update (`index_resize`). From it: `TypeCorrect`,
`BlocksAlwaysExact`, `AlwaysOneOwner`, `NeverTruncated` and, with `~GrowDrawn`, `RendererAlwaysSafe`. Proving it changed
the model: `RendererSafe` first asked that no other buffer *write* a drawn byte in the frame, which the
proof attempt showed to fail once a frame has four calls. (The properties were also checked with TLC for
`ALLOW_RESIZE`, `INDEX32` and `COMPUTE_READ` on different buffers, the case of sizes that are multiples of 4: 4.8
million states; the run keeps to the smaller instance for its time.)

**FoldProofs.** What `FoldLeft` computes, for sequences of any length. The library's rules of induction
cannot be used (they take an operator), so induction along a sequence goes through the least
counterexample of a set of numbers (`UpTo`), which exists since `<` is well-founded. `FoldExists` shows
that the function by which a fold is defined exists, for a step that stays within a set, and `FoldChain`
that a fold is the last of a chain of values, each made from the one before by one step. Loops
and command buffers are then reasoned about by an invariant along the chain.

Assumptions are those stated in the modules (ranges of the constants and switches, finite sets of
threads and handles, an invalid handle that is none of the handles) and, where a theorem names them,
`~BeginAnytime` for Encoders, `AdoptShared = FALSE` for FrameBuffers, `SizesSuit` and `NewInVain = FALSE` for
VertexBuffers, `[]HandlesSuffice` or `EnoughUniforms` for the uniforms of Programs, `UsedWell` and `~GrowDrawn` for
IndexBuffers. Each excludes what a violated run or a switch of section 3 shows to be wrong in the code.

## 6. What is only model-checked

- Liveness (`Termination`, `FrameReturns`, `RemovalEnds`, `Delivered`): the prover does not handle
  fairness. Every safety property that a passing run checks is also proved.

## 7. What is not modelled, and why

- **Renderer backends** (`renderer_*.cpp`), **GL contexts**, DXGI, NVAPI: drivers of
  other systems' state machines. What the modelled commands do to a backend's tables is
  in the resource modules. The containers that only backends use (`StateCacheLru`, `HandleListT`,
  `HandleAllocLruT`, the ring buffers) are left out with them.
- **Shader byte code**, **vertex conversion**, **bimg**, **bx base library** (strings,
  files, math, hashes): functions of their arguments, without shared state.
- **Mutexes, semaphores, thread start and join**: wrappers of the operating system's. They are
  used by what they promise.
- **Memory**: who releases a `Memory` is a line of its own on every path of every create function,
  with no state that outlives the call. (`createTexture` leaks it when the image cannot be parsed,
  `bgfx_p.h` 4356.)
- **Contents**: what a draw call carries, sort keys, matrix and rectangle caches, bytes of command
  and uniform buffers. The two caches claim entries with the loop that Encoders has for items.
- **Views, debug text, occlusion queries, screen shots**: values copied with a frame.
- **Dynamic vertex buffers that share pages**: the same code as for index buffers but for strides.
- **Windows and input of entry**: their order comes from the message queue of Windows.
  (`destroyWindow` frees the handle at once and the main thread frees it again on `WM_CLOSE`,
  `entry_windows.cpp` 1128.)
- **Names and native pointers** of textures and shaders (`setName`, `overrideInternal`).
- **Programs no renderer can draw with** (a fragment shader alone, two shaders in the wrong order), which
  nothing refuses in a release build; and what `init` makes besides the shader of handle 0.
- **Application and example utilities**: callers of the API. The model's applications
  make every legal call instead of one sequence. (`homework.cpp` 402 destroys two textures that
  a frame buffer was told to destroy; `AdoptShared` is about the counts involved.)

The models cover a small part of the repository's lines: most of those are fonts, tables, codecs,
vendored headers and backends, none of which has state a model could say something about that a test
could not.

## 8. What is left

1. **Memory** ownership composed with FramePipeline: released once, after execution.
2. **Occlusion queries and read-back**: results that arrive frames after the handle they
   belong to may have been reused.
3. **Mutex and Semaphore** for platforms on which bx implements them itself.
4. **RingBuffer, HandleList, HandleAllocLru**: positions modulo the size against a bounded buffer, a
   linked list against a sequence.
5. **MatrixCache and RectCache** added to Encoders; **SortKey** encode and decode over bounded fields.
6. Paged dynamic vertex buffers beside IndexBuffers.
