---------------------------- MODULE FramePipeline ----------------------------
(***************************************************************************)
(* What bgfx promises about frames, whatever threads carry it out: frames  *)
(* are numbered 1, 2, 3, ...; the application builds one frame while at    *)
(* most one earlier frame is with the renderer; the renderer executes each *)
(* frame exactly once and in order.                                        *)
(***************************************************************************)
EXTENDS Integers

VARIABLES
    building,  \* number of the frame the application is recording
    inFlight,  \* {} or {n}: the frame handed over and not executed yet
    executed   \* number of the last frame the renderer has executed

pipeVars == <<building, inFlight, executed>>

PipeInit == building = 1 /\ inFlight = {} /\ executed = 0

\* bgfx::frame: the recorded frame goes to the renderer, a new one begins.
HandOver ==
    /\ inFlight = {}
    /\ inFlight' = {building}
    /\ building' = building + 1
    /\ UNCHANGED executed

\* The renderer finishes the frame it was given.
Execute ==
    /\ \E n \in inFlight : n = executed + 1 /\ executed' = n
    /\ inFlight' = {}
    /\ UNCHANGED building

\* Both at once: the single-threaded build renders inside bgfx::frame.
HandOverAndExecute ==
    /\ inFlight = {}
    /\ building = executed + 1
    /\ executed' = building
    /\ building' = building + 1
    /\ UNCHANGED inFlight

PipeNext == HandOver \/ Execute \/ HandOverAndExecute

PipeSpec == PipeInit /\ [][PipeNext]_pipeVars
=============================================================================
