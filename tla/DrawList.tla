------------------------------ MODULE DrawList ------------------------------
(***************************************************************************)
(* What the encoders of bgfx promise: any number of threads add calls to   *)
(* one list, and bgfx::frame hands over the whole list and starts a new    *)
(* one.  The list handed over does not change any more.                    *)
(***************************************************************************)
CONSTANT Calls

VARIABLES
    list,    \* the calls recorded for the frame that is being built
    handed   \* the calls the renderer draws

listVars == <<list, handed>>

ListInit == list = {} /\ handed = {}

Record == /\ \E c \in Calls \ list : list' = list \union {c}
          /\ UNCHANGED handed

HandOver == handed' = list /\ list' = {}

ListNext == Record \/ HandOver

ListSpec == ListInit /\ [][ListNext]_listVars
=============================================================================
