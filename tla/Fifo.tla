-------------------------------- MODULE Fifo --------------------------------
(***************************************************************************)
(* What bx's queues promise their two sides: a push adds an item at the    *)
(* end, a pop takes the one at the front, and a pop that comes back with   *)
(* NULL found the queue empty.                                             *)
(***************************************************************************)
EXTENDS Sequences

CONSTANTS Values, NoPtr

VARIABLES queue, out

fifoVars == <<queue, out>>

FifoInit == queue = <<>> /\ out = NoPtr

Put == /\ \E v \in Values : queue' = Append(queue, v)
       /\ UNCHANGED out

Take == /\ queue # <<>>
        /\ out' = Head(queue)
        /\ queue' = Tail(queue)

Miss == /\ queue = <<>>
        /\ out' = NoPtr
        /\ UNCHANGED queue

FifoNext == Put \/ Take \/ Miss

FifoSpec == FifoInit /\ [][FifoNext]_fifoVars
=============================================================================
