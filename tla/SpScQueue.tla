------------------------------ MODULE SpScQueue ------------------------------
(***************************************************************************)
(* bx's queue of linked nodes (src/bx/include/bx/inline/spscqueue.inl) and *)
(* the two queues built from it that the program uses: the events the main *)
(* thread of entry passes to the application (SpScUnboundedQueueT, polled) *)
(* and the queue of each bx::Thread (MpScUnboundedBlockingQueue: push      *)
(* under a mutex, then a post; pop waits for the semaphore).               *)
(*                                                                         *)
(* m_first .. m_divider are nodes already popped, which the next push      *)
(* deletes; the items are in the nodes after m_divider, up to m_last.      *)
(* Only the consumer writes m_divider, only the producer the other two.    *)
(* Each thread's reads and writes of the pointers it shares with the other *)
(* are steps of their own, in program order: the writes are exchanges, the *)
(* reads plain loads of an aligned pointer.                                *)
(*                                                                         *)
(* Nodes are numbered in the order they are made.  The allocator may reuse *)
(* an address; since no thread ever holds a deleted node (NodesSafe) none  *)
(* can tell.                                                               *)
(***************************************************************************)
EXTENDS Integers, Sequences, FiniteSets

CONSTANTS
    Producers,
    Main,        \* the only producer of events
    Values,      \* what is pushed
    NoPtr,       \* NULL
    Modes,       \* which of "events" and "thread" the queue is used as
    MaxPush      \* bound: calls of push

ASSUME ProducersAssumption == IsFiniteSet(Producers) /\ Main \in Producers
ASSUME ValuesAssumption == NoPtr \notin Values /\ NoPtr \notin Int
ASSUME ModesAssumption == Modes \subseteq {"events", "thread"}
ASSUME MaxPushAssumption == MaxPush \in Nat

NoOne == "no one"
ASSUME NoOneAssumption == NoOne \notin Producers

Nodes == 0 .. MaxPush

VARIABLES
    mode,     \* what the queue is used as
    made,     \* the last node made
    ptr,      \* m_ptr of each node
    next,     \* m_next of each node
    alive,    \* the nodes not yet deleted
    first, divider, last,   \* m_first, m_divider, m_last
    lock,     \* who holds m_write
    count,    \* the semaphore's count
    pc,       \* next step of each producer's push
    node,     \* the node it has made
    cpc,      \* next step of the consumer
    call,     \* what the consumer is in
    got,      \* what the consumer has read
    peeked,   \* what the peek before this pop has returned, NoPtr if there was none
    popped    \* the item last popped, NoPtr if there was none

nodeVars     == <<made, ptr, next, alive>>
producerVars == <<first, last, lock, pc, node>>
consumerVars == <<divider, cpc, call, got, peeked, popped>>
queueVars == <<mode, nodeVars, producerVars, count, consumerVars>>

QueueTypeOK ==
    /\ mode \in Modes
    /\ made \in Nodes
    /\ ptr \in [Nodes -> Values \union {NoPtr}]
    /\ next \in [Nodes -> Nodes \union {NoPtr}]
    /\ alive \subseteq Nodes
    /\ first \in Nodes /\ divider \in Nodes /\ last \in Nodes
    /\ lock \in Producers \union {NoOne}
    /\ count \in Nat
    /\ pc \in [Producers -> {"out", "link", "publish", "check", "free", "post"}]
    /\ node \in [Producers -> Nodes]
    /\ cpc \in {"out", "test", "read", "advance"}
    /\ call \in {"pop", "peek"}
    /\ got \in Values \union {NoPtr}
    /\ peeked \in Values \union {NoPtr}
    /\ popped \in Values \union {NoPtr}

\* The constructor's node carries no item.
QueueInit ==
    /\ mode \in Modes
    /\ made = 0
    /\ ptr = [n \in Nodes |-> NoPtr]
    /\ next = [n \in Nodes |-> NoPtr]
    /\ alive = {0}
    /\ first = 0 /\ divider = 0 /\ last = 0
    /\ lock = NoOne
    /\ count = 0
    /\ pc = [p \in Producers |-> "out"]
    /\ node = [p \in Producers |-> 0]
    /\ cpc = "out"
    /\ call = "pop"
    /\ got = NoPtr
    /\ peeked = NoPtr
    /\ popped = NoPtr

-----------------------------------------------------------------------------
(* push                                                                     *)

\* Bug: producers push without m_write.
MayPushNoLock(p) == UNCHANGED lock

\* One thread is the producer of events; a bx::Thread's queue takes m_write.
MayPush(p) == IF mode = "events" THEN p = Main /\ UNCHANGED lock
                                 ELSE lock = NoOne /\ lock' = p

\* new Node(_ptr)
Push(p, v) ==
    /\ pc[p] = "out"
    /\ made < MaxPush
    /\ MayPush(p)
    /\ made' = made + 1
    /\ ptr' = [ptr EXCEPT ![made + 1] = v]
    /\ alive' = alive \union {made + 1}
    /\ node' = [node EXCEPT ![p] = made + 1]
    /\ pc' = [pc EXCEPT ![p] = "link"]
    /\ UNCHANGED <<mode, next, first, last, count, consumerVars>>

\* Bug: the consumer is told before the item is there, and again when it is.
LinkPosts(p) ==
    /\ pc[p] = "link"
    /\ next' = [next EXCEPT ![last] = node[p]]
    /\ pc' = [pc EXCEPT ![p] = "publish"]
    /\ count' = IF mode = "thread" THEN count + 1 ELSE count
    /\ UNCHANGED <<mode, made, ptr, alive, first, last, lock, node, consumerVars>>

\* m_last->m_next = node
Link(p) ==
    /\ pc[p] = "link"
    /\ next' = [next EXCEPT ![last] = node[p]]
    /\ pc' = [pc EXCEPT ![p] = "publish"]
    /\ UNCHANGED <<mode, made, ptr, alive, first, last, lock, count, node, consumerVars>>

\* atomicExchangePtr(&m_last, m_last->m_next)
Publish(p) ==
    /\ pc[p] = "publish"
    /\ last' = next[last]
    /\ pc' = [pc EXCEPT ![p] = "check"]
    /\ UNCHANGED <<mode, nodeVars, first, lock, count, node, consumerVars>>

\* The end of the mutex's scope, and of push for a queue of events.
Leave(p) ==
    IF mode = "events" THEN pc' = [pc EXCEPT ![p] = "out"] /\ UNCHANGED lock
                       ELSE pc' = [pc EXCEPT ![p] = "post"] /\ lock' = NoOne

\* Bug: the loop deletes nodes that have not been popped.
CheckLast(p) ==
    /\ pc[p] = "check"
    /\ \/ first # last /\ pc' = [pc EXCEPT ![p] = "free"] /\ UNCHANGED lock
       \/ first = last /\ Leave(p)
    /\ UNCHANGED <<mode, nodeVars, first, last, count, node, consumerVars>>

\* The condition of the loop, m_first != m_divider.
Check(p) ==
    /\ pc[p] = "check"
    /\ \/ first # divider /\ pc' = [pc EXCEPT ![p] = "free"] /\ UNCHANGED lock
       \/ first = divider /\ Leave(p)
    /\ UNCHANGED <<mode, nodeVars, first, last, count, node, consumerVars>>

\* The loop's body: a node that has been popped is deleted.
FreeNode(p) ==
    /\ pc[p] = "free"
    /\ first' = next[first]
    /\ alive' = alive \ {first}
    /\ pc' = [pc EXCEPT ![p] = "check"]
    /\ UNCHANGED <<mode, made, ptr, next, last, lock, count, node, consumerVars>>

\* Bug: the consumer is only told of an item pushed to an empty queue.
PostOfFirst(p) ==
    /\ pc[p] = "post"
    /\ count' = IF count = 0 /\ last = divider + 1 THEN count + 1 ELSE count
    /\ pc' = [pc EXCEPT ![p] = "out"]
    /\ UNCHANGED <<mode, nodeVars, first, last, lock, node, consumerVars>>

\* m_sem.post()
Post(p) ==
    /\ pc[p] = "post"
    /\ count' = count + 1
    /\ pc' = [pc EXCEPT ![p] = "out"]
    /\ UNCHANGED <<mode, nodeVars, first, last, lock, node, consumerVars>>

-----------------------------------------------------------------------------
(* pop and peek, both of which start with m_divider != m_last.              *)

\* pop of a bx::Thread's queue: m_sem.wait().
Wait ==
    /\ mode = "thread"
    /\ cpc = "out"
    /\ count > 0
    /\ count' = count - 1
    /\ call' = "pop"
    /\ cpc' = "test"
    /\ UNCHANGED <<mode, nodeVars, producerVars, divider, got, peeked, popped>>

\* EventQueue::poll pops; poll for one window peeks first.
Poll(c) ==
    /\ mode = "events"
    /\ cpc = "out"
    /\ call' = c
    /\ cpc' = "test"
    /\ UNCHANGED <<mode, nodeVars, producerVars, count, divider, got, peeked, popped>>

\* NULL when there is nothing.
Test ==
    /\ cpc = "test"
    /\ \/ divider # last /\ cpc' = "read" /\ UNCHANGED <<peeked, popped>>
       \/ divider = last /\ cpc' = "out" /\ popped' = NoPtr /\ peeked' = NoPtr
    /\ UNCHANGED <<mode, nodeVars, producerVars, count, divider, call, got>>

\* Bug: the item is taken from the node that is already popped.
ReadDivider ==
    /\ cpc = "read"
    /\ got' = ptr[divider]
    /\ \/ call = "pop" /\ cpc' = "advance" /\ UNCHANGED <<call, peeked>>
       \/ call = "peek" /\ cpc' = "test" /\ call' = "pop" /\ peeked' = got'
       \/ call = "peek" /\ cpc' = "out" /\ UNCHANGED <<call, peeked>>
    /\ UNCHANGED <<mode, nodeVars, producerVars, count, divider, popped>>

\* m_divider->m_next->m_ptr.  poll pops what it has peeked at if that is an event of
\* its window.
Read ==
    /\ cpc = "read"
    /\ got' = ptr[next[divider]]
    /\ \/ call = "pop" /\ cpc' = "advance" /\ UNCHANGED <<call, peeked>>
       \/ call = "peek" /\ cpc' = "test" /\ call' = "pop" /\ peeked' = got'
       \/ call = "peek" /\ cpc' = "out" /\ UNCHANGED <<call, peeked>>
    /\ UNCHANGED <<mode, nodeVars, producerVars, count, divider, popped>>

\* atomicExchangePtr(&m_divider, m_divider->m_next), and the return of pop.
Advance ==
    /\ cpc = "advance"
    /\ divider' = next[divider]
    /\ popped' = got
    /\ peeked' = NoPtr
    /\ cpc' = "out"
    /\ UNCHANGED <<mode, nodeVars, producerVars, count, call, got>>

-----------------------------------------------------------------------------

PushStep(p) == Link(p) \/ Publish(p) \/ Check(p) \/ FreeNode(p) \/ Post(p)
PopStep == Wait \/ Test \/ Read \/ Advance

\* Every push has returned, and a bx::Thread's pop waits.
Finished == /\ made = MaxPush /\ \A p \in Producers : pc[p] = "out"
            /\ cpc = "out" /\ count = 0
            /\ UNCHANGED queueVars

QueueNext ==
    \/ \E p \in Producers : PushStep(p) \/ \E v \in Values : Push(p, v)
    \/ PopStep
    \/ \E c \in {"pop", "peek"} : Poll(c)
    \/ Finished

QueueSpec == QueueInit /\ [][QueueNext]_queueVars

\* The threads are scheduled, and the application goes on polling: every call of
\* processEvents and processWindowEvents begins with a poll for any window.
QueueFairSpec ==
    /\ QueueSpec
    /\ \A p \in Producers : WF_queueVars(PushStep(p))
    /\ WF_queueVars(PopStep)
    /\ SF_queueVars(Poll("pop"))

-----------------------------------------------------------------------------
(* Properties.                                                              *)

\* push deletes nodes while the consumer works on the queue: no thread comes to a node
\* that has been deleted, or to a link that has not been set, and every node made is in
\* the queue or deleted, none lost and none deleted twice.
NodesSafe ==
    /\ alive = first .. made
    /\ \A p \in Producers :
          /\ pc[p] \in {"link", "publish"} => last \in alive
          /\ pc[p] = "publish" => next[last] \in alive
          /\ pc[p] = "free" => first \in alive \ {divider} /\ next[first] \in alive
    /\ cpc = "test" => divider \in alive
    /\ cpc \in {"read", "advance"} => {divider, next[divider]} \subseteq alive

\* A pop that was promised an item gets one: after the semaphore's count for it has
\* been taken, and after peek has shown it, which is then the one popped.
PopFinds ==
    /\ cpc = "test" /\ (mode = "thread" \/ peeked # NoPtr) => divider # last
    /\ cpc = "advance" /\ peeked # NoPtr => got = peeked

\* The queue is first in, first out for its two sides.
Queue == [i \in 1 .. last - divider |-> ptr[divider + i]]
Items == INSTANCE Fifo WITH queue <- Queue, out <- popped
FifoSpec == Items!FifoSpec

\* What has been pushed is popped.
Delivered == \A n \in Nodes : last >= n ~> divider >= n
=============================================================================
