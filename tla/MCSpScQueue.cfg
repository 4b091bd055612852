SPECIFICATION QueueFairSpec
CONSTANTS
    Main = Main
    t1 = t1
    Producers = {Main, t1}
    Values = {a, b}
    NoPtr = NoPtr
    Modes = {"events", "thread"}
    MaxPush = 4
INVARIANTS
    QueueTypeOK
    NodesSafe
    PopFinds
PROPERTIES
    FifoSpec
    Delivered
