\* One slot and two queue places: two waiters can be out of order and the
\* fourth task can be refused.
CONSTANTS
    Task = {t1, t2, t3, t4}
    Limit = 1
    QueueSize = 2
SPECIFICATION FairSpec
INVARIANTS
    CapacityInv
PROPERTIES
    ImplementsFifoSlots
    WaitersServed
