\* Two producers and two consumers on a ring of two places: the ring fills,
\* empties and wraps around more than once.
SPECIFICATION FairSpec
CONSTANTS
    Producers = {p1, p2}
    Consumers = {c1, c2}
    Items = {a, b}
    Size = 2
    MaxInserts = 5
INVARIANTS
    IInv
PROPERTIES
    ImplementsQueue
    EveryItemTaken
    ProducersGoOn
CHECK_DEADLOCK FALSE
