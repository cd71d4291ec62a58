\* One producer, one consumer, one place: the second insert overwrites the first.
SPECIFICATION SwappedSpec
CONSTANTS
    Producers = {p1}
    Consumers = {c1}
    Items = {a, b}
    Size = 1
    MaxInserts = 3
INVARIANTS
    PlaceIsFree
CHECK_DEADLOCK FALSE
