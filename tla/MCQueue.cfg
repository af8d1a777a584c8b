\* Two producers, three consumers, two values, a ring of two slots.  No symmetry,
\* which the liveness of the refinement does not allow.
CONSTANTS
    Producers = {p1, p2}
    Consumers = {c1, c2, c3}
    Values = {v1, v2}
    NoValue = NoValue
    Free = Free
    QUEUE_MAXLEN = 2
    MaxSpurious = 2
SPECIFICATION FairSpec
INVARIANTS
  TypeOK
  NoLostWakeup
PROPERTIES
  RefinesFIFO
  RefinesFairFIFO
