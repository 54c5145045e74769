CONSTANTS
  Consumers = {c1, c2}
  Producers = {p1, p2}
  Nobody = nobody
  SeqMax = 2
SPECIFICATION FairSpec
INVARIANTS NoLostWakeup
PROPERTY ConsumersServed
