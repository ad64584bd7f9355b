SPECIFICATION MCSpec
CONSTANTS
  e1 = e1
  e2 = e2
  p1 = p1
  b1 = b1
  b2 = b2
  b3 = b3
  c1 = c1
  c2 = c2
  Events = {e1, e2}
  Height <- HeightOf
  Partitions = {p1, p2}
  Local = here
  Workers = {tick}
  Ticker = tick
  Elsewhere = {e1}
  CleanupHeights = {2}
  MaxPending = 1
  MaxRetries = 2
  Items = {b1, b2, b3}
  ItemCreator <- MCItemCreator
  ItemHeight <- MCItemHeight
  Adders = {a1, a2}
  Batches = {g1, g2}
  BatchSize = 2
  MinBatchSize = 1
  MaxBatchSize = 2
  Capacity = 1
  MaxAdded = 3
INVARIANTS NoEventDropped InBothIsTried KnownIsQueued
PROPERTIES StopReturns StopReturnsUnlessStuck
CHECK_DEADLOCK FALSE
