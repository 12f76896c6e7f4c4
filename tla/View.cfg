CONSTANTS
  A = A
  B = B
  C = C
  near = near
  File = {A, B, C}
  Name = {near}
  Candidates <- MCCandidates
  Task = {t1, t2}
  Cancellable = {t1, t2}
  Batches <- MCBatches
  Evictions <- MCEvictions
  Writable = {B}
  Starts <- MCStarts
  MaxWrites = 1
  MaxGen = 2
  Absent = Absent
  NoFile = NoFile
  NoParse = NoParse
  Unguarded = Unguarded
SPECIFICATION Spec
SYMMETRY Symmetry
INVARIANTS
  NeverStale
  GraphConsistent
  EdgesLostOnlyToEvict
  AffectedComplete
PROPERTIES
  ImplementsCache
CHECK_DEADLOCK FALSE
