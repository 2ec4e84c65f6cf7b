SPECIFICATION Spec
CONSTANTS
  w1 = w1  w2 = w2  t1 = t1  t2 = t2  v1 = v1  v2 = v2  approve = approve  veto = veto
  Workers = {w1, w2}
  NoWorker = NoWorker
  Tasks = {t1}
  Opinions = {v1}
  CioReplies = {approve}
  Nil = Nil
  MaxRuns = 2
  MaxFaults = 1
  LiveRuns = {1}
  LockLoss = TRUE
  MayReset = FALSE
SYMMETRY WorkerSymmetry
INVARIANTS EvidenceBacksStatus OrdersFollowPublication ExecutedWasNeverHalted
PROPERTIES HaltIsFinal
