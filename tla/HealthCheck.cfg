SPECIFICATION FairSpec
CONSTANT Sizes <- MCSizes
INVARIANTS
  TypeOK
  AnswerIsFunctional
  NoCheckOutlivesTheCall
  SequentialStopsAtFailure
PROPERTIES
  KeepsThePromise
  CallEnds
CHECK_DEADLOCK FALSE
