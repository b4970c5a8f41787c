\* Two instances of the service.
SPECIFICATION Spec
CONSTANTS
  e1 = e1
  e2 = e2
  e3 = e3
  Events = {e1, e2}
  Workers = {w1, w2}
  OccurredAt <- Instants
  Refused = {}
  BatchSize = 2
  MaxAttempts = 1
  MaxFaults = 2
CHECK_DEADLOCK FALSE
SYMMETRY Symmetry
INVARIANTS
  TypeOK
  PublishedIsInTopic
  AnswersAreTrue
