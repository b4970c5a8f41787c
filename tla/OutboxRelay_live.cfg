\* One instance; Kafka refuses e1, which keeps its place at the head.
SPECIFICATION FairSpec
CONSTANTS
  e1 = e1
  e2 = e2
  e3 = e3
  Events = {e1, e3}
  Workers = {w1}
  OccurredAt <- Instants
  Refused = {e1}
  BatchSize = 2
  MaxAttempts = 2
  MaxFaults = 2
PROPERTIES
  EventuallyInTopic
  EventuallySettled
  WorkersComeBack
