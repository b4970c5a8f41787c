---------------------------- MODULE OutboxRelay ----------------------------
(***************************************************************************)
(* How the events of a service's outbox table get to Kafka.  The request   *)
(* that stored an event dispatches it once, right after its commit; a      *)
(* replay worker in every instance of the service takes batches of events  *)
(* that are still pending.  Both run ReliableOutboxEventRelayService.      *)
(* dispatch, whose database calls and whose send are separate awaits, each *)
(* of which may fail; nothing keeps two dispatchers off the same event.    *)
(*                                                                         *)
(* The three services have the same relay, worker and repository.  A topic *)
(* is the set of events its consumers can read: how often an event was     *)
(* appended is left out, as is failureReason.                              *)
(***************************************************************************)
EXTENDS Integers, Sequences

CONSTANTS
  Events,       \* ids of the events of the outbox
  Workers,      \* instances of the service, each with one replay worker
  OccurredAt,   \* when each event occurred; two events may share an instant
  Refused,      \* events Kafka will never accept (too large, no such topic)
  BatchSize,    \* OUTBOX_REPLAY_BATCH_SIZE
  MaxAttempts,  \* bound: attempts are counted up to here
  MaxFaults     \* bound: how often a database call fails or a dispatcher stops

ASSUME OutboxConstants ==
  /\ OccurredAt \in [Events -> Nat]
  /\ Refused \subseteq Events
  /\ BatchSize \in Nat \ {0}
  /\ MaxAttempts \in Nat
  /\ MaxFaults \in Nat
  /\ Events \cap Workers = {}

VARIABLES
  table,       \* table outbox_events
  topic,       \* the events in Kafka
  dispatcher,  \* what the request of each event, and each worker, is doing
  answer,      \* the eventPublicationStatus each request answered
  faults       \* how many such faults there have been

vars == <<table, topic, dispatcher, answer, faults>>

-----------------------------------------------------------------------------
Dispatchers == Events \cup Workers

NoRow == [publishedAt |-> "no row", attempts |-> 0]
Row   == [publishedAt: {"null", "set"}, attempts: 0..MaxAttempts]

\* The rest of the batch and the next call for its first event.  A worker that
\* is not idle has runInFlight set.
Idle     == [pc |-> "idle", batch |-> <<>>]
Dispatch == [pc: {"find", "send", "mark", "fail"}, batch: Seq(Events) \ {<<>>}]
Answers  == {"none", "published", "pending", "error"}

Init ==
  /\ table = [e \in Events |-> NoRow]
  /\ topic = {}
  /\ dispatcher = [d \in Dispatchers |-> Idle]
  /\ answer = [e \in Events |-> "none"]
  /\ faults = 0

At(d, pc)   == dispatcher[d].pc = pc
Current(d)  == Head(dispatcher[d].batch)
Goto(d, pc) == dispatcher' = [dispatcher EXCEPT ![d].pc = pc]
Stop(d)     == dispatcher' = [dispatcher EXCEPT ![d] = Idle]

Answer(d, status) ==
  answer' = IF d \in Events THEN [answer EXCEPT ![d] = status] ELSE answer

\* Mutant: the loop goes on past the end of its batch.
ReturnPastTheEnd(d, status) ==
  /\ dispatcher' = [dispatcher EXCEPT ![d] = [pc |-> "find", batch |-> Tail(@.batch)]]
  /\ Answer(d, status)

\* dispatch returns: the worker goes on with its batch, the request answers.
Return(d, status) ==
  LET rest == Tail(dispatcher[d].batch)
  IN  /\ dispatcher' = [dispatcher EXCEPT ![d] =
           IF rest = <<>> THEN Idle ELSE [pc |-> "find", batch |-> rest]]
      /\ Answer(d, status)

-----------------------------------------------------------------------------
\* A transaction that stores event e commits; its request will dispatch e.
Commit(e) ==
  /\ table[e] = NoRow
  /\ table' = [table EXCEPT ![e] = [publishedAt |-> "null", attempts |-> 0]]
  /\ dispatcher' = [dispatcher EXCEPT ![e] = [pc |-> "find", batch |-> <<e>>]]
  /\ UNCHANGED <<topic, answer, faults>>

\* Mutant: an event that failed once is never taken again.
PendingOnce == {e \in Events : table[e] = [publishedAt |-> "null", attempts |-> 0]}

(***************************************************************************)
(* findPendingBatch: the unpublished events, oldest first and those with   *)
(* fewer attempts first among equals, up to the batch size.                *)
(***************************************************************************)
Pending == {e \in Events : table[e].publishedAt = "null"}

After(e, f) ==
  \/ OccurredAt[e] > OccurredAt[f]
  \/ OccurredAt[e] = OccurredAt[f] /\ table[e].attempts > table[f].attempts

Batches ==
  {b \in UNION {[1..n -> Pending] : n \in 1..BatchSize} :
     /\ \A i, j \in DOMAIN b : i < j => b[i] # b[j] /\ ~After(b[i], b[j])
     /\ LET left == Pending \ {b[i] : i \in DOMAIN b}
        IN  left # {} => /\ Len(b) = BatchSize
                         /\ \A e \in left, i \in DOMAIN b : ~After(b[i], e)}

\* A tick of the interval finds runInFlight clear.  Without pending events the
\* run is over at once.
RunNow(i) ==
  /\ At(i, "idle")
  /\ \E b \in Batches :
       dispatcher' = [dispatcher EXCEPT ![i] = [pc |-> "find", batch |-> b]]
  /\ UNCHANGED <<table, topic, answer, faults>>

-----------------------------------------------------------------------------
(* dispatch, one await at a time.                                          *)

Find(d) ==
  /\ At(d, "find")
  /\ IF table[Current(d)].publishedAt = "set"
     THEN Return(d, "published")
     ELSE Goto(d, "send") /\ UNCHANGED answer
  /\ UNCHANGED <<table, topic, faults>>

Acknowledged(d) ==
  /\ At(d, "send") /\ Current(d) \notin Refused
  /\ topic' = topic \cup {Current(d)}
  /\ Goto(d, "mark")
  /\ UNCHANGED <<table, answer, faults>>

\* Mutant: the failure of a send is swallowed and the event marked.
SendFailureSwallowed(d) ==
  /\ At(d, "send")
  /\ Goto(d, "mark")
  /\ UNCHANGED <<table, topic, answer, faults>>

\* publish throws: no connection, a refusal, or the acknowledgement is lost.
Unacknowledged(d) ==
  /\ At(d, "send")
  /\ \/ UNCHANGED topic
     \/ Current(d) \notin Refused /\ topic' = topic \cup {Current(d)}
  /\ Goto(d, "fail")
  /\ UNCHANGED <<table, answer, faults>>

\* Mutant: the mark only counts for an event that never failed.
MarkFirstAttempt(d) ==
  /\ At(d, "mark")
  /\ table' = [table EXCEPT ![Current(d)].publishedAt =
                  IF table[Current(d)].attempts = 0 THEN "set" ELSE @]
  /\ Return(d, "published")
  /\ UNCHANGED <<topic, faults>>

MarkPublished(d) ==
  /\ At(d, "mark")
  /\ table' = [table EXCEPT ![Current(d)].publishedAt = "set"]
  /\ Return(d, "published")
  /\ UNCHANGED <<topic, faults>>

Fault == faults < MaxFaults /\ faults' = faults + 1

\* The same catch block handles a failure of markPublished.
MarkFails(d) ==
  /\ At(d, "mark") /\ Fault
  /\ Goto(d, "fail")
  /\ UNCHANGED <<table, topic, answer>>

\* Mutant: dispatch returns "published" after a failure, too.
FailureAnswersPublished(d) ==
  /\ At(d, "fail")
  /\ table' = [table EXCEPT ![Current(d)].publishedAt = "null"]
  /\ Return(d, "published")
  /\ UNCHANGED <<topic, faults>>

\* registerFailure nulls publishedAt, whoever set it.
RegisterFailure(d) ==
  /\ At(d, "fail")
  /\ table' = [table EXCEPT ![Current(d)] =
       [publishedAt |-> "null",
        attempts |-> IF @.attempts < MaxAttempts THEN @.attempts + 1
                                                 ELSE @.attempts]]
  /\ Return(d, "pending")
  /\ UNCHANGED <<topic, faults>>

\* Mutant: a run that throws leaves runInFlight set.
ThrowWithoutFinally(d) ==
  /\ At(d, "find") \/ At(d, "fail")
  /\ Fault
  /\ Goto(d, "stuck")
  /\ Answer(d, "error")
  /\ UNCHANGED <<table, topic>>

\* findById or registerFailure throws, and with it dispatch: a request fails
\* after its commit, a worker drops its batch and clears runInFlight.
Throw(d) ==
  /\ At(d, "find") \/ At(d, "fail")
  /\ Fault
  /\ Stop(d)
  /\ Answer(d, "error")
  /\ UNCHANGED <<table, topic>>

\* The instance a dispatcher runs in stops; a worker starts again with it.
Crash(d) ==
  /\ ~At(d, "idle")
  /\ Fault
  /\ Stop(d)
  /\ UNCHANGED <<table, topic, answer>>

-----------------------------------------------------------------------------
Step(d) ==
  \/ Find(d) \/ Acknowledged(d) \/ Unacknowledged(d)
  \/ MarkPublished(d) \/ MarkFails(d) \/ RegisterFailure(d) \/ Throw(d)

Next ==
  \/ \E e \in Events : Commit(e)
  \/ \E i \in Workers : RunNow(i)
  \/ \E d \in Dispatchers : Step(d) \/ Crash(d)

Spec == Init /\ [][Next]_vars

(***************************************************************************)
(* The interval of a worker keeps firing and a call that was started ends, *)
(* one way or the other.  Kafka may be away again and again but not for    *)
(* ever: an event a worker tries to send again and again is acknowledged   *)
(* at last, unless Kafka refuses it.  Only database faults are finite.     *)
(***************************************************************************)
Fairness ==
  /\ \A d \in Dispatchers : WF_vars(Step(d))
  /\ \A i \in Workers :
       /\ WF_vars(RunNow(i))
       /\ \A e \in Events \ Refused : SF_vars(Acknowledged(i) /\ Current(i) = e)

FairSpec == Spec /\ Fairness

-----------------------------------------------------------------------------
(* Properties.                                                             *)

\* Type invariant of the table, the topic, the dispatchers and the answers.
TypeOK ==
  /\ table \in [Events -> Row \cup {NoRow}]
  /\ topic \subseteq Events
  /\ dispatcher \in [Dispatchers -> Dispatch \cup {Idle}]
  /\ answer \in [Events -> Answers]
  /\ faults \in 0..MaxFaults

\* An event marked published is in Kafka, whichever of its dispatchers failed,
\* crashed or overtook another: no event is dropped from the retries too early.
PublishedIsInTopic ==
  \A e \in Events : table[e].publishedAt = "set" => e \in topic

\* A request that answers "published" told its client the truth, even when
\* another dispatcher did the work and the mark was taken back since.
AnswersAreTrue == \A e \in Events : answer[e] = "published" => e \in topic

\* Every event that was committed gets to Kafka, unless Kafka refuses it:
\* lost calls and faults are made good by the worker, and refused events at
\* the head of the queue do not starve the others while they fill no batch.
EventuallyInTopic ==
  \A e \in Events \ Refused : table[e] # NoRow ~> e \in topic

\* With one instance every such event is at last marked published for good:
\* a late failure of the request's own dispatch may undo the worker's mark,
\* but only once.
EventuallySettled ==
  \A e \in Events \ Refused :
    <>(table[e] # NoRow) => <>[](table[e].publishedAt = "set")

\* runInFlight is always cleared again: no error stops the replay for good.
WorkersComeBack == \A i \in Workers : []<>At(i, "idle")
=============================================================================
