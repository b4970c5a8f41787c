------------------------- MODULE OutboxRelayProofs -------------------------
(***************************************************************************)
(* Proofs about OutboxRelay, for any number of events and of instances,    *)
(* any batch size and any bounds.                                          *)
(***************************************************************************)
EXTENDS OutboxRelay, TLAPS

\* A dispatcher marks only what Kafka has acknowledged to it.
MarkedAfterSend ==
  \A d \in Dispatchers : At(d, "mark") => Current(d) \in topic

\* A request dispatches the event it stored and no other.
OwnBatch ==
  \A e \in Events : ~At(e, "idle") => dispatcher[e].batch = <<e>>

Inv ==
  TypeOK /\ OwnBatch /\ MarkedAfterSend /\ PublishedIsInTopic /\ AnswersAreTrue

\* The first event of a batch in progress is an event, and what is left of the
\* batch is idle or a shorter batch.
LEMMA BatchInProgress ==
  ASSUME TypeOK, NEW d \in Dispatchers, dispatcher[d].pc # "idle"
  PROVE  /\ dispatcher[d] \in Dispatch
         /\ Current(d) \in Events
         /\ Tail(dispatcher[d].batch) # <<>> =>
              [pc |-> "find", batch |-> Tail(dispatcher[d].batch)] \in Dispatch
  <1>1. dispatcher[d] \in Dispatch
    BY DEF TypeOK, Idle
  <1>2. dispatcher[d].batch \in Seq(Events) /\ dispatcher[d].batch # <<>>
    BY <1>1 DEF Dispatch
  <1>3. Current(d) \in Events /\ Tail(dispatcher[d].batch) \in Seq(Events)
    BY <1>2 DEF Current
  <1> QED
    BY <1>1, <1>3 DEF Dispatch

\* Every batch is a non-empty sequence of events.
LEMMA BatchesAreBatches ==
  ASSUME OutboxConstants, NEW b \in Batches
  PROVE  [pc |-> "find", batch |-> b] \in Dispatch
  <1>1. PICK n \in 1..BatchSize : b \in [1..n -> Pending]
    BY DEF Batches
  <1>2. n \in Nat /\ n >= 1
    BY <1>1 DEF OutboxConstants
  <1>3. Pending \subseteq Events
    BY DEF Pending
  <1>4. b \in [1..n -> Events]
    BY <1>1, <1>3
  <1>5. b \in Seq(Events) /\ Len(b) = n
    BY <1>2, <1>4
  <1>6. b # <<>>
    BY <1>2, <1>5
  <1> QED
    BY <1>5, <1>6 DEF Dispatch

\* Type correctness and the facts of Inv hold at the start.
LEMMA InvHoldsInitially ==
  ASSUME OutboxConstants, Init
  PROVE  Inv
  <1>1. TypeOK
    BY DEF OutboxConstants, Init, TypeOK, Answers
  <1>2. MarkedAfterSend
    BY DEF Init, MarkedAfterSend, At, Idle
  <1>3. PublishedIsInTopic
    BY DEF Init, PublishedIsInTopic, NoRow
  <1>4. AnswersAreTrue
    BY DEF Init, AnswersAreTrue
  <1>5. OwnBatch
    BY DEF Init, OwnBatch, At, Idle, Dispatchers
  <1> QED
    BY <1>1, <1>2, <1>3, <1>4, <1>5 DEF Inv

\* When dispatch returns, the dispatchers keep their invariants; the answers
\* keep their type and are true, provided the status is.
LEMMA ReturnKeepsInv ==
  ASSUME Inv, NEW d \in Dispatchers, dispatcher[d].pc # "idle",
         NEW status \in Answers, Return(d, status), topic \subseteq topic',
         status = "published" => Current(d) \in topic'
  PROVE  /\ dispatcher' \in [Dispatchers -> Dispatch \cup {Idle}]
         /\ answer' \in [Events -> Answers]
         /\ OwnBatch' /\ MarkedAfterSend' /\ AnswersAreTrue'
  <1> DEFINE rest == Tail(dispatcher[d].batch)
             v == IF rest = <<>> THEN Idle ELSE [pc |-> "find", batch |-> rest]
  <1>1. dispatcher \in [Dispatchers -> Dispatch \cup {Idle}] /\ TypeOK
    BY DEF Inv, TypeOK
  <1>2. dispatcher' = [dispatcher EXCEPT ![d] = v]
    BY DEF Return
  <1>3. v \in Dispatch \cup {Idle} /\ v.pc # "mark"
    BY <1>1, BatchInProgress DEF Idle
  <1>4. dispatcher' \in [Dispatchers -> Dispatch \cup {Idle}]
    BY <1>1, <1>2, <1>3
  <1>5. answer' \in [Events -> Answers]
    BY <1>1 DEF TypeOK, Return, Answer
  <1>6. d \in Events => dispatcher[d].batch = <<d>>
    BY DEF Inv, OwnBatch, At
  <1>7. OwnBatch'
    <2> SUFFICES ASSUME NEW e \in Events, ~At(e, "idle")'
                 PROVE  dispatcher'[e].batch = <<e>>
      BY DEF OwnBatch
    <2>1. CASE e = d
      <3>1. Tail(<<d>>) = <<>>
        OBVIOUS
      <3>2. v = Idle
        BY <1>6, <2>1, <3>1
      <3> QED
        BY <1>1, <1>2, <2>1, <3>2 DEF At, Idle
    <2>2. CASE e # d
      <3>1. dispatcher'[e] = dispatcher[e]
        BY <1>1, <1>2, <2>2
      <3> QED
        BY <3>1 DEF Inv, OwnBatch, At
    <2> QED
      BY <2>1, <2>2
  <1>8. MarkedAfterSend'
    <2> SUFFICES ASSUME NEW c \in Dispatchers, At(c, "mark")'
                 PROVE  Current(c)' \in topic'
      BY DEF MarkedAfterSend
    <2>1. c # d
      BY <1>1, <1>2, <1>3 DEF At
    <2>2. dispatcher'[c] = dispatcher[c]
      BY <1>1, <1>2, <2>1
    <2> QED
      BY <2>2 DEF Inv, MarkedAfterSend, At, Current
  <1>9. AnswersAreTrue'
    <2> SUFFICES ASSUME NEW e \in Events, answer'[e] = "published"
                 PROVE  e \in topic'
      BY DEF AnswersAreTrue
    <2>1. CASE answer[e] = "published"
      BY <2>1 DEF Inv, AnswersAreTrue
    <2>2. CASE answer[e] # "published"
      <3>1. e = d /\ status = "published"
        BY <1>1, <2>2 DEF TypeOK, Return, Answer
      <3>2. Current(d) = d
        BY <1>6, <3>1 DEF Current
      <3> QED
        BY <3>1, <3>2
    <2> QED
      BY <2>1, <2>2
  <1> QED
    BY <1>4, <1>5, <1>7, <1>8, <1>9

\* A dispatcher that stops is idle: it keeps the invariants of dispatchers.
LEMMA StopKeepsInv ==
  ASSUME Inv, NEW d \in Dispatchers, Stop(d), topic \subseteq topic'
  PROVE  /\ dispatcher' \in [Dispatchers -> Dispatch \cup {Idle}]
         /\ OwnBatch' /\ MarkedAfterSend'
  <1>1. dispatcher' = [dispatcher EXCEPT ![d] = Idle]
    BY DEF Stop
  <1>2. dispatcher \in [Dispatchers -> Dispatch \cup {Idle}]
    BY DEF Inv, TypeOK
  <1>3. OwnBatch'
    BY <1>1, <1>2 DEF Inv, OwnBatch, At, Idle, Dispatchers
  <1>4. MarkedAfterSend'
    BY <1>1, <1>2 DEF Inv, MarkedAfterSend, At, Idle, Current
  <1> QED
    BY <1>1, <1>2, <1>3, <1>4

\* A jump within a dispatch keeps the batch; a jump to markPublished needs the
\* acknowledgement.
LEMMA GotoKeepsInv ==
  ASSUME Inv, NEW d \in Dispatchers, dispatcher[d].pc # "idle",
         NEW pc \in {"find", "send", "mark", "fail"}, Goto(d, pc),
         topic \subseteq topic', pc = "mark" => Current(d) \in topic'
  PROVE  /\ dispatcher' \in [Dispatchers -> Dispatch \cup {Idle}]
         /\ OwnBatch' /\ MarkedAfterSend'
  <1> DEFINE v == [dispatcher[d] EXCEPT !.pc = pc]
  <1>1. dispatcher \in [Dispatchers -> Dispatch \cup {Idle}] /\ TypeOK
    BY DEF Inv, TypeOK
  <1>2. dispatcher' = [dispatcher EXCEPT ![d] = v]
    BY DEF Goto
  <1>3. /\ v \in Dispatch
        /\ v.pc = pc
        /\ v.batch = dispatcher[d].batch
    BY <1>1, BatchInProgress DEF Dispatch
  <1>4. dispatcher'[d] = v
    BY <1>1, <1>2
  <1>5. \A c \in Dispatchers \ {d} : dispatcher'[c] = dispatcher[c]
    BY <1>1, <1>2
  <1>6. OwnBatch'
    BY <1>3, <1>4, <1>5 DEF Inv, OwnBatch, At, Dispatchers
  <1>7. MarkedAfterSend'
    <2> SUFFICES ASSUME NEW c \in Dispatchers, At(c, "mark")'
                 PROVE  Current(c)' \in topic'
      BY DEF MarkedAfterSend
    <2>1. CASE c = d
      BY <1>3, <1>4, <2>1 DEF At, Current
    <2>2. CASE c # d
      BY <1>5, <2>2 DEF Inv, MarkedAfterSend, At, Current
    <2> QED
      BY <2>1, <2>2
  <1> QED
    BY <1>1, <1>2, <1>3, <1>6, <1>7

\* A row, or the lack of one, has two fields and an attempt count in bounds.
LEMMA RowsAreCounted ==
  ASSUME OutboxConstants, NEW row \in Row \cup {NoRow}
  PROVE  /\ row.attempts \in 0..MaxAttempts
         /\ row = [publishedAt |-> row.publishedAt, attempts |-> row.attempts]
  <1>1. CASE row \in Row
    BY <1>1 DEF Row
  <1>2. CASE row = NoRow
    <2>1. 0 \in 0..MaxAttempts
      BY DEF OutboxConstants
    <2> QED
      BY <1>2, <2>1 DEF NoRow
  <1> QED
    BY <1>1, <1>2

\* Faults stay within their bound.
LEMMA FaultsAreBounded ==
  ASSUME OutboxConstants, TypeOK, Fault
  PROVE  faults' \in 0..MaxFaults
  BY DEF OutboxConstants, TypeOK, Fault

\* Every step preserves the invariant.
LEMMA InvIsInductive ==
  ASSUME OutboxConstants, Inv, [Next]_vars
  PROVE  Inv'
  <1>0. TypeOK /\ Events \subseteq Dispatchers /\ Workers \subseteq Dispatchers
    BY DEF Inv, Dispatchers
  <1>1. ASSUME NEW e \in Events, Commit(e) PROVE Inv'
    <2>1. /\ [pc |-> "find", batch |-> <<e>>] \in Dispatch
          /\ dispatcher' = [dispatcher EXCEPT ![e] = [pc |-> "find", batch |-> <<e>>]]
      BY <1>1 DEF Dispatch, Commit
    <2>2. [publishedAt |-> "null", attempts |-> 0] \in Row
      BY DEF Row, OutboxConstants
    <2>3. TypeOK'
      BY <1>0, <1>1, <2>1, <2>2 DEF TypeOK, Commit
    <2>4. OwnBatch'
      BY <1>0, <2>1 DEF Inv, TypeOK, OwnBatch, At
    <2>5. MarkedAfterSend'
      BY <1>0, <1>1, <2>1 DEF Inv, TypeOK, Commit, MarkedAfterSend, At, Current
    <2>6. PublishedIsInTopic' /\ AnswersAreTrue'
      BY <1>1 DEF Inv, TypeOK, Commit, PublishedIsInTopic, AnswersAreTrue
    <2> QED
      BY <2>3, <2>4, <2>5, <2>6 DEF Inv
  <1>2. ASSUME NEW i \in Workers, RunNow(i) PROVE Inv'
    <2>1. PICK b \in Batches :
            dispatcher' = [dispatcher EXCEPT ![i] = [pc |-> "find", batch |-> b]]
      BY <1>2 DEF RunNow
    <2>2. TypeOK'
      BY <1>0, <1>2, <2>1, BatchesAreBatches DEF TypeOK, RunNow
    <2>3. OwnBatch'
      BY <1>0, <1>2, <2>1 DEF Inv, TypeOK, OwnBatch, At, OutboxConstants
    <2>4. MarkedAfterSend'
      BY <1>0, <1>2, <2>1 DEF Inv, TypeOK, RunNow, MarkedAfterSend, At, Current
    <2>5. PublishedIsInTopic' /\ AnswersAreTrue'
      BY <1>2 DEF Inv, RunNow, PublishedIsInTopic, AnswersAreTrue
    <2> QED
      BY <2>2, <2>3, <2>4, <2>5 DEF Inv
  <1>3. ASSUME NEW d \in Dispatchers, Find(d) PROVE Inv'
    <2>1. dispatcher[d].pc # "idle" /\ Current(d) \in Events
      BY <1>0, <1>3, BatchInProgress DEF Find, At
    <2>2. UNCHANGED <<table, topic, faults>>
      BY <1>3 DEF Find
    <2>3. CASE table[Current(d)].publishedAt = "set"
      <3>1. Return(d, "published") /\ Current(d) \in topic'
        BY <1>3, <2>1, <2>2, <2>3 DEF Find, Inv, PublishedIsInTopic
      <3> QED
        BY <2>1, <2>2, <3>1, ReturnKeepsInv
           DEF Inv, TypeOK, PublishedIsInTopic, Answers
    <2>4. CASE table[Current(d)].publishedAt # "set"
      <3>1. Goto(d, "send") /\ answer' = answer
        BY <1>3, <2>4 DEF Find
      <3> QED
        BY <2>1, <2>2, <3>1, GotoKeepsInv
           DEF Inv, TypeOK, PublishedIsInTopic, AnswersAreTrue
    <2> QED
      BY <2>3, <2>4
  <1>4. ASSUME NEW d \in Dispatchers, Acknowledged(d) PROVE Inv'
    <2>1. dispatcher[d].pc # "idle" /\ Current(d) \in Events
      BY <1>0, <1>4, BatchInProgress DEF Acknowledged, At
    <2>2. /\ Goto(d, "mark") /\ UNCHANGED <<table, answer, faults>>
          /\ topic' = topic \cup {Current(d)}
      BY <1>4 DEF Acknowledged
    <2> QED
      BY <2>1, <2>2, GotoKeepsInv
         DEF Inv, TypeOK, PublishedIsInTopic, AnswersAreTrue
  <1>5. ASSUME NEW d \in Dispatchers, Unacknowledged(d) PROVE Inv'
    <2>1. dispatcher[d].pc # "idle" /\ Current(d) \in Events
      BY <1>0, <1>5, BatchInProgress DEF Unacknowledged, At
    <2>2. /\ Goto(d, "fail") /\ UNCHANGED <<table, answer, faults>>
          /\ topic' = topic \/ topic' = topic \cup {Current(d)}
      BY <1>5 DEF Unacknowledged
    <2> QED
      BY <2>1, <2>2, GotoKeepsInv
         DEF Inv, TypeOK, PublishedIsInTopic, AnswersAreTrue
  <1>6. ASSUME NEW d \in Dispatchers, MarkPublished(d) PROVE Inv'
    <2>1. dispatcher[d].pc # "idle" /\ Current(d) \in Events
      BY <1>0, <1>6, BatchInProgress DEF MarkPublished, At
    <2>2. /\ Return(d, "published") /\ UNCHANGED <<topic, faults>>
          /\ table' = [table EXCEPT ![Current(d)].publishedAt = "set"]
      BY <1>6 DEF MarkPublished
    <2>3. Current(d) \in topic
      BY <1>6 DEF Inv, MarkedAfterSend, MarkPublished
    <2>4. table' \in [Events -> Row \cup {NoRow}]
      <3>1. [table[Current(d)] EXCEPT !.publishedAt = "set"] \in Row
        BY <1>0, <2>1, RowsAreCounted DEF TypeOK, Row
      <3> QED
        BY <1>0, <2>1, <2>2, <3>1 DEF TypeOK
    <2>5. PublishedIsInTopic'
      BY <1>0, <2>1, <2>2, <2>3 DEF Inv, TypeOK, PublishedIsInTopic
    <2> QED
      BY <2>1, <2>2, <2>3, <2>4, <2>5, ReturnKeepsInv DEF Inv, TypeOK, Answers
  <1>7. ASSUME NEW d \in Dispatchers, MarkFails(d) PROVE Inv'
    <2>1. dispatcher[d].pc # "idle"
      BY <1>7 DEF MarkFails, At
    <2>2. Goto(d, "fail") /\ UNCHANGED <<table, topic, answer>> /\ Fault
      BY <1>7 DEF MarkFails
    <2> QED
      BY <1>0, <2>1, <2>2, GotoKeepsInv, FaultsAreBounded
         DEF Inv, TypeOK, PublishedIsInTopic, AnswersAreTrue
  <1>8. ASSUME NEW d \in Dispatchers, RegisterFailure(d) PROVE Inv'
    <2>1. dispatcher[d].pc # "idle" /\ Current(d) \in Events
      BY <1>0, <1>8, BatchInProgress DEF RegisterFailure, At
    <2> DEFINE n == IF table[Current(d)].attempts < MaxAttempts
                    THEN table[Current(d)].attempts + 1
                    ELSE table[Current(d)].attempts
    <2>2. /\ Return(d, "pending") /\ UNCHANGED <<topic, faults>>
          /\ table' = [table EXCEPT ![Current(d)] =
                         [publishedAt |-> "null", attempts |-> n]]
      BY <1>8 DEF RegisterFailure
    <2>3. table[Current(d)].attempts \in 0..MaxAttempts
      BY <1>0, <2>1, RowsAreCounted DEF TypeOK
    <2>4. n \in 0..MaxAttempts
      BY <2>3 DEF OutboxConstants
    <2>5. table' \in [Events -> Row \cup {NoRow}]
      BY <1>0, <2>1, <2>2, <2>4 DEF TypeOK, Row
    <2>6. PublishedIsInTopic'
      BY <1>0, <2>1, <2>2 DEF Inv, TypeOK, PublishedIsInTopic
    <2> QED
      BY <2>1, <2>2, <2>5, <2>6, ReturnKeepsInv DEF Inv, TypeOK, Answers
  <1>9. ASSUME NEW d \in Dispatchers, Throw(d) PROVE Inv'
    <2>1. /\ Stop(d) /\ Answer(d, "error") /\ Fault
          /\ UNCHANGED <<table, topic>>
      BY <1>9 DEF Throw
    <2>2. answer' \in [Events -> Answers] /\ AnswersAreTrue'
      BY <1>0, <2>1 DEF Inv, TypeOK, Answer, Answers, AnswersAreTrue
    <2> QED
      BY <1>0, <2>1, <2>2, StopKeepsInv, FaultsAreBounded
         DEF Inv, TypeOK, PublishedIsInTopic
  <1>10. ASSUME NEW d \in Dispatchers, Crash(d) PROVE Inv'
    <2>1. Stop(d) /\ Fault /\ UNCHANGED <<table, topic, answer>>
      BY <1>10 DEF Crash
    <2> QED
      BY <1>0, <2>1, StopKeepsInv, FaultsAreBounded
         DEF Inv, TypeOK, PublishedIsInTopic, AnswersAreTrue
  <1>11. CASE UNCHANGED vars
    BY <1>11 DEF vars, Inv, TypeOK, OwnBatch, MarkedAfterSend, At, Current,
                 PublishedIsInTopic, AnswersAreTrue
  <1> QED
    BY <1>1, <1>2, <1>3, <1>4, <1>5, <1>6, <1>7, <1>8, <1>9, <1>10, <1>11
       DEF Next, Step

-----------------------------------------------------------------------------
\* Whatever fails, crashes or interleaves, for any number of instances: an
\* event that dispatch marked published (publishedAt) is in Kafka.
THEOREM PublishedEventsAreInKafka ==
  ASSUME OutboxConstants
  PROVE  Spec => []PublishedIsInTopic
  <1>1. Init => Inv
    BY InvHoldsInitially
  <1>2. Inv /\ [Next]_vars => Inv'
    BY InvIsInductive
  <1>3. Inv => PublishedIsInTopic
    BY DEF Inv
  <1> QED
    BY <1>1, <1>2, <1>3, PTL DEF Spec

\* A request whose dispatch returned "published" told the truth.
THEOREM RequestsAnswerTheTruth ==
  ASSUME OutboxConstants
  PROVE  Spec => []AnswersAreTrue
  <1>1. Init => Inv
    BY InvHoldsInitially
  <1>2. Inv /\ [Next]_vars => Inv'
    BY InvIsInductive
  <1>3. Inv => AnswersAreTrue
    BY DEF Inv
  <1> QED
    BY <1>1, <1>2, <1>3, PTL DEF Spec

\* The table, the dispatchers and the answers keep their types.
THEOREM OutboxTypesHold ==
  ASSUME OutboxConstants
  PROVE  Spec => []TypeOK
  <1>1. Init => Inv
    BY InvHoldsInitially
  <1>2. Inv /\ [Next]_vars => Inv'
    BY InvIsInductive
  <1>3. Inv => TypeOK
    BY DEF Inv
  <1> QED
    BY <1>1, <1>2, <1>3, PTL DEF Spec
=============================================================================
