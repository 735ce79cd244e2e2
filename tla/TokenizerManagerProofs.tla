----------------------- MODULE TokenizerManagerProofs -----------------------
(***************************************************************************)
(* Proofs about TokenizerManager, for any number of requests and any       *)
(* bounds: type correctness, that no answer spans a weight update, and     *)
(* that a message from the scheduler always finds its request's state.     *)
(***************************************************************************)
EXTENDS TokenizerManager, FiniteSetTheorems, TLAPS

----------------------------------------------------------------------------
(* The inductive invariant.                                                *)

ToScheduler == [op : {"req"}, rid : Reqs]
               \cup [op : {"abort"}, rids : SUBSET Reqs]
               \cup [op : {"update"}]
ToTokenizer == [op : {"abort", "reject"}, rid : Reqs] \cup [op : {"updated"}]
States == [finished : BOOLEAN, event : BOOLEAN, rejected : BOOLEAN]
Outputs == UNION {[R -> {"chunk", "final"}] : R \in SUBSET Reqs}

\* The requests that hold the reader lock.
Inside == {r \in Reqs : pc[r] \in Reading}

PcOK == pc \in [Reqs -> {"new", "paused", "resumed", "blocked", "ended"} \cup Reading]

UpdaterOK == /\ updater \in {"idle", "called", "blocked", "sent", "resulted", "done"}
             /\ locked \in BOOLEAN

QueuesOK ==
    /\ to_scheduler \in Seq(ToScheduler)
    /\ to_tokenizer \in Seq(ToTokenizer)
    /\ outputs \in Seq(Outputs)

RestOK ==
    /\ sleeping \subseteq Reqs \cup {Updater}
    /\ state \in [Reqs -> States]
    /\ rid_to_state \subseteq Reqs
    /\ cleanups \subseteq Reqs
    /\ to_abort \subseteq Streaming
    /\ is_pause \in BOOLEAN
    /\ pauser \in {"idle", "pausing", "paused", "continued"}
    /\ crashed \in BOOLEAN

SchedOK ==
    /\ sched \in [Reqs -> {"out", "waiting", "running", "finished"}]
    /\ to_finish \subseteq Reqs
    /\ steps \in [Reqs -> 0 .. MaxSteps - 1]
    /\ retracts \in [Reqs -> 0 .. MaxRetracts]

Types == PcOK /\ UpdaterOK /\ QueuesOK /\ RestOK /\ SchedOK

\* The lock's counters are what the coroutines hold.
LockExact ==
    /\ readers = Cardinality(Inside)
    /\ writer_active = (locked /\ updater \in {"sent", "resulted"})
    /\ writer_active => readers = 0
    /\ updater = "blocked" => locked
    /\ waiting_writers = IF updater = "blocked" THEN 1 ELSE 0

IsUpdate(i) == i \in DOMAIN to_scheduler /\ to_scheduler[i].op = "update"
IsUpdated(i) == i \in DOMAIN to_tokenizer /\ to_tokenizer[i].op = "updated"

\* One update, or its result, is under way, and only while the updater waits.
OneUpdate ==
    /\ \A i \in Nat : IsUpdate(i) \/ IsUpdated(i) => updater = "sent"
    /\ \A i, j \in Nat : IsUpdate(i) /\ IsUpdate(j) => i = j
    /\ \A i, j \in Nat : IsUpdated(i) /\ IsUpdated(j) => i = j
    /\ \A i, j \in Nat : ~(IsUpdate(i) /\ IsUpdated(j))

Asked(i, r) == /\ i \in DOMAIN to_scheduler
               /\ to_scheduler[i].op = "req" /\ to_scheduler[i].rid = r
Drop(i, r) == /\ i \in DOMAIN to_tokenizer
              /\ to_tokenizer[i].op # "updated" /\ to_tokenizer[i].rid = r
Final(i, r) == /\ i \in DOMAIN outputs
               /\ r \in DOMAIN outputs[i] /\ outputs[i][r] = "final"

\* A state that a message will still be looked up for.
Alive(r) == r \in rid_to_state /\ r \notin cleanups /\ ~state[r].finished

InScheduler(r) == sched[r] \in {"waiting", "running"}

Early == {"new", "paused", "resumed", "blocked", "tokenizing"}

\* A request that was sent is in one place: on its way to the scheduler, in
\* it, or on its way back, dropped or finished.  Until it is back its state
\* is alive.
OnePlace(r) ==
    /\ \A i \in Nat : Asked(i, r) => /\ Alive(r) /\ sched[r] = "out"
                                     /\ \A j \in Nat : ~Drop(j, r) /\ ~Final(j, r)
    /\ InScheduler(r) => Alive(r) /\ \A j \in Nat : ~Drop(j, r) /\ ~Final(j, r)
    /\ \A i \in Nat : Drop(i, r) => Alive(r) /\ \A j \in Nat : ~Final(j, r)
    /\ \A i \in Nat : Final(i, r) => Alive(r)
    /\ \A i, j \in Nat : Asked(i, r) /\ Asked(j, r) => i = j
    /\ \A i, j \in Nat : Drop(i, r) /\ Drop(j, r) => i = j
    /\ \A i, j \in Nat : Final(i, r) /\ Final(j, r) => i = j

\* Nothing is known of a request that was not sent.
NotSent(r) ==
    pc[r] \in Early =>
        /\ r \notin rid_to_state /\ r \notin cleanups /\ sched[r] = "out"
        /\ \A i \in Nat : ~Asked(i, r) /\ ~Drop(i, r) /\ ~Final(i, r)

Placed == \A r \in Reqs : OnePlace(r) /\ NotSent(r)

IInv == Types /\ LockExact /\ OneUpdate /\ Placed

\* RunBatch, for a chosen batch b and its results out.
Ran(b, out) ==
    LET streamed == {r \in b[1] : out[r] # "none"}
        final == {r \in b[1] : out[r] = "final"}
    IN  /\ sched' = [r \in Reqs |->
              IF r \in final THEN "finished"
              ELSE IF r \in b[1] THEN "running"
              ELSE IF r \in b[2] THEN "waiting"
              ELSE IF sched[r] = "finished" THEN "out" ELSE sched[r]]
        /\ to_finish' = to_finish \ final
        /\ steps' = [r \in Reqs |-> IF r \in final THEN 0
                                     ELSE IF r \in b[1] THEN steps[r] + 1
                                     ELSE steps[r]]
        /\ retracts' = [r \in Reqs |-> IF r \in final THEN 0
                                        ELSE IF r \in b[2] THEN retracts[r] + 1
                                        ELSE retracts[r]]
        /\ outputs' = IF streamed = {} THEN outputs
                      ELSE Append(outputs, [r \in streamed |-> out[r]])

----------------------------------------------------------------------------
(* Queues and messages.                                                    *)

\* The messages that are sent have the types of their queues.
LEMMA Messages ==
    /\ \A R \in SUBSET Reqs : AbortOf(R) \in ToScheduler
    /\ \A r \in Reqs : [op |-> "req", rid |-> r] \in ToScheduler
    /\ [op |-> "update"] \in ToScheduler
    /\ \A r \in Reqs : [op |-> "abort", rid |-> r] \in ToTokenizer
    /\ \A r \in Reqs : [op |-> "reject", rid |-> r] \in ToTokenizer
    /\ [op |-> "updated"] \in ToTokenizer
  BY DEF AbortOf, ToScheduler, ToTokenizer

\* What a message that was received carries.
LEMMA Fields ==
    /\ \A m \in ToScheduler : /\ m.op \in {"req", "abort", "update"}
                              /\ m.op = "req" => m.rid \in Reqs
                              /\ m.op = "abort" => m.rids \subseteq Reqs
    /\ \A m \in ToTokenizer : /\ m.op \in {"abort", "reject", "updated"}
                              /\ m.op # "updated" => m.rid \in Reqs
  BY DEF ToScheduler, ToTokenizer

\* Taking the first message off a queue.
LEMMA Taken ==
    ASSUME NEW S, NEW q \in Seq(S), q # <<>>
    PROVE  /\ Head(q) \in S /\ Head(q) = q[1] /\ 1 \in DOMAIN q
           /\ Tail(q) \in Seq(S)
           /\ \A i \in Nat : i \in DOMAIN Tail(q) =>
                  i + 1 \in Nat /\ i + 1 \in DOMAIN q /\ Tail(q)[i] = q[i + 1] /\ i + 1 # 1
  OBVIOUS

\* Putting a message at the end of a queue.
LEMMA Added ==
    ASSUME NEW S, NEW q \in Seq(S), NEW m \in S
    PROVE  /\ Append(q, m) \in Seq(S)
           /\ Len(q) + 1 \in Nat /\ Len(q) + 1 \notin DOMAIN q
           /\ DOMAIN Append(q, m) = DOMAIN q \cup {Len(q) + 1}
           /\ Append(q, m)[Len(q) + 1] = m
           /\ \A i \in DOMAIN q : i # Len(q) + 1 /\ Append(q, m)[i] = q[i]
  OBVIOUS

\* The reports of dropped requests: each of them once.
LEMMA Reports ==
    ASSUME NEW R \in SUBSET Reqs, NEW q \in Orders(R), NEW op \in {"abort", "reject"}
    PROVE  /\ Dropped(q, op) \in Seq(ToTokenizer)
           /\ DOMAIN Dropped(q, op) = DOMAIN q
           /\ \A i \in DOMAIN q : /\ Dropped(q, op)[i] = [op |-> op, rid |-> q[i]]
                                  /\ q[i] \in R
           /\ \A i, j \in DOMAIN q : q[i] = q[j] => i = j
<1>1. IsFiniteSet(R) /\ Cardinality(R) \in Nat
  BY TokenizerAssumption, FS_Subset, FS_CardinalityType
<1>2. q \in [1 .. Cardinality(R) -> R]
  BY DEF Orders
<1>3. \A i \in 1 .. Cardinality(R) : [op |-> op, rid |-> q[i]] \in ToTokenizer
  BY <1>2 DEF ToTokenizer
<1> QED
  BY <1>1, <1>2, <1>3 DEF Orders, Dropped

----------------------------------------------------------------------------
(* Types.                                                                  *)

\* The state objects that are made.
LEMMA StateRecords ==
    /\ NewState \in States
    /\ \A a, b, c \in BOOLEAN : [finished |-> a, event |-> b, rejected |-> c] \in States
  BY Zenon DEF NewState, States

\* The values pc, updater, locked and the tokenizer manager's own state take.
LEMMA LocalTypesStep ==
    ASSUME Types, [Next]_vars
    PROVE  PcOK' /\ UpdaterOK' /\ RestOK'
<1> USE DEF Types, PcOK, UpdaterOK, RestOK, Reading, coroutines, control, lock
<1>1. ASSUME NEW r \in Reqs, Enter(r) \/ RetryReader(r)
      PROVE  PcOK' /\ UpdaterOK' /\ RestOK'
  BY <1>1 DEF Enter, RetryReader, AcquireReader, ReaderEnters, ReaderSleeps
<1>2. ASSUME NEW r \in Reqs, Send(r) \/ TakeChunk(r)
      PROVE  PcOK' /\ UpdaterOK' /\ RestOK'
  BY <1>2, StateRecords DEF Send, TakeChunk
<1>3. ASSUME NEW r \in Reqs, TokenizeFails(r) \/ Answer(r) \/ Disconnect(r)
      PROVE  PcOK' /\ UpdaterOK' /\ RestOK'
  BY <1>3, TokenizerAssumption
     DEF TokenizeFails, Answer, Disconnect, Ends, release_reader, Woken
<1>4. ASSUME NEW r \in Reqs, CancelStream(r)
      PROVE  PcOK' /\ UpdaterOK' /\ RestOK'
  BY <1>4, TokenizerAssumption DEF CancelStream, Ends, release_reader, Woken
<1>5. ASSUME NEW r \in Reqs, BackgroundAbort(r) \/ Cleanup(r) \/ QueueTimeout(r)
      PROVE  PcOK' /\ UpdaterOK' /\ RestOK'
  BY <1>5 DEF BackgroundAbort, Cleanup, QueueTimeout
<1>6. CASE HandleBatchOutput
  <2> DEFINE out == Head(outputs)
             taken == DOMAIN out \ Ignored
             new(r) == [finished |-> out[r] = "final", event |-> TRUE, rejected |-> FALSE]
  <2>1. state' = [r \in Reqs |-> IF r \in taken THEN new(r) ELSE state[r]]
    BY <1>6 DEF HandleBatchOutput
  <2>2. \A r : new(r) \in States
    BY StateRecords
  <2> HIDE DEF new, taken, out
  <2>3. state' \in [Reqs -> States]
    BY <2>1, <2>2
  <2>4. QueuesOK /\ outputs # <<>> => DOMAIN out \subseteq Reqs
    BY Taken DEF out, QueuesOK, Outputs
  <2> QED
    BY <1>6, <2>3, <2>4 DEF HandleBatchOutput, out, taken
<1>7. CASE HandleAbortReq
  <2> DEFINE new == [finished |-> TRUE, event |-> TRUE,
                     rejected |-> Head(to_tokenizer).op = "reject"]
  <2>1. new \in States
    BY StateRecords
  <2>2. \/ state' = [state EXCEPT ![Head(to_tokenizer).rid] = new] /\ UNCHANGED crashed
        \/ crashed' = TRUE /\ UNCHANGED state
    BY <1>7 DEF HandleAbortReq
  <2> HIDE DEF new
  <2>3. state' \in [Reqs -> States] /\ crashed' \in BOOLEAN
    BY <2>1, <2>2
  <2> QED
    BY <1>7, <2>3 DEF HandleAbortReq
<1>8. CASE HandleUpdateResult
  BY <1>8 DEF HandleUpdateResult
<1>9. ASSUME NEW abort_all \in BOOLEAN, CallUpdate(abort_all)
      PROVE  PcOK' /\ UpdaterOK' /\ RestOK'
  BY <1>9 DEF CallUpdate
<1>10. CASE BeginUpdate \/ RetryWriter
  BY <1>10 DEF BeginUpdate, RetryWriter, AcquireWriter, SendUpdate, WriterEnters,
               WriterSleeps
<1>11. CASE EndUpdate
  BY <1>11 DEF EndUpdate, release_writer
<1>12. CASE PauseGeneration
  BY <1>12 DEF PauseGeneration
<1>13. CASE ContinueGeneration
  BY <1>13 DEF ContinueGeneration
<1>14. CASE Receive
  BY <1>14 DEF Receive, ReceiveRequest, ReceiveAbort, ReceiveUpdate, ReceiveBadUpdate
<1>15. CASE RunBatch
  BY <1>15 DEF RunBatch
<1>16. CASE UNCHANGED vars
  BY <1>16 DEF vars
<1> QED
  BY <1>1, <1>2, <1>3, <1>4, <1>5, <1>6, <1>7, <1>8, <1>9, <1>10, <1>11, <1>12,
     <1>13, <1>14, <1>15, <1>16 DEF Next, Step

\* Sending keeps the queues' types.
LEMMA Queueing ==
    ASSUME QueuesOK
    PROVE  /\ \A m \in ToScheduler : Append(to_scheduler, m) \in Seq(ToScheduler)
           /\ \A m \in ToTokenizer : Append(to_tokenizer, m) \in Seq(ToTokenizer)
           /\ \A s \in Seq(ToTokenizer) : to_tokenizer \o s \in Seq(ToTokenizer)
           /\ \A out \in Outputs : Append(outputs, out) \in Seq(Outputs)
  BY DEF QueuesOK

\* The messages in the three queues.
LEMMA QueuesStep ==
    ASSUME Types, [Next]_vars
    PROVE  QueuesOK'
<1> USE DEF Types, QueuesOK, coroutines, control, lock
<1> HIDE DEF PcOK, UpdaterOK, RestOK, SchedOK
<1>1. ASSUME NEW r \in Reqs, Enter(r) \/ RetryReader(r) \/ TokenizeFails(r) \/ Answer(r)
                             \/ TakeChunk(r) \/ CancelStream(r) \/ Cleanup(r)
      PROVE  QueuesOK'
  BY <1>1 DEF Enter, RetryReader, TokenizeFails, Answer, TakeChunk, CancelStream, Cleanup
<1>2. ASSUME NEW r \in Reqs, Send(r)
      PROVE  QueuesOK'
  BY <1>2, Messages, Added DEF Send
<1>3. ASSUME NEW r \in Reqs, Disconnect(r) \/ BackgroundAbort(r)
      PROVE  QueuesOK'
  <2>1. AbortOf({r}) \in ToScheduler
    BY Messages
  <2> QED
    BY <1>3, <2>1, Queueing DEF Disconnect, BackgroundAbort, abort_request
<1>4. ASSUME NEW r \in Reqs, QueueTimeout(r)
      PROVE  QueuesOK'
  <2>1. Dropped(<<r>>, "reject") \in Seq(ToTokenizer)
    BY Messages DEF Dropped
  <2> QED
    BY <1>4, <2>1 DEF QueueTimeout
<1>5. CASE HandleBatchOutput
  BY <1>5, Taken DEF HandleBatchOutput
<1>6. CASE HandleAbortReq \/ HandleUpdateResult
  BY <1>6, Taken DEF HandleAbortReq, HandleUpdateResult
<1>7. ASSUME NEW abort_all \in BOOLEAN, CallUpdate(abort_all) \/ PauseGeneration
      PROVE  QueuesOK'
  <2>1. AbortOf(Reqs) \in ToScheduler
    BY Messages
  <2> QED
    BY <1>7, <2>1, Queueing DEF CallUpdate, PauseGeneration
<1>8. CASE BeginUpdate \/ RetryWriter
  <2>1. Append(to_scheduler, [op |-> "update"]) \in Seq(ToScheduler)
    BY Messages, Queueing
  <2> QED
    BY <1>8, <2>1 DEF BeginUpdate, RetryWriter, AcquireWriter, SendUpdate
<1>9. CASE EndUpdate \/ ContinueGeneration \/ UNCHANGED vars
  BY <1>9 DEF EndUpdate, ContinueGeneration, vars
<1>10. CASE Receive
  <2> DEFINE m == Head(to_scheduler)
  <2>1. to_scheduler' \in Seq(ToScheduler) /\ m \in ToScheduler /\ outputs' = outputs
    BY <1>10, Taken DEF Receive
  <2>2. CASE m.op = "req" /\ ReceiveRequest(m.rid)
    <3>1. Dropped(<<m.rid>>, "reject") \in Seq(ToTokenizer)
      BY <2>1, <2>2, Messages, Fields DEF Dropped
    <3> HIDE DEF m
    <3> QED
      BY <2>1, <2>2, <3>1, Queueing DEF ReceiveRequest
  <2>3. CASE m.op = "abort" /\ ReceiveAbort(m.rids)
    <3>1. PICK q \in Orders(Queued \cap m.rids) :
             to_tokenizer' = to_tokenizer \o Dropped(q, "abort")
      BY <2>3 DEF ReceiveAbort
    <3>2. Dropped(q, "abort") \in Seq(ToTokenizer)
      BY Reports DEF Queued
    <3> QED
      BY <2>1, <3>1, <3>2, Queueing
  <2>4. CASE ReceiveUpdate \/ ReceiveBadUpdate
    <3>1. Append(to_tokenizer, [op |-> "updated"]) \in Seq(ToTokenizer)
      BY Messages, Queueing
    <3> HIDE DEF m
    <3> QED
      BY <2>1, <2>4, <3>1 DEF ReceiveUpdate, ReceiveBadUpdate
  <2> QED
    BY <1>10, <2>2, <2>3, <2>4 DEF Receive
<1>11. CASE RunBatch
  <2>0. PICK b \in Batches : \E out \in Results(b[1]) : Ran(b, out)
    BY <1>11 DEF RunBatch, Ran
  <2>1. PICK out \in Results(b[1]) : Ran(b, out)
    BY <2>0
  <2> DEFINE streamed == {r \in b[1] : out[r] # "none"}
  <2>2. b[1] \in SUBSET Reqs
    BY DEF Batches, Queued, Running
  <2>3. [r \in streamed |-> out[r]] \in [streamed -> {"chunk", "final"}]
    BY DEF Results
  <2>4. [r \in streamed |-> out[r]] \in Outputs
    BY <2>2, <2>3 DEF Outputs
  <2> QED
    BY <1>11, <2>1, <2>4, Queueing DEF RunBatch, Ran
<1> QED
  BY <1>1, <1>2, <1>3, <1>4, <1>5, <1>6, <1>7, <1>8, <1>9, <1>10, <1>11 DEF Next, Step

\* What the scheduler keeps of a request.
LEMMA SchedulerStep ==
    ASSUME Types, [Next]_vars
    PROVE  SchedOK'
<1> USE DEF Types, SchedOK, scheduler
<1>1. ASSUME NEW r \in Reqs, QueueTimeout(r)
      PROVE  SchedOK'
  BY <1>1 DEF QueueTimeout, Popped
<1>2. CASE Receive
  <2> DEFINE m == Head(to_scheduler)
  <2>1. steps' = steps /\ retracts' = retracts /\ m \in ToScheduler
    BY <1>2, Taken DEF Receive, QueuesOK
  <2>2. CASE m.op = "req" /\ ReceiveRequest(m.rid)
    BY <2>1, <2>2, Fields DEF ReceiveRequest
  <2>3. CASE m.op = "abort" /\ ReceiveAbort(m.rids)
    BY <2>1, <2>3, Fields DEF ReceiveAbort, Popped, Running
  <2>4. CASE ReceiveUpdate \/ ReceiveBadUpdate
    BY <2>1, <2>4 DEF ReceiveUpdate, ReceiveBadUpdate
  <2> QED
    BY <1>2, <2>2, <2>3, <2>4 DEF Receive
<1>3. CASE RunBatch
  <2>0. PICK b \in Batches : \E out \in Results(b[1]) : Ran(b, out)
    BY <1>3 DEF RunBatch, Ran
  <2>1. PICK out \in Results(b[1]) : Ran(b, out)
    BY <2>0
  <2>2. \A r \in b[2] : r \in Reqs => retracts[r] < MaxRetracts
    BY DEF Batches
  <2>3. \A r \in b[1] : out[r] # "final" => steps[r] + 1 # MaxSteps
    BY DEF Results
  <2> QED
    <3> DEFINE final == {r \in b[1] : out[r] = "final"}
    <3>1. sched' \in [Reqs -> {"out", "waiting", "running", "finished"}]
      BY <2>1 DEF Ran
    <3>2. to_finish' \subseteq Reqs
      BY <2>1 DEF Ran
    <3>3. ASSUME NEW r \in Reqs PROVE steps[r] \in 0 .. MaxSteps - 1
                                      /\ retracts[r] \in 0 .. MaxRetracts
      OBVIOUS
    <3>4. \A r \in Reqs : r \in b[1] /\ r \notin final => steps[r] + 1 \in 0 .. MaxSteps - 1
      BY <2>3, <3>3, TokenizerAssumption
    <3>5. \A r \in Reqs : r \in b[2] => retracts[r] + 1 \in 0 .. MaxRetracts
      BY <2>2, <3>3, TokenizerAssumption
    <3>6. 0 \in 0 .. MaxSteps - 1 /\ 0 \in 0 .. MaxRetracts
      BY TokenizerAssumption
    <3>7. steps' = [r \in Reqs |-> IF r \in final THEN 0
                                   ELSE IF r \in b[1] THEN steps[r] + 1 ELSE steps[r]]
      BY <2>1 DEF Ran
    <3>8. retracts' = [r \in Reqs |-> IF r \in final THEN 0
                                      ELSE IF r \in b[2] THEN retracts[r] + 1
                                      ELSE retracts[r]]
      BY <2>1 DEF Ran
    <3> HIDE DEF final
    <3>9. steps' \in [Reqs -> 0 .. MaxSteps - 1]
      BY <3>3, <3>4, <3>6, <3>7
    <3>10. retracts' \in [Reqs -> 0 .. MaxRetracts]
      BY <3>3, <3>5, <3>6, <3>8
    <3> QED
      BY <3>1, <3>2, <3>9, <3>10
<1>4. CASE UNCHANGED scheduler
  BY <1>4
<1>5. \/ \E r \in Reqs : QueueTimeout(r)
      \/ Receive \/ RunBatch \/ UNCHANGED scheduler
  BY DEF Next, Step, Enter, RetryReader, Send, TokenizeFails, Answer, TakeChunk,
         Disconnect, CancelStream, BackgroundAbort, Cleanup, HandleBatchOutput,
         HandleAbortReq, HandleUpdateResult, CallUpdate, BeginUpdate, RetryWriter,
         EndUpdate, PauseGeneration, ContinueGeneration, vars
<1> QED
  BY <1>1, <1>2, <1>3, <1>4, <1>5

\* Every step keeps the types.
LEMMA TypesStep ==
    ASSUME Types, [Next]_vars
    PROVE  Types'
  BY LocalTypesStep, QueuesStep, SchedulerStep DEF Types

----------------------------------------------------------------------------
(* The lock.                                                               *)

\* How the number of readers follows the coroutines' program counters.
LEMMA Readers ==
    ASSUME PcOK
    PROVE  /\ Cardinality(Inside) \in Nat
           /\ Cardinality(Inside) = 0 <=> Inside = {}
           /\ \A r \in Reqs : r \in Inside =>
                  Cardinality(Inside \ {r}) = Cardinality(Inside) - 1
           /\ \A r \in Reqs : r \notin Inside =>
                  Cardinality(Inside \cup {r}) = Cardinality(Inside) + 1
<1>1. IsFiniteSet(Inside)
  BY TokenizerAssumption, FS_Subset DEF Inside
<1> QED
  BY <1>1, FS_CardinalityType, FS_EmptySet, FS_AddElement, FS_RemoveElement

\* A coroutine leaves the lock, and the last one finds no writer inside.
LEMMA ReaderLeaves ==
    ASSUME Types, LockExact, NEW r \in Reqs, Ends(r), pc[r] \in Reading,
           UNCHANGED <<updater, locked>>
    PROVE  LockExact'
<1>1. Inside' = Inside \ {r} /\ r \in Inside
  BY DEF Inside, Ends, Types, PcOK, Reading
<1>2. Cardinality(Inside') = Cardinality(Inside) - 1
  BY <1>1, Readers DEF Types
<1>3. Cardinality(Inside) \in Nat /\ Cardinality(Inside) # 0
  BY <1>1, Readers DEF Types
<1> QED
  BY <1>2, <1>3 DEF LockExact, Ends, release_reader

\* A coroutine asks for the lock: it enters only when no writer is inside.
LEMMA ReaderAsks ==
    ASSUME Types, LockExact, NEW r \in Reqs, AcquireReader(r), pc[r] \notin Reading,
           UNCHANGED <<updater, locked>>
    PROVE  LockExact'
<1>1. CASE ReaderEnters /\ pc' = [pc EXCEPT ![r] = "tokenizing"]
  <2>1. Inside' = Inside \cup {r} /\ r \notin Inside
    BY <1>1 DEF Inside, Types, PcOK, Reading
  <2>2. Cardinality(Inside') = Cardinality(Inside) + 1
    BY <2>1, Readers DEF Types
  <2> QED
    BY <1>1, <2>2 DEF LockExact, ReaderEnters, MayRead
<1>2. CASE ReaderSleeps(r) /\ pc' = [pc EXCEPT ![r] = "blocked"]
  <2>1. Inside' = Inside
    BY <1>2 DEF Inside, Types, PcOK, Reading
  <2> QED
    BY <1>2, <2>1 DEF LockExact, ReaderSleeps
<1> QED
  BY <1>1, <1>2 DEF AcquireReader

\* The updater asks for the lock: it enters only when no reader is inside.
LEMMA WriterAsks ==
    ASSUME Types, LockExact, NEW queued \in {0, 1}, AcquireWriter(queued),
           queued = IF updater = "blocked" THEN 1 ELSE 0,
           updater \in {"called", "blocked"}, locked' = TRUE, pc' = pc
    PROVE  LockExact'
<1>1. Inside' = Inside
  BY DEF Inside
<1>2. CASE WriterEnters(queued) /\ SendUpdate
  <2>1. readers' = 0 /\ writer_active' = TRUE /\ updater' = "sent" /\ readers' = readers
    BY <1>2 DEF WriterEnters, MayWrite, SendUpdate
  <2>2. waiting_writers' = 0
    BY <1>2 DEF LockExact, WriterEnters
  <2>3. writer_active' = (locked' /\ updater' \in {"sent", "resulted"})
    BY <2>1
  <2> QED
    BY <1>1, <2>1, <2>2, <2>3 DEF LockExact
<1>3. CASE WriterSleeps(Updater, queued) /\ updater' = "blocked"
  BY <1>1, <1>3 DEF LockExact, WriterSleeps
<1> QED
  BY <1>2, <1>3 DEF AcquireWriter

\* The lock's counters stay exact.
LEMMA LockStep ==
    ASSUME Types, LockExact, OneUpdate, [Next]_vars
    PROVE  LockExact'
<1>0. ASSUME UNCHANGED <<lock, updater, locked>>, Inside' = Inside
      PROVE  LockExact'
  BY <1>0 DEF LockExact, lock
<1>1. ASSUME NEW r \in Reqs, Enter(r)
      PROVE  LockExact'
  <2>1. CASE is_pause
    <3>1. Inside' = Inside
      BY <1>1, <2>1 DEF Enter, Inside, Reading, Types, PcOK
    <3> QED
      BY <1>0, <1>1, <2>1, <3>1 DEF Enter, control
  <2>2. CASE ~is_pause
    BY <1>1, <2>2, ReaderAsks DEF Enter, control, Reading
  <2> QED
    BY <2>1, <2>2
<1>2. ASSUME NEW r \in Reqs, RetryReader(r)
      PROVE  LockExact'
  BY <1>2, ReaderAsks DEF RetryReader, control, Reading
<1>3. ASSUME NEW r \in Reqs, Send(r)
      PROVE  LockExact'
  <2>1. Inside' = Inside
    BY <1>3 DEF Send, Inside, Reading, Types, PcOK
  <2> QED
    BY <1>0, <1>3, <2>1 DEF Send, control
<1>4. ASSUME NEW r \in Reqs, TokenizeFails(r) \/ Answer(r) \/ Disconnect(r)
      PROVE  LockExact'
  BY <1>4, ReaderLeaves DEF TokenizeFails, Answer, Disconnect, control, Reading
<1>5. ASSUME NEW r \in Reqs, CancelStream(r)
      PROVE  LockExact'
  <2>1. CASE pc[r] \in Reading /\ Ends(r)
    BY <1>5, <2>1, ReaderLeaves DEF CancelStream, control
  <2>2. CASE ~(pc[r] \in Reading /\ Ends(r))
    <3>1. Inside' = Inside
      BY <1>5, <2>2 DEF CancelStream, Inside, Reading, Types, PcOK
    <3> QED
      BY <1>5, <2>2, <3>1 DEF CancelStream, LockExact, control
  <2> QED
    BY <2>1, <2>2
<1>6. CASE HandleUpdateResult
  <2>1. updater = "sent"
    BY <1>6, Taken DEF HandleUpdateResult, OneUpdate, IsUpdated, Types, QueuesOK
  <2>2. Inside' = Inside
    BY <1>6 DEF HandleUpdateResult, coroutines, Inside
  <2> QED
    BY <1>6, <2>1, <2>2 DEF HandleUpdateResult, LockExact, lock
<1>7. ASSUME NEW abort_all \in BOOLEAN, CallUpdate(abort_all)
      PROVE  LockExact'
  <2>1. Inside' = Inside
    BY <1>7 DEF CallUpdate, coroutines, Inside
  <2> QED
    BY <1>7, <2>1 DEF CallUpdate, LockExact, lock
<1>8. CASE BeginUpdate
  <2>1. Inside' = Inside /\ pc' = pc
    BY <1>8 DEF BeginUpdate, coroutines, Inside
  <2>2. CASE is_pause
    BY <1>8, <2>1, <2>2 DEF BeginUpdate, SendUpdate, LockExact, lock
  <2>3. CASE ~is_pause
    BY <1>8, <2>1, <2>3, WriterAsks DEF BeginUpdate
  <2> QED
    BY <2>2, <2>3
<1>9. CASE RetryWriter
  BY <1>9, WriterAsks DEF RetryWriter, coroutines, LockExact, Types, UpdaterOK
<1>10. CASE EndUpdate
  <2>1. Inside' = Inside
    BY <1>10 DEF EndUpdate, coroutines, Inside
  <2> QED
    BY <1>10, <2>1 DEF EndUpdate, LockExact, lock, release_writer
<1>11. CASE ContinueGeneration
  <2>1. Inside' = Inside
    BY <1>11 DEF ContinueGeneration, Inside, Reading, Types, PcOK
  <2> QED
    BY <1>0, <1>11, <2>1 DEF ContinueGeneration
<1>12. ASSUME \/ \E r \in Reqs : \/ TakeChunk(r) \/ BackgroundAbort(r) \/ Cleanup(r)
                                 \/ QueueTimeout(r)
              \/ HandleBatchOutput \/ HandleAbortReq \/ PauseGeneration
              \/ Receive \/ RunBatch \/ UNCHANGED vars
       PROVE LockExact'
  <2>1. UNCHANGED <<lock, updater, locked>> /\ pc' = pc
    BY <1>12 DEF TakeChunk, BackgroundAbort, Cleanup, QueueTimeout, HandleBatchOutput,
                 HandleAbortReq, PauseGeneration, Receive, RunBatch, vars, coroutines,
                 control
  <2>2. Inside' = Inside
    BY <2>1 DEF Inside
  <2> QED
    BY <1>0, <2>1, <2>2
<1> QED
  BY <1>1, <1>2, <1>3, <1>4, <1>5, <1>6, <1>7, <1>8, <1>9, <1>10, <1>11, <1>12
     DEF Next, Step

----------------------------------------------------------------------------
(* The update under way.                                                   *)

\* An operation on a queue of messages keeps the place of each, but for a
\* shift.
NoNewUpdates(a, d) ==
    /\ \A i \in Nat : IsUpdate(i)' => IsUpdate(i + a)
    /\ \A i \in Nat : IsUpdated(i)' => IsUpdated(i + d)

\* Without a new update or result there is still at most one under way.
LEMMA UpdateKept ==
    ASSUME OneUpdate, NEW a \in {0, 1}, NEW d \in {0, 1}, NoNewUpdates(a, d),
           updater' = updater \/ \A i \in Nat : ~IsUpdate(i) /\ ~IsUpdated(i)
    PROVE  OneUpdate'
<1>1. \A i \in Nat : i + a \in Nat /\ i + d \in Nat
  OBVIOUS
<1>2. \A i, j \in Nat : (i + a = j + a => i = j) /\ (i + d = j + d => i = j)
  OBVIOUS
<1>3. \A i \in Nat : (IsUpdate(i) \/ IsUpdated(i))' => updater' = "sent"
  BY <1>1 DEF OneUpdate, NoNewUpdates
<1>4. \A i, j \in Nat : (IsUpdate(i) /\ IsUpdate(j))' => i = j
  BY <1>1, <1>2 DEF OneUpdate, NoNewUpdates
<1>5. \A i, j \in Nat : (IsUpdated(i) /\ IsUpdated(j))' => i = j
  BY <1>1, <1>2 DEF OneUpdate, NoNewUpdates
<1>6. \A i, j \in Nat : ~(IsUpdate(i) /\ IsUpdated(j))'
  BY <1>1 DEF OneUpdate, NoNewUpdates
<1> QED
  BY <1>3, <1>4, <1>5, <1>6 DEF OneUpdate

\* The updater sends its update when none is under way.
LEMMA UpdateSent ==
    ASSUME Types, OneUpdate, SendUpdate, updater # "sent", to_tokenizer' = to_tokenizer
    PROVE  OneUpdate'
<1> DEFINE n == Len(to_scheduler) + 1
<1>1. \A i \in Nat : ~IsUpdate(i) /\ ~IsUpdated(i)
  BY DEF OneUpdate
<1>2. \A i \in Nat : ~IsUpdated(i)'
  BY <1>1 DEF IsUpdated
<1>3. \A i \in Nat : IsUpdate(i)' => i = n
  <2>1. [op |-> "update"] \in ToScheduler
    BY Messages
  <2>2. to_scheduler \in Seq(ToScheduler)
    BY DEF Types, QueuesOK
  <2>3. /\ DOMAIN to_scheduler' = DOMAIN to_scheduler \cup {n}
        /\ \A i \in DOMAIN to_scheduler : to_scheduler'[i] = to_scheduler[i]
    BY <2>1, <2>2, Added DEF SendUpdate
  <2> QED
    BY <1>1, <2>3 DEF IsUpdate
<1> HIDE DEF n
<1> QED
  BY <1>2, <1>3 DEF OneUpdate, SendUpdate

\* A message that is not an update is sent to the scheduler.
LEMMA OtherSent ==
    ASSUME Types, NEW m \in ToScheduler, m.op # "update",
           to_scheduler' \in {to_scheduler, Append(to_scheduler, m)}
    PROVE  \A i \in Nat : IsUpdate(i)' => IsUpdate(i)
<1>1. CASE to_scheduler' = to_scheduler
  BY <1>1 DEF IsUpdate
<1>2. CASE to_scheduler' = Append(to_scheduler, m)
  <2>1. /\ DOMAIN to_scheduler' = DOMAIN to_scheduler \cup {Len(to_scheduler) + 1}
        /\ \A i \in DOMAIN to_scheduler : to_scheduler'[i] = to_scheduler[i]
        /\ to_scheduler'[Len(to_scheduler) + 1] = m
    BY <1>2, Added DEF Types, QueuesOK
  <2> QED
    BY <2>1 DEF IsUpdate
<1> QED
  BY <1>1, <1>2

\* The scheduler reports requests it dropped.
LEMMA DropsSent ==
    ASSUME Types, NEW R \in SUBSET Reqs, NEW q \in Orders(R), NEW op \in {"abort", "reject"},
           to_tokenizer' = to_tokenizer \o Dropped(q, op)
    PROVE  /\ \A i \in Nat : IsUpdated(i)' => IsUpdated(i)
           /\ \A r \in Reqs : \A i \in Nat : Drop(i, r)' =>
                 \/ Drop(i, r)
                 \/ r \in R /\ i - Len(to_tokenizer) \in DOMAIN q
                            /\ q[i - Len(to_tokenizer)] = r
           /\ \A i, j \in DOMAIN q : q[i] = q[j] => i = j
<1> DEFINE n == Len(to_tokenizer)
           s == Dropped(q, op)
<1>1. /\ s \in Seq(ToTokenizer) /\ DOMAIN s = DOMAIN q
      /\ \A i \in DOMAIN q : s[i] = [op |-> op, rid |-> q[i]] /\ q[i] \in R
      /\ \A i, j \in DOMAIN q : q[i] = q[j] => i = j
  BY Reports
<1>2. to_tokenizer \in Seq(ToTokenizer) /\ n \in Nat
  BY DEF Types, QueuesOK
<1> HIDE DEF s
<1>3. \A i \in Nat : i \in DOMAIN (to_tokenizer \o s) =>
          \/ i \in DOMAIN to_tokenizer /\ (to_tokenizer \o s)[i] = to_tokenizer[i]
          \/ i - n \in DOMAIN s /\ (to_tokenizer \o s)[i] = s[i - n]
  BY <1>1, <1>2
<1>4. \A i \in DOMAIN s : s[i].op # "updated" /\ s[i].rid = q[i] /\ q[i] \in R
  BY <1>1
<1>5. to_tokenizer' = to_tokenizer \o s
  BY DEF s
<1>6. \A i \in Nat : IsUpdated(i)' => IsUpdated(i)
  BY <1>3, <1>4, <1>5 DEF IsUpdated
<1>7. ASSUME NEW r \in Reqs, NEW i \in Nat, Drop(i, r)'
      PROVE  Drop(i, r) \/ (r \in R /\ i - n \in DOMAIN q /\ q[i - n] = r)
  <2>1. /\ i \in DOMAIN (to_tokenizer \o s)
        /\ (to_tokenizer \o s)[i].op # "updated" /\ (to_tokenizer \o s)[i].rid = r
    BY <1>5, <1>7 DEF Drop
  <2>2. CASE i \in DOMAIN to_tokenizer /\ (to_tokenizer \o s)[i] = to_tokenizer[i]
    BY <2>1, <2>2 DEF Drop
  <2>3. CASE i - n \in DOMAIN s /\ (to_tokenizer \o s)[i] = s[i - n]
    <3> HIDE DEF n
    <3> QED
      BY <1>1, <1>4, <2>1, <2>3
  <2> QED
    BY <1>3, <2>1, <2>2, <2>3
<1> QED
  BY <1>1, <1>6, <1>7

\* A report about one request.
LEMMA OneOrder ==
    ASSUME NEW r \in Reqs
    PROVE  <<r>> \in Orders({r})
<1>1. Cardinality({r}) = 1
  BY FS_Singleton
<1> QED
  BY <1>1 DEF Orders

\* There is never more than one update, or its result, under way.
LEMMA UpdateStep ==
    ASSUME Types, LockExact, OneUpdate, [Next]_vars
    PROVE  OneUpdate'
<1>0. ASSUME UNCHANGED <<to_tokenizer, updater>>, NEW m \in ToScheduler, m.op # "update",
             to_scheduler' \in {to_scheduler, Append(to_scheduler, m)}
      PROVE  OneUpdate'
  <2>1. \A i \in Nat : IsUpdate(i)' => IsUpdate(i)
    BY <1>0, OtherSent
  <2>2. NoNewUpdates(0, 0)
    BY <1>0, <2>1 DEF NoNewUpdates, IsUpdated
  <2> QED
    BY <1>0, <2>2, UpdateKept
<1>1. ASSUME UNCHANGED <<to_scheduler, to_tokenizer>>,
             updater' = updater \/ updater # "sent"
      PROVE  OneUpdate'
  <2>1. NoNewUpdates(0, 0)
    BY <1>1 DEF NoNewUpdates, IsUpdate, IsUpdated
  <2>2. updater # "sent" => \A i \in Nat : ~IsUpdate(i) /\ ~IsUpdated(i)
    BY DEF OneUpdate
  <2> QED
    BY <1>1, <2>1, <2>2, UpdateKept
<1>2. ASSUME NEW r \in Reqs, Enter(r) \/ RetryReader(r) \/ TokenizeFails(r) \/ Answer(r)
                             \/ TakeChunk(r) \/ CancelStream(r) \/ Cleanup(r)
      PROVE  OneUpdate'
  BY <1>1, <1>2 DEF Enter, RetryReader, TokenizeFails, Answer, TakeChunk, CancelStream,
                    Cleanup, control
<1>3. ASSUME NEW r \in Reqs, Send(r)
      PROVE  OneUpdate'
  <2>1. [op |-> "req", rid |-> r] \in ToScheduler
    BY Messages
  <2> QED
    BY <1>0, <1>3, <2>1 DEF Send, control
<1>4. ASSUME NEW r \in Reqs, Disconnect(r) \/ BackgroundAbort(r)
      PROVE  OneUpdate'
  <2>1. AbortOf({r}) \in ToScheduler /\ AbortOf({r}).op # "update"
    BY Messages DEF AbortOf
  <2> QED
    BY <1>0, <1>4, <2>1 DEF Disconnect, BackgroundAbort, abort_request, control
<1>5. CASE PauseGeneration
  <2>1. AbortOf(Reqs) \in ToScheduler /\ AbortOf(Reqs).op # "update"
    BY Messages DEF AbortOf
  <2> QED
    BY <1>0, <1>5, <2>1 DEF PauseGeneration
<1>6. ASSUME NEW abort_all \in BOOLEAN, CallUpdate(abort_all)
      PROVE  OneUpdate'
  <2>1. AbortOf(Reqs) \in ToScheduler /\ AbortOf(Reqs).op # "update"
    BY Messages DEF AbortOf
  <2>2. \A i \in Nat : IsUpdate(i)' => IsUpdate(i)
    BY <1>6, <2>1, OtherSent DEF CallUpdate
  <2>3. NoNewUpdates(0, 0)
    BY <1>6, <2>2 DEF CallUpdate, NoNewUpdates, IsUpdated
  <2>4. \A i \in Nat : ~IsUpdate(i) /\ ~IsUpdated(i)
    BY <1>6 DEF CallUpdate, OneUpdate
  <2> QED
    BY <2>3, <2>4, UpdateKept
<1>7. CASE HandleBatchOutput \/ RunBatch \/ ContinueGeneration \/ UNCHANGED vars
  BY <1>1, <1>7 DEF HandleBatchOutput, RunBatch, ContinueGeneration, vars, control
<1>8. CASE HandleAbortReq
  <2>1. NoNewUpdates(0, 1)
    BY <1>8, Taken DEF HandleAbortReq, NoNewUpdates, IsUpdate, IsUpdated, Types, QueuesOK
  <2> QED
    BY <1>8, <2>1, UpdateKept DEF HandleAbortReq, control
<1>9. CASE HandleUpdateResult
  <2>1. to_tokenizer \in Seq(ToTokenizer) /\ to_tokenizer # <<>>
    BY <1>9 DEF HandleUpdateResult, Types, QueuesOK
  <2>2. /\ Head(to_tokenizer) = to_tokenizer[1] /\ 1 \in DOMAIN to_tokenizer
        /\ \A i \in Nat : i \in DOMAIN Tail(to_tokenizer) =>
              /\ i + 1 \in Nat /\ i + 1 \in DOMAIN to_tokenizer
              /\ Tail(to_tokenizer)[i] = to_tokenizer[i + 1] /\ i + 1 # 1
    BY <2>1, Taken
  <2>3. IsUpdated(1)
    BY <1>9, <2>2 DEF HandleUpdateResult, IsUpdated
  <2>4. \A i \in Nat : ~IsUpdated(i)'
    BY <1>9, <2>2, <2>3 DEF HandleUpdateResult, IsUpdated, OneUpdate
  <2>5. \A i \in Nat : ~IsUpdate(i)'
    BY <1>9, <2>3 DEF HandleUpdateResult, IsUpdate, OneUpdate
  <2> QED
    BY <2>4, <2>5 DEF OneUpdate
<1>10. CASE BeginUpdate \/ RetryWriter
  <2>1. updater # "sent" /\ to_tokenizer' = to_tokenizer
    BY <1>10 DEF BeginUpdate, RetryWriter
  <2>2. CASE SendUpdate
    BY <2>1, <2>2, UpdateSent
  <2>3. CASE to_scheduler' = to_scheduler
    BY <1>1, <2>1, <2>3
  <2> QED
    BY <1>10, <2>2, <2>3 DEF BeginUpdate, RetryWriter, AcquireWriter
<1>11. CASE EndUpdate
  BY <1>1, <1>11 DEF EndUpdate
<1>12. ASSUME NEW r \in Reqs, QueueTimeout(r)
       PROVE  OneUpdate'
  <2>1. \A i \in Nat : IsUpdated(i)' => IsUpdated(i)
    BY <1>12, OneOrder, DropsSent DEF QueueTimeout
  <2>2. NoNewUpdates(0, 0)
    BY <1>12, <2>1 DEF QueueTimeout, NoNewUpdates, IsUpdate
  <2> QED
    BY <1>12, <2>2, UpdateKept DEF QueueTimeout, control
<1>13. CASE Receive
  <2> DEFINE m == Head(to_scheduler)
  <2>1. to_scheduler \in Seq(ToScheduler) /\ to_scheduler # <<>>
    BY <1>13 DEF Receive, Types, QueuesOK
  <2>2. /\ m \in ToScheduler /\ m = to_scheduler[1] /\ 1 \in DOMAIN to_scheduler
        /\ \A i \in Nat : i \in DOMAIN Tail(to_scheduler) =>
              /\ i + 1 \in Nat /\ i + 1 \in DOMAIN to_scheduler
              /\ Tail(to_scheduler)[i] = to_scheduler[i + 1] /\ i + 1 # 1
    BY <2>1, Taken
  <2>3. \A i \in Nat : IsUpdate(i)' => IsUpdate(i + 1) /\ i + 1 # 1 /\ i + 1 \in Nat
    BY <1>13, <2>2 DEF Receive, IsUpdate
  <2>4. updater' = updater
    BY <1>13 DEF Receive, control
  <2>5. ASSUME \A i \in Nat : IsUpdated(i)' => IsUpdated(i)
        PROVE  OneUpdate'
    <3>1. NoNewUpdates(1, 0)
      BY <2>3, <2>5 DEF NoNewUpdates
    <3> QED
      BY <2>4, <3>1, UpdateKept
  <2>6. CASE m.op = "req" /\ ReceiveRequest(m.rid)
    <3>1. m.rid \in Reqs
      BY <2>2, <2>6, Fields
    <3>2. CASE UNCHANGED to_tokenizer
      BY <2>5, <3>2 DEF IsUpdated
    <3>3. CASE to_tokenizer' = to_tokenizer \o Dropped(<<m.rid>>, "reject")
      BY <2>5, <3>1, <3>3, OneOrder, DropsSent
    <3> QED
      BY <2>6, <3>2, <3>3 DEF ReceiveRequest
  <2>7. CASE m.op = "abort" /\ ReceiveAbort(m.rids)
    <3>1. PICK q \in Orders(Queued \cap m.rids) :
             to_tokenizer' = to_tokenizer \o Dropped(q, "abort")
      BY <2>7 DEF ReceiveAbort
    <3>2. Queued \cap m.rids \in SUBSET Reqs
      BY DEF Queued
    <3> QED
      BY <2>5, <3>1, <3>2, DropsSent
  <2>8. CASE m.op = "update" /\ (ReceiveUpdate \/ ReceiveBadUpdate)
    <3>1. IsUpdate(1)
      BY <2>2, <2>8 DEF IsUpdate
    <3>2. /\ updater = "sent"
          /\ \A i \in Nat : ~IsUpdated(i)
          /\ \A i \in Nat : IsUpdate(i) => i = 1
      BY <3>1 DEF OneUpdate
    <3>3. \A i \in Nat : ~IsUpdate(i)'
      BY <2>3, <3>2
    <3>4. \A i \in Nat : IsUpdated(i)' => i = Len(to_tokenizer) + 1
      <4>1. CASE to_tokenizer' = to_tokenizer
        BY <3>2, <4>1 DEF IsUpdated
      <4>2. CASE to_tokenizer' = Append(to_tokenizer, [op |-> "updated"])
        <5>1. /\ DOMAIN to_tokenizer' = DOMAIN to_tokenizer \cup {Len(to_tokenizer) + 1}
              /\ \A i \in DOMAIN to_tokenizer : to_tokenizer'[i] = to_tokenizer[i]
          BY <4>2, Added, Messages DEF Types, QueuesOK
        <5> QED
          BY <3>2, <5>1 DEF IsUpdated
      <4> QED
        BY <2>8, <4>1, <4>2 DEF ReceiveUpdate, ReceiveBadUpdate
    <3> QED
      BY <2>4, <3>2, <3>3, <3>4 DEF OneUpdate
  <2> QED
    BY <1>13, <2>6, <2>7, <2>8 DEF Receive
<1> QED
  BY <1>2, <1>3, <1>4, <1>5, <1>6, <1>7, <1>8, <1>9, <1>10, <1>11, <1>12, <1>13
     DEF Next, Step

----------------------------------------------------------------------------
(* Where a request is.                                                     *)

\* Nothing about r moved, but for a shift in the queues, and its state is as
\* alive as it was.
Still(r, a, d, f) ==
    /\ \A i \in Nat : Asked(i, r)' => Asked(i + a, r)
    /\ \A i \in Nat : Drop(i, r)' => Drop(i + d, r)
    /\ \A i \in Nat : Final(i, r)' => Final(i + f, r)
    /\ InScheduler(r)' => InScheduler(r)
    /\ sched[r] = "out" => sched'[r] = "out"
    /\ Alive(r) => Alive(r)'
    /\ pc'[r] \in Early =>
          /\ pc[r] \in Early
          /\ (r \in rid_to_state') => r \in rid_to_state
          /\ (r \in cleanups') => r \in cleanups

\* Then it is still in one place.
LEMMA StillPlaced ==
    ASSUME NEW r \in Reqs, OnePlace(r), NotSent(r),
           NEW a \in {0, 1}, NEW d \in {0, 1}, NEW f \in {0, 1}, Still(r, a, d, f)
    PROVE  OnePlace(r)' /\ NotSent(r)'
<1>1. \A i \in Nat : i + a \in Nat /\ i + d \in Nat /\ i + f \in Nat
  OBVIOUS
<1>2. \A i, j \in Nat : /\ i + a = j + a => i = j
                        /\ i + d = j + d => i = j
                        /\ i + f = j + f => i = j
  OBVIOUS
<1>3. \A i \in Nat : Asked(i, r)' =>
         (Alive(r) /\ sched[r] = "out" /\ \A j \in Nat : ~Drop(j, r) /\ ~Final(j, r))'
  BY <1>1 DEF OnePlace, Still
<1>4. (InScheduler(r) => Alive(r) /\ \A j \in Nat : ~Drop(j, r) /\ ~Final(j, r))'
  BY <1>1 DEF OnePlace, Still
<1>5. \A i \in Nat : Drop(i, r)' => (Alive(r) /\ \A j \in Nat : ~Final(j, r))'
  BY <1>1 DEF OnePlace, Still
<1>6. \A i \in Nat : Final(i, r)' => Alive(r)'
  BY <1>1 DEF OnePlace, Still
<1>7. \A i, j \in Nat : (Asked(i, r) /\ Asked(j, r))' => i = j
  BY <1>1, <1>2 DEF OnePlace, Still
<1>8. \A i, j \in Nat : (Drop(i, r) /\ Drop(j, r))' => i = j
  BY <1>1, <1>2 DEF OnePlace, Still
<1>9. \A i, j \in Nat : (Final(i, r) /\ Final(j, r))' => i = j
  BY <1>1, <1>2 DEF OnePlace, Still
<1>10. OnePlace(r)'
  BY <1>3, <1>4, <1>5, <1>6, <1>7, <1>8, <1>9 DEF OnePlace
<1>11. NotSent(r)'
  BY <1>1 DEF NotSent, Still
<1> QED
  BY <1>10, <1>11

\* A request that was sent and of which nothing is under way any more.
LEMMA GonePlaced ==
    ASSUME NEW r \in Reqs, pc'[r] \notin Early, ~InScheduler(r)',
           \A i \in Nat : ~Asked(i, r)' /\ ~Drop(i, r)' /\ ~Final(i, r)'
    PROVE  OnePlace(r)' /\ NotSent(r)'
  BY DEF OnePlace, NotSent

\* An abort on its way to the scheduler asks for no request.
LEMMA AbortSent ==
    ASSUME Types, NEW R \in SUBSET Reqs,
           to_scheduler' \in {to_scheduler, Append(to_scheduler, AbortOf(R))}
    PROVE  \A r \in Reqs : \A i \in Nat : Asked(i, r)' => Asked(i, r)
<1>1. CASE to_scheduler' = to_scheduler
  BY <1>1 DEF Asked
<1>2. CASE to_scheduler' = Append(to_scheduler, AbortOf(R))
  <2>1. /\ DOMAIN to_scheduler' = DOMAIN to_scheduler \cup {Len(to_scheduler) + 1}
        /\ \A i \in DOMAIN to_scheduler : to_scheduler'[i] = to_scheduler[i]
        /\ to_scheduler'[Len(to_scheduler) + 1] = AbortOf(R)
    BY <1>2, Added, Messages DEF Types, QueuesOK
  <2> QED
    BY <2>1 DEF Asked, AbortOf
<1> QED
  BY <1>1, <1>2

\* An update on its way to the scheduler asks for no request either.
LEMMA SentUpdate ==
    ASSUME Types, SendUpdate
    PROVE  \A r \in Reqs : \A i \in Nat : Asked(i, r)' => Asked(i, r)
<1>1. /\ DOMAIN to_scheduler' = DOMAIN to_scheduler \cup {Len(to_scheduler) + 1}
      /\ \A i \in DOMAIN to_scheduler : to_scheduler'[i] = to_scheduler[i]
      /\ to_scheduler'[Len(to_scheduler) + 1] = [op |-> "update"]
  BY Added, Messages DEF Types, QueuesOK, SendUpdate
<1> QED
  BY <1>1 DEF Asked

\* Steps that take no message off a queue, neither start nor finish a request
\* and send the scheduler at most aborts and updates.
LEMMA CalmStep ==
    ASSUME Types, Placed, UNCHANGED <<to_tokenizer, outputs, scheduler>>,
           \A r \in Reqs : \A i \in Nat : Asked(i, r)' => Asked(i, r),
           \A r \in Reqs : Alive(r) => Alive(r)',
           \A r \in Reqs : pc'[r] \in Early => pc[r] \in Early,
           rid_to_state' \subseteq rid_to_state, cleanups' \subseteq cleanups
    PROVE  Placed'
<1> SUFFICES ASSUME NEW r \in Reqs
             PROVE  OnePlace(r)' /\ NotSent(r)'
  BY DEF Placed
<1>1. Still(r, 0, 0, 0)
  BY DEF Still, Drop, Final, InScheduler, scheduler
<1> QED
  BY <1>1, StillPlaced DEF Placed

\* A request is sent: until then nothing was known of it.
LEMMA SendPlaced ==
    ASSUME Types, Placed, NEW s \in Reqs, Send(s)
    PROVE  Placed'
<1> SUFFICES ASSUME NEW r \in Reqs
             PROVE  OnePlace(r)' /\ NotSent(r)'
  BY DEF Placed
<1> DEFINE n == Len(to_scheduler) + 1
<1>1. /\ DOMAIN to_scheduler' = DOMAIN to_scheduler \cup {n}
      /\ \A i \in DOMAIN to_scheduler : to_scheduler'[i] = to_scheduler[i]
      /\ to_scheduler'[n] = [op |-> "req", rid |-> s]
  BY Added, Messages DEF Types, QueuesOK, Send
<1>2. /\ \A i \in Nat : Drop(i, r)' <=> Drop(i, r)
      /\ \A i \in Nat : Final(i, r)' <=> Final(i, r)
      /\ sched' = sched
  BY DEF Send, Drop, Final, scheduler
<1>3. pc' = [pc EXCEPT ![s] = "sent"] /\ cleanups' = cleanups
  BY DEF Send
<1> HIDE DEF n
<1>4. CASE r # s
  <2>1. \A i \in Nat : Asked(i, r)' => Asked(i, r)
    BY <1>1, <1>4 DEF Asked
  <2>2. (Alive(r) => Alive(r)') /\ (r \in rid_to_state' => r \in rid_to_state)
    BY <1>4 DEF Send, Alive, Types, RestOK
  <2>3. Still(r, 0, 0, 0)
    BY <1>2, <1>3, <1>4, <2>1, <2>2 DEF Still, InScheduler, Types, PcOK
  <2> QED
    BY <2>3, StillPlaced DEF Placed
<1>5. CASE r = s
  <2>1. /\ r \notin rid_to_state /\ r \notin cleanups /\ sched[r] = "out"
        /\ \A i \in Nat : ~Asked(i, r) /\ ~Drop(i, r) /\ ~Final(i, r)
    BY <1>5 DEF Placed, NotSent, Early, Send
  <2>2. \A i \in Nat : Asked(i, r)' => i = n
    BY <1>1, <2>1 DEF Asked
  <2>3. Alive(r)'
    BY <1>5, <2>1 DEF Send, Alive, Types, RestOK, NewState
  <2>4. pc'[r] \notin Early
    BY <1>3, <1>5 DEF Early, Types, PcOK
  <2>5. OnePlace(r)'
    BY <1>2, <2>1, <2>2, <2>3 DEF OnePlace, InScheduler
  <2> QED
    BY <2>4, <2>5 DEF NotSent
<1> QED
  BY <1>4, <1>5

\* A batch of outputs is handled: the final output of a request is its last
\* message.
LEMMA OutputPlaced ==
    ASSUME Types, Placed, HandleBatchOutput
    PROVE  Placed'
<1> SUFFICES ASSUME NEW r \in Reqs
             PROVE  OnePlace(r)' /\ NotSent(r)'
  BY DEF Placed
<1> DEFINE out == Head(outputs)
           taken == DOMAIN out \ Ignored
<1>1. /\ out = outputs[1] /\ 1 \in DOMAIN outputs
      /\ \A i \in Nat : i \in DOMAIN Tail(outputs) =>
            /\ i + 1 \in Nat /\ i + 1 \in DOMAIN outputs
            /\ Tail(outputs)[i] = outputs[i + 1] /\ i + 1 # 1
  BY Taken DEF HandleBatchOutput, Types, QueuesOK
<1>2. \A i \in Nat : Final(i, r)' => Final(i + 1, r) /\ i + 1 \in Nat /\ i + 1 # 1
  BY <1>1 DEF HandleBatchOutput, Final
<1>3. /\ \A i \in Nat : (Asked(i, r)' <=> Asked(i, r)) /\ (Drop(i, r)' <=> Drop(i, r))
      /\ sched' = sched /\ pc' = pc /\ rid_to_state' = rid_to_state
  BY DEF HandleBatchOutput, Asked, Drop, scheduler
<1>4. /\ cleanups' = cleanups \cup {x \in taken : out[x] = "final"}
      /\ r \in taken => state'[r].finished = (out[r] = "final")
      /\ r \notin taken => state'[r] = state[r]
  BY DEF HandleBatchOutput
<1>5. Final(1, r) <=> r \in DOMAIN out /\ out[r] = "final"
  BY <1>1 DEF Final
<1> HIDE DEF out
<1>6. CASE Final(1, r)
  <2>1. /\ ~InScheduler(r)
        /\ \A i \in Nat : ~Asked(i, r) /\ ~Drop(i, r)
        /\ \A i \in Nat : Final(i, r) => i = 1
    BY <1>6 DEF Placed, OnePlace
  <2>2. pc[r] \notin Early
    BY <1>6 DEF Placed, NotSent
  <2>3. \A i \in Nat : ~Final(i, r)'
    BY <1>2, <2>1
  <2> QED
    BY <1>3, <2>1, <2>2, <2>3, GonePlaced DEF InScheduler
<1>7. CASE ~Final(1, r)
  <2>1. Alive(r) => Alive(r)'
    BY <1>3, <1>4, <1>5, <1>7 DEF Alive
  <2>2. r \in cleanups' => r \in cleanups
    BY <1>4, <1>5, <1>7
  <2>3. Still(r, 0, 0, 1)
    BY <1>2, <1>3, <2>1, <2>2 DEF Still, InScheduler
  <2> QED
    BY <2>3, StillPlaced DEF Placed
<1> QED
  BY <1>6, <1>7

\* The report of a dropped request is handled, which is its last message.
LEMMA AbortPlaced ==
    ASSUME Types, Placed, HandleAbortReq
    PROVE  Placed'
<1> SUFFICES ASSUME NEW r \in Reqs
             PROVE  OnePlace(r)' /\ NotSent(r)'
  BY DEF Placed
<1> DEFINE s == Head(to_tokenizer).rid
<1>1. /\ Head(to_tokenizer) = to_tokenizer[1] /\ 1 \in DOMAIN to_tokenizer
      /\ Head(to_tokenizer) \in ToTokenizer
      /\ \A i \in Nat : i \in DOMAIN Tail(to_tokenizer) =>
            /\ i + 1 \in Nat /\ i + 1 \in DOMAIN to_tokenizer
            /\ Tail(to_tokenizer)[i] = to_tokenizer[i + 1] /\ i + 1 # 1
  BY Taken DEF HandleAbortReq, Types, QueuesOK
<1>2. \A i \in Nat : Drop(i, r)' => Drop(i + 1, r) /\ i + 1 \in Nat /\ i + 1 # 1
  BY <1>1 DEF HandleAbortReq, Drop
<1>3. /\ \A i \in Nat : (Asked(i, r)' <=> Asked(i, r)) /\ (Final(i, r)' <=> Final(i, r))
      /\ sched' = sched /\ pc' = pc /\ rid_to_state' = rid_to_state
      /\ cleanups' = cleanups
  BY DEF HandleAbortReq, Asked, Final, scheduler
<1>4. Drop(1, s) /\ s \in Reqs
  BY <1>1, Fields DEF HandleAbortReq, Drop
<1>5. CASE r = s
  <2>1. /\ ~InScheduler(r)
        /\ \A i \in Nat : ~Asked(i, r) /\ ~Final(i, r)
        /\ \A i \in Nat : Drop(i, r) => i = 1
    BY <1>4, <1>5 DEF Placed, OnePlace
  <2>2. pc[r] \notin Early
    BY <1>4, <1>5 DEF Placed, NotSent
  <2>3. \A i \in Nat : ~Drop(i, r)'
    BY <1>2, <2>1
  <2> QED
    BY <1>3, <2>1, <2>2, <2>3, GonePlaced DEF InScheduler
<1>6. CASE r # s
  <2>1. state'[r] = state[r]
    BY <1>6 DEF HandleAbortReq, Types, RestOK
  <2>2. Still(r, 0, 1, 0)
    BY <1>2, <1>3, <2>1 DEF Still, InScheduler, Alive
  <2> QED
    BY <2>2, StillPlaced DEF Placed
<1> QED
  BY <1>5, <1>6

\* The scheduler drops the queued requests R and reports each of them once.
LEMMA DropPlaced ==
    ASSUME Types, Placed, NEW R \in SUBSET Queued, NEW q \in Orders(R),
           NEW op \in {"abort", "reject"}, NEW a \in {0, 1},
           to_tokenizer' = to_tokenizer \o Dropped(q, op), sched' = Popped(R),
           \A r \in Reqs : \A i \in Nat : Asked(i, r)' => Asked(i + a, r),
           UNCHANGED <<coroutines, outputs>>
    PROVE  Placed'
<1> SUFFICES ASSUME NEW r \in Reqs
             PROVE  OnePlace(r)' /\ NotSent(r)'
  BY DEF Placed
<1> DEFINE n == Len(to_tokenizer)
<1>0. R \in SUBSET Reqs /\ n \in Nat
  BY DEF Queued, Types, QueuesOK
<1>1. /\ \A i \in Nat : Drop(i, r)' =>
            \/ Drop(i, r)
            \/ r \in R /\ i - n \in DOMAIN q /\ q[i - n] = r
      /\ \A i, j \in DOMAIN q : q[i] = q[j] => i = j
  BY <1>0, DropsSent
<1>2. /\ \A i \in Nat : Final(i, r)' <=> Final(i, r)
      /\ Alive(r)' <=> Alive(r)
      /\ pc' = pc /\ rid_to_state' = rid_to_state /\ cleanups' = cleanups
  BY DEF coroutines, Final, Alive
<1>3. sched'[r] = IF r \in R THEN "out" ELSE sched[r]
  BY DEF Popped
<1> HIDE DEF n
<1>4. CASE r \notin R
  <2>1. /\ \A i \in Nat : Asked(i, r)' => Asked(i + a, r)
        /\ \A i \in Nat : i + 0 = i
    OBVIOUS
  <2>2. \A i \in Nat : Drop(i, r)' => Drop(i, r)
    BY <1>1, <1>4
  <2>3. Still(r, a, 0, 0)
    BY <1>2, <1>3, <1>4, <2>1, <2>2 DEF Still, InScheduler
  <2> QED
    BY <2>3, StillPlaced DEF Placed
<1>5. CASE r \in R
  <2>1. InScheduler(r) /\ sched[r] = "waiting"
    BY <1>5 DEF Queued, InScheduler
  <2>2. /\ Alive(r) /\ \A j \in Nat : ~Drop(j, r) /\ ~Final(j, r)
        /\ \A i \in Nat : ~Asked(i, r)
    BY <2>1 DEF Placed, OnePlace
  <2>3. \A i \in Nat : i + a \in Nat
    OBVIOUS
  <2>4. \A i \in Nat : ~Asked(i, r)'
    BY <2>2, <2>3
  <2>5. \A i, j \in Nat : (Drop(i, r) /\ Drop(j, r))' => i = j
    <3> SUFFICES ASSUME NEW i \in Nat, NEW j \in Nat, Drop(i, r)', Drop(j, r)'
                 PROVE  i = j
      OBVIOUS
    <3>1. i - n = j - n
      BY <1>1, <2>2
    <3> QED
      BY <1>0, <3>1
  <2>6. pc'[r] \notin Early
    BY <1>2, <2>1 DEF Placed, NotSent
  <2>7. OnePlace(r)'
    BY <1>2, <1>3, <1>5, <2>2, <2>4, <2>5 DEF OnePlace, InScheduler
  <2> QED
    BY <2>6, <2>7 DEF NotSent
<1> QED
  BY <1>4, <1>5

\* The scheduler reads a message: a request goes on to the queue or is
\* rejected, an abort drops queued requests.
LEMMA ReceivePlaced ==
    ASSUME Types, Placed, Receive
    PROVE  Placed'
<1> DEFINE m == Head(to_scheduler)
<1>1. /\ m \in ToScheduler /\ m = to_scheduler[1] /\ 1 \in DOMAIN to_scheduler
      /\ \A i \in Nat : i \in DOMAIN Tail(to_scheduler) =>
            /\ i + 1 \in Nat /\ i + 1 \in DOMAIN to_scheduler
            /\ Tail(to_scheduler)[i] = to_scheduler[i + 1] /\ i + 1 # 1
  BY Taken DEF Receive, Types, QueuesOK
<1>2. \A r \in Reqs : \A i \in Nat :
         Asked(i, r)' => Asked(i + 1, r) /\ i + 1 \in Nat /\ i + 1 # 1
  BY <1>1 DEF Receive, Asked
<1>3. UNCHANGED <<coroutines, outputs>>
  BY DEF Receive
<1>4. CASE m.op = "req" /\ ReceiveRequest(m.rid)
  <2> DEFINE s == m.rid
  <2>1. s \in Reqs /\ Asked(1, s)
    BY <1>1, <1>4, Fields DEF Asked
  <2> HIDE DEF s
  <2> SUFFICES ASSUME NEW r \in Reqs
               PROVE  OnePlace(r)' /\ NotSent(r)'
    BY DEF Placed
  <2>2. /\ \A i \in Nat : Final(i, r)' <=> Final(i, r)
        /\ Alive(r)' <=> Alive(r)
        /\ pc' = pc /\ rid_to_state' = rid_to_state /\ cleanups' = cleanups
    BY <1>3 DEF coroutines, Final, Alive
  <2>3. \/ /\ sched' = [sched EXCEPT ![s] = "waiting"]
           /\ \A i \in Nat : Drop(i, r)' <=> Drop(i, r)
        \/ /\ sched' = sched
           /\ to_tokenizer' = to_tokenizer \o Dropped(<<s>>, "reject")
    BY <1>4 DEF ReceiveRequest, Drop, s
  <2>4. \A i \in Nat : Drop(i, r)' =>
           Drop(i, r) \/ (r = s /\ sched' = sched /\ i = Len(to_tokenizer) + 1)
    <3>1. CASE \A i \in Nat : Drop(i, r)' <=> Drop(i, r)
      BY <3>1
    <3>2. CASE /\ sched' = sched
               /\ to_tokenizer' = to_tokenizer \o Dropped(<<s>>, "reject")
      <4>1. <<s>> \in Orders({s}) /\ {s} \in SUBSET Reqs
        BY <2>1, OneOrder
      <4>2. \A i \in Nat : Drop(i, r)' =>
               \/ Drop(i, r)
               \/ /\ r \in {s} /\ i - Len(to_tokenizer) \in DOMAIN <<s>>
                  /\ <<s>>[i - Len(to_tokenizer)] = r
        BY <3>2, <4>1, DropsSent
      <4>3. Len(to_tokenizer) \in Nat
        BY DEF Types, QueuesOK
      <4> QED
        BY <3>2, <4>2, <4>3
    <3> QED
      BY <2>3, <3>1, <3>2
  <2>5. CASE r # s
    <3>1. /\ \A i \in Nat : Asked(i, r)' => Asked(i + 1, r)
          /\ \A i \in Nat : i + 0 = i
      BY <1>2
    <3>2. \A i \in Nat : Drop(i, r)' => Drop(i, r)
      BY <2>4, <2>5
    <3>3. sched'[r] = sched[r]
      BY <2>3, <2>5 DEF Types, SchedOK
    <3>4. Still(r, 1, 0, 0)
      BY <2>2, <3>1, <3>2, <3>3 DEF Still, InScheduler
    <3> QED
      BY <3>4, StillPlaced DEF Placed
  <2>6. CASE r = s
    <3>1. /\ Alive(r) /\ sched[r] = "out"
          /\ \A j \in Nat : ~Drop(j, r) /\ ~Final(j, r)
          /\ \A i \in Nat : Asked(i, r) => i = 1
      BY <2>1, <2>6 DEF Placed, OnePlace
    <3>2. \A i \in Nat : ~Asked(i, r)'
      BY <1>2, <3>1
    <3>3. pc'[r] \notin Early
      BY <2>1, <2>2, <2>6 DEF Placed, NotSent
    <3>4. InScheduler(r)' => sched' # sched
      BY <3>1 DEF InScheduler
    <3>5. /\ InScheduler(r)' => \A j \in Nat : ~Drop(j, r)'
          /\ \A i, j \in Nat : (Drop(i, r) /\ Drop(j, r))' => i = j
      BY <2>4, <3>1, <3>4
    <3>6. OnePlace(r)'
      BY <2>2, <3>1, <3>2, <3>5 DEF OnePlace
    <3> QED
      BY <3>3, <3>6 DEF NotSent
  <2> QED
    BY <2>5, <2>6
<1>5. CASE m.op = "abort" /\ ReceiveAbort(m.rids)
  <2>1. PICK q \in Orders(Queued \cap m.rids) :
           to_tokenizer' = to_tokenizer \o Dropped(q, "abort")
    BY <1>5 DEF ReceiveAbort
  <2>2. Queued \cap m.rids \in SUBSET Queued /\ sched' = Popped(Queued \cap m.rids)
    BY <1>5 DEF ReceiveAbort
  <2>3. \A r \in Reqs : \A i \in Nat : Asked(i, r)' => Asked(i + 1, r)
    BY <1>2
  <2> HIDE DEF m
  <2> QED
    BY <1>3, <2>1, <2>2, <2>3, DropPlaced
<1>6. CASE m.op = "update" /\ (ReceiveUpdate \/ ReceiveBadUpdate)
  <2> SUFFICES ASSUME NEW r \in Reqs
               PROVE  OnePlace(r)' /\ NotSent(r)'
    BY DEF Placed
  <2>1. to_tokenizer' = to_tokenizer
        \/ to_tokenizer' = Append(to_tokenizer, [op |-> "updated"])
    BY <1>6 DEF ReceiveUpdate, ReceiveBadUpdate
  <2>2. \A i \in Nat : Drop(i, r)' => Drop(i, r)
    <3>1. CASE to_tokenizer' = to_tokenizer
      BY <3>1 DEF Drop
    <3>2. CASE to_tokenizer' = Append(to_tokenizer, [op |-> "updated"])
      <4>1. /\ DOMAIN to_tokenizer' = DOMAIN to_tokenizer \cup {Len(to_tokenizer) + 1}
            /\ \A i \in DOMAIN to_tokenizer : to_tokenizer'[i] = to_tokenizer[i]
            /\ to_tokenizer'[Len(to_tokenizer) + 1] = [op |-> "updated"]
        BY <3>2, Added, Messages DEF Types, QueuesOK
      <4> QED
        BY <4>1 DEF Drop
    <3> QED
      BY <2>1, <3>1, <3>2
  <2>3. sched' = sched
    BY <1>6 DEF ReceiveUpdate, ReceiveBadUpdate
  <2>4. \A i \in Nat : Asked(i, r)' => Asked(i + 1, r)
    BY <1>2
  <2>5. Still(r, 1, 0, 0)
    <3>1. \A i \in Nat : i + 0 = i
      OBVIOUS
    <3>2. \A i \in Nat : Final(i, r)' => Final(i, r)
      BY <1>3 DEF Final
    <3>3. Alive(r) => Alive(r)'
      BY <1>3 DEF Alive, coroutines
    <3> QED
      BY <1>3, <2>2, <2>3, <2>4, <3>1, <3>2, <3>3 DEF Still, InScheduler, coroutines
  <2> QED
    BY <2>5, StillPlaced DEF Placed
<1> QED
  BY <1>4, <1>5, <1>6 DEF Receive

\* A batch runs: a request that finishes leaves the scheduler with one final
\* output.
LEMMA RunPlaced ==
    ASSUME Types, Placed, RunBatch
    PROVE  Placed'
<1>1. PICK b \in Batches : \E out \in Results(b[1]) : Ran(b, out)
  BY DEF RunBatch, Ran
<1>2. PICK out \in Results(b[1]) : Ran(b, out)
  BY <1>1
<1> SUFFICES ASSUME NEW r \in Reqs
             PROVE  OnePlace(r)' /\ NotSent(r)'
  BY DEF Placed
<1> DEFINE streamed == {x \in b[1] : out[x] # "none"}
           batch == [x \in streamed |-> out[x]]
           final == r \in b[1] /\ out[r] = "final"
           n == Len(outputs) + 1
<1>3. b[1] \subseteq Reqs /\ (r \in b[1] \/ r \in b[2] => InScheduler(r))
  BY DEF Batches, Queued, Running, InScheduler
<1>4. /\ final => sched'[r] = "finished"
      /\ ~final /\ InScheduler(r)' => InScheduler(r)
      /\ sched[r] = "out" => sched'[r] = "out"
  BY <1>2, <1>3 DEF Ran, InScheduler
<1>5. \A i \in Nat : Final(i, r)' => Final(i, r) \/ (final /\ i = n)
  <2>1. CASE outputs' = outputs
    BY <2>1 DEF Final
  <2>2. CASE outputs' = Append(outputs, batch)
    <3>1. batch \in [streamed -> {"chunk", "final"}]
      BY DEF Results
    <3>2. batch \in Outputs
      BY <1>3, <3>1 DEF Outputs
    <3> HIDE DEF batch
    <3>3. /\ DOMAIN outputs' = DOMAIN outputs \cup {n}
          /\ \A i \in DOMAIN outputs : outputs'[i] = outputs[i]
          /\ outputs'[n] = batch
      BY <2>2, <3>2, Added DEF Types, QueuesOK
    <3>4. r \in DOMAIN batch /\ batch[r] = "final" => final
      BY DEF batch
    <3> HIDE DEF n, final
    <3> QED
      BY <3>3, <3>4 DEF Final
  <2> QED
    BY <1>2, <2>1, <2>2 DEF Ran
<1>6. /\ \A i \in Nat : (Asked(i, r)' <=> Asked(i, r)) /\ (Drop(i, r)' <=> Drop(i, r))
      /\ Alive(r)' <=> Alive(r)
      /\ pc' = pc /\ rid_to_state' = rid_to_state /\ cleanups' = cleanups
  BY DEF RunBatch, Asked, Drop, Alive, coroutines
<1>7. CASE ~final
  <2>1. \A i \in Nat : i + 0 = i
    OBVIOUS
  <2>2. \A i \in Nat : Final(i, r)' => Final(i, r)
    BY <1>5, <1>7
  <2>3. InScheduler(r)' => InScheduler(r)
    BY <1>4, <1>7
  <2> HIDE DEF final
  <2>4. Still(r, 0, 0, 0)
    BY <1>4, <1>6, <2>1, <2>2, <2>3 DEF Still
  <2> QED
    BY <2>4, StillPlaced DEF Placed
<1>8. CASE final
  <2>1. InScheduler(r)
    BY <1>3, <1>8
  <2>2. /\ Alive(r) /\ \A j \in Nat : ~Drop(j, r) /\ ~Final(j, r)
        /\ \A i \in Nat : ~Asked(i, r)
    BY <2>1 DEF Placed, OnePlace, InScheduler
  <2>3. \A i \in Nat : Final(i, r)' => i = n
    BY <1>5, <2>2
  <2>4. ~InScheduler(r)'
    BY <1>4, <1>8 DEF InScheduler
  <2>5. pc'[r] \notin Early
    BY <1>6, <2>1 DEF Placed, NotSent, InScheduler
  <2> HIDE DEF n, final
  <2>6. OnePlace(r)'
    BY <1>6, <2>2, <2>3, <2>4 DEF OnePlace
  <2> QED
    BY <2>5, <2>6 DEF NotSent
<1> QED
  BY <1>7, <1>8

\* Every request stays in one place.
LEMMA PlacedStep ==
    ASSUME Types, Placed, [Next]_vars
    PROVE  Placed'
<1> USE DEF coroutines, control
<1>1. ASSUME NEW r \in Reqs, Enter(r) \/ RetryReader(r)
      PROVE  Placed'
  <2>1. UNCHANGED <<state, rid_to_state, cleanups, to_scheduler, to_tokenizer, outputs,
                    scheduler>>
    BY <1>1 DEF Enter, RetryReader
  <2>2. \A s \in Reqs : pc'[s] \in Early => pc[s] \in Early
    BY <1>1 DEF Enter, RetryReader, AcquireReader, Early, Types, PcOK
  <2> QED
    BY <2>1, <2>2, CalmStep DEF Asked, Alive
<1>2. ASSUME NEW r \in Reqs, TokenizeFails(r) \/ Disconnect(r) \/ CancelStream(r)
      PROVE  Placed'
  <2>1. UNCHANGED <<state, rid_to_state, cleanups, to_tokenizer, outputs, scheduler>>
    BY <1>2 DEF TokenizeFails, Disconnect, CancelStream
  <2>2. \A s \in Reqs : pc'[s] \in Early => pc[s] \in Early
    BY <1>2 DEF TokenizeFails, Disconnect, CancelStream, Ends, Early, Types, PcOK
  <2>3. to_scheduler' \in {to_scheduler, Append(to_scheduler, AbortOf({r}))}
    BY <1>2 DEF TokenizeFails, Disconnect, CancelStream, abort_request
  <2>4. \A s \in Reqs : \A i \in Nat : Asked(i, s)' => Asked(i, s)
    BY <2>3, AbortSent
  <2> QED
    BY <2>1, <2>2, <2>4, CalmStep DEF Alive
<1>3. ASSUME NEW r \in Reqs, Answer(r)
      PROVE  Placed'
  <2>1. UNCHANGED <<state, cleanups, to_scheduler, to_tokenizer, outputs, scheduler>>
    BY <1>3 DEF Answer
  <2>2. \A s \in Reqs : pc'[s] \in Early => pc[s] \in Early
    BY <1>3 DEF Answer, Ends, Early, Types, PcOK
  <2>3. /\ rid_to_state' \subseteq rid_to_state
        /\ \A s \in rid_to_state : s \in rid_to_state' \/ s = r
    BY <1>3 DEF Answer
  <2>4. \A s \in Reqs : Alive(s) => Alive(s)'
    BY <1>3, <2>1, <2>3 DEF Alive, Answer
  <2> QED
    BY <2>1, <2>2, <2>3, <2>4, CalmStep DEF Asked
<1>4. ASSUME NEW r \in Reqs, TakeChunk(r)
      PROVE  Placed'
  <2>1. UNCHANGED <<pc, rid_to_state, cleanups, to_scheduler, to_tokenizer, outputs,
                    scheduler>>
    BY <1>4 DEF TakeChunk
  <2>2. \A s \in Reqs : Alive(s) => Alive(s)'
    BY <1>4 DEF TakeChunk, Alive, NewState, Types, RestOK
  <2> QED
    BY <2>1, <2>2, CalmStep DEF Asked
<1>5. ASSUME NEW r \in Reqs, BackgroundAbort(r)
      PROVE  Placed'
  <2>1. UNCHANGED <<pc, state, rid_to_state, cleanups, to_tokenizer, outputs, scheduler>>
    BY <1>5 DEF BackgroundAbort
  <2>2. to_scheduler' \in {to_scheduler, Append(to_scheduler, AbortOf({r}))}
    BY <1>5 DEF BackgroundAbort, abort_request
  <2>3. \A s \in Reqs : \A i \in Nat : Asked(i, s)' => Asked(i, s)
    BY <2>2, AbortSent
  <2> QED
    BY <2>1, <2>3, CalmStep DEF Alive
<1>6. ASSUME NEW r \in Reqs, Cleanup(r)
      PROVE  Placed'
  <2>1. UNCHANGED <<pc, state, to_scheduler, to_tokenizer, outputs, scheduler>>
    BY <1>6 DEF Cleanup
  <2>2. \A s \in Reqs : Alive(s) => Alive(s)'
    BY <1>6, <2>1 DEF Cleanup, Alive
  <2> QED
    BY <1>6, <2>1, <2>2, CalmStep DEF Asked, Cleanup
<1>7. ASSUME NEW r \in Reqs, QueueTimeout(r)
      PROVE  Placed'
  <2>1. {r} \in SUBSET Queued /\ <<r>> \in Orders({r}) /\ sched' = Popped({r})
    BY <1>7, OneOrder DEF QueueTimeout, Queued
  <2>2. \A s \in Reqs : \A i \in Nat : Asked(i, s)' => Asked(i + 0, s)
    BY <1>7 DEF QueueTimeout, Asked
  <2> QED
    BY <1>7, <2>1, <2>2, DropPlaced DEF QueueTimeout
<1>8. CASE HandleUpdateResult
  <2> SUFFICES ASSUME NEW r \in Reqs
               PROVE  OnePlace(r)' /\ NotSent(r)'
    BY DEF Placed
  <2>1. \A i \in Nat : Drop(i, r)' => Drop(i + 1, r)
    BY <1>8, Taken DEF HandleUpdateResult, Drop, Types, QueuesOK
  <2>2. Still(r, 0, 1, 0)
    BY <1>8, <2>1 DEF HandleUpdateResult, Still, InScheduler, Asked, Final, Alive,
                      scheduler
  <2> QED
    BY <2>2, StillPlaced DEF Placed
<1>9. ASSUME NEW abort_all \in BOOLEAN, CallUpdate(abort_all) \/ PauseGeneration
      PROVE  Placed'
  <2>1. UNCHANGED <<coroutines, to_tokenizer, outputs, scheduler>>
    BY <1>9 DEF CallUpdate, PauseGeneration
  <2>2. to_scheduler' \in {to_scheduler, Append(to_scheduler, AbortOf(Reqs))}
    BY <1>9 DEF CallUpdate, PauseGeneration
  <2>3. \A s \in Reqs : \A i \in Nat : Asked(i, s)' => Asked(i, s)
    BY <2>2, AbortSent
  <2> QED
    BY <2>1, <2>3, CalmStep DEF Alive
<1>10. CASE BeginUpdate \/ RetryWriter \/ EndUpdate
  <2>1. UNCHANGED <<coroutines, to_tokenizer, outputs, scheduler>>
    BY <1>10 DEF BeginUpdate, RetryWriter, EndUpdate
  <2>2. SendUpdate \/ to_scheduler' = to_scheduler
    BY <1>10 DEF BeginUpdate, RetryWriter, EndUpdate, AcquireWriter
  <2>3. \A s \in Reqs : \A i \in Nat : Asked(i, s)' => Asked(i, s)
    BY <2>2, SentUpdate DEF Asked
  <2> QED
    BY <2>1, <2>3, CalmStep DEF Alive
<1>11. CASE ContinueGeneration
  <2>1. UNCHANGED <<state, rid_to_state, cleanups, to_scheduler, to_tokenizer, outputs,
                    scheduler>>
    BY <1>11 DEF ContinueGeneration
  <2>2. \A s \in Reqs : pc'[s] \in Early => pc[s] \in Early
    BY <1>11 DEF ContinueGeneration, Early
  <2> QED
    BY <2>1, <2>2, CalmStep DEF Asked, Alive
<1>12. CASE UNCHANGED vars
  BY <1>12, CalmStep DEF vars, Asked, Alive
<1> QED
  BY <1>1, <1>2, <1>3, <1>4, <1>5, <1>6, <1>7, <1>8, <1>9, <1>10, <1>11, <1>12,
     SendPlaced, OutputPlaced, AbortPlaced, ReceivePlaced, RunPlaced DEF Next, Step

----------------------------------------------------------------------------
(* The theorems.                                                           *)

\* The initial states satisfy the inductive invariant.
LEMMA InitIInv == Init => IInv
<1> SUFFICES ASSUME Init PROVE IInv
  OBVIOUS
<1>1. PcOK /\ UpdaterOK /\ RestOK
  BY StateRecords DEF Init, PcOK, UpdaterOK, RestOK, LockInit
<1>2. QueuesOK
  BY DEF Init, QueuesOK
<1>3. SchedOK
  BY TokenizerAssumption DEF Init, SchedOK
<1>4. Inside = {}
  BY DEF Init, Inside, Reading
<1>5. LockExact
  BY <1>4, FS_EmptySet DEF Init, LockExact, LockInit
<1>6. OneUpdate
  BY DEF Init, OneUpdate, IsUpdate, IsUpdated
<1>7. Placed
  BY DEF Init, Placed, OnePlace, NotSent, Asked, Drop, Final, InScheduler
<1> QED
  BY <1>1, <1>2, <1>3, <1>5, <1>6, <1>7 DEF IInv, Types

\* Every step preserves it.
LEMMA NextIInv == IInv /\ [Next]_vars => IInv'
  BY TypesStep, LockStep, UpdateStep, PlacedStep DEF IInv

\* The counters of the lock, the dictionary of states and the three queues
\* always agree with what the coroutines and the scheduler hold, for any
\* number of requests.
THEOREM Invariance == Spec => []IInv
  BY InitIInv, NextIInv, PTL DEF Spec

\* Type correctness; in particular _readers counts at most the requests.
THEOREM TypeCorrect == Spec => []TypeOK
<1>1. IInv => TypeOK
  <2> SUFFICES ASSUME IInv PROVE TypeOK
    OBVIOUS
  <2>1. readers \in 0 .. Cardinality(Reqs)
    <3>1. Cardinality(Inside) \in Nat /\ Cardinality(Inside) <= Cardinality(Reqs)
      BY TokenizerAssumption, FS_Subset, FS_CardinalityType DEF Inside
    <3>2. Cardinality(Reqs) \in Nat
      BY TokenizerAssumption, FS_CardinalityType
    <3> QED
      BY <3>1, <3>2 DEF IInv, LockExact
  <2>2. writer_active \in BOOLEAN /\ waiting_writers \in 0 .. 1
    BY DEF IInv, LockExact
  <2>3. steps \in [Reqs -> 0 .. MaxSteps]
    BY TokenizerAssumption DEF IInv, Types, SchedOK
  <2> QED
    BY <2>1, <2>2, <2>3
       DEF IInv, TypeOK, Types, PcOK, UpdaterOK, RestOK, SchedOK, States
<1> QED
  BY <1>1, Invariance, PTL

\* No request waits for an answer while an update holds the writer lock
\* (RWLock, generate_request, update_weights_from_disk).
THEOREM UpdatesExclusive == Spec => []UpdateExcludesAnswers
<1>1. IInv => UpdateExcludesAnswers
  <2> SUFFICES ASSUME IInv, updater \in {"sent", "resulted"}, locked
               PROVE  \A r \in Reqs : pc[r] \notin Reading
    BY DEF UpdateExcludesAnswers
  <2>1. writer_active
    BY DEF IInv, LockExact
  <2>2. Cardinality(Inside) = 0
    BY <2>1 DEF IInv, LockExact
  <2>3. Inside = {}
    BY <2>2, Readers DEF IInv, Types
  <2> QED
    BY <2>3 DEF Inside
<1> QED
  BY <1>1, Invariance, PTL

\* The lookup in _handle_abort_req never raises a KeyError.
THEOREM AbortsFindState == Spec => []AbortFindsState
<1>1. IInv => AbortFindsState
  <2> SUFFICES ASSUME IInv, NEW i \in DOMAIN to_tokenizer, to_tokenizer[i].op # "updated"
               PROVE  to_tokenizer[i].rid \in rid_to_state
    BY DEF AbortFindsState
  <2>1. i \in Nat /\ to_tokenizer[i] \in ToTokenizer
    BY DEF IInv, Types, QueuesOK
  <2>2. to_tokenizer[i].rid \in Reqs
    BY <2>1, Fields
  <2>3. Drop(i, to_tokenizer[i].rid)
    BY DEF Drop
  <2> QED
    BY <2>1, <2>2, <2>3 DEF IInv, Placed, OnePlace, Alive
<1> QED
  BY <1>1, Invariance, PTL

\* A request in the scheduler keeps its state, whatever its client does.
THEOREM StatesOwned == Spec => []OwnedByState
<1>1. IInv => OwnedByState
  BY DEF IInv, Placed, OnePlace, InScheduler, Alive, OwnedByState
<1> QED
  BY <1>1, Invariance, PTL
=============================================================================
