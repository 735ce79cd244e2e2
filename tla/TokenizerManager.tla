-------------------------- MODULE TokenizerManager --------------------------
(***************************************************************************)
(* The life of a request between the HTTP server and the scheduler:        *)
(* TokenizerManager (tokenizer_manager.py), a single event loop, and, as   *)
(* far as it decides what comes back and when, the scheduler process.      *)
(*                                                                         *)
(* Three queues connect them.  Requests, aborts and weight updates reach   *)
(* the scheduler in the order they were sent.  Outputs come back through   *)
(* the detokenizer process, aborts of queued requests and results of       *)
(* updates directly, so the two kinds can overtake each other.             *)
(*                                                                         *)
(* Clients may disconnect, one client updates the weights from disk        *)
(* (update_weights_from_disk) and one pauses generation in mode "abort"    *)
(* and continues it.  rids are unique.  An exception that ends a process   *)
(* takes the server with it (`crashed').                                   *)
(***************************************************************************)
EXTENDS RWLock, Sequences, FiniteSets

CONSTANTS
    Reqs,        \* requests, each with its own rid
    Streaming,   \* those with stream = True
    Updater,     \* the coroutine that updates the weights
    MaxSteps,    \* bound: forward passes a request takes at most
    MaxRetracts, \* bound: times one request is retracted
    MaxInbox     \* bound: messages waiting for the scheduler when pausing

ASSUME TokenizerAssumption ==
    /\ IsFiniteSet(Reqs) /\ Streaming \subseteq Reqs
    /\ Updater \notin Reqs
    /\ MaxSteps \in Nat \ {0} /\ MaxRetracts \in Nat /\ MaxInbox \in Nat \ {0}

VARIABLES
    pc,             \* where generate_request of each request is
    state,          \* the ReqState object: finished, event, and whether the
                    \* last of out_list is an abort by the scheduler itself
    rid_to_state,   \* rids in the dictionary
    cleanups,       \* rids of the delayed cleanup tasks
    to_abort,       \* streams whose background abort task is yet to run
    is_pause,       \* TokenizerManager.is_pause
    pauser,         \* where pause_generation and continue_generation are
    updater,        \* where update_weights_from_disk is
    locked,         \* its lock_context is the writer lock
    to_scheduler,   \* queue to the scheduler
    to_tokenizer,   \* the scheduler's own queue to the tokenizer manager
    outputs,        \* batches of outputs, through the detokenizer
    sched,          \* the request in the scheduler: queued, in a batch, out
    to_finish,      \* requests in the scheduler whose to_finish is set
    steps,          \* forward passes each request took
    retracts,       \* times each request was retracted
    crashed         \* a process died

coroutines == <<pc, state, rid_to_state, cleanups, to_abort>>
control == <<is_pause, pauser, updater, locked>>
scheduler == <<sched, to_finish, steps, retracts>>
vars == <<lock, coroutines, control, to_scheduler, to_tokenizer, outputs,
          scheduler, crashed>>

\* Holding the reader lock.
Reading == {"tokenizing", "sent"}

NewState == [finished |-> FALSE, event |-> FALSE, rejected |-> FALSE]

TypeOK ==
    /\ readers \in 0 .. Cardinality(Reqs)
    /\ writer_active \in BOOLEAN
    /\ waiting_writers \in 0 .. 1
    /\ sleeping \subseteq Reqs \cup {Updater}
    /\ pc \in [Reqs -> {"new", "paused", "resumed", "blocked", "ended"} \cup Reading]
    /\ state \in [Reqs -> [finished : BOOLEAN, event : BOOLEAN, rejected : BOOLEAN]]
    /\ rid_to_state \subseteq Reqs
    /\ cleanups \subseteq Reqs
    /\ to_abort \subseteq Streaming
    /\ is_pause \in BOOLEAN
    /\ pauser \in {"idle", "pausing", "paused", "continued"}
    /\ updater \in {"idle", "called", "blocked", "sent", "resulted", "done"}
    /\ locked \in BOOLEAN
    /\ sched \in [Reqs -> {"out", "waiting", "running", "finished"}]
    /\ to_finish \subseteq Reqs
    /\ steps \in [Reqs -> 0 .. MaxSteps]
    /\ retracts \in [Reqs -> 0 .. MaxRetracts]
    /\ crashed \in BOOLEAN

Init ==
    /\ LockInit
    /\ pc = [r \in Reqs |-> "new"]
    /\ state = [r \in Reqs |-> NewState]
    /\ rid_to_state = {} /\ cleanups = {} /\ to_abort = {}
    /\ is_pause = FALSE /\ pauser = "idle"
    /\ updater = "idle" /\ locked = FALSE
    /\ to_scheduler = <<>> /\ to_tokenizer = <<>> /\ outputs = <<>>
    /\ sched = [r \in Reqs |-> "out"]
    /\ to_finish = {}
    /\ steps = [r \in Reqs |-> 0]
    /\ retracts = [r \in Reqs |-> 0]
    /\ crashed = FALSE

AbortOf(rids) == [op |-> "abort", rids |-> rids]

\* abort_request(rid) drops aborts of rids it does not know.
abort_request(r) ==
    to_scheduler' = IF r \in rid_to_state THEN Append(to_scheduler, AbortOf({r}))
                    ELSE to_scheduler

----------------------------------------------------------------------------
(* generate_request.                                                       *)

\* `async with model_update_lock.reader_lock'.
AcquireReader(r) ==
    \/ ReaderEnters /\ pc' = [pc EXCEPT ![r] = "tokenizing"]
    \/ ReaderSleeps(r) /\ pc' = [pc EXCEPT ![r] = "blocked"]

\* The request arrives, or wakes up in is_pause_cond.wait_for: it waits while
\* the engine is paused, else it goes on to the reader lock.
Enter(r) ==
    /\ pc[r] \in {"new", "resumed"}
    /\ IF is_pause
       THEN pc' = [pc EXCEPT ![r] = "paused"] /\ UNCHANGED lock
       ELSE AcquireReader(r)
    /\ UNCHANGED <<state, rid_to_state, cleanups, to_abort, control, to_scheduler,
                   to_tokenizer, outputs, scheduler, crashed>>

\* A notified reader tries again.
RetryReader(r) ==
    /\ pc[r] = "blocked" /\ r \notin sleeping
    /\ AcquireReader(r)
    /\ UNCHANGED <<state, rid_to_state, cleanups, to_abort, control, to_scheduler,
                   to_tokenizer, outputs, scheduler, crashed>>

\* _tokenize_one_request done, _send_one_request.
Send(r) ==
    /\ pc[r] = "tokenizing"
    /\ pc' = [pc EXCEPT ![r] = "sent"]
    /\ state' = [state EXCEPT ![r] = NewState]
    /\ rid_to_state' = rid_to_state \cup {r}
    /\ to_scheduler' = Append(to_scheduler, [op |-> "req", rid |-> r])
    /\ UNCHANGED <<lock, cleanups, to_abort, control, to_tokenizer, outputs,
                   scheduler, crashed>>

\* The coroutine ends, with an answer or an exception, and leaves the reader
\* lock; a stream's response then runs its background abort task, which has
\* nothing to do when the request was never sent.
Ends(r) ==
    /\ pc' = [pc EXCEPT ![r] = "ended"]
    /\ to_abort' = to_abort \cup ({r} \cap Streaming \cap rid_to_state)
    /\ release_reader

\* _tokenize_one_request raises: the input is invalid.
TokenizeFails(r) ==
    /\ pc[r] = "tokenizing"
    /\ Ends(r)
    /\ UNCHANGED <<state, rid_to_state, cleanups, control, to_scheduler,
                   to_tokenizer, outputs, scheduler, crashed>>

\* _wait_one_response wakes to the final output.  An abort made by the
\* scheduler itself (status 503) removes the state.
Answer(r) ==
    /\ pc[r] = "sent" /\ state[r].event /\ state[r].finished
    /\ Ends(r)
    /\ rid_to_state' = IF state[r].rejected THEN rid_to_state \ {r} ELSE rid_to_state
    /\ UNCHANGED <<state, cleanups, control, to_scheduler, to_tokenizer, outputs,
                   scheduler, crashed>>

\* ... or to an intermediate one, which it takes, and waits again.
TakeChunk(r) ==
    /\ pc[r] = "sent" /\ state[r].event /\ ~state[r].finished
    /\ state' = [state EXCEPT ![r] = NewState]
    /\ UNCHANGED <<lock, pc, rid_to_state, cleanups, to_abort, control,
                   to_scheduler, to_tokenizer, outputs, scheduler, crashed>>

\* The client is gone.  Without streaming the wait notices it (type 1 and
\* type 3), aborts the request and raises.
Disconnect(r) ==
    /\ pc[r] = "sent" /\ r \notin Streaming
    /\ abort_request(r)
    /\ Ends(r)
    /\ UNCHANGED <<state, rid_to_state, cleanups, control, to_tokenizer, outputs,
                   scheduler, crashed>>

\* A stream is cancelled wherever it waits; its background task aborts later.
CancelStream(r) ==
    /\ r \in Streaming
    /\ \/ pc[r] \in Reading /\ Ends(r)
       \/ /\ pc[r] \in {"paused", "resumed", "blocked"}
          /\ pc' = [pc EXCEPT ![r] = "ended"]
          /\ sleeping' = sleeping \ {r}
          /\ UNCHANGED <<to_abort, readers, writer_active, waiting_writers>>
    /\ UNCHANGED <<state, rid_to_state, cleanups, control, to_scheduler,
                   to_tokenizer, outputs, scheduler, crashed>>

\* create_abort_task: two seconds after the stream ended, however it ended.
BackgroundAbort(r) ==
    /\ r \in to_abort
    /\ to_abort' = to_abort \ {r}
    /\ abort_request(r)
    /\ UNCHANGED <<lock, pc, state, rid_to_state, cleanups, control, to_tokenizer,
                   outputs, scheduler, crashed>>

----------------------------------------------------------------------------
(* handle_loop and the cleanup tasks.                                      *)

\* Mutant of Ignored: an output for a finished request is handled.
IgnoredUnknown == Reqs \ rid_to_state

\* Outputs of unknown and of finished requests are skipped.
Ignored == {r \in Reqs : r \notin rid_to_state \/ state[r].finished}

\* _handle_batch_output, for a batch out of outputs, rid -> kind.
HandleBatchOutput ==
    /\ outputs # <<>>
    /\ outputs' = Tail(outputs)
    /\ LET out == Head(outputs)
           taken == DOMAIN out \ Ignored
       IN  /\ state' = [r \in Reqs |->
                 IF r \in taken
                 THEN [finished |-> out[r] = "final", event |-> TRUE, rejected |-> FALSE]
                 ELSE state[r]]
           /\ cleanups' = cleanups \cup {r \in taken : out[r] = "final"}
    /\ UNCHANGED <<lock, pc, rid_to_state, to_abort, control, to_scheduler,
                   to_tokenizer, scheduler, crashed>>

\* cleanup(rid), tokenizer_state_cleanup_delay_s later.
Cleanup(r) ==
    /\ r \in cleanups
    /\ cleanups' = cleanups \ {r}
    /\ rid_to_state' = rid_to_state \ {r}
    /\ UNCHANGED <<lock, pc, state, to_abort, control, to_scheduler, to_tokenizer,
                   outputs, scheduler, crashed>>

\* _handle_abort_req: a queued request was dropped by the scheduler, because
\* it was told to ("abort") or for its own reasons ("reject").  A rid that is
\* not in rid_to_state is a KeyError, which ends the process.
HandleAbortReq ==
    /\ to_tokenizer # <<>> /\ Head(to_tokenizer).op # "updated"
    /\ to_tokenizer' = Tail(to_tokenizer)
    /\ LET r == Head(to_tokenizer).rid
       IN  IF r \in rid_to_state
           THEN /\ state' = [state EXCEPT ![r] =
                     [finished |-> TRUE, event |-> TRUE,
                      rejected |-> Head(to_tokenizer).op = "reject"]]
                /\ UNCHANGED crashed
           ELSE crashed' = TRUE /\ UNCHANGED state
    /\ UNCHANGED <<lock, pc, rid_to_state, cleanups, to_abort, control, to_scheduler,
                   outputs, scheduler>>

\* _handle_update_weights_from_disk_req_output sets the future's result.
HandleUpdateResult ==
    /\ to_tokenizer # <<>> /\ Head(to_tokenizer).op = "updated"
    /\ to_tokenizer' = Tail(to_tokenizer)
    /\ updater' = "resulted"
    /\ UNCHANGED <<lock, coroutines, is_pause, pauser, locked, to_scheduler, outputs,
                   scheduler, crashed>>

----------------------------------------------------------------------------
(* update_weights_from_disk, pause_generation and continue_generation.     *)

\* The call, which may first abort all requests.
CallUpdate(abort_all) ==
    /\ updater = "idle"
    /\ updater' = "called"
    /\ to_scheduler' = IF abort_all THEN Append(to_scheduler, AbortOf(Reqs))
                       ELSE to_scheduler
    /\ UNCHANGED <<lock, coroutines, is_pause, pauser, locked, to_tokenizer, outputs,
                   scheduler, crashed>>

SendUpdate ==
    /\ updater' = "sent"
    /\ to_scheduler' = Append(to_scheduler, [op |-> "update"])

\* acquire_writer, on the call (queued = 0) or woken (queued = 1).
AcquireWriter(queued) ==
    \/ WriterEnters(queued) /\ SendUpdate
    \/ /\ WriterSleeps(Updater, queued)
       /\ updater' = "blocked"
       /\ UNCHANGED to_scheduler

\* is_pause_cond is free unless pause_generation holds it through its loop.
\* When the engine is paused no lock is taken.
BeginUpdate ==
    /\ updater = "called" /\ pauser # "pausing"
    /\ locked' = ~is_pause
    /\ IF is_pause THEN SendUpdate /\ UNCHANGED lock ELSE AcquireWriter(0)
    /\ UNCHANGED <<coroutines, is_pause, pauser, to_tokenizer, outputs, scheduler,
                   crashed>>

RetryWriter ==
    /\ updater = "blocked" /\ Updater \notin sleeping
    /\ AcquireWriter(1)
    /\ UNCHANGED <<coroutines, is_pause, pauser, locked, to_tokenizer, outputs,
                   scheduler, crashed>>

EndUpdate ==
    /\ updater = "resulted"
    /\ updater' = "done"
    /\ IF locked THEN release_writer ELSE UNCHANGED lock
    /\ UNCHANGED <<coroutines, is_pause, pauser, locked, to_scheduler, to_tokenizer,
                   outputs, scheduler, crashed>>

\* Mutant of PauseGeneration: requests are on-going while they have a state.
PauseWhileTracked ==
    /\ pauser \in {"idle", "pausing"}
    /\ Len(to_scheduler) < MaxInbox
    /\ is_pause' = TRUE
    /\ to_scheduler' = Append(to_scheduler, AbortOf(Reqs))
    /\ pauser' = IF rid_to_state # {} THEN "pausing" ELSE "paused"
    /\ UNCHANGED <<lock, coroutines, updater, locked, to_tokenizer, outputs,
                   scheduler, crashed>>

\* pause_generation in mode "abort": abort everything, and again every second
\* until the lock is free.
PauseGeneration ==
    /\ pauser \in {"idle", "pausing"}
    /\ Len(to_scheduler) < MaxInbox
    /\ is_pause' = TRUE
    /\ to_scheduler' = Append(to_scheduler, AbortOf(Reqs))
    /\ pauser' = IF is_locked THEN "pausing" ELSE "paused"
    /\ UNCHANGED <<lock, coroutines, updater, locked, to_tokenizer, outputs,
                   scheduler, crashed>>

\* continue_generation wakes the requests that wait in is_pause_cond.
ContinueGeneration ==
    /\ pauser = "paused"
    /\ pauser' = "continued"
    /\ is_pause' = FALSE
    /\ pc' = [r \in Reqs |-> IF pc[r] = "paused" THEN "resumed" ELSE pc[r]]
    /\ UNCHANGED <<lock, state, rid_to_state, cleanups, to_abort, updater, locked,
                   to_scheduler, to_tokenizer, outputs, scheduler, crashed>>

----------------------------------------------------------------------------
(* The scheduler process.                                                  *)

Queued == {r \in Reqs : sched[r] = "waiting"}
Running == {r \in Reqs : sched[r] = "running"}

\* The orders in which messages about the requests R may be sent.
Orders(R) ==
    {q \in [1 .. Cardinality(R) -> R] : \A i, j \in DOMAIN q : q[i] = q[j] => i = j}

Dropped(q, op) == [i \in DOMAIN q |-> [op |-> op, rid |-> q[i]]]

\* Mutant of Popped: an aborted request stays in the waiting queue.
PoppedNone(R) == sched

\* The waiting queue without R.
Popped(R) == [r \in Reqs |-> IF r \in R THEN "out" ELSE sched[r]]

\* handle_generate_request: queued, or refused because the queue is full.
ReceiveRequest(r) ==
    /\ \/ sched' = [sched EXCEPT ![r] = "waiting"] /\ UNCHANGED to_tokenizer
       \/ /\ to_tokenizer' = to_tokenizer \o Dropped(<<r>>, "reject")
          /\ UNCHANGED sched
    /\ UNCHANGED <<to_finish, crashed>>

\* Scheduler.abort_request: queued requests leave at once and are reported,
\* those in a batch will finish with their next forward pass.
ReceiveAbort(rids) ==
    /\ \E q \in Orders(Queued \cap rids) :
          to_tokenizer' = to_tokenizer \o Dropped(q, "abort")
    /\ sched' = Popped(Queued \cap rids)
    /\ to_finish' = (to_finish \ (Queued \cap rids)) \cup (Running \cap rids)
    /\ UNCHANGED crashed

\* update_weights_from_disk: after a successful update the cache is flushed,
\* which the scheduler asserts to succeed; flush_cache refuses while a batch
\* holds a request, also one that has just finished.
ReceiveUpdate ==
    /\ \/ /\ \A r \in Reqs : sched[r] \in {"out", "waiting"}
          /\ to_tokenizer' = Append(to_tokenizer, [op |-> "updated"])
          /\ UNCHANGED crashed
       \/ /\ \E r \in Reqs : sched[r] \in {"running", "finished"}
          /\ crashed' = TRUE
          /\ UNCHANGED to_tokenizer
    /\ UNCHANGED <<sched, to_finish>>

\* The update fails before anything is flushed.
ReceiveBadUpdate ==
    /\ to_tokenizer' = Append(to_tokenizer, [op |-> "updated"])
    /\ UNCHANGED <<sched, to_finish, crashed>>

\* process_input_requests, one message at a time.
Receive ==
    /\ to_scheduler # <<>>
    /\ to_scheduler' = Tail(to_scheduler)
    /\ LET m == Head(to_scheduler)
       IN  \/ m.op = "req" /\ ReceiveRequest(m.rid)
           \/ m.op = "abort" /\ ReceiveAbort(m.rids)
           \/ m.op = "update" /\ (ReceiveUpdate \/ ReceiveBadUpdate)
    /\ UNCHANGED <<lock, coroutines, control, outputs, steps, retracts>>

\* _abort_on_queued_timeout.
QueueTimeout(r) ==
    /\ sched[r] = "waiting"
    /\ sched' = Popped({r})
    /\ to_finish' = to_finish \ {r}
    /\ to_tokenizer' = to_tokenizer \o Dropped(<<r>>, "reject")
    /\ UNCHANGED <<lock, coroutines, control, to_scheduler, outputs, steps, retracts,
                   crashed>>

\* The batches get_next_batch_to_run may choose, <<run, retracted>>: queued
\* requests, else the running ones but those retracted for lack of memory.
Batches ==
    {<<ran, {}>> : ran \in (SUBSET Queued) \ {{}}}
      \cup {<<Running \ back, back>> :
              back \in {R \in SUBSET Running :
                           /\ R = Running => Queued = {} /\ R = {}
                           /\ \A r \in R : retracts[r] < MaxRetracts}}

\* What a forward pass may bring the requests that ran.  An aborted request
\* ends with it; in the code one that is prefilled in chunks does so with the
\* last of them.
Results(ran) ==
    {out \in [ran -> {"none", "chunk", "final"}] :
        \A r \in ran : r \in to_finish \/ steps[r] + 1 = MaxSteps => out[r] = "final"}

\* One iteration of the loop: finished requests leave their batch, the next
\* batch runs, its results are processed and streamed out.
RunBatch ==
    /\ \E r \in Reqs : sched[r] # "out"
    /\ \E b \in Batches : \E out \in Results(b[1]) :
         LET streamed == {r \in b[1] : out[r] # "none"}
             final == {r \in b[1] : out[r] = "final"}
         IN  /\ sched' = [r \in Reqs |->
                   IF r \in final THEN "finished"
                   ELSE IF r \in b[1] THEN "running"
                   ELSE IF r \in b[2] THEN "waiting"
                   ELSE IF sched[r] = "finished" THEN "out" ELSE sched[r]]
             /\ to_finish' = to_finish \ final
             /\ steps' = [r \in Reqs |-> IF r \in final THEN 0
                                          ELSE IF r \in b[1] THEN steps[r] + 1
                                          ELSE steps[r]]
             /\ retracts' = [r \in Reqs |-> IF r \in final THEN 0
                                             ELSE IF r \in b[2] THEN retracts[r] + 1
                                             ELSE retracts[r]]
             /\ outputs' = IF streamed = {} THEN outputs
                           ELSE Append(outputs, [r \in streamed |-> out[r]])
    /\ UNCHANGED <<lock, coroutines, control, to_scheduler, to_tokenizer, crashed>>

----------------------------------------------------------------------------

Step(r) == Enter(r) \/ RetryReader(r) \/ Send(r) \/ TokenizeFails(r)
           \/ Answer(r) \/ TakeChunk(r)

Next ==
    /\ ~crashed
    /\ \/ \E r \in Reqs : \/ Step(r)
                          \/ Disconnect(r)
                          \/ CancelStream(r)
                          \/ BackgroundAbort(r)
                          \/ Cleanup(r)
                          \/ QueueTimeout(r)
       \/ HandleBatchOutput \/ HandleAbortReq \/ HandleUpdateResult
       \/ \E abort_all \in BOOLEAN : CallUpdate(abort_all)
       \/ BeginUpdate \/ RetryWriter \/ EndUpdate
       \/ PauseGeneration \/ ContinueGeneration
       \/ Receive \/ RunBatch

Spec == Init /\ [][Next]_vars

\* The event loop runs every coroutine that can run and reads its socket, and
\* the scheduler keeps iterating; clients need not do anything.
Fairness ==
    /\ \A r \in Reqs : WF_vars(~crashed /\ pc[r] # "new" /\ Step(r))
    /\ WF_vars(~crashed /\ (HandleBatchOutput \/ HandleAbortReq \/ HandleUpdateResult))
    /\ WF_vars(~crashed /\ (BeginUpdate \/ RetryWriter \/ EndUpdate))
    /\ WF_vars(~crashed /\ pauser = "pausing" /\ PauseGeneration)
    /\ WF_vars(~crashed /\ Receive)
    /\ WF_vars(~crashed /\ RunBatch)

FairSpec == Spec /\ Fairness

----------------------------------------------------------------------------
(* Properties.                                                             *)

\* An update sent under the writer lock never meets a request whose client
\* still waits for an answer: no answer mixes the old and the new weights
\* (RWLock, generate_request, update_weights_from_disk).
UpdateExcludesAnswers ==
    updater \in {"sent", "resulted"} /\ locked =>
        \A r \in Reqs : pc[r] \notin Reading

\* An abort the scheduler reports finds its state: _handle_abort_req looks the
\* rid up without a default, and a KeyError there ends the server, whatever
\* disconnects, cleanups and rejections happened in between.
AbortFindsState ==
    \A i \in DOMAIN to_tokenizer :
        to_tokenizer[i].op # "updated" => to_tokenizer[i].rid \in rid_to_state

\* A request in the scheduler still has its state, so that its outputs can be
\* delivered and it can be aborted (the cleanup tasks, _wait_one_response).
OwnedByState == \A r \in Reqs : sched[r] \in {"waiting", "running"} => r \in rid_to_state

\* Every request that arrived ends: with its answer, an error or because its
\* client left, unless the engine stays paused or the server died; neither a
\* reordered abort nor the lock leaves it waiting.
EveryRequestEnds ==
    \A r \in Reqs : []<>(\/ pc[r] \in {"new", "ended"}
                         \/ is_pause \/ crashed)

\* A weight update that was called returns: readers leave, later ones wait
\* behind it, and pause_generation does not keep it out for good.
UpdateEnds == updater = "called" ~> updater = "done" \/ crashed

\* pause_generation in mode "abort" returns.
PauseEnds == pauser = "pausing" ~> pauser = "paused" \/ crashed

\* The assertion of Scheduler.update_weights_from_disk: the cache can be
\* flushed after every successful update.
FlushSucceeds == ~crashed
=============================================================================
