------------------------------ MODULE DataGen ------------------------------
(***************************************************************************)
(* The data generator: it samples samples_per_question answers to every    *)
(* question of a split from a server, appends them to a jsonl file, and    *)
(* writes a copy of the file grouped by question.  Interrupted, it is      *)
(* started again and makes up what the file lacks.                         *)
(*                                                                         *)
(* One asyncio loop runs process_dataset (pc) and one process_sample task  *)
(* per answer (status); between two awaits nothing else runs.  The file is *)
(* a sequence of lines; its last line may lack its newline (open).  A line *)
(* is the record of a question, Junk (not JSON), or Split (bytes that are  *)
(* not UTF-8: a write ended inside a character).  The semaphore's FIFO     *)
(* order, progress bars and the records' other fields are left out.  The   *)
(* grouped copy is another file than the raw one, and written in one step: *)
(* a run that is cut short while grouping is one that did not group.       *)
(***************************************************************************)
EXTENDS Integers, Sequences, FiniteSets, FiniteSetsExt, SequencesExt

CONSTANTS
    NumQuestions,           \* len(samples)
    samples_per_question,
    max_concurrency,
    max_retries,
    save_batch_size,
    Tears,          \* how a write can end early, of {"torn", "split", "bare"}
    Failures,       \* can requests fail?
    MaxRuns,        \* bound: how often the program is started
    Junk, Split, NoFile

ASSUME DataGenAssumption ==
    /\ NumQuestions \in Nat /\ samples_per_question \in Nat
    /\ max_concurrency \in Nat \ {0} /\ max_retries \in Nat
    /\ save_batch_size \in Nat \ {0}
    /\ Tears \subseteq {"torn", "split", "bare"} /\ Failures \in BOOLEAN
    /\ MaxRuns \in Nat \ {0}
    /\ {Junk, Split, NoFile} \cap Nat = {} /\ Junk # Split

Questions == 1 .. NumQuestions
Tasks == Questions \X (1 .. samples_per_question)
max_buffer == 2 * max_concurrency

VARIABLES
    lines, open,    \* the raw jsonl file
    grouped,        \* the grouped copy: question -> records, or NoFile
    needed,         \* question -> tasks that task_generator has yet to yield
    status,         \* task -> "none", "wait", "call", "sleep", "ok", "failed"
    attempt,        \* task -> retries so far
    pending,        \* process_dataset's pending
    done,           \* process_dataset's done, without the tasks handled
    batch,          \* results not yet saved, as their questions
    pc,             \* where process_dataset is
    lost,           \* an answer of this run failed or was not saved
    runs            \* how often the program was started

file == <<lines, open>>
taskVars == <<status, attempt>>
mainVars == <<needed, pending, done, batch, pc>>
vars == <<file, grouped, taskVars, mainVars, lost, runs>>

TypeOK ==
    /\ lines \in Seq(Questions \cup {Junk, Split}) /\ open \in BOOLEAN
    /\ open => lines # <<>>
    /\ grouped \in [Questions -> Nat] \cup {NoFile}
    /\ needed \in [Questions -> 0 .. samples_per_question]
    /\ status \in [Tasks -> {"none", "wait", "call", "sleep", "ok", "failed"}]
    /\ attempt \in [Tasks -> 0 .. max_retries]
    /\ pending \subseteq Tasks /\ done \subseteq Tasks
    /\ pending \cup done = {t \in Tasks : status[t] # "none"}
    /\ batch \in Seq(Questions) /\ Len(batch) <= save_batch_size
    /\ pc \in {"start", "wait", "handle", "save", "flush", "group", "done"}
    /\ lost \in BOOLEAN
    /\ runs \in 0 .. MaxRuns

Idle == [t \in Tasks |-> "none"]
NoTries == [t \in Tasks |-> 0]

Init ==
    /\ lines = <<>> /\ open = FALSE
    /\ grouped = NoFile
    /\ needed = [q \in Questions |-> 0]
    /\ status = Idle /\ attempt = NoTries
    /\ pending = {} /\ done = {} /\ batch = <<>>
    /\ pc = "start"
    /\ lost = FALSE
    /\ runs = 1

----------------------------------------------------------------------------
(* The file.                                                               *)

Count(s, q) == Cardinality({i \in 1 .. Len(s) : s[i] = q})

Spoiled(x, y) == IF Split \in {x, y} THEN Split ELSE Junk

\* The lines once s was written: s starts on the last line if that is open.
Written(s) ==
    IF s = <<>> THEN lines
    ELSE IF open THEN Front(lines) \o <<Spoiled(Last(lines), Head(s))>> \o Tail(s)
    ELSE lines \o s

\* What a write of batch that ends early may leave: some lines, perhaps the
\* beginning of the next one, or all of it but the newline.
Torn ==
    {<<Written(SubSeq(batch, 1, k)), open /\ k = 0>> : k \in 0 .. Len(batch)}
      \cup UNION {LET s == SubSeq(batch, 1, k - 1)
                  IN  {<<Written(Append(s, x)), TRUE>> :
                         x \in {CASE c = "torn"  -> Junk
                                  [] c = "split" -> Split
                                  [] c = "bare"  -> batch[k] : c \in Tears}}
                  : k \in 1 .. Len(batch)}

\* Where reading stops: at the first line that cannot be decoded.
Readable ==
    IF \E i \in 1 .. Len(lines) : lines[i] = Split
    THEN Min({i \in 1 .. Len(lines) : lines[i] = Split}) - 1
    ELSE Len(lines)

\* How many lines load_existing_data sees.  Text is decoded in blocks: bytes
\* that are not UTF-8 also hide the lines before them in their block, unless
\* they end the file.
LinesSeen ==
    IF Readable = Len(lines) \/ (open /\ Readable = Len(lines) - 1)
    THEN {Readable} ELSE 0 .. Readable

----------------------------------------------------------------------------
(* task_generator and the buffer of tasks.                                 *)

\* task_generator yields the tasks question by question.
Yields(todo) == {t \in Tasks : t[2] <= todo[t[1]]}
Before(t, u) == t[1] < u[1] \/ (t[1] = u[1] /\ t[2] > u[2])
FirstTasks(todo, n) ==
    {t \in Yields(todo) : Cardinality({u \in Yields(todo) : Before(u, t)}) < n}

\* n calls of next(task_gen), each result a task.
CreateTasks(todo, live, st, n) ==
    LET new == FirstTasks(todo, n)
    IN  /\ needed' = [q \in Questions |->
                        todo[q] - Cardinality({t \in new : t[1] = q})]
        /\ pending' = live \cup new
        /\ status' = [t \in Tasks |-> IF t \in new THEN "wait" ELSE st[t]]
        /\ attempt' = [t \in Tasks |-> IF t \in new THEN 0 ELSE attempt[t]]

\* Mutant of refill_limit: the tasks of done are taken to be pending still.
RefillBehind == max_concurrency - Cardinality(pending \cup done)

refill_limit == Min({100, max_buffer - Cardinality(pending)})

\* Mutant of Continue: what is left of the batch is not saved.
ContinueNoFlush(live, more, results) ==
    IF more # {} THEN "handle" ELSE IF live # {} THEN "wait" ELSE "group"

\* Mutant of Continue: the loop waits for tasks when there are none.
ContinueForever(live, more, results) ==
    IF more # {} THEN "handle" ELSE "wait"

\* Where the loop goes next: the rest of done, the next wait, or its end.
Continue(live, more, results) ==
    IF more # {} THEN "handle"
    ELSE IF live # {} THEN "wait"
    ELSE IF results # <<>> THEN "flush" ELSE "group"

----------------------------------------------------------------------------
(* main and process_dataset.                                               *)

\* Mutant of Missing: the file is not looked at.
MissingAll(k) == [q \in Questions |-> samples_per_question]

\* What load_existing_data and task_generator make of the first k lines.
Missing(k) ==
    [q \in Questions |->
        Max({0, samples_per_question - Count(SubSeq(lines, 1, k), q)})]

Load ==
    /\ pc = "start"
    /\ \E k \in LinesSeen :
         CreateTasks(Missing(k), {}, Idle, Min({max_buffer, max_concurrency}))
    /\ pc' = Continue(pending', {}, <<>>)
    /\ lost' = FALSE
    /\ UNCHANGED <<file, grouped, done, batch, runs>>

\* asyncio.wait returns.
Wait ==
    LET over == {t \in pending : status[t] \in {"ok", "failed"}}
    IN  /\ pc = "wait"
        /\ over # {}
        /\ done' = over
        /\ pending' = pending \ over
        /\ pc' = "handle"
        /\ UNCHANGED <<file, grouped, taskVars, needed, batch, lost, runs>>

\* The result of a task is put in the batch; the buffer is refilled, after
\* the batch was saved if it is full.
Handle(t) ==
    LET results == IF status[t] = "ok" THEN Append(batch, t[1]) ELSE batch
        st == [status EXCEPT ![t] = "none"]
    IN  /\ pc = "handle"
        /\ t \in done
        /\ batch' = results
        /\ done' = done \ {t}
        /\ IF status[t] = "ok" /\ Len(results) >= save_batch_size
           THEN /\ pc' = "save"
                /\ status' = st
                /\ UNCHANGED <<needed, pending, attempt>>
           ELSE /\ CreateTasks(needed, pending, st, refill_limit)
                /\ pc' = Continue(pending', done', results)
        /\ UNCHANGED <<file, grouped, lost, runs>>

\* process_dataset after save_batch returned.
Resume ==
    /\ batch' = <<>>
    /\ IF pc = "save"
       THEN /\ CreateTasks(needed, pending, status, refill_limit)
            /\ pc' = Continue(pending', done, <<>>)
       ELSE /\ pc' = "group"
            /\ UNCHANGED <<needed, pending, taskVars>>
    /\ UNCHANGED <<grouped, done, runs>>

\* save_batch, written by a thread while the tasks go on ...
Save ==
    /\ pc \in {"save", "flush"}
    /\ lines' = Written(batch)
    /\ open' = FALSE
    /\ lost' = (lost \/ open)
    /\ Resume

\* ... and with an exception, which is logged: the batch is gone all the same.
SaveFails ==
    /\ pc \in {"save", "flush"}
    /\ Failures
    /\ \E w \in Torn : lines' = w[1] /\ open' = w[2]
    /\ lost' = TRUE
    /\ Resume

\* group_shuffle_jsonl_by_index, which raises when it cannot decode the file.
Group ==
    /\ pc = "group"
    /\ grouped' = IF lines = <<>> \/ Readable < Len(lines) THEN grouped
                  ELSE [q \in Questions |-> Count(lines, q)]
    /\ pc' = "done"
    /\ UNCHANGED <<file, taskVars, needed, pending, done, batch, lost, runs>>

----------------------------------------------------------------------------
(* process_sample.                                                         *)

\* The tasks that hold the semaphore: the backoff sleep is inside it.
Holders == {t \in Tasks : status[t] \in {"call", "sleep"}}

Step(t, from, to) ==
    /\ status[t] = from
    /\ status' = [status EXCEPT ![t] = to]
    /\ UNCHANGED <<file, grouped, mainVars, lost, runs>>

Acquire(t) ==
    /\ Cardinality(Holders) < max_concurrency
    /\ Step(t, "wait", "call")
    /\ UNCHANGED attempt

Answer(t) == Step(t, "call", "ok") /\ UNCHANGED attempt

\* Mutant of MayRetry: one attempt too many.
MayRetryOnceMore(t) == attempt[t] <= max_retries

MayRetry(t) == attempt[t] < max_retries

\* The request fails: for good, or (_should_retry) it is worth another try.
Fail(t) ==
    /\ Failures
    /\ status[t] = "call"
    /\ \/ status' = [status EXCEPT ![t] = "failed"]
       \/ MayRetry(t) /\ status' = [status EXCEPT ![t] = "sleep"]
    /\ lost' = (lost \/ status'[t] = "failed")
    /\ UNCHANGED <<file, grouped, attempt, mainVars, runs>>

\* The sleep ends, the semaphore is released and the next attempt begins.
Retry(t) ==
    /\ Step(t, "sleep", "wait")
    /\ attempt' = [attempt EXCEPT ![t] = attempt[t] + 1]

----------------------------------------------------------------------------

\* The process ends, killed, interrupted or finished, and is started again.
Crash ==
    /\ runs < MaxRuns
    /\ pc # "start"
    /\ IF pc \in {"save", "flush"}
       THEN \E w \in Torn : lines' = w[1] /\ open' = w[2]
       ELSE UNCHANGED file
    /\ needed' = [q \in Questions |-> 0]
    /\ status' = Idle /\ attempt' = NoTries
    /\ pending' = {} /\ done' = {} /\ batch' = <<>>
    /\ pc' = "start"
    /\ runs' = runs + 1
    /\ UNCHANGED <<grouped, lost>>

Main == Load \/ Wait \/ (\E t \in Tasks : Handle(t)) \/ Save \/ SaveFails \/ Group

TaskStep(t) == Acquire(t) \/ Answer(t) \/ Fail(t) \/ Retry(t)

Next == Main \/ (\E t \in Tasks : TaskStep(t)) \/ Crash

\* The event loop runs what can run, and every request ends (request_timeout).
Fairness == WF_vars(Main) /\ \A t \in Tasks : WF_vars(TaskStep(t))

Spec == Init /\ [][Next]_vars /\ Fairness

----------------------------------------------------------------------------
(* Properties.                                                             *)

\* The answers to q that are saved, about to be, or on their way.
Saved(q) == Count(lines, q)
Coming(q) ==
    Count(batch, q) + needed[q]
      + Cardinality({t \in pending \cup done : t[1] = q})

\* However often the program is interrupted and started again, and whatever an
\* interrupted write left, no question gets more than samples_per_question
\* answers, counting those that are still on their way.
NeverTooMany == \A q \in Questions : Saved(q) + Coming(q) <= samples_per_question

\* No answer falls between the task, the batch and the file: unless a request
\* or a save failed in this run, or the file it was given ended in mid-line,
\* the run ends with every answer in the file and in its grouped copy.
NothingLost ==
    pc = "done" /\ ~lost =>
        \A q \in Questions :
            /\ Saved(q) = samples_per_question
            /\ samples_per_question > 0 => grouped[q] = samples_per_question

\* The loop never waits with fewer tasks than can run at a time while there are
\* questions left, and never has more than max_buffer of them pending.
Saturated ==
    /\ Cardinality(pending) <= max_buffer
    /\ pc = "wait" /\ Yields(needed) # {} => Cardinality(pending) >= max_concurrency

\* Every run that is not interrupted ends, and leaves nothing running: retries
\* are bounded, and no task waits for the semaphore or the loop for a task for ever.
RunEnds == <>[](pc = "done")

\* load_existing_data "scans existing output file to count processed samples":
\* no more is generated than the records in the file leave to do.
CountsProcessed ==
    [][pc = "start" /\ pc' # "start" =>
         \A q \in Questions :
            needed'[q] + Cardinality({t \in pending' : t[1] = q})
              <= Max({0, samples_per_question - Saved(q)})]_vars
=============================================================================
