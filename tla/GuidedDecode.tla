--------------------------- MODULE GuidedDecode ---------------------------
(***************************************************************************)
(* A generation server with LenVM guidance: the scheduler's loops          *)
(* (event_loop_normal, event_loop_overlap), the batches they form, and the *)
(* sampler that asks the in-process LenVM (LvmPrefixStore) about the       *)
(* prefixes of the batch before it samples.  Everything runs in one        *)
(* thread; `loop' says where the loop is:                                  *)
(*    "recv"     messages are taken, then a batch is formed;               *)
(*    "run"      the batch's forward pass and LvmGuidedSampler.apply;      *)
(*    "process"  a result is applied to its requests.                      *)
(* With overlap, the result processed is the one of the batch before.      *)
(*                                                                         *)
(* The main model's memory is not modelled: which requests are admitted    *)
(* and which are retracted is any choice the code could make.  Mixed       *)
(* chunks, speculation, grammars (delayed sampling), preemption by         *)
(* priority and disaggregation are off, as in the project's scripts.       *)
(***************************************************************************)
EXTENDS LvmPrefixStore

CONSTANTS
    Overlaps,   \* the values of enable_overlap (not --disable-overlap-schedule)
    Prompts,    \* the values of origin_input_ids
    Stops,      \* stop tokens
    MaxNew,     \* sampling_params.max_new_tokens
    MaxPasses,  \* bound: most prefill passes a prompt is split into
    NoReq       \* chunked_req is None

ASSUME DecodeAssumption ==
    /\ Overlaps \subseteq BOOLEAN
    /\ Prompts \subseteq Seq(Tokens) \ {<<>>}
    /\ Stops \subseteq Tokens
    /\ MaxNew \in Nat \ {0} /\ MaxPasses \in Nat \ {0}
    /\ NoReq \notin Rids

VARIABLES
    overlap,        \* enable_overlap: event_loop_overlap runs
    prompt,         \* Req.origin_input_ids, <<>> before the request arrives
    output_ids,     \* Req.output_ids
    lvm_prefix,     \* Req._lvm_prefix_cache["prefix"], <<>> when there is none
    finished,       \* requests with a finished_reason
    to_finish,      \* requests an abort has marked
    is_retracted,   \* requests whose Req.is_retracted is set
    is_chunked,     \* Req.is_chunked
    waiting_queue,  \* requests to prefill
    running_batch,  \* requests that decode
    chunked_req,    \* the request whose prefill is split, or NoReq
    chunks_left,    \* prefill passes that request still needs
    cur_batch,      \* the batch of this iteration
    last_batch,     \* the batch of the iteration before
    result_queue,   \* results not yet processed, oldest first
    loop

reqVars == <<prompt, output_ids, lvm_prefix, finished, to_finish,
             is_retracted, is_chunked>>
schedVars == <<waiting_queue, running_batch, chunked_req, chunks_left>>
vars == <<overlap, storeVars, reqVars, schedVars, cur_batch, last_batch, result_queue,
          loop>>

\* A batch: its requests, whether it is an extend (prefill) batch, and the
\* request that is not in its last prefill pass (ScheduleBatch.chunked_req).
Batches == [reqs : SUBSET Rids, extend : BOOLEAN, partial : SUBSET Rids]
NoBatch == [reqs |-> {}, extend |-> FALSE, partial |-> {}]

TypeOK ==
    /\ StoreTypeOK
    /\ overlap \in Overlaps
    /\ prompt \in [Rids -> Prompts \cup {<<>>}]
    /\ output_ids \in [Rids -> Seq(Tokens)]
    /\ lvm_prefix \in [Rids -> Seq(Tokens)]
    /\ finished \subseteq Rids /\ to_finish \subseteq Rids
    /\ is_retracted \subseteq Rids
    /\ is_chunked \in [Rids -> Nat]
    /\ waiting_queue \subseteq Rids /\ running_batch \subseteq Rids
    /\ chunked_req \in Rids \cup {NoReq} /\ chunks_left \in 0 .. MaxPasses
    /\ cur_batch \in Batches /\ last_batch \in Batches
    /\ Len(result_queue) <= 2
    /\ \A i \in 1 .. Len(result_queue) :
          /\ result_queue[i].batch \in Batches
          /\ result_queue[i].tok \in [result_queue[i].batch.reqs -> Tokens]
    /\ loop \in {"recv", "run", "process"}

Init ==
    /\ StoreInit
    /\ overlap \in Overlaps
    /\ prompt = [r \in Rids |-> <<>>]
    /\ output_ids = [r \in Rids |-> <<>>]
    /\ lvm_prefix = [r \in Rids |-> <<>>]
    /\ finished = {} /\ to_finish = {} /\ is_retracted = {}
    /\ is_chunked = [r \in Rids |-> 0]
    /\ waiting_queue = {} /\ running_batch = {}
    /\ chunked_req = NoReq /\ chunks_left = 0
    /\ cur_batch = NoBatch /\ last_batch = NoBatch
    /\ result_queue = <<>>
    /\ loop = "recv"

----------------------------------------------------------------------------
(* process_input_requests.                                                 *)

Known(r) == prompt[r] # <<>>

\* A new request; each rid is used once.
Submit(r, q) ==
    /\ loop = "recv"
    /\ ~Known(r)
    /\ prompt' = [prompt EXCEPT ![r] = q]
    /\ waiting_queue' = waiting_queue \cup {r}
    /\ UNCHANGED <<storeVars, output_ids, lvm_prefix, finished, to_finish,
                   is_retracted, is_chunked, running_batch, chunked_req,
                   chunks_left, cur_batch, last_batch, result_queue, loop>>

\* abort_request: a waiting request is dropped; one that runs, or was in the
\* batch of the last iteration, is marked and ends with its next token.
Abort(r) ==
    /\ loop = "recv"
    /\ Known(r) /\ r \notin finished
    /\ waiting_queue' = waiting_queue \ {r}
    /\ finished' = IF r \in waiting_queue THEN finished \cup {r} ELSE finished
    /\ to_finish' = IF r \in running_batch \cup cur_batch.reqs
                    THEN to_finish \cup {r} ELSE to_finish
    /\ UNCHANGED <<storeVars, prompt, output_ids, lvm_prefix, is_retracted,
                   is_chunked, running_batch, chunked_req, chunks_left,
                   cur_batch, last_batch, result_queue, loop>>

----------------------------------------------------------------------------
(* get_next_batch_to_run.                                                  *)

Chunked == IF chunked_req = NoReq THEN {} ELSE {chunked_req}

\* Mutant of Merged: the chunked request is not excluded.
MergedWithChunked ==
    IF last_batch.extend
    THEN running_batch \cup (last_batch.reqs \ finished) ELSE running_batch

\* Mutant of Merged: the last prefill batch is forgotten.
MergedNothing == running_batch

\* The running batch after the last prefill batch was merged into it.
Merged ==
    IF last_batch.extend
    THEN running_batch \cup ((last_batch.reqs \ finished)
                               \ (Chunked \cup last_batch.partial))
    ELSE running_batch

\* get_new_batch_prefill: the requests C of the waiting queue and the chunked
\* request are prefilled; afterwards the prefill of `part' is split.  Requests
\* of C are as many as fit; `new' is a request of C that did not fit whole.
Prefill(C) ==
    LET left == IF chunked_req = NoReq THEN 0 ELSE chunks_left - 1
        new(n) == {<<NoReq, 0>>} \cup {<<r, n>> : r \in C}
        parts == IF left > 0 THEN {<<chunked_req, left>>}
                 ELSE (UNION {new(n) : n \in 1 .. (MaxPasses - 1)}) \cup {<<NoReq, 0>>}
    IN  /\ loop = "recv"
        /\ C \cup Chunked # {}
        /\ running_batch' = Merged
        /\ waiting_queue' = waiting_queue \ C
        /\ is_retracted' = is_retracted \ (C \cup Chunked)
        /\ \E part \in parts :
             LET P == IF part[1] = NoReq THEN {} ELSE {part[1]}
             IN  /\ chunked_req' = part[1]
                 /\ chunks_left' = part[2]
                 /\ is_chunked' = [r \in Rids |->
                                     is_chunked[r] + (IF r \in P THEN 1 ELSE 0)]
                 /\ cur_batch' = [reqs |-> C \cup Chunked, extend |-> TRUE,
                                  partial |-> P]
        /\ loop' = "run"
        /\ UNCHANGED <<storeVars, prompt, output_ids, lvm_prefix, finished,
                       to_finish, last_batch, result_queue>>

\* update_running_batch: finished requests leave the running batch, and the
\* requests T are retracted if memory is short, but never all of them.
Decode(T) ==
    LET live == Merged \ finished
    IN  /\ loop = "recv"
        /\ chunked_req = NoReq
        /\ T \subseteq live /\ T # live
        /\ running_batch' = live \ T
        /\ waiting_queue' = waiting_queue \cup T
        /\ is_retracted' = is_retracted \cup T
        /\ is_chunked' = [r \in Rids |-> IF r \in T THEN 0 ELSE is_chunked[r]]
        /\ cur_batch' = [reqs |-> live \ T, extend |-> FALSE, partial |-> {}]
        /\ loop' = "run"
        /\ UNCHANGED <<storeVars, prompt, output_ids, lvm_prefix, finished,
                       to_finish, chunked_req, chunks_left, last_batch,
                       result_queue>>

\* There is no batch.  Requests may be waiting only when the running batch was
\* full before its last requests were found finished.
NoNextBatch ==
    /\ loop = "recv"
    /\ chunked_req = NoReq
    /\ Merged \subseteq finished
    /\ Merged = {} => waiting_queue = {}
    /\ running_batch' = {}
    /\ cur_batch' = NoBatch
    /\ loop' = "process"
    /\ UNCHANGED <<storeVars, reqVars, waiting_queue, chunked_req, chunks_left,
                   last_batch, result_queue>>

----------------------------------------------------------------------------
(* run_batch: the forward pass, guidance, and sampling.                    *)

\* Mutant of prefix_ids: what is kept with the request is taken as it is.
KeptPrefix(r) ==
    IF lvm_prefix[r] = <<>> THEN prompt[r] \o output_ids[r] ELSE lvm_prefix[r]

\* _get_prefix_ids_incremental: the tokens generated since the last call are
\* appended to the prefix kept with the request; it is rebuilt when there is
\* none or output_ids got shorter.
prefix_ids(r) ==
    LET out_len == Len(lvm_prefix[r]) - Len(prompt[r])
    IN  IF lvm_prefix[r] = <<>> \/ Len(output_ids[r]) < out_len
        THEN prompt[r] \o output_ids[r]
        ELSE lvm_prefix[r]
               \o SubSeq(output_ids[r], out_len + 1, Len(output_ids[r]))

\* apply() begins.
ApplyClean ==
    /\ loop = "run"
    /\ Clean(cur_batch.reqs)
    /\ UNCHANGED <<reqVars, schedVars, cur_batch, last_batch, result_queue, loop>>

\* The rows R of the batch are sent: they want guidance, have more than one
\* candidate and are not skipped for their entropy.
ApplyExtend(R) ==
    /\ loop = "run"
    /\ Extend([r \in R |-> prefix_ids(r)])
    /\ lvm_prefix' = [r \in Rids |-> IF r \in R THEN prefix_ids(r)
                                                ELSE lvm_prefix[r]]
    /\ UNCHANGED <<prompt, output_ids, finished, to_finish, is_retracted,
                   is_chunked, schedVars, cur_batch, last_batch, result_queue,
                   loop>>

\* One token for each request of the batch.
Sample ==
    /\ \E tok \in [cur_batch.reqs -> Tokens] :
          result_queue' = Append(result_queue, [batch |-> cur_batch, tok |-> tok])
    /\ loop' = "process"
    /\ UNCHANGED <<reqVars, schedVars, cur_batch, last_batch>>

SampleGuided == \E n \in Counts : Eval(n) /\ phase' = "idle" /\ Sample

SampleUnguided == Skip /\ Sample

\* An all-greedy batch is sampled without apply().
SampleGreedy ==
    /\ loop = "run" /\ phase = "idle"
    /\ Sample
    /\ UNCHANGED storeVars

\* An exception leaves run_batch and ends the scheduler process.
Crash ==
    /\ loop = "run"
    /\ ExtendRaises \/ \E n \in Counts : EvalRaises(n) \/ (Eval(n) /\ phase' = "dead")
    /\ UNCHANGED <<reqVars, schedVars, cur_batch, last_batch, result_queue, loop>>

----------------------------------------------------------------------------
(* process_batch_result.                                                   *)

\* Mutant of Skipped: finished and retracted requests are not passed over.
SkippedNone(res) == {}

\* The requests of a result that are passed over.
Skipped(res) ==
    IF res.batch.extend \/ overlap THEN finished \cup is_retracted ELSE {}

\* Mutant of StillChunked: is_chunked is not looked at.
NoneChunked(res) == {}

\* The others: a prefill pass that is not the last one counts down is_chunked,
StillChunked(res) ==
    {r \in res.batch.reqs \ Skipped(res) : res.batch.extend /\ is_chunked[r] > 0}

\* and everyone else gets the token.
Appended(res) == (res.batch.reqs \ Skipped(res)) \ StillChunked(res)

\* check_finished, once the token was appended.
Finishes(r, out) ==
    r \in to_finish \/ Len(out) >= MaxNew \/ out[Len(out)] \in Stops

ApplyResult(res) ==
    LET out == [r \in Rids |-> IF r \in Appended(res)
                               THEN Append(output_ids[r], res.tok[r])
                               ELSE output_ids[r]]
        done == {r \in Appended(res) : Finishes(r, out[r])}
    IN  /\ output_ids' = out
        /\ finished' = finished \cup done
        /\ to_finish' = to_finish \ done
        /\ is_chunked' = [r \in Rids |-> IF r \in StillChunked(res)
                                         THEN is_chunked[r] - 1 ELSE is_chunked[r]]

\* Mutant of ResultDue: results pile up.
ResultNeverDue == FALSE

\* Is there a result to process in this iteration?  With overlap it is the one
\* of the last iteration's batch.
ResultDue ==
    IF overlap THEN last_batch # NoBatch ELSE cur_batch # NoBatch

Process ==
    /\ loop = "process"
    /\ IF ResultDue
       THEN ApplyResult(Head(result_queue)) /\ result_queue' = Tail(result_queue)
       ELSE UNCHANGED <<output_ids, finished, to_finish, is_chunked, result_queue>>
    /\ last_batch' = cur_batch
    /\ loop' = "recv"
    /\ UNCHANGED <<storeVars, prompt, lvm_prefix, is_retracted, schedVars,
                   cur_batch>>

----------------------------------------------------------------------------

Iterate ==
    /\ \/ \E C \in SUBSET waiting_queue : Prefill(C)
       \/ \E T \in SUBSET (Merged \ finished) : Decode(T)
       \/ NoNextBatch
       \/ ApplyClean
       \/ \E R \in (SUBSET cur_batch.reqs) \ {{}} : ApplyExtend(R)
       \/ SampleGuided
       \/ SampleUnguided
       \/ SampleGreedy
       \/ Crash
       \/ Process
    /\ UNCHANGED overlap

Next ==
    \/ \E r \in Rids, q \in Prompts : Submit(r, q) /\ UNCHANGED overlap
    \/ \E r \in Rids : Abort(r) /\ UNCHANGED overlap
    \/ Iterate

\* The loop never stops by itself: every call in it returns.
Spec == Init /\ [][Next]_vars /\ WF_vars(Iterate)

----------------------------------------------------------------------------
(* Properties.                                                             *)

\* The tokens that follow the prompt of r in the main model: those appended,
\* and those sampled in results that will be appended.
InFlight(r) ==
    LET live(i) == LET b == result_queue[i].batch
                   IN  r \in b.reqs \ b.partial /\ r \notin finished \cup is_retracted
        I == {i \in 1 .. Len(result_queue) : live(i)}
    IN  IF I = {} THEN <<>>
        ELSE IF Cardinality(I) = 1
             THEN <<result_queue[CHOOSE i \in I : TRUE].tok[r]>>
             ELSE <<result_queue[1].tok[r], result_queue[2].tok[r]>>

Context(r) == prompt[r] \o output_ids[r] \o InFlight(r)

\* Candidates are valued in the context they are sampled in: when
\* eval_candidates runs, what the LenVM has cached for every request of the
\* call is the request's prompt and all tokens generated for it so far,
\* whatever retractions, aborts, chunks and skipped steps came before.
ValuedInContext ==
    phase = "extended" => \A r \in DOMAIN asked : cached[r] = Context(r)

\* The context the LenVM has cached is right as far as it goes; in
\* event_loop_normal it is whole (ValuedInContext), and with overlap it lacks
\* at most the newest token, never more.
LagsOneToken ==
    phase = "extended" =>
        \A r \in DOMAIN asked :
            \E k \in IF overlap THEN {0, 1} ELSE {0} :
                cached[r] = SubSeq(Context(r), 1, Len(Context(r)) - k)

\* A prefill pass of r is under way, or not merged into the running batch yet.
InPrefill(r) ==
    \/ chunked_req = r
    \/ LET b == IF loop = "recv" THEN last_batch ELSE cur_batch
       IN  b.extend /\ r \in b.reqs

\* No request is lost and none is scheduled twice: a request that arrived and
\* has not finished is waiting, in prefill or running, and only one of them.
ScheduledOnce ==
    \A r \in Rids : Known(r) /\ r \notin finished =>
        /\ r \in waiting_queue \/ InPrefill(r) \/ r \in running_batch
        /\ ~(r \in waiting_queue /\ (InPrefill(r) \/ r \in running_batch))
        /\ ~(InPrefill(r) /\ r \in running_batch)

\* Each pass that ends a prefill, and each decode, gives a live request one
\* token; a pass that does not end it gives none (process_batch_result_prefill
\* decides by is_chunked, which later batches have already counted up), and a
\* finished request gets no more.
OneTokenPerPass ==
    [][loop = "process" /\ ResultDue =>
         LET b == Head(result_queue).batch
         IN  \A r \in Rids :
               Len(output_ids'[r]) - Len(output_ids[r]) =
                 IF r \in (b.reqs \ b.partial) \ (finished \cup is_retracted)
                 THEN 1 ELSE 0]_vars

\* Every request that arrives finishes, unless the process dies: retraction
\* sends a request back to the queue but keeps its tokens.
EveryRequestEnds ==
    \A r \in Rids : Known(r) ~> (r \in finished \/ phase = "dead")
=============================================================================
