----------------------------- MODULE TreeServe ------------------------------
(***************************************************************************)
(* The LenVM value server (sglang launched with --is-embedding): the       *)
(* scheduler loop that batches embedding requests, long ones in chunks,    *)
(* and tree_value requests, a prefix followed by candidates that are       *)
(* valued under a tree mask.  All of them share the KV slots through the   *)
(* radix cache; only the prefix of a tree_value request may be cached.     *)
(*                                                                         *)
(* One loop iteration is a sequence of steps, in the order of the code:    *)
(* Begin (stash the chunked request, start a PrefillAdder), AddOne for     *)
(* requests of the waiting queue, Launch (evict, allocate, forward) and    *)
(* Process for the requests of the batch whose result is due.  With        *)
(* event_loop_overlap that is the batch launched one iteration earlier.    *)
(* Requests arrive and are aborted between iterations.                     *)
(***************************************************************************)
EXTENDS RadixCache

CONSTANTS
    Reqs,       \* requests (rid)
    JobChoices, \* [ids, prefix_len, bypass]; prefix_len is 0 for an embedding request
    PoolSize,   \* max_total_num_tokens
    Rows,       \* req_to_token_pool.size, also max_running_requests
    ChunkSize,  \* chunked_prefill_size
    Loops       \* the event loops to check: TRUE is event_loop_overlap

NONE == "none"
Slots == 1 .. PoolSize

\* Requests fit the pool: max_req_input_len is below max_total_num_tokens.
\* handle_embedding_request and handle_tree_value_request check it but queue a
\* request that fails the check all the same; such requests are left out.
ASSUME JobsFit ==
    \A j \in JobChoices : Len(j.ids) \in 1 .. PoolSize - 1 /\ j.prefix_len < Len(j.ids)

\* The token ids that occur.
Token == UNION {ToSet(j.ids) : j \in JobChoices}

ASSUME JobTypes == JobChoices \subseteq [ids : Seq(Token), prefix_len : Nat, bypass : BOOLEAN]

ASSUME Sizes == /\ PoolSize \in Nat \ {0} /\ Rows \in Nat \ {0} /\ ChunkSize \in Nat \ {0}
                /\ Loops \subseteq BOOLEAN

\* Requests are named apart from what else is named.
ASSUME ReqNames == IsFiniteSet(Reqs) /\ Reqs \cap {NONE, "free", "tree"} = {}

VARIABLES
    overlap,    \* the event loop in use
    pc,         \* the step of the loop iteration
    tree,       \* the radix cache
    free,       \* the allocator's free slots
    kv,         \* slot -> the tokens its entry was computed from
    rows,       \* free rows of req_to_token_pool
    req,        \* request -> its Req
    batch,      \* can_run_list
    mode,       \* tree_value_mode
    offset,     \* rem_total_token_offset
    rem_chunk,  \* rem_chunk_tokens
    full,       \* running_batch.batch_is_full
    chunked,    \* chunked_req
    last,       \* last_batch, as [reqs, chunked]
    results,    \* batches launched and not yet processed
    crashed     \* the exception that ended the scheduler

adder == <<batch, mode, offset, rem_chunk>>
vars == <<overlap, pc, tree, free, kv, rows, req, adder, full, chunked, last, results, crashed>>

NoBatch == [reqs |-> <<>>, chunked |-> NONE]

\* prefix: prefix_indices; node: last_node; fill: len(fill_ids); row: the
\* request's row of req_to_token; value: req.embedding.
NewReq(j) ==
    [job |-> j, state |-> "waiting", prefix |-> <<>>, node |-> <<>>, fill |-> 0,
     row |-> <<>>, is_chunked |-> 0, value |-> {}]

Absent == [state |-> "absent"]

Waiting == {r \in Reqs : req[r].state = "waiting"}
Ids(r) == req[r].job.ids
IsTreeValue(r) == req[r].job.prefix_len > 0
FillIds(r) == Take(Ids(r), req[r].fill)
Protected(r) == Len(req[r].prefix)
ExtendLen(r) == req[r].fill - Protected(r)

Init ==
    /\ overlap \in Loops
    /\ pc = "top"
    /\ tree = EmptyTree
    /\ free = Slots
    /\ kv = [s \in Slots |-> <<>>]
    /\ rows = Rows
    /\ req = [r \in Reqs |-> Absent]
    /\ batch = <<>> /\ mode = FALSE /\ offset = 0 /\ rem_chunk = 0
    /\ full = FALSE
    /\ chunked = NONE
    /\ last = NoBatch
    /\ results = <<>>
    /\ crashed = NONE

\* free(): what a freed slot holds is never asked for again.
Freed(f, k, S) == /\ free' = f \cup S
                  /\ kv' = [s \in Slots |-> IF s \in S THEN <<>> ELSE k[s]]

Crash(why) == crashed' = why /\ pc' = "crashed"

----------------------------------------------------------------------------
(* Arrivals, aborts and the prefix match.                                  *)

\* Mutant of MatchKey: the candidates are matched too.
MatchKeyAll(j) == Take(j.ids, Len(j.ids) - 1)

\* init_next_round_input: what may be matched.  The last token is always
\* computed, and of a tree_value request the last prefix token.
MatchKey(j) ==
    Take(j.ids, IF j.prefix_len > 0 THEN j.prefix_len - 1 ELSE Len(j.ids) - 1)

\* handle_embedding_request, handle_tree_value_request: the latter also
\* matches the prefix, unless the request bypasses the cache.
Arrive(r, j) ==
    /\ pc = "top"
    /\ req[r].state = "absent"
    /\ req' = [req EXCEPT ![r] = NewReq(j)]
    /\ tree' = IF j.prefix_len > 0 /\ ~j.bypass THEN match_prefix(tree, MatchKey(j)) ELSE tree
    /\ UNCHANGED <<overlap, pc, free, kv, rows, adder, full, chunked, last, results, crashed>>

\* abort_request: a waiting request is popped; one in a batch is only marked
\* and ends with its batch as it would have anyway.
Abort(r) ==
    /\ pc = "top"
    /\ r \in Waiting
    /\ req' = [req EXCEPT ![r].state = "aborted"]
    /\ UNCHANGED <<overlap, pc, tree, free, kv, rows, adder, full, chunked, last, results, crashed>>

----------------------------------------------------------------------------
(* get_next_batch_to_run.                                                  *)

\* Mutant of Duplicates: the request's copies of tokens that were in the tree
\* already are not returned.
DuplicatesNone(r, upto) == {}

\* kv_indices[cache_protected_len : new_prefix_len] after an insert: these
\* tokens were in the tree already.
Duplicates(r, upto) == {req[r].row[i] : i \in Protected(r) + 1 .. upto}

\* stash_chunked_request: cache_unfinished_req, then the row is freed.  The
\* request continues from what the tree holds and moves its lock there.
StashedTree(c) ==
    inc_lock_ref(dec_lock_ref(insert(tree, FillIds(c), req[c].row), req[c].node), FillIds(c))

\* add_chunked_req: how much of the chunked request runs next.  It must run,
\* with a full chunk when no token is left.
ChunkTokens(c, rem) ==
    Min({Len(Ids(c)) - req[c].fill, IF rem <= 0 THEN ChunkSize ELSE Min({ChunkSize, rem})})

\* Mutant of Shrinks: batch_is_full is not reset after a finished batch.
ShrinksChunked == last.chunked # NONE

\* last_batch.filter_batch drops finished and chunked requests.  Without
\* overlap the requests of the last batch that are not chunked are finished.
Shrinks == last.reqs # <<>> /\ (~overlap \/ last.chunked # NONE)

\* There is nothing to add: no batch in this iteration.
BeginNone ==
    /\ pc = "top"
    /\ chunked = NONE
    /\ full' = (full /\ ~Shrinks)
    /\ full' \/ Waiting = {}
    /\ pc' = "launch"
    /\ UNCHANGED <<overlap, tree, free, kv, rows, req, adder, chunked, last, results, crashed>>

\* The head of the waiting queue, whichever the policy puts there, decides
\* whether this is a tree_value batch.
BeginNew ==
    /\ pc = "top"
    /\ chunked = NONE
    /\ full' = (full /\ ~Shrinks)
    /\ ~full'
    /\ \E r \in Waiting : mode' = IsTreeValue(r)
    /\ batch' = <<>> /\ offset' = 0 /\ rem_chunk' = ChunkSize
    /\ pc' = "adding"
    /\ UNCHANGED <<overlap, tree, free, kv, rows, req, chunked, last, results, crashed>>

\* The chunked request comes first.  A tree_value head of the waiting queue
\* turns chunking off, and add_chunked_req then takes min(None, ...).
BeginChunked ==
    /\ pc = "top"
    /\ chunked # NONE
    /\ LET c == chunked
           T == StashedTree(c)
           dup == Duplicates(c, MatchLen(tree, FillIds(c)))
           extend == ChunkTokens(c, Cardinality(free \cup dup) + T.evictable)
           stashed == [req EXCEPT
               ![c].prefix = [i \in 1 .. req[c].fill |-> T.slot[Take(Ids(c), i)]],
               ![c].node = FillIds(c), ![c].row = <<>>]
       IN  /\ tree' = T
           /\ Freed(free, kv, dup)
           /\ rows' = rows + 1
           /\ full' = (full /\ ~Shrinks)
           /\ \/ /\ \E r \in Waiting : IsTreeValue(r)
                 /\ Crash("TypeError")
                 /\ req' = stashed
                 /\ UNCHANGED <<adder, chunked>>
              \/ /\ Waiting = {} \/ \E r \in Waiting : ~IsTreeValue(r)
                 /\ req' = [stashed EXCEPT ![c].fill = @ + extend]
                 /\ mode' = FALSE
                 /\ batch' = <<c>> /\ offset' = extend /\ rem_chunk' = ChunkSize - extend
                 /\ chunked' = IF req[c].fill + extend < Len(Ids(c)) THEN c ELSE NONE
                 /\ pc' = "adding"
                 /\ UNCHANGED crashed
    /\ UNCHANGED <<overlap, last, results>>

\* The requests the loop over the waiting queue has still to look at.
Candidates == {r \in Waiting : IsTreeValue(r) = mode /\ ~\E i \in DOMAIN batch : batch[i] = r}

\* total_tokens >= rem_total_tokens, before and after _lock_node.
Fits(T, node, tokens) ==
    tokens < Cardinality(free) + inc_lock_ref(T, node).evictable - offset

\* One round of the loop over the waiting queue: init_next_round_input, then
\* add_one_req.  The request is added, in part when the chunk is used up; or
\* the rows or tokens are used up, and batch_is_full ends the loop.
AddOne(r) ==
    /\ pc = "adding"
    /\ ~full
    /\ r \in Candidates
    /\ LET node == Take(MatchKey(req[r].job), MatchLen(tree, MatchKey(req[r].job)))
           T == match_prefix(tree, node)
           todo == Len(Ids(r)) - Len(node)
           extend == IF mode THEN todo ELSE Min({todo, rem_chunk})
       IN  \/ /\ Len(batch) >= rows
              /\ full' = TRUE
              /\ pc' = "launch"
              /\ UNCHANGED <<tree, req, adder, chunked, crashed>>
           \/ /\ Len(batch) < rows
              /\ ~Fits(T, node, todo)
              /\ tree' = T
              /\ full' = TRUE
              /\ pc' = "launch"
              /\ UNCHANGED <<req, adder, chunked, crashed>>
           \/ /\ Len(batch) < rows
              /\ Fits(T, node, todo)
              /\ extend > 0
              /\ tree' = inc_lock_ref(T, node)
              /\ req' = [req EXCEPT ![r].prefix = [i \in 1 .. Len(node) |-> T.slot[Take(node, i)]],
                                    ![r].node = node, ![r].fill = Len(node) + extend]
              /\ batch' = Append(batch, r)
              /\ offset' = offset + extend
              /\ rem_chunk' = IF mode THEN rem_chunk ELSE rem_chunk - extend
              /\ chunked' = IF extend < todo THEN r ELSE chunked
              /\ pc' = IF extend < todo THEN "launch" ELSE pc
              /\ UNCHANGED <<mode, full, crashed>>
    /\ UNCHANGED <<overlap, free, kv, rows, last, results>>

\* The loop is over: nothing to look at, batch_is_full, or another budget
\* (rem_input_tokens, rem_chunk_tokens, prefill_max_requests) is used up.  The
\* prefix match of the request that is then refused may split a node, which
\* changes neither the tokens in the tree nor who owns a slot; it is left out.
StopAdding ==
    /\ pc = "adding"
    /\ full \/ Candidates = {} \/ batch # <<>>
    /\ pc' = "launch"
    /\ UNCHANGED <<overlap, tree, free, kv, rows, req, adder, full, chunked, last, results, crashed>>

----------------------------------------------------------------------------
(* run_batch.                                                              *)

\* The tokens in the entries of a row, if they are one text.
Context(row) ==
    IF row = <<>> THEN <<>>
    ELSE IF \A i \in DOMAIN row : kv[row[i]] = Take(kv[Last(row)], i) THEN kv[Last(row)]
    ELSE <<"garbled">>

\* Mutant of Content: a candidate attends to the candidates before it.
ContentCausal(r, i) == Context(req[r].prefix) \o SubSeq(Ids(r), Protected(r) + 1, i)

\* The tokens that the i-th token of request r attends to in the forward: all
\* before it, and a candidate (build_tree_value_custom_mask_and_positions) the
\* prefix and itself.
Content(r, i) ==
    LET upto == IF IsTreeValue(r) /\ i > req[r].job.prefix_len THEN req[r].job.prefix_len ELSE i - 1
    IN  Context(req[r].prefix) \o Append(SubSeq(Ids(r), Protected(r) + 1, upto), Ids(r)[i])

\* The tokens whose value is the answer: the candidates, or the last token.
Valued(j) == IF j.prefix_len > 0 THEN j.prefix_len + 1 .. Len(j.ids) ELSE {Len(j.ids)}

Needed == MapThenSumSet(ExtendLen, ToSet(batch))

\* Where the new tokens of the i-th request of the batch start.
Start(i) == MapThenSumSet(ExtendLen, ToSet(Take(batch, i - 1)))

\* alloc_for_extend and the forward with the new slots out: the rows, the
\* entries the forward writes and the values it returns.
NewRow(i, out) ==
    req[batch[i]].prefix \o SubSeq(out, Start(i) + 1, Start(i) + ExtendLen(batch[i]))

Written(n) ==
    LET i == CHOOSE m \in DOMAIN batch : n \in Start(m) + 1 .. Start(m) + ExtendLen(batch[m])
    IN  Content(batch[i], Protected(batch[i]) + n - Start(i))

Launched(i, out) ==
    LET r == batch[i] IN
    [req[r] EXCEPT
        !.state = "running",
        !.row = NewRow(i, out),
        !.is_chunked = IF r = chunked THEN @ + 1 ELSE @,
        !.value = IF req[r].fill = Len(Ids(r)) THEN {Content(r, n) : n \in Valued(req[r].job)} ELSE {}]

\* The slots alloc takes; which ones makes no difference.
Lowest(S, n) == [i \in 1 .. n |-> CHOOSE s \in S : Cardinality({t \in S : t < s}) = i - 1]

Index(seq, e) == CHOOSE i \in DOMAIN seq : seq[i] = e

\* With overlap the result that is due is that of the last batch.
Due == IF overlap THEN last.reqs # <<>> ELSE batch # <<>>

LaunchNone ==
    /\ pc = "launch"
    /\ batch = <<>>
    /\ pc' = IF Due THEN "process" ELSE "top"
    /\ last' = NoBatch
    /\ UNCHANGED <<overlap, tree, free, kv, rows, req, adder, full, chunked, results, crashed>>

\* The batch leaves the waiting queue, evict_from_tree_cache makes room, the
\* rows are written and the forward runs.  prepare_for_extend raises when rows
\* or slots are missing or when candidates were matched (see AdmittedFits).
Launch ==
    /\ pc = "launch"
    /\ batch # <<>>
    /\ rows >= Len(batch)
    /\ \A r \in ToSet(batch) : IsTreeValue(r) => Protected(r) <= req[r].job.prefix_len
    /\ \E E \in IF Cardinality(free) < Needed THEN Evictions(tree, Needed) ELSE {{}} :
         LET gone == {tree.slot[p] : p \in PathsOf(tree, E)}
             out == Lowest(free \cup gone, Needed)
         IN  /\ Cardinality(free \cup gone) >= Needed
             /\ tree' = Evicted(tree, E)
             /\ free' = (free \cup gone) \ ToSet(out)
             /\ kv' = [s \in Slots |-> IF s \in ToSet(out) THEN Written(Index(out, s))
                                       ELSE IF s \in gone THEN <<>> ELSE kv[s]]
             /\ req' = [r \in Reqs |-> IF r \in ToSet(batch) THEN Launched(Index(batch, r), out)
                                       ELSE req[r]]
    /\ rows' = rows - Len(batch)
    /\ results' = Append(results, batch)
    /\ last' = [reqs |-> batch, chunked |-> chunked]
    /\ batch' = <<>>
    /\ pc' = IF Due THEN "process" ELSE "top"
    /\ UNCHANGED <<overlap, mode, offset, rem_chunk, full, chunked, crashed>>

----------------------------------------------------------------------------
(* process_batch_result_prefill, the embedding branch: request by request. *)

\* Mutant of InsertLen: the candidates are cached with the prefix.
InsertLenAll(j) == Len(j.ids)

\* insert_len: the candidates of a tree_value request are never cached.
InsertLen(j) == IF j.prefix_len > 0 THEN j.prefix_len ELSE Len(j.ids)

\* release_kv_cache, cache_finished_req: insert, or not for bypass_cache; free
\* the duplicates and the tail, and the row; unlock.
Finish(r) ==
    LET j == req[r].job
        key == Take(j.ids, InsertLen(j))
    IN  /\ tree' = dec_lock_ref(IF j.bypass THEN tree ELSE insert(tree, key, req[r].row), req[r].node)
        /\ Freed(free, kv, Duplicates(r, IF j.bypass THEN Len(key) ELSE MatchLen(tree, key))
                           \cup {req[r].row[i] : i \in Len(key) + 1 .. Len(j.ids)})
        /\ rows' = rows + 1
        /\ req' = [req EXCEPT ![r].state = "done", ![r].row = <<>>, ![r].prefix = <<>>,
                              ![r].node = <<>>]

Process ==
    /\ pc = "process"
    /\ LET r == results[1][1] IN
       \/ /\ req[r].is_chunked > 0
          /\ req' = [req EXCEPT ![r].is_chunked = @ - 1]
          /\ UNCHANGED <<tree, free, kv, rows>>
       \/ /\ req[r].is_chunked = 0
          /\ Finish(r)
    /\ results' = IF Len(results[1]) > 1 THEN [results EXCEPT ![1] = Tail(@)] ELSE Tail(results)
    /\ pc' = IF Len(results[1]) > 1 THEN "process" ELSE "top"
    /\ UNCHANGED <<overlap, adder, full, chunked, last, crashed>>

----------------------------------------------------------------------------
Scheduler == BeginNone \/ BeginNew \/ BeginChunked \/ (\E r \in Reqs : AddOne(r)) \/ StopAdding
             \/ LaunchNone \/ Launch \/ Process

Next == \/ \E r \in Reqs : (\E j \in JobChoices : Arrive(r, j)) \/ Abort(r)
        \/ Scheduler

Spec == Init /\ [][Next]_vars

\* The scheduler is one thread that never blocks: it keeps going from one step
\* of the loop to another.  (Stated on pc alone; every behaviour of Spec that
\* has not crashed can go on so, and only scheduler actions change pc.)
Moves == pc # "crashed" /\ pc' \in {"top", "adding", "launch", "process", "crashed"} \ {pc}

FairSpec == Spec /\ WF_pc(Moves)

----------------------------------------------------------------------------
(* Properties.                                                             *)

\* The requests that hold a lock: added to the batch, or running.
Holders == {r \in Reqs : req[r].state = "running"} \cup ToSet(batch)

Private(r) == {req[r].row[i] : i \in Protected(r) + 1 .. Len(req[r].row)}

\* Types and ranges: the rows never exceed the pool, the counters of the tree
\* stay within it, and a request is chunked in at most two open batches.
TypeOK ==
    /\ overlap \in Loops /\ mode \in BOOLEAN /\ full \in BOOLEAN
    /\ free \subseteq Slots
    /\ rows \in 0 .. Rows
    /\ tree.evictable \in 0 .. PoolSize /\ tree.protected \in 0 .. PoolSize
    /\ chunked \in Reqs \cup {NONE}
    /\ rem_chunk \in 0 .. ChunkSize
    /\ Len(results) <= 2
    /\ \A r \in Reqs : req[r].state # "absent" => req[r].is_chunked \in 0 .. 2

\* check_memory's "memory leak" and its converse: every slot is free, or holds
\* one token of the tree, or is the private slot of one running request, and
\* never two of these; so no slot is lost or freed while in use, whatever was
\* shared, duplicated, split, chunked or evicted on the way.
SlotsAccounted ==
    /\ \A p, q \in DOMAIN tree.slot : p # q => tree.slot[p] # tree.slot[q]
    /\ \A s \in Slots :
         Cardinality({x \in {"free"} : s \in free}
                     \cup {x \in {"tree"} : \E p \in DOMAIN tree.slot : tree.slot[p] = s}
                     \cup {r \in Holders : s \in Private(r)}) = 1

\* The lock of every node counts exactly the requests whose prefix ends at or
\* below it, evictable_size_ and protected_size_ count the tokens, and a
\* request's cached prefix is still where its row says.
LocksExact ==
    /\ WellFormed(tree)
    /\ CountersExact(tree)
    /\ \A e \in Nodes(tree) :
         tree.ref[e] = Cardinality({r \in Holders : IsPrefix(e, req[r].node)})
    /\ \A r \in Holders :
         /\ req[r].node \in Nodes(tree) \cup {<<>>}
         /\ req[r].prefix = [i \in DOMAIN req[r].node |-> tree.slot[Take(req[r].node, i)]]

\* What the tree offers for a text was computed from exactly that text: the
\* candidates of a tree_value request, which see only the prefix, never get in.
CacheHonest == \A p \in DOMAIN tree.slot : kv[tree.slot[p]] = p

Expected(j) ==
    {Append(Take(j.ids, IF j.prefix_len > 0 THEN j.prefix_len ELSE Len(j.ids) - 1), j.ids[n]) :
        n \in Valued(j)}

\* A request is answered with the values of its own texts: every candidate
\* after exactly the prefix, the last token of an embedding request after all
\* tokens before it; whether cached, chunked or evicted in between.
AnswersRight == \A r \in Reqs : req[r].state = "done" => req[r].value = Expected(req[r].job)

\* What the adder lets through can run: there are rows and, after eviction,
\* slots for the whole batch, no candidate was matched, and at most one request
\* is cut short (the assertion that chunked_req is None).
AdmittedFits ==
    pc = "launch" =>
        /\ rows >= Len(batch)
        /\ Cardinality(free) + tree.evictable >= Needed
        /\ \A r \in ToSet(batch) : IsTreeValue(r) => Protected(r) <= req[r].job.prefix_len
        /\ \A r, q \in ToSet(batch) :
             r # q => req[r].fill = Len(Ids(r)) \/ req[q].fill = Len(Ids(q))

\* In event_loop_normal every waiting request is served or aborted, unless the
\* scheduler dies of a tree_value request behind a chunked one.
EveryRequestServed ==
    \A r \in Reqs : (req[r].state = "waiting" /\ ~overlap)
                        ~> (req[r].state \in {"done", "aborted"} \/ crashed = "TypeError")

\* batch_is_full means that nothing is left "for this scheduling round"; it
\* does not last.
FullEnds == full ~> ~full
=============================================================================
