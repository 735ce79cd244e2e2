----------------------------- MODULE LvmKvPool -----------------------------
(***************************************************************************)
(* The KV bookkeeping of the in-process Length Value Model (LenVM):        *)
(* LvmKvManager and LvmInprocRunner (lvm_inproc_runner.py), the _Inproc    *)
(* adapter that drives them (lvm_guided_sampling.py), and the two          *)
(* allocators they use, with page_size = 1.                                *)
(*                                                                         *)
(* One guided decode step calls, in this order and in the scheduler's only *)
(* thread, clean_stale_requests, tree_value_extend and                     *)
(* eval_candidates_batch_gpu; `phase' says which call is next.  An         *)
(* exception leaves LvmGuidedSampler.apply and ends the scheduler process  *)
(* (phase "dead").                                                         *)
(*                                                                         *)
(* The free lists are bags: free_pages[s] is the number of times slot s is *)
(* in the list, so a slot freed twice is visible, and an allocation may    *)
(* return any free slot (no property depends on the FIFO order).  The KV   *)
(* entry of a token depends on the token and on all tokens before it, so   *)
(* the content of a slot is the token sequence it was computed from.       *)
(***************************************************************************)
EXTENDS Integers, Sequences, FiniteSets

CONSTANTS
    Rids,       \* request ids
    Tokens,     \* token ids
    ReqSlots,   \* rows of req_to_token_pool
    KvSlots,    \* slots of token_to_kv_pool (the padded slot 0 excluded)
    NoSlot,     \* "no row" and "no KV slot" (a dict miss; a zeroed entry)
    MaxLen,     \* bound: longest prefix a request reaches
    MaxCands    \* bound: most candidates evaluated for one request

ASSUME PoolAssumption ==
    /\ NoSlot \notin ReqSlots
    /\ NoSlot \notin KvSlots
    /\ MaxLen \in Nat
    /\ MaxCands \in Nat

\* The pools are tensors.
ASSUME PoolsFinite == IsFiniteSet(ReqSlots) /\ IsFiniteSet(KvSlots)

VARIABLES
    pool_indices,  \* LvmKvManager.pool_indices: rid -> row, NoSlot when absent
    kv_lens,       \* LvmKvManager.kv_lens: rid -> cached tokens, 0 when absent
    req_to_token,  \* ReqToTokenPool.req_to_token: row -> column -> KV slot
    free_slots,    \* ReqToTokenPool.free_slots, a bag of rows
    free_pages,    \* TokenToKVPoolAllocator.free_pages, a bag of KV slots
    kv,            \* token_to_kv_pool: slot -> tokens its entry encodes
    phase,         \* which call of the decode step is next
    batch,         \* the rids of the batch being sampled
    asked          \* rid -> prefix_ids of the rows sent to the LenVM

tables == <<pool_indices, kv_lens, req_to_token, free_slots, free_pages, kv>>
vars == <<tables, phase, batch, asked>>

Columns == 1 .. (MaxLen + MaxCands)

NoPrefixes == [r \in {} |-> <<>>]

TypeOK ==
    /\ pool_indices \in [Rids -> ReqSlots \cup {NoSlot}]
    /\ kv_lens \in [Rids -> 0 .. MaxLen]
    /\ \A r \in Rids : pool_indices[r] = NoSlot => kv_lens[r] = 0
    /\ req_to_token \in [ReqSlots -> [Columns -> KvSlots \cup {NoSlot}]]
    /\ free_slots \in [ReqSlots -> Nat]
    /\ free_pages \in [KvSlots -> Nat]
    /\ kv \in [KvSlots -> Seq(Tokens)]
    /\ phase \in {"idle", "cleaned", "extended", "dead"}
    /\ batch \subseteq Rids
    /\ DOMAIN asked \subseteq batch
    /\ asked \in [DOMAIN asked -> Seq(Tokens)]

Init ==
    /\ pool_indices = [r \in Rids |-> NoSlot]
    /\ kv_lens = [r \in Rids |-> 0]
    /\ req_to_token = [b \in ReqSlots |-> [c \in Columns |-> NoSlot]]
    /\ free_slots = [b \in ReqSlots |-> 1]
    /\ free_pages = [s \in KvSlots |-> 1]
    /\ kv = [s \in KvSlots |-> <<>>]
    /\ phase = "idle"
    /\ batch = {}
    /\ asked = NoPrefixes

----------------------------------------------------------------------------
(* Reading and writing the tables.  A place is <<rid, column>>.            *)

active_rids == {r \in Rids : pool_indices[r] # NoSlot}

SlotAt(x) == req_to_token[pool_indices[x[1]]][x[2]]

\* Mutant of Places: the slice starts one column too early.
PlacesOneEarly(R, lo, hi) ==
    {x \in R \X Columns : lo[x[1]] <= x[2] /\ x[2] <= hi[x[1]]}

\* The places of the requests R in the columns lo[r]+1 .. hi[r].
Places(R, lo, hi) ==
    {x \in R \X Columns : lo[x[1]] < x[2] /\ x[2] <= hi[x[1]]}

\* The places whose KV the manager accounts for.
Held == Places(active_rids, [r \in Rids |-> 0], kv_lens)

\* The tokens that the KV of r, up to its last cached column, encodes.
CachedPrefix(r) ==
    IF kv_lens[r] = 0 THEN <<>> ELSE kv[SlotAt(<<r, kv_lens[r]>>)]

\* Mutant of Freed: the slots are dropped instead of freed.
FreedNothing(places) == free_pages

\* token_to_kv_pool_allocator.free: each freed place puts its slot on the list.
Freed(places) ==
    [s \in KvSlots |-> free_pages[s]
                         + Cardinality({x \in places : SlotAt(x) = s})]

\* Mutant of Allocations: the free list is not consulted.
AnySlots(places, free) ==
    {loc \in [places -> KvSlots] :
        \A x, y \in places : loc[x] = loc[y] => x = y}

\* Mutant of Allocations: one slot short, so the last place gets none.
SparedSlot(places, free) ==
    {loc \in [places -> {s \in KvSlots : free[s] > 0}] :
        /\ \A x, y \in places : loc[x] = loc[y] => x = y
        /\ Cardinality(places) < Cardinality({s \in KvSlots : free[s] > 0})}

\* alloc: distinct slots of the free list, one for each place.
Allocations(places, free) ==
    {loc \in [places -> {s \in KvSlots : free[s] > 0}] :
        \A x, y \in places : loc[x] = loc[y] => x = y}

\* The free list once the slots loc were taken.
Taken(loc, free) ==
    [s \in KvSlots |-> IF \E x \in DOMAIN loc : loc[x] = s
                       THEN free[s] - 1 ELSE free[s]]

\* Mutant of Returned: the candidates' slots are not freed.
ReturnedNothing(loc, free) == free

\* The free list once the slots loc, all distinct, were freed again.
Returned(loc, free) ==
    [s \in KvSlots |-> IF \E x \in DOMAIN loc : loc[x] = s
                       THEN free[s] + 1 ELSE free[s]]

\* req_to_token_pool.write, when request r has row[r].
WriteTable(row, loc) ==
    [b \in ReqSlots |-> [c \in Columns |->
        IF \E x \in DOMAIN loc : row[x[1]] = b /\ x[2] = c
        THEN loc[CHOOSE x \in DOMAIN loc : row[x[1]] = b /\ x[2] = c]
        ELSE req_to_token[b][c]]]

\* The KV entries a forward pass stores: enc[x] at the slot of place x.
WriteKv(loc, enc) ==
    [s \in KvSlots |->
        IF \E x \in DOMAIN loc : loc[x] = s
        THEN enc[CHOOSE x \in DOMAIN loc : loc[x] = s]
        ELSE kv[s]]

----------------------------------------------------------------------------
(* The operations.                                                         *)

\* clean_stale_requests -> cleanup_stale_rids -> release, for every rid that
\* is not in the batch being sampled.
CleanStale(rids) ==
    LET stale == active_rids \ rids
    IN  /\ phase = "idle"
        /\ free_pages' = Freed({x \in Held : x[1] \in stale})
        /\ free_slots' = [b \in ReqSlots |-> free_slots[b]
                            + Cardinality({r \in stale : pool_indices[r] = b})]
        /\ pool_indices' = [r \in Rids |->
                              IF r \in stale THEN NoSlot ELSE pool_indices[r]]
        /\ kv_lens' = [r \in Rids |-> IF r \in stale THEN 0 ELSE kv_lens[r]]
        /\ phase' = "cleaned"
        /\ batch' = rids
        /\ UNCHANGED <<req_to_token, kv, asked>>

\* _build_pending finds no row to evaluate and apply() returns.
NothingToSend ==
    /\ phase = "cleaned"
    /\ phase' = "idle"
    /\ UNCHANGED <<tables, batch, asked>>

\* The arguments p of tree_value_extend: rid -> prefix_ids.
target_len(p) == [r \in Rids |-> IF r \in DOMAIN p THEN Len(p[r]) ELSE 0]

\* The requests whose prefix is longer than what is cached ...
valid_rids(p) == {r \in DOMAIN p : Len(p[r]) > kv_lens[r]}

\* Mutant of retracted: a shorter prefix is taken for an up-to-date one.
NeverRetracted(p) == {}

\* ... and those that rolled back.
retracted(p) == {r \in DOMAIN p : Len(p[r]) < kv_lens[r]}

NewPlaces(p) == Places(valid_rids(p), kv_lens, target_len(p))

\* Mutant of NewKv: the last cached token is sent again.
NewKvOneBack(p) ==
    [x \in NewPlaces(p) |->
        CachedPrefix(x[1])
          \o SubSeq(p[x[1]], IF kv_lens[x[1]] = 0 THEN 1 ELSE kv_lens[x[1]], x[2])]

\* Mutant of NewKv: the new tokens are taken from the start of the prefix.
NewKvFromStart(p) ==
    [x \in NewPlaces(p) |->
        CachedPrefix(x[1]) \o SubSeq(p[x[1]], 1, x[2] - kv_lens[x[1]])]

\* new_tokens_list is p_ids[cached_len:]; the forward pass attends to whatever
\* is cached, so that is what the new entries encode.
NewKv(p) ==
    [x \in NewPlaces(p) |->
        CachedPrefix(x[1]) \o SubSeq(p[x[1]], kv_lens[x[1]] + 1, x[2])]

\* Mutant of get_or_alloc: rows of other requests are handed out.
AnyRow(rids) ==
    {row \in [Rids -> ReqSlots \cup {NoSlot}] :
        \A r \in Rids : IF r \in rids /\ pool_indices[r] = NoSlot
                        THEN row[r] \in ReqSlots ELSE row[r] = pool_indices[r]}

\* The rows get_or_alloc returns: the rid's own, or a free one on first use.
get_or_alloc(rids) ==
    LET fresh == {r \in rids : pool_indices[r] = NoSlot}
    IN  {row \in [Rids -> ReqSlots \cup {NoSlot}] :
           /\ \A r \in Rids \ fresh : row[r] = pool_indices[r]
           /\ \A r \in fresh : row[r] \in ReqSlots /\ free_slots[row[r]] > 0
           /\ \A r, q \in fresh : row[r] = row[q] => r = q}

\* tree_value_extend: retract what shrank, then extend_prefix_batch for what
\* grew: rows, KV slots, the table, the forward pass, and kv_lens last.
TreeValueExtend(p) ==
    LET free == Freed(Places(retracted(p), target_len(p), kv_lens))
    IN  /\ phase = "cleaned"
        /\ \E row \in get_or_alloc(valid_rids(p)) :
           \E loc \in Allocations(NewPlaces(p), free) :
             /\ pool_indices' = row
             /\ free_slots' = [b \in ReqSlots |->
                  IF \E r \in valid_rids(p) : pool_indices[r] = NoSlot /\ row[r] = b
                  THEN free_slots[b] - 1 ELSE free_slots[b]]
             /\ free_pages' = Taken(loc, free)
             /\ req_to_token' = WriteTable(row, loc)
             /\ kv' = WriteKv(loc, NewKv(p))
        /\ kv_lens' = [r \in Rids |-> IF r \in valid_rids(p) \cup retracted(p)
                                      THEN Len(p[r]) ELSE kv_lens[r]]
        /\ phase' = "extended"
        /\ asked' = p
        /\ UNCHANGED batch

\* Mutant of CandPlaces: candidates start in the prefix's last column.
CandPlacesOnLast(n) ==
    Places(DOMAIN asked, [r \in DOMAIN asked |-> kv_lens[r] - 1],
           [r \in DOMAIN asked |-> kv_lens[r] + n[r] - 1])

\* eval_candidates_batch_gpu: n[r] temporary slots after the prefix of each
\* request, written to the table and by the forward pass, and put back on
\* the free list whether or not the forward pass raises.
CandPlaces(n) ==
    Places(DOMAIN asked, kv_lens, [r \in DOMAIN asked |-> kv_lens[r] + n[r]])

EvalCandidates(n) ==
    /\ phase = "extended"
    /\ \E loc \in Allocations(CandPlaces(n), free_pages), t \in Tokens :
         /\ req_to_token' = WriteTable(pool_indices, loc)
         /\ kv' = WriteKv(loc, [x \in CandPlaces(n) |->
                                  Append(CachedPrefix(x[1]), t)])
         /\ free_pages' = Returned(loc, Taken(loc, free_pages))
    /\ phase' \in {"idle", "dead"}
    /\ asked' = NoPrefixes
    /\ UNCHANGED <<pool_indices, kv_lens, free_slots, batch>>

\* A RuntimeError in tree_value_extend (no free row, too few KV slots, or the
\* forward pass raised) or in eval_candidates (too few slots) ends the
\* scheduler process, and the tables with it.
ExtendFails ==
    /\ phase = "cleaned"
    /\ phase' = "dead"
    /\ UNCHANGED <<tables, batch, asked>>

EvalOom(n) ==
    /\ phase = "extended"
    /\ Allocations(CandPlaces(n), free_pages) = {}
    /\ phase' = "dead"
    /\ UNCHANGED <<tables, batch, asked>>

Next ==
    \/ \E rids \in SUBSET Rids : CleanStale(rids)
    \/ NothingToSend
    \/ \E R \in (SUBSET batch) \ {{}} :
         \E p \in [R -> UNION {[1 .. k -> Tokens] : k \in 1 .. MaxLen}] :
            TreeValueExtend(p)
    \/ \E n \in [DOMAIN asked -> 1 .. MaxCands] : EvalCandidates(n)
    \/ ExtendFails
    \/ \E n \in [DOMAIN asked -> 1 .. MaxCands] : EvalOom(n)

Spec == Init /\ [][Next]_vars

----------------------------------------------------------------------------
(* Properties.                                                             *)

\* No KV slot has two owners: a slot that holds a cached token of one request
\* holds no other token and is not on the free list, and no slot is on the
\* free list twice (LvmKvManager.retract/release, eval's finally clause).
NoSlotShared ==
    /\ \A x \in Held : SlotAt(x) \in KvSlots /\ free_pages[SlotAt(x)] = 0
    /\ \A x, y \in Held : SlotAt(x) = SlotAt(y) => x = y
    /\ \A s \in KvSlots : free_pages[s] <= 1

\* The same for the rows of req_to_token_pool.
NoRowShared ==
    /\ \A r \in active_rids : free_slots[pool_indices[r]] = 0
    /\ \A r, q \in active_rids : pool_indices[r] = pool_indices[q] => r = q
    /\ \A b \in ReqSlots : free_slots[b] <= 1

\* Nothing leaks: a KV slot or a row that is not on its free list is in use by
\* a request the manager still tracks, whatever extends, rollbacks, releases
\* and candidate evaluations came before.
NoLeak ==
    /\ \A s \in KvSlots : free_pages[s] = 0 => \E x \in Held : SlotAt(x) = s
    /\ \A b \in ReqSlots : free_slots[b] = 0
                             => \E r \in active_rids : pool_indices[r] = b

\* The invariant of LvmKvManager's docstring: columns 1 .. kv_lens[rid] of
\* the rid's row hold the KV of one and the same prefix, that long.
CachedKvValid ==
    \A r \in active_rids :
        /\ Len(CachedPrefix(r)) = kv_lens[r]
        /\ \A i \in 1 .. kv_lens[r] :
              kv[SlotAt(<<r, i>>)] = SubSeq(CachedPrefix(r), 1, i)

\* What eval_candidates_batch assumes: when candidates are evaluated, every
\* request of the call has a row and lvm_kv_lens[rid] == len(prefix_ids).
EvalSeesAskedLength ==
    phase = "extended" =>
        \A r \in DOMAIN asked : r \in active_rids /\ kv_lens[r] = Len(asked[r])

\* p_ids q agrees with the tokens cached for r as far as both go: it continues
\* what is cached, or rolls it back.
Continues(r, q) ==
    \A i \in 1 .. kv_lens[r] : i <= Len(q) => q[i] = CachedPrefix(r)[i]

\* If the sampler's prefix continues or rolls back what is cached, then after
\* tree_value_extend the cached KV is that of exactly this prefix: candidates
\* are valued in the context they will be sampled in.
ExtendReachesPrefix ==
    [][phase = "cleaned" /\ phase' = "extended" =>
          \A r \in DOMAIN asked' :
             Continues(r, asked'[r]) => CachedPrefix(r)' = asked'[r]]_vars

\* Evaluating candidates leaves no trace in the cache: no request's cached
\* prefix changes, and both free lists are as they were.
EvalLeavesCacheAlone ==
    [][phase = "extended" =>
          /\ \A r \in Rids : CachedPrefix(r)' = CachedPrefix(r)
          /\ free_pages' = free_pages /\ free_slots' = free_slots]_vars

\* Rows, slots and free lists implement a store of one prefix per request:
\* each call does what LvmPrefixStore says, room for tokens is all it takes,
\* and eval_candidates raises only when the pool really is too small.
Store == INSTANCE LvmPrefixStore WITH
    cached <- [r \in Rids |-> CachedPrefix(r)],
    NumRows <- Cardinality(ReqSlots),
    NumKv <- Cardinality(KvSlots)

ImplementsStore == Store!StoreSpec
=============================================================================
