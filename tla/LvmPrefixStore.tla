-------------------------- MODULE LvmPrefixStore --------------------------
(***************************************************************************)
(* What the in-process LenVM promises the sampler, without rows, slots or  *)
(* free lists: for each request it caches the KV of one token prefix.  A   *)
(* decode step forgets the requests that are not in the batch, brings the  *)
(* prefixes it asks about to their new length, and values candidates after *)
(* them.  Only a lack of room or a failing forward pass ends the process.  *)
(* LvmKvPool implements this module; GuidedDecode drives it.               *)
(***************************************************************************)
EXTENDS Integers, Sequences, FiniteSets

CONSTANTS
    Rids,       \* request ids
    Tokens,     \* token ids
    NumRows,    \* requests that req_to_token_pool has room for
    NumKv,      \* tokens that token_to_kv_pool has room for
    MaxLen,     \* bound: longest prefix a request reaches
    MaxCands    \* bound: most candidates evaluated for one request

ASSUME StoreAssumption ==
    /\ NumRows \in Nat
    /\ NumKv \in Nat
    /\ MaxLen \in Nat
    /\ MaxCands \in Nat

VARIABLES
    cached,     \* rid -> the prefix whose KV is cached, <<>> when none is
    phase,      \* which call of the decode step is next
    batch,      \* the rids of the batch being sampled
    asked       \* rid -> prefix_ids of the rows sent to the LenVM

storeVars == <<cached, phase, batch, asked>>

StoreTypeOK ==
    /\ cached \in [Rids -> Seq(Tokens)]
    /\ phase \in {"idle", "cleaned", "extended", "dead"}
    /\ batch \subseteq Rids
    /\ DOMAIN asked \subseteq batch
    /\ asked \in [DOMAIN asked -> Seq(Tokens)]

StoreInit ==
    /\ cached = [r \in Rids |-> <<>>]
    /\ phase = "idle"
    /\ batch = {}
    /\ asked = [r \in {} |-> <<>>]

\* The entries that the prefixes c and m[r] more tokens per request take.
Entries(c, m) ==
    {x \in Rids \X (1 .. (MaxLen + MaxCands)) : x[2] <= Len(c[x[1]]) + m[x[1]]}

\* There are rows and KV slots for them.
Fits(c, m) ==
    /\ Cardinality({r \in Rids : c[r] # <<>>}) <= NumRows
    /\ Cardinality(Entries(c, m)) <= NumKv

\* What is cached for r once it was brought to the length of q: the suffix of
\* q is appended, or the cached prefix is cut.  Only lengths are compared.
Resume(c, q) ==
    IF Len(q) > Len(c) THEN c \o SubSeq(q, Len(c) + 1, Len(q))
                       ELSE SubSeq(c, 1, Len(q))

----------------------------------------------------------------------------

\* clean_stale_requests: requests that are not being sampled are forgotten.
Clean(rids) ==
    /\ phase = "idle"
    /\ cached' = [r \in Rids |-> IF r \in rids THEN cached[r] ELSE <<>>]
    /\ phase' = "cleaned"
    /\ batch' = rids
    /\ UNCHANGED asked

\* No row of the batch is sent to the LenVM.
Skip ==
    /\ phase = "cleaned"
    /\ phase' = "idle"
    /\ UNCHANGED <<cached, batch, asked>>

\* tree_value_extend(p).
Extend(p) ==
    /\ phase = "cleaned"
    /\ phase' = "extended"
    /\ asked' = p
    /\ cached' = [r \in Rids |-> IF r \in DOMAIN p THEN Resume(cached[r], p[r])
                                                  ELSE cached[r]]
    /\ Fits(cached', [r \in Rids |-> 0])
    /\ UNCHANGED batch

\* The candidates of a call take room next to everything that is cached.
Room(n) == [r \in Rids |-> IF r \in DOMAIN asked THEN n[r] ELSE 0]

\* eval_candidates: the cache is as it was, also when the forward pass raises.
Eval(n) ==
    /\ phase = "extended"
    /\ Fits(cached, Room(n))
    /\ phase' \in {"idle", "dead"}
    /\ asked' = [r \in {} |-> <<>>]
    /\ UNCHANGED <<cached, batch>>

\* tree_value_extend may always raise; eval_candidates allocates or raises.
ExtendRaises ==
    /\ phase = "cleaned"
    /\ phase' = "dead"
    /\ UNCHANGED <<cached, batch, asked>>

EvalRaises(n) ==
    /\ phase = "extended"
    /\ ~Fits(cached, Room(n))
    /\ phase' = "dead"
    /\ UNCHANGED <<cached, batch, asked>>

\* The prefixes the sampler may ask about.
PrefixesOf(R) == [R -> UNION {[1 .. k -> Tokens] : k \in 1 .. MaxLen}]

Counts == [DOMAIN asked -> 1 .. MaxCands]

StoreNext ==
    \/ \E rids \in SUBSET Rids : Clean(rids)
    \/ Skip
    \/ \E R \in (SUBSET batch) \ {{}} : \E p \in PrefixesOf(R) : Extend(p)
    \/ \E n \in Counts : Eval(n)
    \/ ExtendRaises
    \/ \E n \in Counts : EvalRaises(n)

StoreSpec == StoreInit /\ [][StoreNext]_storeVars
=============================================================================
