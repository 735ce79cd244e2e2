--------------------------- MODULE GuidedSampler ---------------------------
(***************************************************************************)
(* One call of Sampler.forward with a LvmGuidedSampler, for a batch that   *)
(* is not all greedy.  A row of the batch is abstracted to what its        *)
(* sampling parameters and its probabilities decide:                       *)
(*    wants   it has value-guidance parameters                             *)
(*    keep    the tokens that top-k, top-p and min-p leave (never none;    *)
(*            one for a greedy request)                                    *)
(*    skip    its entropy is not above its entropy threshold               *)
(* Probabilities are abstracted to their support; softmax gives every      *)
(* token a positive one.                                                   *)
(***************************************************************************)
EXTENDS Integers, FiniteSets

CONSTANTS
    Rows,       \* batch positions
    Tokens      \* the vocabulary

Params == [wants : BOOLEAN, keep : (SUBSET Tokens) \ {{}}, skip : BOOLEAN]

VARIABLES
    reqs,           \* the batch: row -> Params
    support,        \* row -> tokens with positive probability
    guided_applied, \* apply() returned a tensor
    sampled,        \* row -> next token, once sampled
    pc

vars == <<reqs, support, guided_applied, sampled, pc>>

Init ==
    /\ reqs \in [Rows -> Params]
    /\ support = [i \in Rows |-> Tokens]
    /\ guided_applied = FALSE
    /\ sampled = [i \in {} |-> {}]
    /\ pc = "build"

----------------------------------------------------------------------------
(* LvmGuidedSampler.apply.                                                 *)

guided_rows == {i \in Rows : reqs[i].wants}

\* Rows with one candidate are decided without the LenVM, before the entropy
\* threshold is looked at.
deterministic_rows == {i \in guided_rows : Cardinality(reqs[i].keep) = 1}

send_batch_indices ==
    {i \in guided_rows \ deterministic_rows : ~reqs[i].skip}

\* What the guidance leaves of row i of the clone of probs: hard
\* decoding leaves one candidate, tilting some of them, other rows are copied.
Outcomes(i) ==
    CASE i \in send_batch_indices -> (SUBSET reqs[i].keep) \ {{}}
      [] i \in deterministic_rows -> {reqs[i].keep}
      [] OTHER -> {support[i]}

\* _build_pending finds nobody to guide, and apply() returns None.
ReturnNone ==
    /\ pc = "build"
    /\ send_batch_indices = {} /\ deterministic_rows = {}
    /\ pc' = "sample"
    /\ UNCHANGED <<reqs, support, guided_applied, sampled>>

\* _build_pending, the LenVM's values, and _apply_guidance(_gpu).
ReturnGuided ==
    /\ pc = "build"
    /\ send_batch_indices # {} \/ deterministic_rows # {}
    /\ support' \in [Rows -> SUBSET Tokens]
    /\ \A i \in Rows : support'[i] \in Outcomes(i)
    /\ guided_applied' = TRUE
    /\ pc' = "sample"
    /\ UNCHANGED <<reqs, sampled>>

\* The LenVM cannot be reached or times out, or the guidance function raises
\* or returns no positive probability: RuntimeError.
Raise ==
    /\ pc = "build"
    /\ send_batch_indices # {}
    /\ pc' = "dead"
    /\ UNCHANGED <<reqs, support, guided_applied, sampled>>

----------------------------------------------------------------------------
(* Sampler.forward, after apply().                                         *)

\* No request of the batch needs top-k, top-p or min-p, or apply() guided.
can_sample_directly_from_probs ==
    guided_applied \/ \A i \in Rows : reqs[i].keep = Tokens

\* sampling_from_probs_torch takes any token of positive probability, the
\* filtering kernels one that the row's parameters leave.
Sample ==
    /\ pc = "sample"
    /\ \E tok \in [Rows -> Tokens] :
         /\ \A i \in Rows : tok[i] \in support[i]
         /\ can_sample_directly_from_probs \/ \A i \in Rows : tok[i] \in reqs[i].keep
         /\ sampled' = tok
    /\ pc' = "done"
    /\ UNCHANGED <<reqs, support, guided_applied>>

Next == ReturnNone \/ ReturnGuided \/ Raise \/ Sample

Spec == Init /\ [][Next]_vars

----------------------------------------------------------------------------
(* Properties.                                                             *)

\* A row that the LenVM guided, or that had one candidate, is sampled within
\* its own filters; and so is every row of a batch that apply() left alone.
GuidedRowsFiltered ==
    pc = "done" =>
        \A i \in Rows :
            ~guided_applied \/ i \in send_batch_indices \cup deterministic_rows
              => sampled[i] \in reqs[i].keep

\* The comment in Sampler.forward: "when we don't need top-k, top-p, or min-p
\* sampling, we can directly sample from the probs".  So every row is sampled
\* within its own filters, whatever else is in the batch.
EveryRowFiltered == pc = "done" => \A i \in Rows : sampled[i] \in reqs[i].keep
=============================================================================
