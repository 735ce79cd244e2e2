------------------------ MODULE GuidedSamplerProofs ------------------------
(***************************************************************************)
(* Guided rows are sampled within their own filters, for any batch, any    *)
(* vocabulary and any filters.                                             *)
(***************************************************************************)
EXTENDS GuidedSampler, TLAPS

\* What guidance has left of the rows it touched, until they are sampled.
Inv ==
    /\ reqs \in [Rows -> Params]
    /\ pc \in {"build", "sample", "done", "dead"}
    /\ pc = "build" => ~guided_applied
    /\ pc = "sample" /\ guided_applied
         => \A i \in send_batch_indices \cup deterministic_rows : support[i] \subseteq reqs[i].keep
    /\ GuidedRowsFiltered

\* The initial states.
LEMMA InitInv == Init => Inv
BY DEF Init, Inv, GuidedRowsFiltered

\* apply() leaves a row that it guides with some of its candidates.
LEMMA GuidedInv ==
    ASSUME Inv, ReturnGuided
    PROVE  Inv'
<1>1. /\ pc' = "sample" /\ reqs' = reqs
      /\ \A i \in Rows : support'[i] \in Outcomes(i)
  BY DEF ReturnGuided
<1>2. UNCHANGED <<send_batch_indices, deterministic_rows>>
  BY <1>1 DEF send_batch_indices, deterministic_rows, guided_rows
<1>3. send_batch_indices \subseteq Rows /\ deterministic_rows \subseteq Rows
  BY DEF send_batch_indices, deterministic_rows, guided_rows
<1>4. ASSUME NEW i \in send_batch_indices \cup deterministic_rows
      PROVE  support'[i] \subseteq reqs[i].keep
  <2>1. i \in Rows
    BY <1>3
  <2>2. support'[i] \in Outcomes(i)
    BY <1>1, <2>1
  <2>3. CASE i \in send_batch_indices
    BY <2>2, <2>3, Zenon DEF Outcomes
  <2>4. CASE i \notin send_batch_indices /\ i \in deterministic_rows
    BY <2>2, <2>4 DEF Outcomes
  <2> QED
    BY <2>3, <2>4
<1> QED
  BY <1>1, <1>2, <1>4 DEF Inv, GuidedRowsFiltered

\* A batch that was guided is sampled from what guidance left, another one
\* from what every row's filters leave.
LEMMA SampleInv ==
    ASSUME Inv, Sample
    PROVE  Inv'
<1>1. PICK tok \in [Rows -> Tokens] :
        /\ \A i \in Rows : tok[i] \in support[i]
        /\ can_sample_directly_from_probs \/ \A i \in Rows : tok[i] \in reqs[i].keep
        /\ sampled' = tok
  BY DEF Sample
<1>2. /\ pc = "sample" /\ pc' = "done" /\ UNCHANGED <<reqs, support, guided_applied>>
  BY DEF Sample
<1>3. UNCHANGED <<send_batch_indices, deterministic_rows>>
  BY <1>2 DEF send_batch_indices, deterministic_rows, guided_rows
<1>4. ASSUME NEW i \in Rows,
             ~guided_applied \/ i \in send_batch_indices \cup deterministic_rows
      PROVE  tok[i] \in reqs[i].keep
  <2>1. CASE guided_applied
    BY <1>1, <1>2, <1>4, <2>1 DEF Inv
  <2>2. CASE ~guided_applied
    BY <1>1, <2>2 DEF can_sample_directly_from_probs
  <2> QED
    BY <2>1, <2>2
<1> QED
  BY <1>1, <1>2, <1>3, <1>4 DEF Inv, GuidedRowsFiltered

\* Every step keeps Inv.
LEMMA NextInv == Inv /\ [Next]_vars => Inv'
<1> SUFFICES ASSUME Inv, [Next]_vars PROVE Inv'
  OBVIOUS
<1>1. CASE ReturnNone
  BY <1>1 DEF ReturnNone, Inv, GuidedRowsFiltered
<1>2. CASE Raise
  BY <1>2 DEF Raise, Inv, GuidedRowsFiltered
<1>3. CASE UNCHANGED vars
  BY <1>3 DEF vars, Inv, GuidedRowsFiltered, send_batch_indices, deterministic_rows, guided_rows
<1> QED
  BY <1>1, <1>2, <1>3, GuidedInv, SampleInv DEF Next

\* A row that the LenVM guided, or that had one candidate, is sampled within
\* its own filters, and so is every row of a batch that apply() left alone.
THEOREM GuidedWithinFilters == Spec => []GuidedRowsFiltered
<1>1. Inv => GuidedRowsFiltered
  BY DEF Inv
<1> QED
  BY <1>1, InitInv, NextInv, PTL DEF Spec
=============================================================================
