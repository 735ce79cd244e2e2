--------------------------- MODULE LengthControl ----------------------------
(***************************************************************************)
(* Hard length control of one request: lvm_hard_value_constraint_guidance  *)
(* turns the LenVM's values of the candidate tokens into a choice, pass    *)
(* after pass, until EOS or max_new_tokens.                                *)
(*                                                                         *)
(* The guidance counts the tokens in output_ids.  The normal event loop    *)
(* appends a sampled token before the next pass; the overlap loop, the     *)
(* server's default, launches the next pass first, so that the newest      *)
(* token may still be pending when the guidance counts.                    *)
(*                                                                         *)
(* A value v stands for the length log(1 - v) / log(gamma) that it is      *)
(* trained to predict, the number of tokens after the candidate, EOS       *)
(* included.  The map is monotone, so candidates are compared by length    *)
(* here; lengths are integers, where 0 stands for a value below 1e-9 and   *)
(* Cap for 1 - 1e-9, beyond which "eq" cannot tell values apart.           *)
(*                                                                         *)
(* What the base model offers is not under the code's control.  In an      *)
(* honest behaviour the LenVM's values are kept: after a token of value n  *)
(* some candidate has value n - 1.  That is asked of the normal loop only; *)
(* in the overlap loop the LenVM does not see the newest token either.     *)
(***************************************************************************)
EXTENDS Integers, Sequences, FiniteSets

CONSTANTS
    MaxLen,   \* the largest length a value stands for
    Cap,      \* the length of the largest value eq can tell from 1
    MaxCands, \* candidates kept by top-k / top-p
    Targets,  \* target_length of the request
    MaxNew    \* max_new_tokens

\* 1 - 1e-9 is a value, and eq can tell it from 0.
ASSUME LengthAssumption ==
    /\ MaxLen \in Nat /\ Cap \in 1 .. MaxLen
    /\ MaxCands \in Nat /\ MaxNew \in Nat \ {0}
    /\ Targets \subseteq Nat

VARIABLES
    constraint, \* value_constraint
    mode,       \* target_length_mode
    target,     \* target_length
    ignore_eos, \* sampling_params.ignore_eos
    overlap,    \* event_loop_overlap, not event_loop_normal
    honest,     \* whether values are kept
    output,     \* len(req.output_ids)
    pending,    \* tokens sampled but not yet in output_ids: TRUE for EOS
    cands,      \* the candidates of this pass, <<>> between passes
    plan,       \* tokens that the sampled token's value promises after it
    ended,      \* "no", "eos" or "length"
    excused,    \* history: a pass offered only EOS, or was not guided
    due         \* history: where EOS was first offered on an empty budget

request == <<constraint, mode, target, ignore_eos, overlap, honest>>
vars == <<request, output, pending, cands, plan, ended, excused, due>>

Candidate == [eos : {TRUE}, length : {MaxLen}, p : 1 .. 2]
             \cup [eos : {FALSE}, length : 0 .. MaxLen, p : 1 .. 2]

\* Results that may be outstanding when a pass is guided.
Lag == IF overlap THEN 1 ELSE 0

\* The tokens sampled so far.
Sampled == output + Len(pending)

\* Mutant of force_eos_value_zero: EOS keeps what the LenVM says of it.
KeepValue(c) == c

\* EOS is followed by nothing.
force_eos_value_zero(c) == IF c.eos THEN [c EXCEPT !.length = 0] ELSE c

Max2(a, b) == IF a >= b THEN a ELSE b
Min2(a, b) == IF a <= b THEN a ELSE b
Distance(a, b) == Max2(a - b, b - a)

\* Mutant of TargetLength: an overrun budget goes negative.
TargetLengthSigned == IF mode = "total" THEN target - output ELSE target

\* Mutant of TargetLength: the token about to be chosen is counted as well.
TargetLengthCounting == IF mode = "total" THEN Max2(target - output - 1, 0) ELSE target

\* _extract_target_value, as a length: what output_ids lacks is still owed.
TargetLength == IF mode = "total" THEN Max2(target - output, 0) ELSE target

\* Mutant of Nearest: the difference instead of the distance.
NearestSigned ==
    [i \in DOMAIN cands |-> Min2(cands[i].length, Cap) - Min2(TargetLength, Cap)]

\* ge, le and eq_soft tell the value of EOS, 0, from every other one.
Rank(c) == IF c.eos THEN 0 ELSE c.length + 1

\* What each constraint minimises.  eq compares lengths clamped to Cap; ge
\* looks for the longest, and for the shortest once nothing is owed; le always
\* for the shortest; eq_soft for the bound that the target lies beyond.
Shortest == [i \in DOMAIN cands |-> Rank(cands[i])]
Longest == [i \in DOMAIN cands |-> -Rank(cands[i])]
Nearest ==
    [i \in DOMAIN cands |-> Distance(Min2(cands[i].length, Cap), Min2(TargetLength, Cap))]

AllAtLeast == \A i \in DOMAIN cands : TargetLength <= cands[i].length
AllAtMost == \A i \in DOMAIN cands : TargetLength >= cands[i].length

Cost ==
    CASE constraint = "eq" -> Nearest
      [] constraint = "ge" -> IF TargetLength = 0 THEN Shortest ELSE Longest
      [] constraint = "le" -> Shortest
      [] constraint = "eq_soft" -> IF AllAtLeast THEN Shortest ELSE Longest

\* Mutant of Improves: a later candidate wins a tie.
ImprovesOrTies(cost, p, best) == cost <= best.cost

\* The comparison in the loops: a smaller cost, or the same and more probable.
Improves(cost, p, best) == cost < best.cost \/ (cost = best.cost /\ p > best.p)

\* The loops over the candidates; at is the index chosen so far.
Scan(cost) ==
    LET best[i \in 0 .. Len(cands)] ==
            IF i = 0 THEN [cost |-> MaxLen + 2, p |-> -1, at |-> 1]
            ELSE IF Improves(cost[i], cands[i].p, best[i - 1])
                 THEN [cost |-> cost[i], p |-> cands[i].p, at |-> i]
            ELSE best[i - 1]
    IN  best[Len(cands)].at

\* The candidates left with a probability: one, except that eq_soft tilts the
\* distribution when the target lies between the values.
Choices ==
    IF constraint = "eq_soft" /\ ~AllAtLeast /\ ~AllAtMost THEN DOMAIN cands
    ELSE {Scan(Cost)}

\* EOS is offered, and no other candidate is as good when nothing is owed.
EosOffered ==
    /\ \E i \in DOMAIN cands : cands[i].eos
    /\ constraint = "eq" => \A i \in DOMAIN cands : cands[i].eos \/ cands[i].length > 0

----------------------------------------------------------------------------
Init ==
    /\ constraint \in {"eq", "ge", "le", "eq_soft"}
    /\ mode \in {"total", "remaining"}
    /\ target \in Targets
    /\ ignore_eos \in BOOLEAN
    /\ overlap \in BOOLEAN
    /\ honest \in {FALSE, ~overlap}
    /\ output = 0
    /\ pending = <<>>
    /\ cands = <<>>
    /\ plan = MaxLen
    /\ ended = "no"
    /\ excused = FALSE
    /\ due = 0

\* The scheduler launches a pass: in the normal loop after the last result was
\* processed, in the overlap loop also before.
Launch == ended = "no" /\ cands = <<>> /\ Len(pending) <= Lag

\* A forward of the base model and of the LenVM: the candidates and, after
\* force_eos_value_zero, their values.
Offer(C) ==
    /\ Launch
    /\ LET valued == [i \in DOMAIN C |-> force_eos_value_zero(C[i])] IN
       /\ honest /\ Sampled > 0 /\ plan > 0 => \E i \in DOMAIN C : valued[i].length = plan - 1
       /\ cands' = valued
    /\ excused' = (excused \/ \A i \in DOMAIN C : C[i].eos)
    /\ UNCHANGED <<request, output, pending, plan, ended, due>>

\* The guided distribution is sampled.
Choose ==
    /\ cands # <<>>
    /\ \E i \in Choices :
         /\ plan' = cands[i].length
         /\ pending' = Append(pending, cands[i].eos)
    /\ due' = IF due = 0 /\ Sampled >= target + Lag /\ EosOffered THEN Sampled + 1 ELSE due
    /\ cands' = <<>>
    /\ UNCHANGED <<request, output, ended, excused>>

\* A pass whose entropy is not above the request's threshold is not guided: any
\* token may be sampled.
Skip(eos, length) ==
    /\ Launch
    /\ plan' = IF eos THEN 0 ELSE length
    /\ pending' = Append(pending, eos)
    /\ excused' = TRUE
    /\ UNCHANGED <<request, output, cands, ended, due>>

\* process_batch_result for the oldest result: append and check_finished, unless
\* the request has finished already.
Process ==
    /\ cands = <<>>
    /\ pending # <<>>
    /\ pending' = Tail(pending)
    /\ \/ /\ ended = "no"
          /\ output' = output + 1
          /\ ended' = IF output + 1 >= MaxNew THEN "length"
                      ELSE IF Head(pending) /\ ~ignore_eos THEN "eos" ELSE "no"
       \/ ended # "no" /\ UNCHANGED <<output, ended>>
    /\ UNCHANGED <<request, cands, plan, excused, due>>

Next ==
    \/ \E n \in 1 .. MaxCands : \E C \in [1 .. n -> Candidate] : Offer(C)
    \/ Choose
    \/ \E eos \in BOOLEAN, length \in 0 .. MaxLen : Skip(eos, length)
    \/ Process

Spec == Init /\ [][Next]_vars

----------------------------------------------------------------------------
(* Properties.                                                             *)

\* Ranges: a request never has more than max_new_tokens, a length is never
\* negative, and no more results are outstanding than the loop allows.
TypeOK ==
    /\ output \in 0 .. MaxNew
    /\ pending \in Seq(BOOLEAN) /\ Len(pending) <= Lag + 1
    /\ plan \in 0 .. MaxLen
    /\ TargetLength \in Nat
    /\ ended = "no" => output < MaxNew

\* The loops choose what they are documented to: the best candidate, of equally
\* good ones the most probable, of equally probable ones the first.
ScanFindsBest ==
    cands # <<>> =>
        LET i == Scan(Cost)
            Better(j) == \/ Cost[j] < Cost[i]
                         \/ Cost[j] = Cost[i] /\ cands[j].p > cands[i].p
                         \/ Cost[j] = Cost[i] /\ cands[j].p = cands[i].p /\ j < i
        IN  \A j \in DOMAIN cands : ~Better(j)

\* "ge" with a total length, in either loop: an answer that ends with EOS has
\* target_length tokens before it, unless a pass offered nothing else or was
\* not guided.
AtLeastKept ==
    constraint = "ge" /\ mode = "total" /\ ended = "eos" /\ ~excused => output > target

\* With any constraint and a total length: once target_length tokens have been
\* sampled, in the overlap loop one more, the answer goes no further than the
\* first guided pass that offers EOS, unless the request ignores EOS.  (For eq a
\* candidate of a value below 1e-9 counts as EOS.)
StopsAtBudget == mode = "total" /\ ~ignore_eos /\ due # 0 => output <= due

\* A guided pass of a request that aims at a total length, in the normal loop,
\* with values that are kept and that eq can tell apart.
AimedPass ==
    /\ constraint = "eq" /\ mode = "total" /\ honest /\ ~overlap
    /\ Sampled > 0 /\ plan > 0 /\ cands # <<>> /\ cands' = <<>>
    /\ target <= Cap /\ plan <= Cap /\ plan' <= Cap

\* "eq" in the normal loop: from one guided pass to the next, the length that
\* the sampled token promises for the answer never gets further from
\* target_length tokens followed by an EOS.
NeverFarther ==
    [][AimedPass => Distance(Sampled' + plan', target + 1) <= Distance(Sampled + plan, target + 1)]_vars

\* The same if target_length is "the *total* new-token budget", as the docstring
\* of _extract_target_value says, and the budget includes "the EOS token which
\* is counted by the model", as LIFEBench's BaseModel says.
BudgetCountsEos ==
    [][AimedPass /\ ~excused
         => Distance(Sampled' + plan', target) <= Distance(Sampled + plan, target)]_vars
=============================================================================
