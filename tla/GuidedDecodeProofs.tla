------------------------- MODULE GuidedDecodeProofs -------------------------
(***************************************************************************)
(* GuidedDecode's invariants, in both event loops and for any requests,    *)
(* tokens, prompts and limits: no request is lost or scheduled twice, each *)
(* pass gives one token, and candidates are valued after the request's own *)
(* text, which lacks at most the token in flight.                          *)
(***************************************************************************)
EXTENDS GuidedDecode, FiniteSetTheorems, SequenceTheorems, TLAPS

\* The text of r that the scheduler knows of.
Text(r) == prompt[r] \o output_ids[r]

\* The results in the queue are those of the last batch, with overlap, and of
\* the batch that has just run.
LastDue == overlap /\ last_batch # NoBatch
CurDue == loop = "process" /\ cur_batch # NoBatch

Results == {x \in [batch : Batches, tok : UNION {[R -> Tokens] : R \in SUBSET Rids}] :
              x.tok \in [x.batch.reqs -> Tokens]}

QueueShape ==
    /\ result_queue \in Seq(Results)
    /\ Len(result_queue) = (IF LastDue THEN 1 ELSE 0) + (IF CurDue THEN 1 ELSE 0)
    /\ LastDue => result_queue[1].batch = last_batch
    /\ CurDue => result_queue[Len(result_queue)].batch = cur_batch

\* A batch that is not empty has requests, and a split prefill is a prefill.
GoodBatch(b) ==
    /\ b # NoBatch => b.reqs # {}
    /\ b.partial \subseteq b.reqs
    /\ b.partial # {} => b.extend

\* Where a request can be.
Placement ==
    /\ GoodBatch(cur_batch) /\ GoodBatch(last_batch)
    /\ loop = "recv" => last_batch = cur_batch
    /\ loop = "run" => cur_batch # NoBatch
    /\ cur_batch.partial = Chunked
    /\ chunked_req # NoReq => chunks_left >= 1
    /\ waiting_queue \cap (running_batch \cup cur_batch.reqs \cup finished) = {}
    /\ Chunked \cap finished = {}
    /\ cur_batch.extend => running_batch \cap cur_batch.reqs = {}
    /\ ~cur_batch.extend => cur_batch.reqs = running_batch
    /\ \A r \in Rids : Known(r) /\ r \notin finished
                         => r \in waiting_queue \cup running_batch \cup cur_batch.reqs
    /\ \A r \in waiting_queue \cup running_batch \cup cur_batch.reqs
                 \cup last_batch.reqs \cup finished : Known(r)

\* What a batch that is still to be processed may meet when it is: its requests
\* finish or are retracted at most once, and are_chunked counts its prefills.
Counted(r) ==
    (IF overlap /\ r \in last_batch.partial THEN 1 ELSE 0)
      + (IF loop # "recv" /\ r \in cur_batch.partial THEN 1 ELSE 0)

Pending ==
    /\ is_retracted \subseteq waiting_queue \cup finished
    /\ loop # "recv" => /\ cur_batch.reqs \cap finished = {}
                        /\ cur_batch.extend => cur_batch.reqs \cap last_batch.reqs
                                                 \subseteq last_batch.partial
                        /\ overlap => last_batch.reqs \cap waiting_queue \subseteq is_retracted
    /\ last_batch.partial \cap (finished \cup is_retracted) = {}
    /\ \A r \in Rids : is_chunked[r] = Counted(r)

\* s is a beginning of t.
Begins(s, t) == Len(s) <= Len(t) /\ \A i \in 1 .. Len(s) : s[i] = t[i]

\* What is kept with the request, and what the LenVM has cached, are beginnings
\* of its text, which only grows.
Contexts ==
    /\ \A r \in Rids : /\ Known(r) \/ output_ids[r] = <<>>
                       /\ Begins(cached[r], Text(r))
                       /\ lvm_prefix[r] # <<>> => /\ Len(prompt[r]) <= Len(lvm_prefix[r])
                                                  /\ Begins(lvm_prefix[r], Text(r))
    /\ phase \in {"cleaned", "extended"} => loop = "run"
    /\ phase = "cleaned" => batch = cur_batch.reqs
    /\ phase \in {"idle", "cleaned"} => asked = [r \in {} |-> <<>>]
    /\ phase = "extended" => \A r \in DOMAIN asked : cached[r] = Text(r)

IInv ==
    /\ TypeOK
    /\ QueueShape
    /\ Placement
    /\ Pending
    /\ Contexts

----------------------------------------------------------------------------
(* Types.                                                                  *)

\* The initial state.
LEMMA InitInv == Init => IInv
<1> SUFFICES ASSUME Init PROVE IInv
  OBVIOUS
<1> USE DEF Init, StoreInit, NoBatch
<1>1. TypeOK
  BY DecodeAssumption, EmptySeq DEF TypeOK, StoreTypeOK, Batches
<1>2. QueueShape
  BY EmptySeq DEF QueueShape, LastDue, CurDue
<1>3. Placement
  BY DEF Placement, GoodBatch, Chunked, Known
<1>4. Pending
  BY DEF Pending, Counted
<1>5. \A r \in Rids : Text(r) = <<>> \o <<>>
  BY DEF Text
<1>6. Contexts
  BY <1>5 DEF Contexts, Known, Begins
<1> QED
  BY <1>1, <1>2, <1>3, <1>4, <1>6 DEF IInv

\* The types of what the messages change.
LEMMA MessageTypes ==
    ASSUME TypeOK, overlap' = overlap,
           \/ \E r \in Rids, q \in Prompts : Submit(r, q)
           \/ \E r \in Rids : Abort(r)
    PROVE  TypeOK'
<1>1. CASE \E r \in Rids, q \in Prompts : Submit(r, q)
  BY <1>1 DEF TypeOK, StoreTypeOK, storeVars, Submit
<1>2. CASE \E r \in Rids : Abort(r)
  BY <1>2 DEF TypeOK, StoreTypeOK, storeVars, Abort
<1> QED
  BY <1>1, <1>2

\* What forming a prefill batch does, and which request it splits.
LEMMA PrefillEffect ==
    ASSUME TypeOK, NEW C \in SUBSET waiting_queue, Prefill(C)
    PROVE  \E c \in Rids \cup {NoReq}, n \in Nat :
             LET P == IF c = NoReq THEN {} ELSE {c} IN
             /\ \/ c = chunked_req /\ c # NoReq /\ n = chunks_left - 1 /\ n > 0
                \/ c = NoReq /\ n = 0
                \/ c \in C /\ n \in 1 .. (MaxPasses - 1)
             /\ chunked_req' = c /\ chunks_left' = n
             /\ is_chunked' = [r \in Rids |-> is_chunked[r] + (IF r \in P THEN 1 ELSE 0)]
             /\ cur_batch' = [reqs |-> C \cup Chunked, extend |-> TRUE, partial |-> P]
<1> DEFINE left == IF chunked_req = NoReq THEN 0 ELSE chunks_left - 1
           parts == IF left > 0 THEN {<<chunked_req, left>>}
                    ELSE (UNION {{<<NoReq, 0>>} \cup {<<r, n>> : r \in C}
                                  : n \in 1 .. (MaxPasses - 1)}) \cup {<<NoReq, 0>>}
           P(c) == IF c = NoReq THEN {} ELSE {c}
<1>1. PICK part \in parts :
        /\ chunked_req' = part[1] /\ chunks_left' = part[2]
        /\ is_chunked' = [r \in Rids |->
                            is_chunked[r] + (IF r \in P(part[1]) THEN 1 ELSE 0)]
        /\ cur_batch' = [reqs |-> C \cup Chunked, extend |-> TRUE, partial |-> P(part[1])]
  BY Zenon DEF Prefill
<1>2. \/ part = <<chunked_req, left>> /\ left > 0
      \/ part = <<NoReq, 0>>
      \/ \E n \in 1 .. (MaxPasses - 1), r \in C : part = <<r, n>>
  <2>1. CASE left > 0
    <3> HIDE DEF left
    <3> QED BY <1>1, <2>1, Zenon
  <2>2. CASE ~(left > 0)
    <3> HIDE DEF left
    <3> DEFINE new(n) == {<<NoReq, 0>>} \cup {<<r, n>> : r \in C}
               U == {new(n) : n \in 1 .. (MaxPasses - 1)}
    <3>1. part \in (UNION U) \cup {<<NoReq, 0>>}
      BY <1>1, <2>2, Zenon
    <3>2. CASE part \in {<<NoReq, 0>>}
      BY <3>2
    <3>3. CASE part \in UNION U
      <4>1. PICK S \in U : part \in S
        BY <3>3, Zenon
      <4>2. PICK n \in 1 .. (MaxPasses - 1) : S = new(n)
        BY <4>1, Zenon
      <4>3. part \in new(n)
        BY <4>1, <4>2
      <4> QED BY <4>3, Zenon
    <3> HIDE DEF U
    <3> QED
      BY <3>1, <3>2, <3>3
  <2> QED BY <2>1, <2>2
<1>3. /\ \/ part[1] = chunked_req /\ part[1] # NoReq /\ part[2] = chunks_left - 1 /\ part[2] > 0
         \/ part[1] = NoReq /\ part[2] = 0
         \/ part[1] \in C /\ part[2] \in 1 .. (MaxPasses - 1)
      /\ part[1] \in Rids \cup {NoReq} /\ part[2] \in Nat
  BY <1>2, DecodeAssumption DEF TypeOK
<1> HIDE DEF parts, left
<1> QED
  BY <1>1, <1>3

\* The types of what forming a batch changes.
LEMMA FormTypes ==
    ASSUME TypeOK, Placement, overlap' = overlap,
           \/ \E C \in SUBSET waiting_queue : Prefill(C)
           \/ \E T \in SUBSET (Merged \ finished) : Decode(T)
           \/ NoNextBatch
    PROVE  TypeOK'
<1>0. Merged \subseteq Rids /\ Chunked \subseteq Rids
  BY DEF TypeOK, Batches, Merged, Chunked
<1>1. ASSUME NEW C \in SUBSET waiting_queue, Prefill(C)
      PROVE  TypeOK'
  <2>1. /\ UNCHANGED <<storeVars, prompt, output_ids, lvm_prefix, finished,
                       to_finish, last_batch, result_queue>>
        /\ running_batch' = Merged /\ waiting_queue' = waiting_queue \ C
        /\ is_retracted' = is_retracted \ (C \cup Chunked) /\ loop' = "run"
    BY <1>1 DEF Prefill
  <2>2. PICK c \in Rids \cup {NoReq}, n \in Nat :
          LET P == IF c = NoReq THEN {} ELSE {c} IN
          /\ \/ c = chunked_req /\ c # NoReq /\ n = chunks_left - 1 /\ n > 0
             \/ c = NoReq /\ n = 0
             \/ c \in C /\ n \in 1 .. (MaxPasses - 1)
          /\ chunked_req' = c /\ chunks_left' = n
          /\ is_chunked' = [r \in Rids |-> is_chunked[r] + (IF r \in P THEN 1 ELSE 0)]
          /\ cur_batch' = [reqs |-> C \cup Chunked, extend |-> TRUE, partial |-> P]
    BY <1>1, PrefillEffect
  <2>3. chunked_req' \in Rids \cup {NoReq} /\ chunks_left' \in 0 .. MaxPasses
    BY <2>2, DecodeAssumption DEF TypeOK
  <2>4. is_chunked' \in [Rids -> Nat]
    BY <2>2 DEF TypeOK
  <2>5. cur_batch' \in Batches
    BY <1>0, <2>2, <2>3 DEF TypeOK, Batches
  <2> QED
    BY <1>0, <2>1, <2>3, <2>4, <2>5 DEF TypeOK, StoreTypeOK, storeVars
<1>2. ASSUME NEW T \in SUBSET (Merged \ finished), Decode(T)
      PROVE  TypeOK'
  <2>1. cur_batch' \in Batches
    BY <1>0, <1>2 DEF Decode, Batches
  <2> QED
    BY <1>0, <1>2, <2>1 DEF TypeOK, StoreTypeOK, storeVars, Decode
<1>3. ASSUME NoNextBatch PROVE TypeOK'
  <2>1. cur_batch' \in Batches
    BY <1>3 DEF NoNextBatch, Batches, NoBatch
  <2> QED
    BY <1>3, <2>1 DEF TypeOK, StoreTypeOK, storeVars, reqVars, NoNextBatch
<1> QED
  BY <1>1, <1>2, <1>3

----------------------------------------------------------------------------
(* Texts.                                                                  *)

\* The elements of a concatenation.
LEMMA ConcatAt ==
    ASSUME NEW S, NEW s \in Seq(S), NEW t \in Seq(S)
    PROVE  /\ s \o t \in Seq(S)
           /\ Len(s) \in Nat /\ Len(t) \in Nat /\ Len(s \o t) = Len(s) + Len(t)
           /\ \A i \in 1 .. Len(s) + Len(t) :
                 (s \o t)[i] = IF i <= Len(s) THEN s[i] ELSE t[i - Len(s)]
BY ConcatProperties, LenProperties

\* The elements of the rest of a sequence.
LEMMA RestAt ==
    ASSUME NEW S, NEW t \in Seq(S), NEW k \in 0 .. Len(t)
    PROVE  /\ SubSeq(t, k + 1, Len(t)) \in Seq(S)
           /\ Len(SubSeq(t, k + 1, Len(t))) = Len(t) - k
           /\ \A i \in 1 .. Len(t) - k : SubSeq(t, k + 1, Len(t))[i] = t[k + i]
<1>1. Len(t) \in Nat /\ \A i \in (k + 1) .. Len(t) : t[i] \in S
  BY LenProperties, ElementOfSeq
<1>2. /\ SubSeq(t, k + 1, Len(t)) \in Seq(S)
      /\ Len(SubSeq(t, k + 1, Len(t))) = IF k + 1 <= Len(t) THEN Len(t) - (k + 1) + 1 ELSE 0
      /\ \A i \in 1 .. Len(t) - (k + 1) + 1 :
            SubSeq(t, k + 1, Len(t))[i] = t[(k + 1) + i - 1]
  BY <1>1, SubSeqProperties
<1> QED
  BY <1>1, <1>2

\* Sequences of the same length that agree everywhere.
LEMMA SameSeq ==
    ASSUME NEW S, NEW s \in Seq(S), NEW t \in Seq(S), Len(s) = Len(t),
           \A i \in 1 .. Len(t) : s[i] = t[i]
    PROVE  s = t
BY SeqEqual

\* What Resume makes of a beginning of t that is asked for t.
LEMMA ResumeBegin ==
    ASSUME NEW S, NEW s \in Seq(S), NEW t \in Seq(S), Begins(s, t)
    PROVE  Resume(s, t) = t
<1>0. Len(s) \in Nat /\ Len(t) \in Nat /\ Len(s) <= Len(t)
      /\ \A i \in 1 .. Len(s) : s[i] = t[i]
  BY LenProperties DEF Begins
<1>1. CASE Len(t) > Len(s)
  <2> DEFINE u == SubSeq(t, Len(s) + 1, Len(t))
  <2>1. /\ u \in Seq(S) /\ Len(u) = Len(t) - Len(s)
        /\ \A i \in 1 .. Len(t) - Len(s) : u[i] = t[Len(s) + i]
    BY <1>0, RestAt
  <2> HIDE DEF u
  <2>2. /\ s \o u \in Seq(S) /\ Len(s \o u) = Len(t)
        /\ \A i \in 1 .. Len(t) : (s \o u)[i] = IF i <= Len(s) THEN s[i] ELSE u[i - Len(s)]
    BY <1>0, <2>1, ConcatAt
  <2>3. ASSUME NEW i \in 1 .. Len(t) PROVE (s \o u)[i] = t[i]
    <3>1. CASE i <= Len(s)
      BY <1>0, <2>2, <3>1
    <3>2. CASE ~(i <= Len(s))
      <4>1. i - Len(s) \in 1 .. Len(t) - Len(s) /\ Len(s) + (i - Len(s)) = i
        BY <1>0, <3>2
      <4> QED
        BY <2>1, <2>2, <3>2, <4>1
    <3> QED
      BY <3>1, <3>2
  <2>4. s \o u = t
    BY <2>2, <2>3, SameSeq
  <2> QED
    BY <1>1, <2>4 DEF Resume, u
<1>2. CASE ~(Len(t) > Len(s))
  <2>1. Len(t) = Len(s)
    BY <1>0, <1>2
  <2>2. s = t
    BY <1>0, <2>1, SameSeq
  <2>3. SubSeq(t, 1, Len(t)) = t
    <3>1. /\ SubSeq(t, 0 + 1, Len(t)) \in Seq(S)
          /\ Len(SubSeq(t, 0 + 1, Len(t))) = Len(t) - 0
          /\ \A i \in 1 .. Len(t) - 0 : SubSeq(t, 0 + 1, Len(t))[i] = t[0 + i]
      <4>1. 0 \in 0 .. Len(t)
        BY <1>0
      <4> QED
        BY <4>1, RestAt
    <3>2. /\ SubSeq(t, 1, Len(t)) \in Seq(S) /\ Len(SubSeq(t, 1, Len(t))) = Len(t)
          /\ \A i \in 1 .. Len(t) : SubSeq(t, 1, Len(t))[i] = t[i]
      BY <1>0, <3>1
    <3> QED
      BY <3>2, SameSeq
  <2> QED
    BY <1>2, <2>2, <2>3 DEF Resume
<1> QED
  BY <1>1, <1>2

\* A beginning of s is one of s and more.
LEMMA BeginsMore ==
    ASSUME NEW S, NEW s \in Seq(S), NEW t \in Seq(S), NEW u \in Seq(S),
           Begins(s, t), Len(t) <= Len(u), \A i \in 1 .. Len(t) : u[i] = t[i]
    PROVE  Begins(s, u)
BY LenProperties DEF Begins

\* The types of texts.
LEMMA TextType ==
    ASSUME TypeOK, NEW r \in Rids
    PROVE  /\ prompt[r] \in Seq(Tokens) /\ output_ids[r] \in Seq(Tokens)
           /\ lvm_prefix[r] \in Seq(Tokens) /\ cached[r] \in Seq(Tokens)
           /\ Text(r) \in Seq(Tokens)
           /\ Len(prompt[r]) \in Nat /\ Len(output_ids[r]) \in Nat
           /\ Len(lvm_prefix[r]) \in Nat /\ Len(cached[r]) \in Nat
           /\ Len(Text(r)) = Len(prompt[r]) + Len(output_ids[r])
           /\ \A i \in 1 .. Len(prompt[r]) + Len(output_ids[r]) :
                 Text(r)[i] = IF i <= Len(prompt[r]) THEN prompt[r][i]
                              ELSE output_ids[r][i - Len(prompt[r])]
<1>1. /\ prompt[r] \in Seq(Tokens) /\ output_ids[r] \in Seq(Tokens)
      /\ lvm_prefix[r] \in Seq(Tokens) /\ cached[r] \in Seq(Tokens)
  <2>1. prompt[r] \in Prompts \cup {<<>>}
    BY DEF TypeOK
  <2>2. Prompts \subseteq Seq(Tokens)
    BY DecodeAssumption
  <2>3. <<>> \in Seq(Tokens)
    BY EmptySeq
  <2>4. prompt[r] \in Seq(Tokens)
    BY <2>1, <2>2, <2>3
  <2> QED
    BY <2>4 DEF TypeOK, StoreTypeOK
<1> QED
  BY <1>1, ConcatAt, LenProperties DEF Text

\* Appending what is missing of o to a beginning of q and o that contains q.
LEMMA Incremental ==
    ASSUME NEW S, NEW q \in Seq(S), NEW o \in Seq(S), NEW p \in Seq(S),
           Len(q) <= Len(p), Begins(p, q \o o)
    PROVE  /\ Len(o) >= Len(p) - Len(q)
           /\ p \o SubSeq(o, Len(p) - Len(q) + 1, Len(o)) = q \o o
<1>1. /\ q \o o \in Seq(S) /\ Len(q) \in Nat /\ Len(o) \in Nat /\ Len(p) \in Nat
      /\ Len(q \o o) = Len(q) + Len(o)
      /\ \A i \in 1 .. Len(q) + Len(o) : (q \o o)[i] = IF i <= Len(q) THEN q[i] ELSE o[i - Len(q)]
  BY ConcatAt, LenProperties
<1>2. PICK t \in Seq(S) : t = q \o o
  BY <1>1
<1>3. PICK k \in 0 .. Len(o) : k = Len(p) - Len(q)
  BY <1>1 DEF Begins
<1>4. PICK u : u = SubSeq(o, k + 1, Len(o))
  OBVIOUS
<1>5. /\ u \in Seq(S) /\ Len(u) = Len(o) - k
      /\ \A i \in 1 .. Len(o) - k : u[i] = o[k + i]
  BY <1>4, RestAt
<1>6. /\ p \o u \in Seq(S) /\ Len(p \o u) = Len(p) + Len(u)
      /\ \A i \in 1 .. Len(p) + Len(u) : (p \o u)[i] = IF i <= Len(p) THEN p[i] ELSE u[i - Len(p)]
  BY <1>5, ConcatAt
<1>7. Len(t) = Len(q) + Len(o) /\ Len(p \o u) = Len(t)
  BY <1>1, <1>2, <1>3, <1>5, <1>6
<1>8. ASSUME NEW i \in 1 .. Len(t) PROVE (p \o u)[i] = t[i]
  <2>1. CASE i <= Len(p)
    <3>1. (p \o u)[i] = p[i]
      BY <1>6, <1>7, <2>1
    <3>2. i \in 1 .. Len(p)
      BY <1>1, <2>1
    <3> QED
      BY <1>2, <3>1, <3>2 DEF Begins
  <2>2. CASE ~(i <= Len(p))
    <3>1. /\ i - Len(p) \in 1 .. Len(o) - k /\ k + (i - Len(p)) = i - Len(q)
          /\ ~(i <= Len(q)) /\ i \in 1 .. Len(p) + Len(u) /\ i \in 1 .. Len(q) + Len(o)
      BY <1>1, <1>3, <1>5, <1>6, <1>7, <2>2
    <3>2. (p \o u)[i] = u[i - Len(p)]
      BY <1>6, <2>2, <3>1
    <3>3. u[i - Len(p)] = o[i - Len(q)]
      BY <1>5, <3>1
    <3>4. t[i] = o[i - Len(q)]
      BY <1>1, <1>2, <3>1
    <3> QED
      BY <3>2, <3>3, <3>4
  <2> QED
    BY <2>1, <2>2
<1>9. p \o u = t
  BY <1>6, <1>7, <1>8, SameSeq
<1> QED
  BY <1>1, <1>2, <1>3, <1>4, <1>9

\* _get_prefix_ids_incremental returns the request's text.
LEMMA PrefixIsText ==
    ASSUME TypeOK, Contexts, NEW r \in Rids
    PROVE  prefix_ids(r) = Text(r)
<1>1. CASE lvm_prefix[r] = <<>>
  BY <1>1 DEF prefix_ids, Text
<1>2. CASE lvm_prefix[r] # <<>>
  <2>1. Len(prompt[r]) <= Len(lvm_prefix[r]) /\ Begins(lvm_prefix[r], prompt[r] \o output_ids[r])
    BY <1>2 DEF Contexts, Text
  <2>2. /\ Len(output_ids[r]) >= Len(lvm_prefix[r]) - Len(prompt[r])
        /\ lvm_prefix[r] \o SubSeq(output_ids[r], Len(lvm_prefix[r]) - Len(prompt[r]) + 1,
                                    Len(output_ids[r])) = prompt[r] \o output_ids[r]
    <3>1. /\ prompt[r] \in Seq(Tokens) /\ output_ids[r] \in Seq(Tokens)
          /\ lvm_prefix[r] \in Seq(Tokens)
      BY TextType
    <3> QED
      BY <2>1, <3>1, Incremental
  <2>3. /\ Len(prompt[r]) \in Nat /\ Len(output_ids[r]) \in Nat /\ Len(lvm_prefix[r]) \in Nat
    BY TextType
  <2> QED
    BY <1>2, <2>2, <2>3 DEF prefix_ids, Text
<1> QED
  BY <1>1, <1>2

----------------------------------------------------------------------------
(* What the steps of an iteration do.                                      *)

\* A batch is sampled where it was run, and the LenVM is idle again.
LEMMA Sampled ==
    ASSUME IInv, SampleGuided \/ SampleUnguided \/ SampleGreedy
    PROVE  /\ loop = "run" /\ loop' = "process"
           /\ phase' = "idle" /\ cached' = cached /\ batch' = batch
           /\ asked' = [r \in {} |-> <<>>]
           /\ \E tok \in [cur_batch.reqs -> Tokens] :
                 result_queue' = Append(result_queue, [batch |-> cur_batch, tok |-> tok])
           /\ UNCHANGED <<reqVars, schedVars, cur_batch, last_batch>>
<1>1. phase \in {"cleaned", "extended"} => loop = "run"
  BY DEF IInv, Contexts
<1>2. phase \in {"idle", "cleaned"} => asked = [r \in {} |-> <<>>]
  BY DEF IInv, Contexts
<1>3. CASE SampleGuided
  BY <1>1, <1>3 DEF SampleGuided, Sample, Eval
<1>4. CASE SampleUnguided
  BY <1>1, <1>2, <1>4 DEF SampleUnguided, Sample, Skip
<1>5. CASE SampleGreedy
  BY <1>2, <1>5 DEF SampleGreedy, Sample, storeVars
<1> QED
  BY <1>3, <1>4, <1>5

\* The rows that are sent are brought to their texts.
LEMMA Extended ==
    ASSUME IInv, NEW R \in (SUBSET cur_batch.reqs) \ {{}}, ApplyExtend(R)
    PROVE  /\ loop = "run" /\ phase = "cleaned" /\ phase' = "extended"
           /\ R \subseteq Rids /\ batch' = batch /\ batch = cur_batch.reqs
           /\ asked' = [r \in R |-> Text(r)]
           /\ cached' = [r \in Rids |-> IF r \in R THEN Text(r) ELSE cached[r]]
           /\ lvm_prefix' = [r \in Rids |-> IF r \in R THEN Text(r) ELSE lvm_prefix[r]]
           /\ UNCHANGED <<prompt, output_ids, finished, to_finish, is_retracted,
                          is_chunked, schedVars, cur_batch, last_batch, result_queue, loop>>
<1>1. R \subseteq Rids
  BY DEF IInv, TypeOK, Batches
<1>2. \A r \in R : prefix_ids(r) = Text(r) /\ Text(r) \in Seq(Tokens)
  BY <1>1, PrefixIsText, TextType DEF IInv
<1>3. \A r \in R : Resume(cached[r], Text(r)) = Text(r)
  <2>1. \A r \in R : cached[r] \in Seq(Tokens) /\ Begins(cached[r], Text(r))
    BY <1>1 DEF IInv, TypeOK, StoreTypeOK, Contexts
  <2> QED
    BY <1>2, <2>1, ResumeBegin
<1>4. [r \in R |-> prefix_ids(r)] = [r \in R |-> Text(r)]
  BY <1>2
<1>5. /\ loop = "run" /\ phase = "cleaned" /\ phase' = "extended" /\ batch' = batch
      /\ asked' = [r \in R |-> Text(r)]
      /\ cached' = [r \in Rids |-> IF r \in R THEN Resume(cached[r], Text(r)) ELSE cached[r]]
  BY <1>4 DEF ApplyExtend, Extend
<1>6. cached' = [r \in Rids |-> IF r \in R THEN Text(r) ELSE cached[r]]
  BY <1>3, <1>5
<1>7. lvm_prefix' = [r \in Rids |-> IF r \in R THEN Text(r) ELSE lvm_prefix[r]]
  BY <1>2 DEF ApplyExtend
<1>8. batch = cur_batch.reqs
  BY <1>5 DEF IInv, Contexts
<1> QED
  BY <1>1, <1>5, <1>6, <1>7, <1>8 DEF ApplyExtend

\* The batch whose result this iteration processes.
ResultBatch == IF overlap THEN last_batch ELSE cur_batch

\* Its requests that get a token.
Served == (ResultBatch.reqs \ ResultBatch.partial) \ (finished \cup is_retracted)

\* process_batch_result gives a token to exactly these requests: finished and
\* retracted ones are passed over, and is_chunked tells which prefills go on.
LEMMA Processed ==
    ASSUME IInv, Process
    PROVE  /\ loop = "process" /\ loop' = "recv" /\ last_batch' = cur_batch
           /\ UNCHANGED <<storeVars, prompt, lvm_prefix, is_retracted, schedVars, cur_batch>>
           /\ \E tok \in [ResultBatch.reqs -> Tokens] :
                 output_ids' = [r \in Rids |-> IF r \in Served
                                               THEN Append(output_ids[r], tok[r])
                                               ELSE output_ids[r]]
           /\ \E D \in SUBSET Served : finished' = finished \cup D /\ to_finish' = to_finish \ D
           /\ is_chunked' = [r \in Rids |-> IF r \in ResultBatch.partial
                                            THEN is_chunked[r] - 1 ELSE is_chunked[r]]
           /\ result_queue' = IF ResultDue THEN Tail(result_queue) ELSE result_queue
           /\ ResultDue => Len(result_queue) >= 1 /\ Head(result_queue).batch = ResultBatch
<1>1. /\ loop = "process" /\ loop' = "recv" /\ last_batch' = cur_batch
      /\ UNCHANGED <<storeVars, prompt, lvm_prefix, is_retracted, schedVars, cur_batch>>
      /\ result_queue' = IF ResultDue THEN Tail(result_queue) ELSE result_queue
  BY DEF Process
<1>2. /\ output_ids \in [Rids -> Seq(Tokens)] /\ is_chunked \in [Rids -> Nat]
      /\ ResultBatch \in Batches /\ overlap \in BOOLEAN
  BY DecodeAssumption DEF IInv, TypeOK, ResultBatch
<1>3. CASE ~ResultDue
  <2>1. ResultBatch = NoBatch
    BY <1>3 DEF ResultDue, ResultBatch
  <2>2. ResultBatch.reqs = {} /\ ResultBatch.partial = {} /\ Served = {}
    BY <2>1 DEF NoBatch, Served
  <2>3. UNCHANGED <<output_ids, finished, to_finish, is_chunked>>
    BY <1>3 DEF Process
  <2>4. \E tok \in [ResultBatch.reqs -> Tokens] : TRUE
    <3>1. [r \in {} |-> <<>>] \in [{} -> Tokens]
      OBVIOUS
    <3> QED
      BY <2>2, <3>1, Zenon
  <2>5. /\ output_ids' = [r \in Rids |-> output_ids[r]]
        /\ is_chunked' = [r \in Rids |-> is_chunked[r]]
    BY <1>2, <2>3
  <2> QED
    BY <1>1, <1>3, <2>2, <2>3, <2>4, <2>5
<1>4. CASE ResultDue
  <2> DEFINE res == Head(result_queue)
  <2>1. /\ result_queue \in Seq(Results) /\ Len(result_queue) >= 1
        /\ result_queue[1].batch = ResultBatch
    BY <1>1, <1>2, <1>4 DEF IInv, QueueShape, LastDue, CurDue, ResultDue, ResultBatch
  <2>2. res = result_queue[1] /\ res \in Results
    <3>1. Len(result_queue) \in Nat
      BY <2>1, LenProperties
    <3>2. 1 \in 1 .. Len(result_queue)
      BY <2>1, <3>1
    <3> QED
      BY <2>1, <3>2, ElementOfSeq, HeadTailProperties
  <2>3. res.batch = ResultBatch /\ res.tok \in [ResultBatch.reqs -> Tokens]
    BY <2>1, <2>2 DEF Results
  <2> HIDE DEF res
  <2>4. /\ ResultBatch.partial \subseteq ResultBatch.reqs
        /\ ResultBatch.partial # {} => ResultBatch.extend
        /\ ResultBatch.partial \cap (finished \cup is_retracted) = {}
        /\ \A r \in ResultBatch.reqs : r \in ResultBatch.partial <=>
              ResultBatch.extend /\ is_chunked[r] > 0
        /\ ~ResultBatch.extend /\ ~overlap
              => ResultBatch.reqs \cap (finished \cup is_retracted) = {}
    <3>1. CASE overlap
      <4>1. ResultBatch = last_batch
        BY <3>1 DEF ResultBatch
      <4>2. /\ last_batch.partial \subseteq last_batch.reqs
            /\ last_batch.partial # {} => last_batch.extend
            /\ last_batch.partial \cap (finished \cup is_retracted) = {}
        BY DEF IInv, Placement, GoodBatch, Pending
      <4>3. \A r \in Rids : is_chunked[r] = (IF r \in last_batch.partial THEN 1 ELSE 0)
                                              + (IF r \in cur_batch.partial THEN 1 ELSE 0)
        BY <1>1, <3>1 DEF IInv, Pending, Counted
      <4>4. /\ cur_batch.partial \subseteq cur_batch.reqs
            /\ cur_batch.partial # {} => cur_batch.extend
            /\ cur_batch.extend => cur_batch.reqs \cap last_batch.reqs \subseteq last_batch.partial
        BY <1>1 DEF IInv, Placement, GoodBatch, Pending
      <4>5. last_batch.reqs \subseteq Rids
        BY <1>2, <4>1 DEF Batches
      <4> QED
        BY <3>1, <4>1, <4>2, <4>3, <4>4, <4>5
    <3>2. CASE ~overlap
      <4>1. ResultBatch = cur_batch
        BY <3>2 DEF ResultBatch
      <4>2. /\ cur_batch.partial \subseteq cur_batch.reqs
            /\ cur_batch.partial # {} => cur_batch.extend
            /\ cur_batch.reqs \cap (finished \cup is_retracted) = {}
        BY <1>1 DEF IInv, Placement, GoodBatch, Pending
      <4>3. \A r \in Rids : is_chunked[r] = IF r \in cur_batch.partial THEN 1 ELSE 0
        BY <1>1, <3>2 DEF IInv, Pending, Counted
      <4>4. cur_batch.reqs \subseteq Rids
        BY <1>2, <4>1 DEF Batches
      <4> QED
        BY <3>2, <4>1, <4>2, <4>3, <4>4
    <3> QED
      BY <3>1, <3>2
  <2>5. Appended(res) = Served /\ StillChunked(res) = ResultBatch.partial
    <3>1. Skipped(res) = IF ResultBatch.extend \/ overlap THEN finished \cup is_retracted ELSE {}
      BY <2>3 DEF Skipped
    <3>2. StillChunked(res) = {r \in ResultBatch.reqs \ Skipped(res) :
                                 ResultBatch.extend /\ is_chunked[r] > 0}
      BY <2>3 DEF StillChunked
    <3>3. StillChunked(res) = ResultBatch.partial
      BY <2>4, <3>1, <3>2
    <3>4. Appended(res) = (ResultBatch.reqs \ Skipped(res)) \ ResultBatch.partial
      BY <2>3, <3>3 DEF Appended
    <3> QED
      BY <2>4, <3>1, <3>3, <3>4 DEF Served
  <2>6. ApplyResult(res)
    BY <1>4 DEF Process, res
  <2>7. /\ output_ids' = [r \in Rids |-> IF r \in Served THEN Append(output_ids[r], res.tok[r])
                                         ELSE output_ids[r]]
        /\ is_chunked' = [r \in Rids |-> IF r \in ResultBatch.partial
                                         THEN is_chunked[r] - 1 ELSE is_chunked[r]]
        /\ \E D \in SUBSET Served : finished' = finished \cup D /\ to_finish' = to_finish \ D
    BY <2>5, <2>6 DEF ApplyResult
  <2> QED
    BY <1>1, <1>4, <2>1, <2>2, <2>3, <2>7 DEF res
<1> QED
  BY <1>3, <1>4

\* The types of what running a batch changes.
LEMMA RunTypes ==
    ASSUME IInv, overlap' = overlap,
           \/ ApplyClean
           \/ \E R \in (SUBSET cur_batch.reqs) \ {{}} : ApplyExtend(R)
           \/ SampleGuided \/ SampleUnguided \/ SampleGreedy
           \/ Crash
    PROVE  TypeOK'
<1>0. TypeOK /\ StoreTypeOK
  BY DEF IInv, TypeOK
<1>1. CASE ApplyClean
  <2>1. StoreTypeOK'
    <3>1. asked = [r \in {} |-> <<>>]
      BY <1>1 DEF IInv, Contexts, ApplyClean, Clean
    <3>2. DOMAIN asked = {}
      BY <3>1
    <3>3. cur_batch.reqs \subseteq Rids
      BY <1>0 DEF TypeOK, Batches
    <3>4. /\ cached' = [r \in Rids |-> IF r \in cur_batch.reqs THEN cached[r] ELSE <<>>]
          /\ phase' = "cleaned" /\ batch' = cur_batch.reqs /\ asked' = asked
      BY <1>1 DEF ApplyClean, Clean
    <3>5. cached' \in [Rids -> Seq(Tokens)]
      BY <1>0, <3>4, EmptySeq DEF StoreTypeOK
    <3> QED
      BY <1>0, <3>2, <3>3, <3>4, <3>5 DEF StoreTypeOK
  <2> QED
    BY <1>0, <1>1, <2>1 DEF TypeOK, ApplyClean, reqVars, schedVars
<1>2. ASSUME NEW R \in (SUBSET cur_batch.reqs) \ {{}}, ApplyExtend(R)
      PROVE  TypeOK'
  <2>1. /\ phase' = "extended" /\ R \subseteq Rids /\ batch' = batch /\ batch = cur_batch.reqs
        /\ asked' = [r \in R |-> Text(r)]
        /\ cached' = [r \in Rids |-> IF r \in R THEN Text(r) ELSE cached[r]]
        /\ lvm_prefix' = [r \in Rids |-> IF r \in R THEN Text(r) ELSE lvm_prefix[r]]
        /\ UNCHANGED <<prompt, output_ids, finished, to_finish, is_retracted,
                       is_chunked, schedVars, cur_batch, last_batch, result_queue, loop>>
    BY <1>2, Extended
  <2>2. \A r \in Rids : Text(r) \in Seq(Tokens)
    BY <1>0, TextType
  <2>3. StoreTypeOK'
    BY <1>0, <2>1, <2>2 DEF StoreTypeOK
  <2>4. lvm_prefix' \in [Rids -> Seq(Tokens)]
    BY <1>0, <2>1, <2>2 DEF TypeOK
  <2> QED
    BY <1>0, <2>1, <2>3, <2>4 DEF TypeOK, schedVars
<1>3. CASE SampleGuided \/ SampleUnguided \/ SampleGreedy
  <2>1. PICK tok \in [cur_batch.reqs -> Tokens] :
          result_queue' = Append(result_queue, [batch |-> cur_batch, tok |-> tok])
    BY <1>3, Sampled
  <2>2. /\ loop = "run" /\ loop' = "process"
        /\ phase' = "idle" /\ cached' = cached /\ batch' = batch
        /\ asked' = [r \in {} |-> <<>>]
        /\ UNCHANGED <<reqVars, schedVars, cur_batch, last_batch>>
    BY <1>3, Sampled
  <2>3. StoreTypeOK'
    BY <1>0, <2>2 DEF StoreTypeOK
  <2>4. result_queue \in Seq(Results) /\ Len(result_queue) <= 1 /\ Len(result_queue) \in Nat
    BY <2>2, LenProperties DEF IInv, QueueShape, LastDue, CurDue
  <2>5. [batch |-> cur_batch, tok |-> tok].batch = cur_batch
        /\ [batch |-> cur_batch, tok |-> tok].tok = tok
    OBVIOUS
  <2>6. /\ Len(result_queue') = Len(result_queue) + 1
        /\ \A i \in 1 .. Len(result_queue) : result_queue'[i] = result_queue[i]
        /\ result_queue'[Len(result_queue) + 1] = [batch |-> cur_batch, tok |-> tok]
    BY <2>1, <2>4, AppendProperties
  <2>7. \A i \in 1 .. Len(result_queue') :
          /\ result_queue'[i].batch \in Batches
          /\ result_queue'[i].tok \in [result_queue'[i].batch.reqs -> Tokens]
    <3> SUFFICES ASSUME NEW i \in 1 .. Len(result_queue')
                 PROVE  /\ result_queue'[i].batch \in Batches
                        /\ result_queue'[i].tok \in [result_queue'[i].batch.reqs -> Tokens]
      OBVIOUS
    <3>1. CASE i \in 1 .. Len(result_queue)
      BY <1>0, <2>6, <3>1 DEF TypeOK
    <3>2. CASE i = Len(result_queue) + 1
      BY <1>0, <2>5, <2>6, <3>2 DEF TypeOK
    <3> QED
      BY <2>4, <2>6, <3>1, <3>2
  <2> QED
    BY <1>0, <2>2, <2>3, <2>4, <2>6, <2>7 DEF TypeOK, reqVars, schedVars
<1>4. CASE Crash
  <2>1. StoreTypeOK'
    BY <1>0, <1>4 DEF StoreTypeOK, Crash, ExtendRaises, EvalRaises, Eval
  <2> QED
    BY <1>0, <1>4, <2>1 DEF TypeOK, Crash, reqVars, schedVars
<1> QED
  BY <1>1, <1>2, <1>3, <1>4

\* The types of what processing a result changes.
LEMMA ProcessTypes ==
    ASSUME IInv, overlap' = overlap, Process
    PROVE  TypeOK'
<1>0. TypeOK /\ StoreTypeOK
  BY DEF IInv, TypeOK
<1>1. /\ loop = "process" /\ loop' = "recv" /\ last_batch' = cur_batch
      /\ UNCHANGED <<storeVars, prompt, lvm_prefix, is_retracted, schedVars, cur_batch>>
      /\ is_chunked' = [r \in Rids |-> IF r \in ResultBatch.partial
                                       THEN is_chunked[r] - 1 ELSE is_chunked[r]]
      /\ result_queue' = IF ResultDue THEN Tail(result_queue) ELSE result_queue
      /\ ResultDue => Len(result_queue) >= 1
  BY Processed
<1>2. PICK tok \in [ResultBatch.reqs -> Tokens] :
        output_ids' = [r \in Rids |-> IF r \in Served THEN Append(output_ids[r], tok[r])
                                      ELSE output_ids[r]]
  BY Processed
<1>3. PICK D \in SUBSET Served : finished' = finished \cup D /\ to_finish' = to_finish \ D
  BY Processed
<1>4. ResultBatch \in Batches /\ Served \subseteq Rids /\ Served \subseteq ResultBatch.reqs
  BY <1>0 DEF TypeOK, ResultBatch, Served, Batches
<1>5. output_ids' \in [Rids -> Seq(Tokens)]
  BY <1>0, <1>2, <1>4, AppendProperties DEF TypeOK
<1>6. is_chunked' \in [Rids -> Nat]
  <2>1. \A r \in ResultBatch.partial : r \in Rids => is_chunked[r] >= 1
    BY <1>1, DecodeAssumption DEF IInv, TypeOK, Pending, Counted, ResultBatch
  <2> QED
    BY <1>0, <1>1, <2>1 DEF TypeOK
<1>7. /\ Len(result_queue') <= 2
      /\ \A i \in 1 .. Len(result_queue') :
            /\ result_queue'[i].batch \in Batches
            /\ result_queue'[i].tok \in [result_queue'[i].batch.reqs -> Tokens]
  <2>1. CASE ~ResultDue
    BY <1>0, <1>1, <2>1 DEF TypeOK
  <2>2. CASE ResultDue
    <3>1. result_queue \in Seq(Results) /\ Len(result_queue) \in Nat
      BY LenProperties DEF IInv, QueueShape
    <3>2. result_queue # <<>>
      BY <1>1, <2>2
    <3>3. /\ Len(result_queue') = Len(result_queue) - 1
          /\ \A i \in 1 .. Len(result_queue') : result_queue'[i] = result_queue[i + 1]
      BY <1>1, <2>2, <3>1, <3>2, HeadTailProperties
    <3>4. \A i \in 1 .. Len(result_queue') : i + 1 \in 1 .. Len(result_queue)
      BY <1>1, <2>2, <3>1, <3>3
    <3>5. Len(result_queue) <= 2
      BY <1>0 DEF TypeOK
    <3>6. \A i \in 1 .. Len(result_queue) :
            /\ result_queue[i].batch \in Batches
            /\ result_queue[i].tok \in [result_queue[i].batch.reqs -> Tokens]
      BY <1>0 DEF TypeOK
    <3>7. Len(result_queue') <= 2
      BY <3>1, <3>3, <3>5
    <3> QED
      BY <3>3, <3>4, <3>6, <3>7
  <2> QED
    BY <2>1, <2>2
<1> QED
  BY <1>0, <1>1, <1>3, <1>4, <1>5, <1>6, <1>7 DEF TypeOK, StoreTypeOK, storeVars, schedVars

----------------------------------------------------------------------------
(* The invariant is inductive: one lemma per part, one step per action.    *)

\* The steps that run a batch and do not sample.
Quiet ==
    \/ ApplyClean
    \/ \E R \in (SUBSET cur_batch.reqs) \ {{}} : ApplyExtend(R)
    \/ Crash

\* They leave the scheduler and the requests' progress alone.
LEMMA QuietFrame ==
    ASSUME Quiet
    PROVE  UNCHANGED <<prompt, output_ids, finished, to_finish, is_retracted, is_chunked,
                       waiting_queue, running_batch, chunked_req, chunks_left,
                       cur_batch, last_batch, result_queue, loop>>
BY DEF Quiet, ApplyClean, ApplyExtend, Crash, reqVars, schedVars

\* A batch that is formed starts at "recv" and has no result yet.
LEMMA FormFrame ==
    ASSUME \/ \E C \in SUBSET waiting_queue : Prefill(C)
           \/ \E T \in SUBSET (Merged \ finished) : Decode(T)
           \/ NoNextBatch
    PROVE  /\ loop = "recv" /\ (loop' = "run" \/ (loop' = "process" /\ cur_batch' = NoBatch))
           /\ UNCHANGED <<storeVars, prompt, output_ids, lvm_prefix, finished,
                          to_finish, last_batch, result_queue>>
<1>1. CASE \E C \in SUBSET waiting_queue : Prefill(C)
  <2>1. PICK C \in SUBSET waiting_queue : Prefill(C)
    BY <1>1
  <2> QED
    BY <2>1 DEF Prefill
<1>2. CASE \E T \in SUBSET (Merged \ finished) : Decode(T)
  <2>1. PICK T \in SUBSET (Merged \ finished) : Decode(T)
    BY <1>2
  <2> QED
    BY <2>1 DEF Decode
<1>3. CASE NoNextBatch
  BY <1>3 DEF NoNextBatch, reqVars
<1> QED
  BY <1>1, <1>2, <1>3

\* Which results are queued.
LEMMA QueueShapeNext ==
    ASSUME IInv, Next
    PROVE  QueueShape'
<1>0. /\ QueueShape /\ overlap' = overlap /\ overlap \in BOOLEAN
      /\ Len(result_queue) \in Nat /\ result_queue \in Seq(Results)
  BY LenProperties, DecodeAssumption DEF IInv, TypeOK, QueueShape, Next, Iterate
<1>1. CASE (\E r \in Rids, q \in Prompts : Submit(r, q)) \/ (\E r \in Rids : Abort(r))
  BY <1>0, <1>1 DEF QueueShape, LastDue, CurDue, Submit, Abort
<1>2. CASE \/ \E C \in SUBSET waiting_queue : Prefill(C)
           \/ \E T \in SUBSET (Merged \ finished) : Decode(T)
           \/ NoNextBatch
  <2>1. /\ loop = "recv" /\ (loop' = "run" \/ (loop' = "process" /\ cur_batch' = NoBatch))
        /\ UNCHANGED <<last_batch, result_queue>>
    BY <1>2, FormFrame
  <2> QED
    BY <1>0, <2>1 DEF QueueShape, LastDue, CurDue
<1>3. CASE Quiet
  <2>1. UNCHANGED <<cur_batch, last_batch, result_queue, loop>>
    BY <1>3, QuietFrame
  <2> QED
    BY <1>0, <2>1 DEF QueueShape, LastDue, CurDue
<1>4. CASE SampleGuided \/ SampleUnguided \/ SampleGreedy
  <2>1. PICK tok \in [cur_batch.reqs -> Tokens] :
          result_queue' = Append(result_queue, [batch |-> cur_batch, tok |-> tok])
    BY <1>4, Sampled
  <2>2. loop = "run" /\ loop' = "process" /\ UNCHANGED <<cur_batch, last_batch>>
    BY <1>4, Sampled
  <2>3. cur_batch # NoBatch /\ cur_batch \in Batches
    BY <2>2 DEF IInv, TypeOK, Placement
  <2>4. PICK x \in Results : x = [batch |-> cur_batch, tok |-> tok] /\ x.batch = cur_batch
    <3> DEFINE y == [batch |-> cur_batch, tok |-> tok]
    <3>1. y.batch = cur_batch /\ y.tok = tok
      OBVIOUS
    <3>2. cur_batch.reqs \in SUBSET Rids
      BY <2>3 DEF Batches
    <3>3. tok \in UNION {[R -> Tokens] : R \in SUBSET Rids}
      BY <3>2
    <3>4. y \in [batch : Batches, tok : UNION {[R -> Tokens] : R \in SUBSET Rids}]
      BY <2>3, <3>3
    <3>5. y \in Results
      BY <3>1, <3>4 DEF Results
    <3> QED
      BY <3>1, <3>5
  <2>5. /\ result_queue' \in Seq(Results) /\ Len(result_queue') = Len(result_queue) + 1
        /\ \A i \in 1 .. Len(result_queue) : result_queue'[i] = result_queue[i]
        /\ result_queue'[Len(result_queue) + 1] = x
    BY <1>0, <2>1, <2>4, AppendProperties
  <2> QED
    BY <1>0, <2>2, <2>3, <2>4, <2>5 DEF QueueShape, LastDue, CurDue
<1>5. CASE Process
  <2>1. /\ loop = "process" /\ loop' = "recv" /\ last_batch' = cur_batch /\ cur_batch' = cur_batch
        /\ result_queue' = IF ResultDue THEN Tail(result_queue) ELSE result_queue
    BY <1>5, Processed
  <2>2. CASE ~ResultDue
    BY <1>0, <2>1, <2>2 DEF QueueShape, LastDue, CurDue, ResultDue
  <2>3. CASE ResultDue
    <3>1. Len(result_queue) >= 1
      BY <1>5, <2>3, Processed
    <3>2. result_queue # <<>>
      BY <3>1
    <3>3. /\ result_queue' \in Seq(Results) /\ Len(result_queue') = Len(result_queue) - 1
          /\ \A i \in 1 .. Len(result_queue') : result_queue'[i] = result_queue[i + 1]
      BY <1>0, <2>1, <2>3, <3>2, HeadTailProperties
    <3> QED
      BY <1>0, <2>1, <2>3, <3>3 DEF QueueShape, LastDue, CurDue, ResultDue
  <2> QED
    BY <2>2, <2>3
<1> QED
  BY <1>1, <1>2, <1>3, <1>4, <1>5, Zenon DEF Next, Iterate, Quiet

\* Where requests are.
LEMMA PlacementNext ==
    ASSUME IInv, Next
    PROVE  Placement'
<1>0. /\ TypeOK /\ Placement /\ overlap' = overlap /\ overlap \in BOOLEAN
  BY DecodeAssumption DEF IInv, TypeOK, Next, Iterate
<1>1. ASSUME NEW r \in Rids, NEW q \in Prompts, Submit(r, q)
      PROVE  Placement'
  <2>1. /\ loop = "recv" /\ prompt[r] = <<>>
        /\ prompt' = [prompt EXCEPT ![r] = q] /\ waiting_queue' = waiting_queue \cup {r}
        /\ UNCHANGED <<finished, running_batch, chunked_req, chunks_left, cur_batch, last_batch, loop>>
    BY <1>1 DEF Submit, Known
  <2>2. /\ prompt'[r] # <<>> /\ \A s \in Rids \ {r} : prompt'[s] = prompt[s]
    BY <1>0, <2>1, DecodeAssumption DEF TypeOK
  <2>3. r \notin waiting_queue \cup running_batch \cup cur_batch.reqs
                   \cup last_batch.reqs \cup finished
    BY <1>0, <2>1 DEF Placement, Known
  <2> QED
    BY <1>0, <2>1, <2>2, <2>3 DEF TypeOK, Batches, Placement, GoodBatch, Chunked, Known
<1>2. ASSUME NEW r \in Rids, Abort(r)
      PROVE  Placement'
  <2>1. /\ loop = "recv" /\ prompt[r] # <<>>
        /\ waiting_queue' = waiting_queue \ {r}
        /\ finished' = IF r \in waiting_queue THEN finished \cup {r} ELSE finished
        /\ UNCHANGED <<prompt, running_batch, chunked_req, chunks_left, cur_batch, last_batch, loop>>
    BY <1>2 DEF Abort, Known
  <2>2. CASE r \in waiting_queue
    <3>1. Chunked \subseteq cur_batch.reqs
      BY <1>0 DEF Placement, GoodBatch
    <3> QED
      BY <1>0, <2>1, <2>2, <3>1 DEF Placement, GoodBatch, Chunked, Known
  <2>3. CASE r \notin waiting_queue
    <3>1. waiting_queue' = waiting_queue /\ finished' = finished
      BY <2>1, <2>3
    <3> QED
      BY <1>0, <2>1, <3>1 DEF Placement, GoodBatch, Chunked, Known
  <2> QED
    BY <2>2, <2>3
<1>3. ASSUME NEW C \in SUBSET waiting_queue, Prefill(C)
      PROVE  Placement'
  <2>1. /\ UNCHANGED <<prompt, finished, last_batch>>
        /\ C \cup Chunked # {}
        /\ running_batch' = Merged /\ waiting_queue' = waiting_queue \ C
        /\ loop = "recv" /\ loop' = "run"
    BY <1>3 DEF Prefill
  <2>2. PICK c \in Rids \cup {NoReq}, n \in Nat :
          LET P == IF c = NoReq THEN {} ELSE {c} IN
          /\ \/ c = chunked_req /\ c # NoReq /\ n = chunks_left - 1 /\ n > 0
             \/ c = NoReq /\ n = 0
             \/ c \in C /\ n \in 1 .. (MaxPasses - 1)
          /\ chunked_req' = c /\ chunks_left' = n
          /\ is_chunked' = [r \in Rids |-> is_chunked[r] + (IF r \in P THEN 1 ELSE 0)]
          /\ cur_batch' = [reqs |-> C \cup Chunked, extend |-> TRUE, partial |-> P]
    BY <1>0, <1>3, PrefillEffect
  <2>3. /\ cur_batch'.reqs = C \cup Chunked /\ cur_batch'.extend /\ cur_batch'.partial = Chunked'
        /\ Chunked' \subseteq C \cup Chunked
        /\ cur_batch' # NoBatch
        /\ chunked_req' # NoReq => chunks_left' >= 1
    BY <2>2 DEF Chunked, NoBatch
  <2>4. /\ last_batch = cur_batch /\ cur_batch.partial = Chunked /\ Chunked \subseteq cur_batch.reqs
        /\ cur_batch.extend => running_batch \cap cur_batch.reqs = {}
        /\ ~cur_batch.extend => cur_batch.reqs = running_batch
        /\ Chunked # {} => cur_batch.extend
    BY <1>0, <2>1 DEF Placement, GoodBatch
  <2>5. Merged = IF cur_batch.extend
                 THEN running_batch \cup ((cur_batch.reqs \ finished) \ Chunked)
                 ELSE running_batch
    BY <2>4 DEF Merged
  <2>6. /\ waiting_queue \cap (running_batch \cup cur_batch.reqs \cup finished) = {}
        /\ Chunked \cap finished = {}
        /\ \A r \in Rids : Known(r) /\ r \notin finished
                         => r \in waiting_queue \cup running_batch \cup cur_batch.reqs
        /\ \A r \in waiting_queue \cup running_batch \cup cur_batch.reqs
                     \cup last_batch.reqs \cup finished : Known(r)
    BY <1>0 DEF Placement
  <2>7. GoodBatch(cur_batch') /\ GoodBatch(last_batch')
    BY <1>0, <2>1, <2>3 DEF Placement, GoodBatch
  <2>8. /\ waiting_queue' \cap (running_batch' \cup cur_batch'.reqs \cup finished') = {}
        /\ Chunked' \cap finished' = {}
        /\ running_batch' \cap cur_batch'.reqs = {}
    BY <2>1, <2>3, <2>4, <2>5, <2>6
  <2>9. /\ \A r \in Rids : Known(r)' /\ r \notin finished'
                            => r \in waiting_queue' \cup running_batch' \cup cur_batch'.reqs
        /\ \A r \in waiting_queue' \cup running_batch' \cup cur_batch'.reqs
                     \cup last_batch'.reqs \cup finished' : Known(r)'
    BY <2>1, <2>3, <2>4, <2>5, <2>6 DEF Known
  <2> QED
    BY <2>1, <2>3, <2>7, <2>8, <2>9 DEF Placement, GoodBatch
<1>4. ASSUME NEW T \in SUBSET (Merged \ finished), Decode(T)
      PROVE  Placement'
  <2>1. /\ UNCHANGED <<prompt, finished, last_batch, chunked_req, chunks_left>>
        /\ loop = "recv" /\ loop' = "run" /\ chunked_req = NoReq
        /\ T # Merged \ finished
        /\ running_batch' = (Merged \ finished) \ T /\ waiting_queue' = waiting_queue \cup T
        /\ cur_batch' = [reqs |-> (Merged \ finished) \ T, extend |-> FALSE, partial |-> {}]
    BY <1>4 DEF Decode
  <2>2. /\ cur_batch'.reqs = (Merged \ finished) \ T /\ ~cur_batch'.extend
        /\ cur_batch'.partial = {} /\ Chunked = {} /\ Chunked' = {}
        /\ cur_batch'.reqs # {}
        /\ cur_batch' # NoBatch
    BY <2>1 DEF Chunked, NoBatch
  <2>3. /\ last_batch = cur_batch /\ cur_batch.partial = {}
        /\ cur_batch.extend => running_batch \cap cur_batch.reqs = {}
        /\ ~cur_batch.extend => cur_batch.reqs = running_batch
    BY <1>0, <2>1, <2>2 DEF Placement
  <2>4. Merged = IF cur_batch.extend THEN running_batch \cup (cur_batch.reqs \ finished)
                                     ELSE running_batch
    BY <2>2, <2>3 DEF Merged
  <2>5. /\ waiting_queue \cap (running_batch \cup cur_batch.reqs \cup finished) = {}
        /\ \A r \in Rids : Known(r) /\ r \notin finished
                         => r \in waiting_queue \cup running_batch \cup cur_batch.reqs
        /\ \A r \in waiting_queue \cup running_batch \cup cur_batch.reqs
                     \cup last_batch.reqs \cup finished : Known(r)
    BY <1>0 DEF Placement
  <2>6. GoodBatch(cur_batch') /\ GoodBatch(last_batch')
    BY <1>0, <2>1, <2>2 DEF Placement, GoodBatch
  <2>7. waiting_queue' \cap (running_batch' \cup cur_batch'.reqs \cup finished') = {}
    BY <2>1, <2>2, <2>4, <2>5
  <2>8. /\ \A r \in Rids : Known(r)' /\ r \notin finished'
                            => r \in waiting_queue' \cup running_batch' \cup cur_batch'.reqs
        /\ \A r \in waiting_queue' \cup running_batch' \cup cur_batch'.reqs
                     \cup last_batch'.reqs \cup finished' : Known(r)'
    BY <2>1, <2>2, <2>3, <2>4, <2>5 DEF Known
  <2> QED
    BY <2>1, <2>2, <2>6, <2>7, <2>8 DEF Placement, GoodBatch
<1>5. CASE NoNextBatch
  <2>1. /\ UNCHANGED <<prompt, finished, waiting_queue, last_batch, chunked_req, chunks_left>>
        /\ loop = "recv" /\ loop' = "process" /\ chunked_req = NoReq
        /\ Merged \subseteq finished /\ running_batch' = {} /\ cur_batch' = NoBatch
    BY <1>5 DEF NoNextBatch, reqVars
  <2>2. /\ cur_batch'.reqs = {} /\ ~cur_batch'.extend /\ cur_batch'.partial = {}
        /\ Chunked = {} /\ Chunked' = {}
    BY <2>1 DEF Chunked, NoBatch
  <2>3. /\ last_batch = cur_batch /\ cur_batch.partial = {}
        /\ ~cur_batch.extend => cur_batch.reqs = running_batch
    BY <1>0, <2>1, <2>2 DEF Placement
  <2>4. Merged = IF cur_batch.extend THEN running_batch \cup (cur_batch.reqs \ finished)
                                     ELSE running_batch
    BY <2>2, <2>3 DEF Merged
  <2>5. /\ waiting_queue \cap (running_batch \cup cur_batch.reqs \cup finished) = {}
        /\ \A r \in Rids : Known(r) /\ r \notin finished
                         => r \in waiting_queue \cup running_batch \cup cur_batch.reqs
        /\ \A r \in waiting_queue \cup running_batch \cup cur_batch.reqs
                     \cup last_batch.reqs \cup finished : Known(r)
    BY <1>0 DEF Placement
  <2>6. GoodBatch(cur_batch') /\ GoodBatch(last_batch')
    BY <1>0, <2>1, <2>2 DEF Placement, GoodBatch
  <2>7. /\ \A r \in Rids : Known(r)' /\ r \notin finished' => r \in waiting_queue'
        /\ \A r \in waiting_queue' \cup last_batch'.reqs \cup finished' : Known(r)'
    BY <2>1, <2>2, <2>3, <2>4, <2>5 DEF Known
  <2> QED
    BY <2>1, <2>2, <2>5, <2>6, <2>7 DEF Placement, GoodBatch
<1>6. CASE Quiet \/ SampleGuided \/ SampleUnguided \/ SampleGreedy
  <2>1. /\ UNCHANGED <<prompt, finished, waiting_queue, running_batch, chunked_req,
                       chunks_left, cur_batch, last_batch>>
        /\ loop' = loop \/ (loop = "run" /\ loop' = "process")
    <3>1. CASE Quiet
      <4>1. UNCHANGED <<prompt, finished, waiting_queue, running_batch, chunked_req,
                        chunks_left, cur_batch, last_batch, loop>>
        BY <3>1, QuietFrame
      <4> QED
        BY <4>1
    <3>2. CASE SampleGuided \/ SampleUnguided \/ SampleGreedy
      BY <3>2, Sampled DEF reqVars, schedVars
    <3> QED
      BY <1>6, <3>1, <3>2
  <2> QED
    BY <1>0, <2>1 DEF Placement, GoodBatch, Chunked, Known
<1>7. CASE Process
  <2>1. /\ loop = "process" /\ loop' = "recv" /\ last_batch' = cur_batch
        /\ UNCHANGED <<prompt, waiting_queue, running_batch, chunked_req, chunks_left, cur_batch>>
    BY <1>7, Processed DEF schedVars
  <2>2. PICK D \in SUBSET Served : finished' = finished \cup D
    BY <1>7, Processed
  <2>3. /\ D \cap waiting_queue = {} /\ D \cap Chunked = {} /\ \A r \in D : Known(r)
    <3>1. /\ cur_batch.extend => cur_batch.reqs \cap last_batch.reqs \subseteq last_batch.partial
          /\ overlap => last_batch.reqs \cap waiting_queue \subseteq is_retracted
      BY <2>1 DEF IInv, Pending
    <3>2. /\ cur_batch.partial = Chunked /\ Chunked \subseteq cur_batch.reqs
          /\ Chunked # {} => cur_batch.extend
          /\ waiting_queue \cap cur_batch.reqs = {}
          /\ \A r \in cur_batch.reqs \cup last_batch.reqs : Known(r)
      BY <1>0 DEF Placement, GoodBatch
    <3> QED
      BY <1>0, <3>1, <3>2 DEF Served, ResultBatch
  <2>4. UNCHANGED Chunked /\ \A r : Known(r)' <=> Known(r)
    BY <2>1 DEF Chunked, Known
  <2> QED
    BY <1>0, <2>1, <2>2, <2>3, <2>4 DEF Placement, GoodBatch
<1> QED
  BY <1>1, <1>2, <1>3, <1>4, <1>5, <1>6, <1>7, Zenon DEF Next, Iterate, Quiet

\* What the results in flight will meet.
LEMMA PendingNext ==
    ASSUME IInv, Next
    PROVE  Pending'
<1>0. /\ TypeOK /\ Placement /\ Pending /\ overlap' = overlap /\ overlap \in BOOLEAN
  BY DecodeAssumption DEF IInv, TypeOK, Next, Iterate
<1>1. ASSUME NEW r \in Rids, NEW q \in Prompts, Submit(r, q)
      PROVE  Pending'
  BY <1>0, <1>1 DEF Pending, Counted, Submit
<1>2. ASSUME NEW r \in Rids, Abort(r)
      PROVE  Pending'
  <2>1. /\ loop = "recv" /\ waiting_queue' = waiting_queue \ {r}
        /\ finished' = IF r \in waiting_queue THEN finished \cup {r} ELSE finished
        /\ UNCHANGED <<is_retracted, is_chunked, cur_batch, last_batch, loop>>
    BY <1>2 DEF Abort
  <2>2. last_batch.partial \cap waiting_queue = {}
    BY <1>0, <2>1 DEF Placement, GoodBatch
  <2> QED
    BY <1>0, <2>1, <2>2 DEF Pending, Counted
<1>3. ASSUME NEW C \in SUBSET waiting_queue, Prefill(C)
      PROVE  Pending'
  <2>1. /\ UNCHANGED <<finished, last_batch>> /\ waiting_queue' = waiting_queue \ C
        /\ is_retracted' = is_retracted \ (C \cup Chunked)
        /\ loop = "recv" /\ loop' = "run"
    BY <1>3 DEF Prefill
  <2>2. PICK c \in Rids \cup {NoReq}, n \in Nat :
          LET P == IF c = NoReq THEN {} ELSE {c} IN
          /\ \/ c = chunked_req /\ c # NoReq /\ n = chunks_left - 1 /\ n > 0
             \/ c = NoReq /\ n = 0
             \/ c \in C /\ n \in 1 .. (MaxPasses - 1)
          /\ chunked_req' = c /\ chunks_left' = n
          /\ is_chunked' = [r \in Rids |-> is_chunked[r] + (IF r \in P THEN 1 ELSE 0)]
          /\ cur_batch' = [reqs |-> C \cup Chunked, extend |-> TRUE, partial |-> P]
    BY <1>0, <1>3, PrefillEffect
  <2>3. /\ cur_batch'.reqs = C \cup Chunked
        /\ is_chunked' = [r \in Rids |-> is_chunked[r] + (IF r \in cur_batch'.partial
                                                          THEN 1 ELSE 0)]
    BY <2>2
  <2>4. /\ last_batch = cur_batch /\ cur_batch.partial = Chunked /\ Chunked \subseteq cur_batch.reqs
        /\ waiting_queue \cap (cur_batch.reqs \cup finished) = {} /\ Chunked \cap finished = {}
    BY <1>0, <2>1 DEF Placement, GoodBatch
  <2>5. \A r \in Rids : is_chunked[r] = IF overlap /\ r \in last_batch.partial THEN 1 ELSE 0
    BY <1>0, <2>1 DEF Pending, Counted
  <2>6. \A r \in Rids : is_chunked'[r] = Counted(r)'
    BY <1>0, <2>1, <2>3, <2>5 DEF Counted
  <2>7. /\ is_retracted' \subseteq waiting_queue' \cup finished'
        /\ last_batch'.partial \cap (finished' \cup is_retracted') = {}
    BY <1>0, <2>1 DEF Pending
  <2>8. /\ cur_batch'.reqs \cap finished' = {}
        /\ cur_batch'.reqs \cap last_batch'.reqs \subseteq last_batch'.partial
        /\ last_batch'.reqs \cap waiting_queue' = {}
    BY <2>1, <2>3, <2>4
  <2> QED
    BY <2>6, <2>7, <2>8 DEF Pending
<1>4. ASSUME NEW T \in SUBSET (Merged \ finished), Decode(T)
      PROVE  Pending'
  <2>1. /\ UNCHANGED <<finished, last_batch>> /\ waiting_queue' = waiting_queue \cup T
        /\ is_retracted' = is_retracted \cup T /\ chunked_req = NoReq
        /\ is_chunked' = [r \in Rids |-> IF r \in T THEN 0 ELSE is_chunked[r]]
        /\ loop = "recv" /\ loop' = "run"
        /\ cur_batch' = [reqs |-> (Merged \ finished) \ T, extend |-> FALSE, partial |-> {}]
    BY <1>4 DEF Decode
  <2>2. /\ cur_batch'.reqs = (Merged \ finished) \ T /\ ~cur_batch'.extend
        /\ cur_batch'.partial = {} /\ Chunked = {}
    BY <2>1 DEF Chunked
  <2>3. /\ last_batch = cur_batch /\ last_batch.partial = {}
        /\ waiting_queue \cap cur_batch.reqs = {}
    BY <1>0, <2>1, <2>2 DEF Placement
  <2>4. \A r \in Rids : is_chunked'[r] = Counted(r)'
    BY <1>0, <2>1, <2>2, <2>3 DEF Pending, Counted
  <2> QED
    BY <1>0, <2>1, <2>2, <2>3, <2>4 DEF Pending
<1>5. CASE NoNextBatch
  <2>1. /\ UNCHANGED <<finished, is_retracted, is_chunked, waiting_queue, last_batch>>
        /\ loop = "recv" /\ loop' = "process" /\ cur_batch' = NoBatch
    BY <1>5 DEF NoNextBatch, reqVars
  <2>2. cur_batch'.reqs = {} /\ ~cur_batch'.extend /\ cur_batch'.partial = {}
    BY <2>1 DEF NoBatch
  <2>3. last_batch = cur_batch /\ waiting_queue \cap cur_batch.reqs = {}
    BY <1>0, <2>1 DEF Placement
  <2>4. \A r \in Rids : is_chunked'[r] = Counted(r)'
    BY <1>0, <2>1, <2>2 DEF Pending, Counted
  <2> QED
    BY <1>0, <2>1, <2>2, <2>3, <2>4 DEF Pending
<1>6. CASE Quiet \/ SampleGuided \/ SampleUnguided \/ SampleGreedy
  <2>1. /\ UNCHANGED <<finished, is_retracted, is_chunked, waiting_queue, cur_batch, last_batch>>
        /\ loop' = loop \/ (loop = "run" /\ loop' = "process")
    <3>1. CASE Quiet
      BY <3>1, QuietFrame
    <3>2. CASE SampleGuided \/ SampleUnguided \/ SampleGreedy
      BY <3>2, Sampled DEF reqVars, schedVars
    <3> QED
      BY <1>6, <3>1, <3>2
  <2>2. (loop' # "recv") <=> (loop # "recv")
    BY <2>1
  <2> QED
    BY <1>0, <2>1, <2>2 DEF Pending, Counted
<1>7. CASE Process
  <2>1. /\ loop = "process" /\ loop' = "recv" /\ last_batch' = cur_batch
        /\ UNCHANGED <<is_retracted, waiting_queue, cur_batch>>
        /\ is_chunked' = [r \in Rids |-> IF r \in ResultBatch.partial
                                         THEN is_chunked[r] - 1 ELSE is_chunked[r]]
    BY <1>7, Processed DEF schedVars
  <2>2. PICK D \in SUBSET Served : finished' = finished \cup D
    BY <1>7, Processed
  <2>3. /\ cur_batch.reqs \cap finished = {}
        /\ cur_batch.extend => cur_batch.reqs \cap last_batch.reqs \subseteq last_batch.partial
        /\ is_retracted \subseteq waiting_queue \cup finished
        /\ waiting_queue \cap cur_batch.reqs = {}
        /\ cur_batch.partial \subseteq cur_batch.reqs
        /\ cur_batch.partial # {} => cur_batch.extend
    BY <1>0, <2>1 DEF Pending, Placement, GoodBatch
  <2>4. cur_batch.partial \cap (finished' \cup is_retracted) = {}
    BY <1>0, <2>2, <2>3 DEF Served, ResultBatch
  <2>5. \A r \in Rids : is_chunked[r] = (IF overlap /\ r \in last_batch.partial THEN 1 ELSE 0)
                                          + (IF r \in cur_batch.partial THEN 1 ELSE 0)
    BY <1>0, <2>1 DEF Pending, Counted
  <2>6. \A r \in Rids : is_chunked'[r] = Counted(r)'
    BY <1>0, <2>1, <2>5 DEF Counted, ResultBatch
  <2> QED
    BY <1>0, <2>1, <2>2, <2>3, <2>4, <2>6 DEF Pending
<1> QED
  BY <1>1, <1>2, <1>3, <1>4, <1>5, <1>6, <1>7, Zenon DEF Next, Iterate, Quiet

\* What the steps that leave the texts alone leave of Contexts.
LEMMA ContextsFrame ==
    ASSUME Contexts, UNCHANGED <<prompt, output_ids>>
    PROVE  /\ \A r : Known(r)' <=> Known(r)
           /\ \A r : Text(r)' = Text(r)
BY DEF Known, Text

\* Lengths of a text.
LEMMA LenText ==
    ASSUME NEW S, NEW q \in Seq(S), NEW o \in Seq(S)
    PROVE  Len(q) \in Nat /\ Len(q \o o) \in Nat /\ Len(q) <= Len(q \o o)
BY ConcatAt

\* A token that is appended makes a text one longer.
LEMMA AppendText ==
    ASSUME NEW S, NEW q \in Seq(S), NEW o \in Seq(S), NEW t \in S
    PROVE  /\ q \o Append(o, t) \in Seq(S)
           /\ Len(q \o o) <= Len(q \o Append(o, t))
           /\ \A i \in 1 .. Len(q \o o) : (q \o Append(o, t))[i] = (q \o o)[i]
<1>1. PICK p : p = Append(o, t)
  OBVIOUS
<1>2. /\ p \in Seq(S) /\ Len(p) = Len(o) + 1
      /\ \A i \in 1 .. Len(o) : p[i] = o[i]
  BY <1>1, AppendProperties
<1>3. /\ Len(q) \in Nat /\ Len(o) \in Nat /\ Len(q \o o) = Len(q) + Len(o)
      /\ \A i \in 1 .. Len(q) + Len(o) : (q \o o)[i] = IF i <= Len(q) THEN q[i] ELSE o[i - Len(q)]
  BY ConcatAt
<1>4. /\ q \o p \in Seq(S) /\ Len(q \o p) = Len(q) + Len(p)
      /\ \A i \in 1 .. Len(q) + Len(p) : (q \o p)[i] = IF i <= Len(q) THEN q[i] ELSE p[i - Len(q)]
  BY <1>2, ConcatAt
<1>5. ASSUME NEW i \in 1 .. Len(q) + Len(o) PROVE (q \o p)[i] = (q \o o)[i]
  <2>1. CASE i <= Len(q)
    BY <1>2, <1>3, <1>4, <2>1
  <2>2. CASE ~(i <= Len(q))
    <3>1. i - Len(q) \in 1 .. Len(o) /\ i \in 1 .. Len(q) + Len(p)
      BY <1>2, <1>3, <2>2
    <3> QED
      BY <1>2, <1>3, <1>4, <2>2, <3>1
  <2> QED
    BY <2>1, <2>2
<1>6. Len(q \o o) <= Len(q \o p)
  BY <1>2, <1>3, <1>4
<1> QED
  BY <1>1, <1>3, <1>4, <1>5, <1>6

\* What is kept and cached begins the text.
LEMMA ContextsNext ==
    ASSUME IInv, Next
    PROVE  Contexts'
<1>0. /\ TypeOK /\ StoreTypeOK /\ Contexts /\ Placement
  BY DEF IInv, TypeOK
<1>00. ASSUME NEW r \in Rids
       PROVE  /\ Text(r) \in Seq(Tokens) /\ Len(prompt[r]) <= Len(Text(r))
              /\ Len(prompt[r]) \in Nat /\ Len(Text(r)) \in Nat
              /\ Len(cached[r]) \in Nat /\ Len(lvm_prefix[r]) \in Nat
  <2>1. /\ prompt[r] \in Seq(Tokens) /\ output_ids[r] \in Seq(Tokens) /\ Text(r) \in Seq(Tokens)
        /\ Len(lvm_prefix[r]) \in Nat /\ Len(cached[r]) \in Nat
    BY <1>0, TextType
  <2> QED
    BY <2>1, LenText DEF Text
<1>1. ASSUME NEW r \in Rids, NEW q \in Prompts, Submit(r, q)
      PROVE  Contexts'
  <2>1. /\ loop = "recv" /\ prompt[r] = <<>> /\ prompt' = [prompt EXCEPT ![r] = q]
        /\ UNCHANGED <<cached, phase, batch, asked, output_ids, lvm_prefix, loop, cur_batch>>
    BY <1>1 DEF Submit, Known, storeVars
  <2>2. phase \notin {"cleaned", "extended"}
    BY <1>0, <2>1 DEF Contexts
  <2>3. /\ output_ids[r] = <<>> /\ Len(Text(r)) = 0
    <3>1. output_ids[r] = <<>>
      BY <1>0, <2>1 DEF Contexts, Known
    <3>2. Text(r) = <<>> \o <<>>
      BY <2>1, <3>1 DEF Text
    <3>3. Len(<<>> \o <<>>) = 0
      OBVIOUS
    <3> QED
      BY <3>1, <3>2, <3>3
  <2>4. /\ Len(cached[r]) = 0 /\ lvm_prefix[r] = <<>>
    <3>1. Len(cached[r]) = 0
      BY <1>0, <1>00, <2>3 DEF Contexts, Begins
    <3>2. lvm_prefix[r] # <<>> => Len(lvm_prefix[r]) = 0
      BY <1>0, <1>00, <2>3 DEF Contexts, Begins
    <3>3. lvm_prefix[r] \in Seq(Tokens)
      BY <1>0 DEF TypeOK
    <3> QED
      BY <3>1, <3>2, <3>3, EmptySeq
  <2>5. prompt'[r] = q /\ q # <<>> /\ \A s \in Rids \ {r} : prompt'[s] = prompt[s]
    BY <1>0, <2>1, DecodeAssumption DEF TypeOK
  <2>6. \A s \in Rids \ {r} : Text(s)' = Text(s) /\ (Known(s)' <=> Known(s))
    BY <2>1, <2>5 DEF Text, Known
  <2>7. Begins(cached[r], Text(r)')
    <3>1. q \in Seq(Tokens) /\ Text(r)' = q \o output_ids[r] /\ output_ids[r] \in Seq(Tokens)
      BY <1>0, <2>1, <2>5, DecodeAssumption DEF Text, TypeOK
    <3>2. Len(Text(r)') \in Nat
      BY <3>1, ConcatAt, LenProperties
    <3> QED
      BY <2>4, <3>2 DEF Begins
  <2> QED
    BY <1>0, <2>1, <2>2, <2>4, <2>5, <2>6, <2>7 DEF Contexts, Known
<1>2. ASSUME NEW r \in Rids, Abort(r)
      PROVE  Contexts'
  <2>1. /\ UNCHANGED <<cached, phase, batch, asked, prompt, output_ids, lvm_prefix, loop, cur_batch>>
    BY <1>2 DEF Abort, storeVars
  <2> QED
    BY <1>0, <2>1, ContextsFrame DEF Contexts
<1>3. CASE \/ \E C \in SUBSET waiting_queue : Prefill(C)
           \/ \E T \in SUBSET (Merged \ finished) : Decode(T)
           \/ NoNextBatch
  <2>1. /\ loop = "recv"
        /\ UNCHANGED <<cached, phase, batch, asked, prompt, output_ids, lvm_prefix>>
    BY <1>3, FormFrame DEF storeVars
  <2>2. phase \notin {"cleaned", "extended"}
    BY <1>0, <2>1 DEF Contexts
  <2> QED
    BY <1>0, <2>1, <2>2, ContextsFrame DEF Contexts
<1>4. CASE ApplyClean
  <2>1. /\ loop = "run" /\ phase = "idle" /\ phase' = "cleaned" /\ batch' = cur_batch.reqs
        /\ cached' = [r \in Rids |-> IF r \in cur_batch.reqs THEN cached[r] ELSE <<>>]
        /\ UNCHANGED <<asked, prompt, output_ids, lvm_prefix, loop, cur_batch>>
    BY <1>4 DEF ApplyClean, Clean, reqVars
  <2>2. \A r \in Rids : Begins(cached'[r], Text(r))
    <3>1. \A r \in Rids : Begins(<<>>, Text(r))
      BY <1>00 DEF Begins
    <3> QED
      BY <1>0, <2>1, <3>1 DEF Contexts
  <2> QED
    BY <1>0, <2>1, <2>2, ContextsFrame DEF Contexts
<1>5. ASSUME NEW R \in (SUBSET cur_batch.reqs) \ {{}}, ApplyExtend(R)
      PROVE  Contexts'
  <2>1. /\ loop = "run" /\ phase' = "extended" /\ R \subseteq Rids
        /\ asked' = [r \in R |-> Text(r)]
        /\ cached' = [r \in Rids |-> IF r \in R THEN Text(r) ELSE cached[r]]
        /\ lvm_prefix' = [r \in Rids |-> IF r \in R THEN Text(r) ELSE lvm_prefix[r]]
        /\ UNCHANGED <<prompt, output_ids, loop>>
    BY <1>5, Extended
  <2>2. \A r \in Rids : Begins(Text(r), Text(r))
    BY <1>00 DEF Begins
  <2> QED
    BY <1>0, <1>00, <2>1, <2>2, ContextsFrame DEF Contexts
<1>6. CASE Crash
  <2>1. /\ phase' = "dead" /\ UNCHANGED <<cached, prompt, output_ids, lvm_prefix>>
    BY <1>6 DEF Crash, ExtendRaises, EvalRaises, Eval, reqVars
  <2> QED
    BY <1>0, <2>1, ContextsFrame DEF Contexts
<1>7. CASE SampleGuided \/ SampleUnguided \/ SampleGreedy
  <2>1. /\ phase' = "idle" /\ asked' = [r \in {} |-> <<>>]
        /\ UNCHANGED <<cached, prompt, output_ids, lvm_prefix>>
    BY <1>7, Sampled DEF reqVars
  <2> QED
    BY <1>0, <2>1, ContextsFrame DEF Contexts
<1>8. CASE Process
  <2>1. /\ loop = "process" /\ loop' = "recv"
        /\ UNCHANGED <<cached, phase, batch, asked, prompt, lvm_prefix>>
    BY <1>8, Processed DEF storeVars
  <2>2. PICK tok \in [ResultBatch.reqs -> Tokens] :
          output_ids' = [r \in Rids |-> IF r \in Served THEN Append(output_ids[r], tok[r])
                                        ELSE output_ids[r]]
    BY <1>8, Processed
  <2>3. phase \notin {"cleaned", "extended"}
    BY <1>0, <2>1 DEF Contexts
  <2>4. /\ Served \subseteq Rids /\ \A r \in Served : tok[r] \in Tokens /\ Known(r)
    BY <1>0 DEF Served, ResultBatch, TypeOK, Batches, Placement
  <2>5. ASSUME NEW r \in Rids
        PROVE  /\ Text(r)' \in Seq(Tokens) /\ Len(Text(r)) <= Len(Text(r)')
               /\ \A i \in 1 .. Len(Text(r)) : Text(r)'[i] = Text(r)[i]
    <3>0. prompt'[r] = prompt[r]
      BY <2>1
    <3>1. CASE r \in Served
      <4>1. tok[r] \in Tokens /\ output_ids'[r] = Append(output_ids[r], tok[r])
        BY <2>2, <2>4, <3>1
      <4>2. prompt[r] \in Seq(Tokens) /\ output_ids[r] \in Seq(Tokens)
        BY <1>0, TextType
      <4>3. PICK q \in Seq(Tokens), o \in Seq(Tokens), t \in Tokens :
              q = prompt[r] /\ o = output_ids[r] /\ t = tok[r]
        BY <4>1, <4>2
      <4>4. Text(r)' = q \o Append(o, t) /\ Text(r) = q \o o
        BY <3>0, <4>1, <4>3 DEF Text
      <4> QED
        BY <4>4, AppendText
    <3>2. CASE r \notin Served
      <4>1. Text(r)' = Text(r)
        BY <2>2, <3>0, <3>2 DEF Text
      <4> QED
        BY <1>00, <4>1
    <3> QED
      BY <3>1, <3>2
  <2>6. \A r \in Rids : /\ Begins(cached'[r], Text(r)')
                        /\ lvm_prefix'[r] # <<>> => /\ Len(prompt'[r]) <= Len(lvm_prefix'[r])
                                                    /\ Begins(lvm_prefix'[r], Text(r)')
    <3> SUFFICES ASSUME NEW r \in Rids
                 PROVE  /\ Begins(cached[r], Text(r)')
                        /\ lvm_prefix[r] # <<>> => /\ Len(prompt[r]) <= Len(lvm_prefix[r])
                                                   /\ Begins(lvm_prefix[r], Text(r)')
      BY <2>1
    <3>1. /\ cached[r] \in Seq(Tokens) /\ lvm_prefix[r] \in Seq(Tokens) /\ Text(r) \in Seq(Tokens)
          /\ Begins(cached[r], Text(r))
          /\ lvm_prefix[r] # <<>> => /\ Len(prompt[r]) <= Len(lvm_prefix[r])
                                     /\ Begins(lvm_prefix[r], Text(r))
      BY <1>0, TextType DEF Contexts
    <3>2. \A s \in Seq(Tokens) : Begins(s, Text(r)) => Begins(s, Text(r)')
      BY <1>00, <2>5 DEF Begins
    <3> QED
      BY <3>1, <3>2
  <2>7. \A r \in Rids : Known(r)' \/ output_ids'[r] = <<>>
    BY <1>0, <2>1, <2>2, <2>4 DEF Contexts, Known
  <2> QED
    BY <1>0, <2>1, <2>3, <2>6, <2>7 DEF Contexts
<1> QED
  BY <1>1, <1>2, <1>3, <1>4, <1>5, <1>6, <1>7, <1>8, Zenon DEF Next, Iterate

\* All of it.
LEMMA NextInv == IInv /\ [Next]_vars => IInv'
<1> SUFFICES ASSUME IInv, [Next]_vars PROVE IInv'
  OBVIOUS
<1>1. CASE Next
  <2>1. TypeOK'
    <3>1. TypeOK /\ Placement
      BY DEF IInv
    <3>2. CASE \/ \E r \in Rids, q \in Prompts : Submit(r, q) /\ UNCHANGED overlap
               \/ \E r \in Rids : Abort(r) /\ UNCHANGED overlap
      BY <3>1, <3>2, MessageTypes, Zenon
    <3>3. CASE Iterate
      BY <3>1, <3>3, FormTypes, RunTypes, ProcessTypes, Zenon DEF Iterate
    <3> QED
      BY <1>1, <3>2, <3>3 DEF Next
  <2> QED
    BY <1>1, <2>1, QueueShapeNext, PlacementNext, PendingNext, ContextsNext DEF IInv
<1>2. CASE UNCHANGED vars
  <2> USE <1>2 DEF vars, storeVars, reqVars, schedVars
  <2>1. TypeOK'
    BY DEF IInv, TypeOK, StoreTypeOK
  <2>2. QueueShape'
    BY DEF IInv, QueueShape, LastDue, CurDue
  <2>3. Placement'
    BY DEF IInv, Placement, GoodBatch, Chunked, Known
  <2>4. Pending'
    BY DEF IInv, Pending, Counted
  <2>5. Contexts'
    BY DEF IInv, Contexts, Known, Text
  <2> QED
    BY <2>1, <2>2, <2>3, <2>4, <2>5 DEF IInv
<1> QED
  BY <1>1, <1>2

----------------------------------------------------------------------------
(* The theorems.                                                           *)

\* IInv holds in every reachable state.
THEOREM Inductive == Spec => []IInv
BY InitInv, NextInv, PTL DEF Spec

\* The states of GuidedDecode have their types, in both loops.
THEOREM TypeCorrect == Spec => []TypeOK
<1>1. IInv => TypeOK
  BY DEF IInv
<1> QED
  BY <1>1, Inductive, PTL

\* What IInv says of a request that has not finished.
LEMMA PlacedOnce ==
    ASSUME IInv, NEW r \in Rids, Known(r), r \notin finished
    PROVE  /\ r \in waiting_queue \/ InPrefill(r) \/ r \in running_batch
           /\ ~(r \in waiting_queue /\ (InPrefill(r) \/ r \in running_batch))
           /\ ~(InPrefill(r) /\ r \in running_batch)
<1>1. /\ GoodBatch(cur_batch) /\ cur_batch.partial = Chunked
      /\ loop = "recv" => last_batch = cur_batch
      /\ waiting_queue \cap (running_batch \cup cur_batch.reqs \cup finished) = {}
      /\ cur_batch.extend => running_batch \cap cur_batch.reqs = {}
      /\ ~cur_batch.extend => cur_batch.reqs = running_batch
      /\ r \in waiting_queue \cup running_batch \cup cur_batch.reqs
  BY DEF IInv, Placement
<1>2. r # NoReq
  BY DecodeAssumption
<1>3. InPrefill(r) <=> cur_batch.extend /\ r \in cur_batch.reqs
  BY <1>1, <1>2 DEF InPrefill, GoodBatch, Chunked
<1> QED
  BY <1>1, <1>3

\* No request is lost and none is scheduled twice: whatever is aborted, split,
\* retracted or still in flight, a request that arrived and has not finished is
\* waiting, in prefill or running, and only one of them.
THEOREM RequestsScheduledOnce == Spec => []ScheduledOnce
<1>1. IInv => ScheduledOnce
  BY PlacedOnce DEF ScheduledOnce
<1> QED
  BY <1>1, Inductive, PTL

\* A sequence as a subsequence of itself.
LEMMA AllOfIt ==
    ASSUME NEW S, NEW s \in Seq(S)
    PROVE  s = SubSeq(s \o <<>>, 1, Len(s \o <<>>) - 0)
<1>1. Len(s) \in Nat /\ s \o <<>> = s
  BY LenProperties, ConcatEmptySeq
<1>2. 0 \in 0 .. Len(s)
  BY <1>1
<1>3. /\ SubSeq(s, 0 + 1, Len(s)) \in Seq(S) /\ Len(SubSeq(s, 0 + 1, Len(s))) = Len(s) - 0
      /\ \A i \in 1 .. Len(s) - 0 : SubSeq(s, 0 + 1, Len(s))[i] = s[0 + i]
  BY <1>2, RestAt
<1>4. /\ SubSeq(s, 1, Len(s)) \in Seq(S) /\ Len(SubSeq(s, 1, Len(s))) = Len(s)
      /\ \A i \in 1 .. Len(s) : SubSeq(s, 1, Len(s))[i] = s[i]
  BY <1>1, <1>3
<1>5. SubSeq(s, 1, Len(s)) = s
  BY <1>4, SameSeq
<1>6. Len(s) - 0 = Len(s)
  BY <1>1
<1> QED
  BY <1>1, <1>5, <1>6

\* A token appended and left out again.
LEMMA AllButNewest ==
    ASSUME NEW S, NEW s \in Seq(S), NEW t \in S
    PROVE  s = SubSeq(s \o <<t>>, 1, Len(s \o <<t>>) - 1)
<1>1. Len(s) \in Nat
  BY LenProperties
<1>4. PICK u : u = s \o <<t>>
  OBVIOUS
<1>5. /\ u \in Seq(S) /\ Len(u) = Len(s) + 1
      /\ \A i \in 1 .. Len(s) : u[i] = s[i]
  <2>1. <<t>> \in Seq(S) /\ Len(<<t>>) = 1
    OBVIOUS
  <2>2. /\ s \o <<t>> \in Seq(S) /\ Len(s \o <<t>>) = Len(s) + Len(<<t>>)
        /\ \A i \in 1 .. Len(s) + Len(<<t>>) :
              (s \o <<t>>)[i] = IF i <= Len(s) THEN s[i] ELSE <<t>>[i - Len(s)]
    BY <2>1, ConcatAt
  <2> QED
    BY <1>1, <1>4, <2>1, <2>2
<1>6. Len(u) - 1 = Len(s)
  BY <1>1, <1>5
<1>7. /\ SubSeq(u, 1, Len(s)) \in Seq(S) /\ Len(SubSeq(u, 1, Len(s))) = Len(s)
      /\ \A i \in 1 .. Len(s) : SubSeq(u, 1, Len(s))[i] = u[i]
  <2>1. \A i \in 1 .. Len(s) : u[i] \in S
    BY <1>1, <1>5, ElementOfSeq
  <2>2. /\ SubSeq(u, 1, Len(s)) \in Seq(S)
        /\ Len(SubSeq(u, 1, Len(s))) = IF 1 <= Len(s) THEN Len(s) - 1 + 1 ELSE 0
        /\ \A i \in 1 .. Len(s) - 1 + 1 : SubSeq(u, 1, Len(s))[i] = u[1 + i - 1]
    BY <1>1, <1>5, <2>1, SubSeqProperties
  <2> QED
    BY <1>1, <2>2
<1>8. SubSeq(u, 1, Len(s)) = s
  BY <1>5, <1>7, SameSeq
<1> QED
  BY <1>4, <1>6, <1>8

\* At most one token of a request is in flight while a batch runs, and none in
\* event_loop_normal.
LEMMA OneInFlight ==
    ASSUME IInv, loop = "run", NEW r \in Rids
    PROVE  \/ InFlight(r) = <<>>
           \/ overlap /\ \E t \in Tokens : InFlight(r) = <<t>>
<1> DEFINE live(i) == r \in result_queue[i].batch.reqs \ result_queue[i].batch.partial
                        /\ r \notin finished \cup is_retracted
           I == {i \in 1 .. Len(result_queue) : live(i)}
<1>1. InFlight(r) = IF I = {} THEN <<>>
                    ELSE IF Cardinality(I) = 1
                         THEN <<result_queue[CHOOSE i \in I : TRUE].tok[r]>>
                         ELSE <<result_queue[1].tok[r], result_queue[2].tok[r]>>
  BY DEF InFlight
<1>2. Len(result_queue) = 0 \/ (overlap /\ Len(result_queue) = 1)
  BY DecodeAssumption DEF IInv, TypeOK, QueueShape, LastDue, CurDue
<1>3. I \subseteq {1}
  BY <1>2
<1>4. CASE I = {}
  BY <1>1, <1>4
<1>5. CASE I # {}
  <2>1. I = {1}
    BY <1>3, <1>5
  <2>2. overlap /\ Len(result_queue) = 1
    BY <1>2, <1>5
  <2>3. live(1) /\ 1 \in 1 .. Len(result_queue)
    BY <2>1
  <2>4. result_queue[1].tok[r] \in Tokens
    BY <2>3 DEF IInv, TypeOK
  <2>5. Cardinality(I) = 1
    BY <2>1, FS_Singleton
  <2>6. (CHOOSE i \in I : TRUE) = 1
    BY <2>1
  <2> HIDE DEF I, live
  <2>7. InFlight(r) = <<result_queue[1].tok[r]>>
    BY <1>1, <1>5, <2>5, <2>6
  <2> QED
    BY <2>2, <2>4, <2>7
<1> QED
  BY <1>4, <1>5

\* When candidates are valued, what the LenVM has cached is right as far as it
\* goes: event_loop_normal has all of the context, event_loop_overlap all but
\* the token of the batch that is still in flight.
THEOREM ContextLagsOneToken == Spec => []LagsOneToken
<1>1. ASSUME IInv PROVE LagsOneToken
  <2> SUFFICES ASSUME phase = "extended", NEW r \in DOMAIN asked
               PROVE  \E k \in IF overlap THEN {0, 1} ELSE {0} :
                         cached[r] = SubSeq(Context(r), 1, Len(Context(r)) - k)
    BY DEF LagsOneToken
  <2>1. r \in Rids /\ loop = "run" /\ cached[r] = Text(r)
    BY <1>1 DEF IInv, TypeOK, StoreTypeOK, Contexts
  <2>2. Text(r) \in Seq(Tokens)
    BY <1>1, <2>1, TextType DEF IInv
  <2>3. PICK s \in Seq(Tokens) : s = Text(r)
    BY <2>2
  <2>4. Context(r) = s \o InFlight(r)
    BY <2>3 DEF Context, Text
  <2>5. CASE InFlight(r) = <<>>
    <3>1. cached[r] = SubSeq(Context(r), 1, Len(Context(r)) - 0)
      <4>1. s = SubSeq(s \o <<>>, 1, Len(s \o <<>>) - 0)
        BY AllOfIt
      <4> QED
        BY <2>1, <2>3, <2>4, <2>5, <4>1
    <3> QED
      BY <3>1
  <2>6. CASE overlap /\ \E t \in Tokens : InFlight(r) = <<t>>
    <3>1. PICK t \in Tokens : InFlight(r) = <<t>>
      BY <2>6
    <3>2. s = SubSeq(s \o <<t>>, 1, Len(s \o <<t>>) - 1)
      BY AllButNewest
    <3>3. cached[r] = SubSeq(Context(r), 1, Len(Context(r)) - 1)
      BY <2>1, <2>3, <2>4, <3>1, <3>2
    <3> QED
      BY <2>6, <3>3
  <2> QED
    BY <1>1, <2>1, <2>5, <2>6, OneInFlight
<1> QED
  BY <1>1, Inductive, PTL

\* Each pass that ends a prefill, and each decode, gives a live request exactly
\* one token, although with overlap is_chunked has already counted the passes
\* of later batches, and finished and retracted requests are passed over.
THEOREM EveryPassOneToken == Spec => OneTokenPerPass
<1> DEFINE Gets(r, b) == r \in (b.reqs \ b.partial) \ (finished \cup is_retracted)
           Pass == loop = "process" /\ ResultDue =>
                     LET b == Head(result_queue).batch
                     IN  \A r \in Rids : Len(output_ids'[r]) - Len(output_ids[r]) =
                                           IF Gets(r, b) THEN 1 ELSE 0
<1>1. ASSUME IInv, Next, loop = "process", ResultDue, NEW r \in Rids
      PROVE  Len(output_ids'[r]) - Len(output_ids[r]) =
               IF Gets(r, Head(result_queue).batch) THEN 1 ELSE 0
  <2>1. Process
    <3>1. ~(SampleGuided \/ SampleUnguided \/ SampleGreedy)
      BY <1>1, Sampled
    <3> QED
      BY <1>1, <3>1, Zenon DEF Next, Iterate, Submit, Abort, Prefill, Decode, NoNextBatch,
           ApplyClean, ApplyExtend, Crash
  <2>2. Head(result_queue).batch = ResultBatch
    BY <1>1, <2>1, Processed
  <2>3. PICK tok \in [ResultBatch.reqs -> Tokens] :
          output_ids' = [s \in Rids |-> IF s \in Served THEN Append(output_ids[s], tok[s])
                                        ELSE output_ids[s]]
    BY <1>1, <2>1, Processed
  <2>4. Gets(r, Head(result_queue).batch) <=> r \in Served
    BY <2>2 DEF Served
  <2>5. PICK o \in Seq(Tokens) : o = output_ids[r] /\ Len(o) \in Nat
    BY <1>1, LenProperties DEF IInv, TypeOK
  <2> HIDE DEF Gets
  <2>6. CASE r \in Served
    <3>1. PICK t \in Tokens : t = tok[r]
      BY <2>6 DEF Served
    <3>2. output_ids'[r] = Append(o, t)
      BY <2>3, <2>5, <2>6, <3>1
    <3>3. Len(Append(o, t)) - Len(o) = 1
      BY <2>5, AppendProperties
    <3> QED
      BY <2>4, <2>5, <2>6, <3>2, <3>3
  <2>7. CASE r \notin Served
    <3>1. output_ids'[r] = o
      BY <2>3, <2>5, <2>7
    <3>2. Len(o) - Len(o) = 0
      BY <2>5
    <3> QED
      BY <2>4, <2>5, <2>7, <3>1, <3>2
  <2> QED
    BY <2>6, <2>7
<1>2. IInv /\ [Next]_vars => [Pass]_vars
  BY <1>1
<1>3. Spec => [][Pass]_vars
  BY <1>2, Inductive, PTL DEF Spec
<1> QED
  BY <1>3 DEF OneTokenPerPass
=============================================================================
