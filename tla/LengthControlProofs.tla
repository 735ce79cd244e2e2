------------------------ MODULE LengthControlProofs ------------------------
(***************************************************************************)
(* Hard length control, for any number of candidates, any lengths and any  *)
(* budget: the loops of lvm_hard_value_constraint_guidance find the best   *)
(* candidate, and what follows from that for the length of the answer, in  *)
(* the normal and in the overlap event loop.                               *)
(* What a loop computes is shown by its least counterexample.              *)
(***************************************************************************)
EXTENDS LengthControl, SequenceTheorems, WellFoundedInduction, TLAPS

----------------------------------------------------------------------------
(* The loops.                                                              *)

\* Every set of numbers with a member has a least one.
LEMMA LeastNumber ==
    ASSUME NEW T \in SUBSET Nat, T # {}
    PROVE  \E x \in T : \A y \in T : x <= y
<1>1. IsWellFoundedOn(OpToRel(<, Nat), Nat)
  BY NatLessThanWellFounded, Zenon
<1>2. PICK x \in T : \A y \in T : ~(<<y, x>> \in OpToRel(<, Nat))
  BY <1>1, WFMin, Zenon
<1>3. ASSUME NEW y \in T PROVE x <= y
  <2>1. ~(<<y, x>> \in OpToRel(<, Nat))
    BY <1>2
  <2> QED
    BY <2>1 DEF OpToRel
<1> QED
  BY <1>3

\* The state of a loop before its first pass, and what pass i makes of it.
Start == [cost |-> MaxLen + 2, p |-> -1, at |-> 1]

Pass(cost, i, b) ==
    IF Improves(cost[i], cands[i].p, b)
    THEN [cost |-> cost[i], p |-> cands[i].p, at |-> i] ELSE b

\* f records the state before and after each of n passes.
Runs(cost, f, n) ==
    f = [i \in 0 .. n |-> IF i = 0 THEN Start ELSE Pass(cost, i, f[i - 1])]

\* A loop of n passes can be run.
LEMMA RunExists ==
    ASSUME NEW cost, NEW n \in Nat
    PROVE  \E f : Runs(cost, f, n)
<1> DEFINE T == {k \in Nat : ~\E f : Runs(cost, f, k)}
<1>1. SUFFICES ASSUME T # {} PROVE FALSE
  OBVIOUS
<1>2. PICK x \in T : \A y \in T : x <= y
  BY <1>1, LeastNumber
<1>3. CASE x = 0
  <2> DEFINE f == [i \in 0 .. 0 |-> Start]
  <2>1. f = [i \in 0 .. 0 |-> IF i = 0 THEN Start ELSE Pass(cost, i, f[i - 1])]
    OBVIOUS
  <2>2. Runs(cost, f, 0)
    BY <2>1 DEF Runs
  <2> QED
    BY <1>2, <1>3, <2>2
<1>4. CASE x # 0
  <2>1. x \in Nat /\ x - 1 \in Nat /\ x - 1 \notin T
    BY <1>2, <1>4
  <2>2. PICK g : Runs(cost, g, x - 1)
    BY <2>1
  <2>3. g = [i \in 0 .. (x - 1) |-> IF i = 0 THEN Start ELSE Pass(cost, i, g[i - 1])]
    BY <2>2 DEF Runs
  <2> DEFINE f == [i \in 0 .. x |-> IF i = x THEN Pass(cost, x, g[x - 1]) ELSE g[i]]
  <2>4. \A i \in 0 .. x : f[i] = IF i = 0 THEN Start ELSE Pass(cost, i, f[i - 1])
    <3> SUFFICES ASSUME NEW i \in 0 .. x
                 PROVE  f[i] = IF i = 0 THEN Start ELSE Pass(cost, i, f[i - 1])
      OBVIOUS
    <3>1. CASE i = 0
      BY <1>4, <2>1, <2>3, <3>1
    <3>2. CASE i = x
      BY <1>4, <2>1, <3>2
    <3>3. CASE i # 0 /\ i # x
      <4>1. i \in 0 .. (x - 1) /\ i - 1 \in 0 .. x /\ i - 1 # x
        BY <2>1, <3>3
      <4>2. f[i] = g[i] /\ f[i - 1] = g[i - 1]
        BY <3>3, <4>1
      <4>3. g[i] = Pass(cost, i, g[i - 1])
        BY <2>3, <3>3, <4>1
      <4> QED
        BY <3>3, <4>2, <4>3
    <3> QED
      BY <3>1, <3>2, <3>3
  <2>5. f = [i \in 0 .. x |-> f[i]]
    OBVIOUS
  <2> HIDE DEF f
  <2>6. f = [i \in 0 .. x |-> IF i = 0 THEN Start ELSE Pass(cost, i, f[i - 1])]
    BY <2>4, <2>5
  <2>7. Runs(cost, f, x)
    BY <2>6 DEF Runs
  <2> QED
    BY <1>2, <2>7
<1> QED
  BY <1>3, <1>4

\* Scan is what a loop over the candidates ends with.
LEMMA ScanRuns ==
    ASSUME NEW cost, Len(cands) \in Nat
    PROVE  \E f : Runs(cost, f, Len(cands)) /\ Scan(cost) = f[Len(cands)].at
<1> DEFINE g == CHOOSE f : Runs(cost, f, Len(cands))
<1>1. Runs(cost, g, Len(cands))
  BY RunExists
<1>2. Scan(cost) = g[Len(cands)].at
  BY DEF Scan, Runs, Start, Pass
<1> QED
  BY <1>1, <1>2

\* Candidate j is to be preferred to candidate i.
Better(cost, j, i) ==
    \/ cost[j] < cost[i]
    \/ cost[j] = cost[i] /\ cands[j].p > cands[i].p
    \/ cost[j] = cost[i] /\ cands[j].p = cands[i].p /\ j < i

\* The candidate found in the first k passes.
Found(cost, f, k) ==
    /\ f[k].at \in 1 .. k
    /\ f[k].cost = cost[f[k].at] /\ f[k].p = cands[f[k].at].p
    /\ \A j \in 1 .. k : ~Better(cost, j, f[k].at)

\* A loop finds the candidate that none is better than.
LEMMA RunFindsBest ==
    ASSUME NEW cost, NEW n \in Nat, NEW f, Runs(cost, f, n),
           \A i \in 1 .. n : cost[i] \in Int /\ cost[i] <= MaxLen + 1 /\ cands[i].p \in Nat
    PROVE  \A k \in 1 .. n : Found(cost, f, k)
<1> DEFINE T == {k \in 1 .. n : ~Found(cost, f, k)}
<1>1. SUFFICES ASSUME T # {} PROVE FALSE
  OBVIOUS
<1>2. PICK x \in T : \A y \in T : x <= y
  <2>1. T \in SUBSET Nat
    OBVIOUS
  <2> HIDE DEF T
  <2> QED
    BY <1>1, <2>1, LeastNumber
<1>3. f = [i \in 0 .. n |-> IF i = 0 THEN Start ELSE Pass(cost, i, f[i - 1])]
  BY DEF Runs
<1>4. x \in 1 .. n /\ ~Found(cost, f, x)
  BY <1>2
<1>5. x \in 0 .. n /\ x - 1 \in 0 .. n
  BY <1>4
<1>6. f[x] = Pass(cost, x, f[x - 1])
  <2>1. x # 0
    BY <1>4
  <2>2. f[x] = IF x = 0 THEN Start ELSE Pass(cost, x, f[x - 1])
    BY <1>3, <1>5, Zenon
  <2> QED
    BY <2>1, <2>2
<1>7. PICK b : b = f[x - 1]
  OBVIOUS
<1>8. PICK c : c = f[x]
  OBVIOUS
<1>9. c = IF cost[x] < b.cost \/ (cost[x] = b.cost /\ cands[x].p > b.p)
          THEN [cost |-> cost[x], p |-> cands[x].p, at |-> x] ELSE b
  BY <1>6, <1>7, <1>8 DEF Pass, Improves
<1>10. CASE x = 1
  <2>1. b = Start
    BY <1>3, <1>5, <1>7, <1>10
  <2>2. cost[1] < b.cost
    BY <1>4, <1>10, <2>1, LengthAssumption DEF Start
  <2>3. c.at = 1 /\ c.cost = cost[1] /\ c.p = cands[1].p
    BY <1>9, <1>10, <2>2
  <2>4. ~Better(cost, 1, 1)
    BY <1>4, <1>10 DEF Better
  <2> QED
    BY <1>4, <1>8, <1>10, <2>3, <2>4 DEF Found
<1>11. CASE x # 1
  <2>1. x - 1 \in 1 .. n /\ x - 1 \notin T
    BY <1>2, <1>4, <1>11
  <2>2. Found(cost, f, x - 1)
    BY <2>1
  <2>3. PICK a \in 1 .. (x - 1) : /\ a = b.at /\ b.cost = cost[a] /\ b.p = cands[a].p
                                  /\ \A j \in 1 .. (x - 1) : ~Better(cost, j, a)
    BY <1>7, <2>2 DEF Found
  <2>4. /\ a \in 1 .. n /\ cost[a] \in Int /\ cands[a].p \in Nat
        /\ cost[x] \in Int /\ cands[x].p \in Nat
    BY <1>4, <2>3
  <2>5. CASE cost[x] < b.cost \/ (cost[x] = b.cost /\ cands[x].p > b.p)
    <3>1. c.at = x /\ c.cost = cost[x] /\ c.p = cands[x].p
      BY <1>9, <2>5
    <3>2. ASSUME NEW j \in 1 .. x PROVE ~Better(cost, j, x)
      <4>1. CASE j = x
        BY <1>4, <2>4, <4>1 DEF Better
      <4>2. CASE j # x
        <5>1. j \in 1 .. (x - 1) /\ j \in 1 .. n
          BY <1>4, <4>2
        <5>2. ~Better(cost, j, a) /\ cost[j] \in Int /\ cands[j].p \in Nat
          BY <2>3, <5>1
        <5> QED
          BY <1>4, <2>3, <2>4, <2>5, <5>1, <5>2 DEF Better
      <4> QED
        BY <4>1, <4>2
    <3>3. x \in 1 .. x
      BY <1>4
    <3> QED
      BY <1>4, <1>8, <3>1, <3>2, <3>3 DEF Found
  <2>6. CASE ~(cost[x] < b.cost \/ (cost[x] = b.cost /\ cands[x].p > b.p))
    <3>1. c = b
      BY <1>9, <2>6
    <3>2. ASSUME NEW j \in 1 .. x PROVE ~Better(cost, j, a)
      <4>1. CASE j = x
        BY <1>4, <2>3, <2>4, <2>6, <4>1 DEF Better
      <4>2. CASE j # x
        BY <1>4, <2>3, <4>2
      <4> QED
        BY <4>1, <4>2
    <3>3. a \in 1 .. x
      BY <1>4, <2>3
    <3> QED
      BY <1>4, <1>8, <2>3, <3>1, <3>2, <3>3 DEF Found
  <2> QED
    BY <2>5, <2>6
<1> QED
  BY <1>10, <1>11

\* So Scan finds the best of all candidates.
LEMMA ScanBest ==
    ASSUME NEW cost, NEW n \in Nat \ {0}, Len(cands) = n,
           \A i \in 1 .. n : cost[i] \in Int /\ cost[i] <= MaxLen + 1 /\ cands[i].p \in Nat
    PROVE  /\ Scan(cost) \in 1 .. n
           /\ \A j \in 1 .. n : ~Better(cost, j, Scan(cost)) /\ cost[Scan(cost)] <= cost[j]
<1>1. PICK f : Runs(cost, f, n) /\ Scan(cost) = f[n].at
  BY ScanRuns
<1>2. Found(cost, f, n)
  <2>1. n \in Nat /\ n \in 1 .. n
    OBVIOUS
  <2>2. \A k \in 1 .. n : Found(cost, f, k)
    BY <1>1, <2>1, RunFindsBest
  <2> QED
    BY <2>1, <2>2
<1>3. PICK a \in 1 .. n : a = Scan(cost) /\ \A j \in 1 .. n : ~Better(cost, j, a)
  BY <1>1, <1>2 DEF Found
<1>4. \A j \in 1 .. n : cost[a] <= cost[j]
  BY <1>3 DEF Better
<1> QED
  BY <1>3, <1>4

----------------------------------------------------------------------------
(* The invariant.                                                          *)

\* Candidates once EOS stands for nothing more.
Valued == [eos : {TRUE}, length : {0}, p : 1 .. 2]
          \cup [eos : {FALSE}, length : 0 .. MaxLen, p : 1 .. 2]

\* The candidates of a pass: excused notices when there is nothing but EOS, and
\* an honest LenVM offers what it promised.
Offered ==
    /\ \E n \in 1 .. MaxCands : cands \in [1 .. n -> Valued]
    /\ (\A i \in DOMAIN cands : cands[i].eos = TRUE) => excused
    /\ honest /\ Sampled > 0 /\ plan > 0 => \E i \in DOMAIN cands : cands[i].length = plan - 1

\* "ge": no EOS that is still to be appended comes too early.
PendingLate ==
    constraint = "ge" /\ mode = "total" /\ ended = "no" /\ ~excused
      => \A k \in DOMAIN pending : pending[k] = TRUE => output + k > target

\* The pass that was the first to offer EOS on an empty budget sampled it, and
\* it will end the answer if nothing ends it before.
DueIsEos ==
    mode = "total" /\ ~ignore_eos /\ due # 0 =>
        \/ ended = "no" /\ due - output \in DOMAIN pending /\ pending[due - output] = TRUE
        \/ ended # "no" /\ output <= due

Request ==
    /\ constraint \in {"eq", "ge", "le", "eq_soft"} /\ mode \in {"total", "remaining"}
    /\ target \in Targets /\ ignore_eos \in BOOLEAN /\ overlap \in BOOLEAN
    /\ honest \in BOOLEAN

Inv ==
    /\ Request
    /\ ended \in {"no", "eos", "length"} /\ excused \in BOOLEAN
    /\ output \in 0 .. MaxNew /\ plan \in 0 .. MaxLen /\ due \in Nat
    /\ pending \in Seq(BOOLEAN) /\ Len(pending) <= Lag + 1
    /\ ended = "no" => output < MaxNew
    /\ cands # <<>> => ended = "no" /\ Len(pending) <= Lag /\ Offered
    /\ PendingLate
    /\ AtLeastKept
    /\ DueIsEos

\* What is known of a candidate.
LEMMA ValuedFacts ==
    ASSUME NEW c \in Valued
    PROVE  /\ c.length \in 0 .. MaxLen /\ c.p \in Nat /\ c.eos \in BOOLEAN
           /\ Rank(c) \in 0 .. (MaxLen + 1)
           /\ c.eos = TRUE => c.length = 0 /\ Rank(c) = 0
           /\ c.eos = FALSE => Rank(c) = c.length + 1
<1>1. CASE c \in [eos : {TRUE}, length : {0}, p : 1 .. 2]
  <2>1. c.eos = TRUE /\ c.length = 0 /\ c.p \in 1 .. 2
    BY <1>1
  <2>2. Rank(c) = 0
    BY <2>1, Zenon DEF Rank
  <2>3. c.length \in 0 .. MaxLen /\ c.p \in Nat /\ Rank(c) \in 0 .. (MaxLen + 1)
    BY <2>1, <2>2, LengthAssumption
  <2>4. c.eos \in BOOLEAN
    BY <2>1, Zenon
  <2> QED
    BY <2>1, <2>2, <2>3, <2>4, Zenon
<1>2. CASE c \in [eos : {FALSE}, length : 0 .. MaxLen, p : 1 .. 2]
  <2>1. c.eos = FALSE /\ c.length \in 0 .. MaxLen /\ c.p \in 1 .. 2
    BY <1>2
  <2>2. Rank(c) = c.length + 1
    BY <2>1, Zenon DEF Rank
  <2>3. c.length \in 0 .. MaxLen /\ c.p \in Nat /\ Rank(c) \in 0 .. (MaxLen + 1)
    BY <2>1, <2>2, LengthAssumption
  <2>4. c.eos \in BOOLEAN
    BY <2>1, Zenon
  <2> QED
    BY <2>1, <2>2, <2>3, <2>4, Zenon
<1> QED
  BY <1>1, <1>2 DEF Valued

\* cands is n candidates with their values.
Cands(n) ==
    /\ n \in Nat \ {0} /\ Len(cands) = n /\ DOMAIN cands = 1 .. n
    /\ \A i \in 1 .. n :
         /\ cands[i].length \in 0 .. MaxLen /\ cands[i].p \in Nat /\ cands[i].eos \in BOOLEAN
         /\ Rank(cands[i]) \in 0 .. (MaxLen + 1)
         /\ cands[i].eos = TRUE => cands[i].length = 0 /\ Rank(cands[i]) = 0
         /\ cands[i].eos = FALSE => Rank(cands[i]) = cands[i].length + 1

\* The candidates of a pass, for a reader of Inv.
LEMMA Candidates ==
    ASSUME Inv, cands # <<>>
    PROVE  \E n \in Nat \ {0} : Cands(n)
<1>1. PICK n \in 1 .. MaxCands : cands \in [1 .. n -> Valued]
  BY DEF Inv, Offered
<1>2. n \in Nat \ {0}
  BY LengthAssumption
<1>3. cands \in Seq(Valued) /\ Len(cands) = n /\ DOMAIN cands = 1 .. n
  BY <1>1, <1>2
<1>4. \A i \in 1 .. n : cands[i] \in Valued
  BY <1>1
<1> QED
  BY <1>2, <1>3, <1>4, ValuedFacts DEF Cands

\* The length still owed.
LEMMA TargetType ==
    ASSUME Inv
    PROVE  /\ TargetLength \in Nat /\ target \in Nat /\ output \in Nat
           /\ mode = "total" => /\ target <= output => TargetLength = 0
                                /\ target > output => TargetLength = target - output
<1>1. target \in Nat /\ output \in Nat
  BY LengthAssumption DEF Inv, Request
<1> QED
  BY <1>1 DEF Inv, Request, TargetLength, Max2

\* The tokens that are on their way to output_ids.
LEMMA PendingType ==
    ASSUME Inv
    PROVE  /\ pending \in Seq(BOOLEAN) /\ Len(pending) \in Nat /\ DOMAIN pending = 1 .. Len(pending)
           /\ \A k \in 1 .. Len(pending) : pending[k] \in BOOLEAN
           /\ output \in Nat /\ Sampled \in Nat /\ Sampled = output + Len(pending)
<1>1. pending \in Seq(BOOLEAN) /\ output \in Nat
  BY LengthAssumption DEF Inv
<1>2. Len(pending) \in Nat /\ DOMAIN pending = 1 .. Len(pending)
  BY <1>1
<1>3. \A k \in 1 .. Len(pending) : pending[k] \in BOOLEAN
  BY <1>1
<1> QED
  BY <1>1, <1>2, <1>3 DEF Sampled

\* What each constraint minimises is below what the loops start from.
LEMMA CostType ==
    ASSUME Inv, NEW n \in Nat, Cands(n)
    PROVE  /\ \A i \in 1 .. n : Cost[i] \in Int /\ Cost[i] <= MaxLen + 1
           /\ \/ Cost = Shortest \/ Cost = Longest \/ Cost = Nearest
<1>0. TargetLength \in Nat
  BY TargetType
<1>1. Cost = Shortest \/ Cost = Longest \/ Cost = Nearest
  BY DEF Inv, Request, Cost
<1>2. \A i \in 1 .. n : Shortest[i] \in Int /\ Shortest[i] <= MaxLen + 1
  BY LengthAssumption DEF Shortest, Cands
<1>3. \A i \in 1 .. n : Longest[i] \in Int /\ Longest[i] <= MaxLen + 1
  BY LengthAssumption DEF Longest, Cands
<1>4. \A i \in 1 .. n : Nearest[i] \in Int /\ Nearest[i] <= MaxLen + 1
  <2>1. /\ DOMAIN cands = 1 .. n /\ \A i \in 1 .. n : cands[i].length \in 0 .. MaxLen
    BY DEF Cands
  <2> QED
    BY <1>0, <2>1, LengthAssumption DEF Nearest, Distance, Min2, Max2
<1> QED
  BY <1>1, <1>2, <1>3, <1>4

\* The loops choose a best candidate in every pass.
LEMMA ScanChooses ==
    ASSUME Inv, NEW n \in Nat \ {0}, Cands(n)
    PROVE  /\ Scan(Cost) \in 1 .. n
           /\ \A j \in 1 .. n : ~Better(Cost, j, Scan(Cost)) /\ Cost[Scan(Cost)] <= Cost[j]
<1>1. \A i \in 1 .. n : Cost[i] \in Int /\ Cost[i] <= MaxLen + 1
  BY CostType
<1>2. PICK cost : cost = Cost
  OBVIOUS
<1>3. Len(cands) = n /\ \A i \in 1 .. n : cost[i] \in Int /\ cost[i] <= MaxLen + 1 /\ cands[i].p \in Nat
  BY <1>1, <1>2 DEF Cands
<1>4. /\ Scan(cost) \in 1 .. n
      /\ \A j \in 1 .. n : ~Better(cost, j, Scan(cost)) /\ cost[Scan(cost)] <= cost[j]
  BY <1>3, ScanBest
<1> QED
  BY <1>2, <1>4

\* When nothing is owed, EOS is chosen where it is offered.
LEMMA EosAtBudget ==
    ASSUME Inv, cands # <<>>, TargetLength = 0, EosOffered
    PROVE  \A i \in Choices : i \in DOMAIN cands /\ cands[i].eos = TRUE
<1>1. PICK n \in Nat \ {0} : Cands(n)
  BY Candidates
<1>2. DOMAIN cands = 1 .. n
  BY <1>1 DEF Cands
<1>3. AllAtLeast
  BY <1>1 DEF AllAtLeast, Cands
<1>4. Choices = {Scan(Cost)}
  BY <1>3 DEF Choices
<1>5. PICK j \in 1 .. n : cands[j].eos = TRUE
  BY <1>1, <1>2 DEF EosOffered, Cands
<1>6. PICK a \in 1 .. n : a = Scan(Cost) /\ Cost[a] <= Cost[j]
  BY <1>1, ScanChooses
<1>7. Cost = Shortest \/ (constraint = "eq" /\ Cost = Nearest)
  BY <1>3 DEF Inv, Request, Cost
<1>8. /\ cands[j].length = 0 /\ Rank(cands[j]) = 0
      /\ cands[a].length \in 0 .. MaxLen /\ cands[a].eos \in BOOLEAN
      /\ cands[a].eos = FALSE => Rank(cands[a]) = cands[a].length + 1
  BY <1>1, <1>5, <1>6 DEF Cands
<1>9. cands[a].eos = TRUE
  <2>1. CASE Cost = Shortest
    <3>1. Shortest[a] = Rank(cands[a]) /\ Shortest[j] = Rank(cands[j])
      BY <1>2, <1>5, <1>6 DEF Shortest
    <3> QED
      BY <1>6, <1>8, <2>1, <3>1
  <2>2. CASE constraint = "eq" /\ Cost = Nearest
    <3>1. \A i \in 1 .. n : Nearest[i] = Distance(Min2(cands[i].length, Cap), Min2(0, Cap))
      BY <1>2 DEF Nearest
    <3>2. PICK l \in 0 .. MaxLen : l = cands[a].length
      BY <1>8
    <3>3. Distance(Min2(l, Cap), Min2(0, Cap)) <= Distance(Min2(0, Cap), Min2(0, Cap))
      BY <1>5, <1>6, <1>8, <2>2, <3>1, <3>2
    <3>4. l = 0
      BY <3>3, LengthAssumption DEF Distance, Min2, Max2
    <3>5. cands[a].eos = TRUE \/ cands[a].length > 0
      BY <1>2, <1>6, <1>8, <2>2 DEF EosOffered
    <3> QED
      BY <3>2, <3>4, <3>5
  <2> QED
    BY <1>7, <2>1, <2>2
<1> QED
  BY <1>2, <1>4, <1>6, <1>9

\* While length is owed, "ge" chooses EOS only if there is nothing else.
LEMMA EosOnlyExcused ==
    ASSUME Inv, cands # <<>>, constraint = "ge", TargetLength # 0,
           NEW i \in Choices, cands[i].eos = TRUE
    PROVE  excused
<1>1. PICK n \in Nat \ {0} : Cands(n)
  BY Candidates
<1>2. i = Scan(Cost) /\ Cost = Longest
  BY DEF Choices, Cost
<1>3. i \in 1 .. n /\ \A j \in 1 .. n : Cost[i] <= Cost[j]
  BY <1>1, <1>2, ScanChooses
<1>4. ASSUME NEW j \in 1 .. n PROVE cands[j].eos = TRUE
  <2>1. Longest[i] = -Rank(cands[i]) /\ Longest[j] = -Rank(cands[j])
    BY <1>1, <1>3 DEF Longest, Cands
  <2>2. /\ Rank(cands[i]) = 0 /\ Rank(cands[j]) \in Nat /\ cands[j].length \in Nat
        /\ cands[j].eos \in BOOLEAN /\ (cands[j].eos = FALSE => Rank(cands[j]) = cands[j].length + 1)
    BY <1>1, <1>3, LengthAssumption DEF Cands
  <2> QED
    BY <1>2, <1>3, <2>1, <2>2
<1> QED
  BY <1>1, <1>4 DEF Inv, Offered, Cands

\* Every choice is a candidate.
LEMMA ChoiceIsCandidate ==
    ASSUME Inv, cands # <<>>, NEW i \in Choices
    PROVE  i \in DOMAIN cands /\ cands[i].length \in 0 .. MaxLen /\ cands[i].eos \in BOOLEAN
<1>1. PICK n \in Nat \ {0} : Cands(n)
  BY Candidates
<1>2. Scan(Cost) \in 1 .. n
  BY <1>1, ScanChooses
<1>3. i \in 1 .. n
  BY <1>1, <1>2 DEF Choices, Cands
<1> QED
  BY <1>1, <1>3 DEF Cands

\* The initial state.
LEMMA InitInv == Init => Inv
<1> SUFFICES ASSUME Init PROVE Inv
  OBVIOUS
<1>1. /\ output \in 0 .. MaxNew /\ plan \in 0 .. MaxLen /\ output < MaxNew /\ due \in Nat
  BY LengthAssumption DEF Init
<1>2. Request
  BY DEF Init, Request
<1>3. pending \in Seq(BOOLEAN) /\ Len(pending) <= Lag + 1 /\ DOMAIN pending = {}
  BY DEF Init, Lag
<1>4. ended = "no" /\ cands = <<>> /\ due = 0 /\ excused \in BOOLEAN
  BY DEF Init
<1> QED
  BY <1>1, <1>2, <1>3, <1>4 DEF Inv, AtLeastKept, PendingLate, DueIsEos

\* What the LenVM's values are once EOS has been given none.
LEMMA EosForced ==
    ASSUME NEW c \in Candidate
    PROVE  /\ force_eos_value_zero(c) \in Valued
           /\ force_eos_value_zero(c).eos = c.eos /\ c.eos \in BOOLEAN
<1>1. CASE c \in [eos : {TRUE}, length : {MaxLen}, p : 1 .. 2]
  <2>1. c.eos = TRUE /\ c.p \in 1 .. 2 /\ c = [eos |-> c.eos, length |-> c.length, p |-> c.p]
    BY <1>1
  <2>2. force_eos_value_zero(c) = [c EXCEPT !.length = 0]
    BY <2>1, Zenon DEF force_eos_value_zero
  <2>3. [c EXCEPT !.length = 0] \in [eos : {TRUE}, length : {0}, p : 1 .. 2]
    BY <1>1
  <2>4. [c EXCEPT !.length = 0].eos = c.eos
    BY <1>1
  <2>5. c.eos \in BOOLEAN
    BY <2>1, Zenon
  <2> QED
    BY <2>2, <2>3, <2>4, <2>5 DEF Valued
<1>2. CASE c \in [eos : {FALSE}, length : 0 .. MaxLen, p : 1 .. 2]
  <2>1. c.eos = FALSE
    BY <1>2
  <2>2. force_eos_value_zero(c) = c
    BY <2>1, Zenon DEF force_eos_value_zero
  <2>3. c.eos \in BOOLEAN
    BY <2>1, Zenon
  <2> QED
    BY <1>2, <2>2, <2>3 DEF Valued
<1> QED
  BY <1>1, <1>2 DEF Candidate

\* New candidates.
LEMMA OfferInv ==
    ASSUME Inv, NEW n \in 1 .. MaxCands, NEW C \in [1 .. n -> Candidate], Offer(C)
    PROVE  Inv'
<1> DEFINE valued == [i \in DOMAIN C |-> force_eos_value_zero(C[i])]
<1>1. /\ ended = "no" /\ Len(pending) <= Lag /\ cands' = valued
      /\ honest /\ Sampled > 0 /\ plan > 0 => \E i \in DOMAIN C : valued[i].length = plan - 1
      /\ excused' = (excused \/ \A i \in DOMAIN C : C[i].eos)
      /\ UNCHANGED <<constraint, mode, target, ignore_eos, overlap, honest>>
      /\ UNCHANGED <<output, pending, plan, ended, due>>
  BY DEF Offer, Launch, request
<1>2. /\ DOMAIN C = 1 .. n /\ DOMAIN valued = 1 .. n
      /\ \A i \in 1 .. n : C[i] \in Candidate /\ valued[i] = force_eos_value_zero(C[i])
  OBVIOUS
<1>3. \A i \in 1 .. n : valued[i] \in Valued /\ valued[i].eos = C[i].eos /\ C[i].eos \in BOOLEAN
  BY <1>2, EosForced
<1>4. valued \in [1 .. n -> Valued]
  BY <1>2, <1>3
<1> HIDE DEF valued
<1>5. UNCHANGED <<Lag, Sampled, Request>>
  BY <1>1 DEF Lag, Sampled, Request
<1>6. Offered'
  <2>1. ASSUME \A i \in DOMAIN valued : valued[i].eos = TRUE PROVE excused'
    <3>1. \A i \in 1 .. n : C[i].eos
      BY <1>2, <1>3, <2>1
    <3> QED
      BY <1>1, <1>2, <3>1
  <2>2. (\E m \in 1 .. MaxCands : cands \in [1 .. m -> Valued])'
    BY <1>1, <1>4
  <2>3. honest /\ Sampled > 0 /\ plan > 0 => \E i \in DOMAIN valued : valued[i].length = plan - 1
    BY <1>1, <1>2
  <2> QED
    BY <1>1, <1>5, <2>1, <2>2, <2>3 DEF Offered
<1>7. excused' \in BOOLEAN /\ (excused => excused')
  BY <1>1, Zenon DEF Inv
<1>8. AtLeastKept' /\ PendingLate' /\ DueIsEos'
  <2>1. AtLeastKept'
    BY <1>1 DEF AtLeastKept
  <2>2. PendingLate'
    BY <1>1, <1>7 DEF Inv, PendingLate
  <2>3. DueIsEos'
    BY <1>1 DEF Inv, DueIsEos
  <2> QED
    BY <2>1, <2>2, <2>3
<1> QED
  BY <1>1, <1>5, <1>6, <1>7, <1>8 DEF Inv

\* What appending a sampled token means for what is pending.
LEMMA AppendPending ==
    ASSUME Inv, NEW e \in BOOLEAN, pending' = Append(pending, e)
    PROVE  /\ pending' \in Seq(BOOLEAN) /\ Len(pending') = Len(pending) + 1
           /\ DOMAIN pending' = 1 .. (Len(pending) + 1)
           /\ pending'[Len(pending) + 1] = e
           /\ \A k \in 1 .. Len(pending) : pending'[k] = pending[k]
<1>1. pending \in Seq(BOOLEAN)
  BY DEF Inv
<1> QED
  BY <1>1

\* A token is chosen.
LEMMA ChooseInv ==
    ASSUME Inv, Choose
    PROVE  Inv'
<1>1. PICK i \in Choices : plan' = cands[i].length /\ pending' = Append(pending, cands[i].eos)
  BY DEF Choose
<1>2. /\ cands # <<>> /\ cands' = <<>>
      /\ due' = IF due = 0 /\ Sampled >= target + Lag /\ EosOffered THEN Sampled + 1 ELSE due
      /\ UNCHANGED <<constraint, mode, target, ignore_eos, overlap, honest>>
      /\ UNCHANGED <<output, ended, excused>>
  BY DEF Choose, request
<1>3. i \in DOMAIN cands /\ cands[i].length \in 0 .. MaxLen /\ cands[i].eos \in BOOLEAN
  BY <1>2, ChoiceIsCandidate
<1>4. /\ ended = "no" /\ Len(pending) <= Lag /\ target \in Nat /\ Lag \in Nat
  BY <1>2, LengthAssumption DEF Inv, Request, Lag
<1>5. /\ pending \in Seq(BOOLEAN) /\ Len(pending) \in Nat /\ DOMAIN pending = 1 .. Len(pending)
      /\ output \in Nat /\ Sampled \in Nat /\ Sampled = output + Len(pending)
  BY PendingType
<1>6. PICK e \in BOOLEAN : e = cands[i].eos
  BY <1>3
<1>7. /\ pending' \in Seq(BOOLEAN) /\ Len(pending') = Len(pending) + 1
      /\ DOMAIN pending' = 1 .. (Len(pending) + 1)
      /\ pending'[Len(pending) + 1] = e
      /\ \A k \in 1 .. Len(pending) : pending'[k] = pending[k]
  BY <1>1, <1>6, AppendPending
<1>8. PICK m \in Nat : m = Len(pending)
  BY <1>5
<1>9. PendingLate'
  <2> SUFFICES ASSUME constraint = "ge", mode = "total", ~excused,
                      NEW k \in 1 .. (m + 1), pending'[k] = TRUE
               PROVE  output + k > target
    BY <1>2, <1>7, <1>8 DEF PendingLate
  <2>1. CASE k = m + 1
    <3>1. cands[i].eos = TRUE
      BY <1>6, <1>7, <1>8, <2>1
    <3>2. TargetLength = 0
      BY <1>2, <3>1, EosOnlyExcused
    <3>3. target <= output
      BY <1>4, <1>5, <3>2, TargetType
    <3> QED
      BY <1>4, <1>5, <2>1, <3>3
  <2>2. CASE k # m + 1
    <3>1. k \in 1 .. m /\ pending[k] = TRUE
      BY <1>7, <1>8, <2>2
    <3> QED
      BY <1>4, <1>5, <1>8, <3>1 DEF Inv, PendingLate
  <2> QED
    BY <2>1, <2>2
<1>10. DueIsEos'
  <2> SUFFICES ASSUME mode = "total", ~ignore_eos, due' # 0
               PROVE  due' - output \in 1 .. (m + 1) /\ pending'[due' - output] = TRUE
    BY <1>2, <1>4, <1>7, <1>8 DEF DueIsEos
  <2>1. CASE due = 0 /\ Sampled >= target + Lag /\ EosOffered
    <3>1. due' = output + m + 1 /\ due' - output = m + 1
      BY <1>2, <1>5, <1>8, <2>1
    <3>2. target <= output
      BY <1>4, <1>5, <2>1
    <3>3. TargetLength = 0
      BY <3>2, TargetType
    <3>4. cands[i].eos = TRUE
      BY <1>2, <2>1, <3>3, EosAtBudget
    <3> QED
      BY <1>6, <1>7, <1>8, <3>1, <3>4
  <2>2. CASE ~(due = 0 /\ Sampled >= target + Lag /\ EosOffered)
    <3>1. due' = due
      BY <1>2, <2>2
    <3>2. due - output \in 1 .. m /\ pending[due - output] = TRUE
      BY <1>4, <1>5, <1>8, <3>1 DEF Inv, DueIsEos
    <3>3. PICK d \in 1 .. m : d = due - output
      BY <3>2
    <3> QED
      BY <1>7, <1>8, <3>1, <3>2, <3>3
  <2> QED
    BY <2>1, <2>2
<1>11. AtLeastKept'
  BY <1>2, <1>4 DEF AtLeastKept
<1>12. due' \in Nat /\ plan' \in 0 .. MaxLen
  BY <1>1, <1>2, <1>3, <1>5 DEF Inv
<1>13. Len(pending') <= Lag' + 1 /\ Request'
  BY <1>2, <1>4, <1>5, <1>7 DEF Inv, Lag, Request
<1> QED
  BY <1>2, <1>7, <1>9, <1>10, <1>11, <1>12, <1>13 DEF Inv

\* A pass that is not guided.
LEMMA SkipInv ==
    ASSUME Inv, NEW e \in BOOLEAN, NEW l \in 0 .. MaxLen, Skip(e, l)
    PROVE  Inv'
<1>1. /\ ended = "no" /\ cands = <<>> /\ Len(pending) <= Lag
      /\ pending' = Append(pending, e) /\ excused' = TRUE
      /\ UNCHANGED <<constraint, mode, target, ignore_eos, overlap, honest>>
      /\ UNCHANGED <<output, cands, ended, due>>
  BY DEF Skip, Launch, request
<1>2. plan' \in 0 .. MaxLen
  BY LengthAssumption DEF Skip
<1>3. /\ pending \in Seq(BOOLEAN) /\ Len(pending) \in Nat /\ DOMAIN pending = 1 .. Len(pending)
      /\ output \in Nat
  BY PendingType
<1>4. /\ pending' \in Seq(BOOLEAN) /\ Len(pending') = Len(pending) + 1
      /\ DOMAIN pending' = 1 .. (Len(pending) + 1)
      /\ \A k \in 1 .. Len(pending) : pending'[k] = pending[k]
  BY <1>1, AppendPending
<1>5. PICK m \in Nat : m = Len(pending)
  BY <1>3
<1>6. DueIsEos'
  <2> SUFFICES ASSUME mode = "total", ~ignore_eos, due # 0
               PROVE  due - output \in 1 .. (m + 1) /\ pending'[due - output] = TRUE
    BY <1>1, <1>4, <1>5 DEF DueIsEos
  <2>1. due - output \in 1 .. m /\ pending[due - output] = TRUE
    BY <1>1, <1>3, <1>5 DEF Inv, DueIsEos
  <2>2. PICK d \in 1 .. m : d = due - output
    BY <2>1
  <2> QED
    BY <1>4, <1>5, <2>1, <2>2
<1>7. AtLeastKept' /\ PendingLate'
  BY <1>1 DEF AtLeastKept, PendingLate
<1>8. Len(pending') <= Lag' + 1 /\ Request'
  BY <1>1, <1>3, <1>4 DEF Inv, Lag, Request
<1> QED
  BY <1>1, <1>2, <1>4, <1>6, <1>7, <1>8 DEF Inv

\* The oldest result is processed.
LEMMA ProcessInv ==
    ASSUME Inv, Process
    PROVE  Inv'
<1>1. /\ cands = <<>> /\ cands' = <<>> /\ pending # <<>> /\ pending' = Tail(pending)
      /\ UNCHANGED <<constraint, mode, target, ignore_eos, overlap, honest>>
      /\ UNCHANGED <<plan, excused, due>>
  BY DEF Process, request
<1>2. /\ pending \in Seq(BOOLEAN) /\ Len(pending) \in Nat /\ DOMAIN pending = 1 .. Len(pending)
      /\ output \in Nat /\ target \in Nat /\ due \in Nat
  BY PendingType, TargetType DEF Inv
<1>3. PICK m \in Nat : m + 1 = Len(pending)
  <2>1. Len(pending) # 0
    BY <1>1, <1>2
  <2>2. Len(pending) - 1 \in Nat /\ (Len(pending) - 1) + 1 = Len(pending)
    BY <1>2, <2>1
  <2> QED
    BY <2>2
<1>4. /\ pending' \in Seq(BOOLEAN) /\ Len(pending') = m /\ DOMAIN pending' = 1 .. m
      /\ \A k \in 1 .. m : pending'[k] = pending[k + 1]
      /\ Head(pending) = pending[1] /\ pending[1] \in BOOLEAN
  <2>1. /\ Tail(pending) \in Seq(BOOLEAN) /\ Len(Tail(pending)) = Len(pending) - 1
        /\ \A k \in 1 .. Len(Tail(pending)) : Tail(pending)[k] = pending[k + 1]
    BY <1>1, <1>2, HeadTailProperties
  <2>2. Len(Tail(pending)) = m
    BY <1>3, <2>1
  <2>3. DOMAIN Tail(pending) = 1 .. m
    BY <2>1, <2>2, LenProperties, Zenon
  <2>4. Head(pending) = pending[1]
    BY <1>1, <1>2, <1>3
  <2>5. pending[1] \in BOOLEAN
    <3>1. 1 \in 1 .. Len(pending)
      BY <1>3
    <3> QED
      BY <1>2, <3>1, ElementOfSeq, Zenon
  <2> QED
    BY <1>1, <2>1, <2>2, <2>3, <2>4, <2>5
<1>5. Len(pending') <= Lag' + 1 /\ Request'
  <2>1. Lag \in Nat /\ Lag' = Lag
    BY <1>1 DEF Lag
  <2>2. Len(pending) <= Lag + 1
    BY DEF Inv
  <2>3. Len(pending') <= Lag' + 1
    BY <1>2, <1>3, <1>4, <2>1, <2>2
  <2> QED
    BY <1>1, <2>3 DEF Inv, Request
<1>6. CASE ended = "no"
  <2>0. ended' = IF output + 1 >= MaxNew THEN "length"
                 ELSE IF Head(pending) /\ ~ignore_eos THEN "eos" ELSE "no"
    BY <1>6 DEF Process
  <2>1. output' = output + 1
    BY <1>6 DEF Process
  <2>2. output' \in 0 .. MaxNew /\ (ended' = "no" => output' < MaxNew)
    <3>1. ended' = "no" => ~(output + 1 >= MaxNew)
      BY <2>0, Zenon
    <3>2. output < MaxNew
      BY <1>6 DEF Inv
    <3> QED
      BY <1>2, <2>1, <3>1, <3>2, LengthAssumption
  <2>3. ended' \in {"no", "eos", "length"}
    BY <2>0, Zenon
  <2>4. ended' = "eos" => pending[1] = TRUE
    <3>1. ended' = "eos" => Head(pending)
      BY <2>0, Zenon
    <3> QED
      BY <1>4, <3>1, Zenon
  <2>5. ended' = "no" => pending[1] = FALSE \/ ignore_eos
    <3>1. ended' = "no" => ~(Head(pending) /\ ~ignore_eos)
      BY <2>0, Zenon
    <3> QED
      BY <1>4, <3>1, Zenon
  <2>6. AtLeastKept'
    <3> SUFFICES ASSUME constraint = "ge", mode = "total", ended' = "eos", ~excused
                 PROVE  output' > target
      BY <1>1 DEF AtLeastKept
    <3>1. 1 \in DOMAIN pending /\ pending[1] = TRUE
      BY <1>2, <1>3, <2>4
    <3>2. output + 1 > target
      BY <1>6, <3>1 DEF Inv, PendingLate
    <3> QED
      BY <2>1, <3>2
  <2>7. PendingLate'
    <3> SUFFICES ASSUME constraint = "ge", mode = "total", ~excused,
                        NEW k \in 1 .. m, pending'[k] = TRUE
                 PROVE  output' + k > target
      BY <1>1, <1>4 DEF PendingLate
    <3>1. k + 1 \in DOMAIN pending /\ pending[k + 1] = TRUE
      BY <1>2, <1>3, <1>4
    <3>2. output + (k + 1) > target
      BY <1>6, <3>1 DEF Inv, PendingLate
    <3> QED
      BY <1>2, <2>1, <3>2
  <2>8. DueIsEos'
    <3> SUFFICES ASSUME mode = "total", ~ignore_eos, due # 0
                 PROVE  \/ ended' = "no" /\ due - output' \in 1 .. m /\ pending'[due - output'] = TRUE
                        \/ ended' # "no" /\ output' <= due
      BY <1>1, <1>4 DEF DueIsEos
    <3>1. due - output \in DOMAIN pending /\ pending[due - output] = TRUE
      BY <1>6 DEF Inv, DueIsEos
    <3>2. PICK d \in 1 .. (m + 1) : d = due - output /\ pending[d] = TRUE
      BY <1>2, <1>3, <3>1
    <3>3. CASE ended' # "no"
      BY <1>2, <2>1, <3>2, <3>3
    <3>4. CASE ended' = "no"
      <4>1. d # 1
        BY <2>5, <3>2, <3>4
      <4>2. d - 1 \in 1 .. m /\ due - output' = d - 1
        BY <1>2, <2>1, <3>2, <4>1
      <4>3. PICK c \in 1 .. m : c = d - 1 /\ c + 1 = d
        BY <3>2, <4>2
      <4>4. pending'[c] = TRUE
        BY <1>4, <3>2, <4>3
      <4> QED
        BY <3>4, <4>2, <4>3, <4>4
    <3> QED
      BY <3>3, <3>4
  <2> QED
    BY <1>1, <1>4, <1>5, <2>2, <2>3, <2>6, <2>7, <2>8 DEF Inv
<1>7. CASE ended # "no"
  <2>1. UNCHANGED <<output, ended>>
    BY <1>7 DEF Process
  <2>2. AtLeastKept' /\ PendingLate'
    BY <1>1, <1>7, <2>1 DEF Inv, AtLeastKept, PendingLate
  <2>3. DueIsEos'
    BY <1>1, <1>7, <2>1 DEF Inv, DueIsEos
  <2> QED
    BY <1>1, <1>4, <1>5, <1>7, <2>1, <2>2, <2>3 DEF Inv
<1> QED
  BY <1>6, <1>7

\* All of it.
LEMMA NextInv == Inv /\ [Next]_vars => Inv'
<1> SUFFICES ASSUME Inv, [Next]_vars PROVE Inv'
  OBVIOUS
<1>1. CASE Next
  BY <1>1, OfferInv, ChooseInv, SkipInv, ProcessInv DEF Next
<1>2. CASE UNCHANGED vars
  BY <1>2 DEF vars, request, Inv, Request, Offered, Sampled, Lag, AtLeastKept, PendingLate, DueIsEos
<1> QED
  BY <1>1, <1>2

----------------------------------------------------------------------------
(* The theorems.                                                           *)

\* Inv holds in every reachable state.
THEOREM Inductive == Spec => []Inv
BY InitInv, NextInv, PTL DEF Spec

\* A request never has more than max_new_tokens, no length is negative, and no
\* more results are outstanding than the event loop allows.
THEOREM TypeCorrect == Spec => []TypeOK
<1>1. Inv => TypeOK
  BY TargetType DEF Inv, TypeOK
<1> QED
  BY <1>1, Inductive, PTL

\* The loops of lvm_hard_value_constraint_guidance choose what they are meant
\* to, for any number of candidates: the best one, of equally good ones the
\* most probable, of equally probable ones the first.
THEOREM LoopsFindBest == Spec => []ScanFindsBest
<1>1. ASSUME Inv PROVE ScanFindsBest
  <2> SUFFICES ASSUME cands # <<>>, NEW j \in DOMAIN cands
               PROVE  ~Better(Cost, j, Scan(Cost))
    BY DEF ScanFindsBest, Better
  <2>1. PICK n \in Nat \ {0} : Cands(n)
    BY <1>1, Candidates
  <2>2. j \in 1 .. n
    BY <2>1 DEF Cands
  <2> QED
    BY <1>1, <2>1, <2>2, ScanChooses
<1> QED
  BY <1>1, Inductive, PTL

\* "ge", in either event loop: an answer that ends with EOS has target_length
\* tokens before it, unless a pass offered nothing else or was not guided.
THEOREM NotTooShort == Spec => []AtLeastKept
<1>1. Inv => AtLeastKept
  BY DEF Inv
<1> QED
  BY <1>1, Inductive, PTL

\* With a total length, whatever the constraint: after target_length sampled
\* tokens, in the overlap loop one more, an answer goes no further than the
\* first guided pass that offers EOS.
THEOREM BudgetNotOverrun == Spec => []StopsAtBudget
<1>1. ASSUME Inv PROVE StopsAtBudget
  <2> SUFFICES ASSUME mode = "total", ~ignore_eos, due # 0 PROVE output <= due
    BY DEF StopsAtBudget
  <2>1. CASE ended # "no"
    BY <1>1, <2>1 DEF Inv, DueIsEos
  <2>2. CASE ended = "no"
    <3>1. due - output \in DOMAIN pending
      BY <1>1, <2>2 DEF Inv, DueIsEos
    <3>2. due - output \in 1 .. Len(pending) /\ output \in Nat /\ due \in Nat
      BY <1>1, <3>1, PendingType DEF Inv
    <3> QED
      BY <3>2
  <2> QED
    BY <2>1, <2>2
<1> QED
  BY <1>1, Inductive, PTL

\* "eq" in the normal loop, with values that are kept: from one guided pass to
\* the next the length promised never gets further from target_length tokens
\* followed by an EOS.
THEOREM CloserToTarget == Spec => NeverFarther
<1>1. ASSUME Inv, Next, AimedPass
      PROVE  Distance(Sampled' + plan', target + 1) <= Distance(Sampled + plan, target + 1)
  <2>1. /\ constraint = "eq" /\ mode = "total" /\ honest /\ ~overlap
        /\ Sampled > 0 /\ plan > 0 /\ cands # <<>> /\ cands' = <<>>
        /\ target <= Cap /\ plan <= Cap /\ plan' <= Cap
    BY <1>1 DEF AimedPass
  <2>2. Choose
    BY <1>1, <2>1 DEF Next, Offer, Launch, Skip, Process
  <2>3. /\ pending \in Seq(BOOLEAN) /\ Len(pending) \in Nat /\ output \in Nat
        /\ Sampled = output + Len(pending)
    BY <1>1, PendingType
  <2>4. Len(pending) = 0
    BY <1>1, <2>1, <2>3 DEF Inv, Lag
  <2>5. PICK i \in Choices : plan' = cands[i].length /\ pending' = Append(pending, cands[i].eos)
    BY <2>2 DEF Choose
  <2>6. Sampled = output /\ Sampled' = output + 1
    <3>1. cands[i].eos \in BOOLEAN /\ output' = output
      BY <1>1, <2>1, <2>2, ChoiceIsCandidate DEF Choose
    <3>2. Len(pending') = 1
      BY <1>1, <2>3, <2>4, <2>5, <3>1, AppendPending
    <3> QED
      BY <2>3, <2>4, <3>1, <3>2 DEF Sampled
  <2>7. /\ target \in Nat /\ plan \in Nat /\ TargetLength \in Nat
        /\ TargetLength = Max2(target - output, 0)
    BY <1>1, <2>1, TargetType, LengthAssumption DEF Inv, TargetLength
  <2>8. PICK n \in Nat \ {0} : Cands(n)
    BY <1>1, <2>1, Candidates
  <2>9. DOMAIN cands = 1 .. n /\ \A k \in 1 .. n : cands[k].length \in 0 .. MaxLen
    BY <2>8 DEF Cands
  <2>10. i = Scan(Cost) /\ Cost = Nearest
    BY <2>1 DEF Choices, Cost
  <2>11. PICK j \in 1 .. n : cands[j].length = plan - 1
    BY <1>1, <2>1, <2>9 DEF Inv, Offered
  <2>12. i \in 1 .. n /\ Nearest[i] <= Nearest[j]
    BY <1>1, <2>8, <2>10, ScanChooses
  <2>13. /\ Nearest[i] = Distance(Min2(cands[i].length, Cap), Min2(TargetLength, Cap))
         /\ Nearest[j] = Distance(Min2(cands[j].length, Cap), Min2(TargetLength, Cap))
    BY <2>9, <2>12 DEF Nearest
  <2>14. PICK p1 \in Nat, T \in Nat : p1 = plan' /\ T = TargetLength
    BY <2>5, <2>7, <2>9, <2>12
  <2>15. /\ p1 <= Cap /\ plan - 1 <= Cap /\ T <= Cap /\ plan - 1 \in Nat
    BY <2>1, <2>3, <2>7, <2>14, LengthAssumption DEF Max2
  <2>16. Distance(p1, T) <= Distance(plan - 1, T)
    BY <2>5, <2>11, <2>12, <2>13, <2>14, <2>15, LengthAssumption DEF Min2
  <2>17. T = Max2(target - output, 0)
    BY <2>7, <2>14
  <2>18. Distance(output + 1 + p1, target + 1) <= Distance(output + plan, target + 1)
    BY <2>3, <2>7, <2>15, <2>16, <2>17 DEF Distance, Max2
  <2> QED
    BY <2>6, <2>14, <2>18
<1>2. Inv /\ [Next]_vars
        => [AimedPass => Distance(Sampled' + plan', target + 1)
                           <= Distance(Sampled + plan, target + 1)]_vars
  BY <1>1
<1> QED
  BY <1>2, Inductive, PTL DEF Spec, NeverFarther
=============================================================================
