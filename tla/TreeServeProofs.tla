--------------------------- MODULE TreeServeProofs ---------------------------
(***************************************************************************)
(* The value server and its radix cache, for any requests, pool, number of *)
(* rows and chunk size, in both event loops.                               *)
(***************************************************************************)
EXTENDS TreeServe, FiniteSetTheorems, SequenceTheorems,
        WellFoundedInduction, TLAPS

----------------------------------------------------------------------------
(* Trees.                                                                  *)

\* The node whose segment holds the token p.
IsOwner(T, p, e) ==
    /\ e \in Nodes(T) /\ IsPrefix(p, e)
    /\ \A f \in Nodes(T) : IsPrefix(p, f) => IsPrefix(e, f)

\* A radix tree: closed under prefixes, and where two texts part there is a
\* node, so that every token has one owner.
Shape(T) ==
    /\ T = [slot |-> T.slot, ref |-> T.ref, evictable |-> T.evictable, protected |-> T.protected]
    /\ T.slot = [p \in DOMAIN T.slot |-> T.slot[p]]
    /\ T.ref = [e \in DOMAIN T.ref |-> T.ref[e]]
    /\ DOMAIN T.slot \subseteq Seq(Token) \ {<<>>}
    /\ IsFiniteSet(DOMAIN T.slot)
    /\ \A p \in DOMAIN T.slot : \A n \in 1 .. Len(p) : Take(p, n) \in DOMAIN T.slot
    /\ Nodes(T) \subseteq DOMAIN T.slot
    /\ \A p \in DOMAIN T.slot : \E e \in Nodes(T) : IsOwner(T, p, e)
    /\ \A e \in Nodes(T) : T.ref[e] \in Int
    /\ T.evictable \in Int /\ T.protected \in Int

\* The tokens that no lock protects.
Unlocked(T) == {p \in DOMAIN T.slot : \E e \in Nodes(T) : IsOwner(T, p, e) /\ T.ref[e] = 0}

\* The counters count tokens.
Exact(T) ==
    /\ T.evictable = Cardinality(Unlocked(T))
    /\ T.protected = Cardinality(DOMAIN T.slot \ Unlocked(T))

----------------------------------------------------------------------------
(* The inductive invariant.                                                *)

\* A request of the server once it has arrived.
States == {"waiting", "aborted", "running", "done"}
Req == [job : JobChoices, state : States, prefix : Seq(Slots), node : Seq(Token), fill : Nat,
        row : Seq(Slots), is_chunked : Nat, value : SUBSET Seq(Token)]

\* What the variables hold.
Types ==
    /\ overlap \in BOOLEAN /\ pc \in {"top", "adding", "launch", "process", "crashed"}
    /\ free \subseteq Slots /\ kv \in [Slots -> Seq(Token)] /\ rows \in Nat
    /\ req \in [Reqs -> Req \cup {Absent}]
    /\ batch \in Seq(Reqs) /\ mode \in BOOLEAN /\ offset \in Int /\ rem_chunk \in 0 .. ChunkSize
    /\ full \in BOOLEAN /\ chunked \in Reqs \cup {NONE}
    /\ last \in [reqs : Seq(Reqs), chunked : Reqs \cup {NONE}]
    /\ results \in Seq(Seq(Reqs))

\* A sequence with no request twice.
Once(s) == \A i, k \in DOMAIN s : s[i] = s[k] => i = k

\* The batch: requests of the waiting queue and the chunked request, all of
\* one kind.
BatchOK ==
    /\ pc \in {"top", "process", "crashed"} => batch = <<>>
    /\ Once(batch)
    /\ \A i \in DOMAIN batch : /\ req[batch[i]].state \in {"waiting", "running"}
                               /\ (req[batch[i]].job.prefix_len > 0) = mode
    /\ Len(batch) <= rows

\* The batches whose results are still to be processed: with overlap the last
\* batch too.
ResultsOK ==
    /\ \A i \in DOMAIN results : results[i] # <<>> /\ Once(results[i])
    /\ pc # "process" /\ (~overlap \/ last.reqs = <<>>) => results = <<>>
    /\ pc # "process" /\ overlap /\ last.reqs # <<>> => results = <<last.reqs>>
    /\ pc = "process" => /\ Len(results) = IF overlap /\ last.reqs # <<>> THEN 2 ELSE 1
                         /\ Len(results) = 2 => results[2] = last.reqs

\* The open batches that request r is in.
In(res, r, i) == IF i \in DOMAIN res /\ r \in ToSet(res[i]) THEN 1 ELSE 0
Open(res, r) == In(res, r, 1) + In(res, r, 2)

\* is_chunked counts the open batches that do not end the request.
Counted ==
    \A r \in Reqs :
        /\ req[r].state = "running" =>
             Open(results, r) = req[r].is_chunked + (IF r = chunked \/ r \in ToSet(batch) THEN 0 ELSE 1)
        /\ req[r].state # "running" => Open(results, r) = 0
        /\ req[r].state \notin {"running", "absent"} => req[r].is_chunked = 0

\* Only the chunked request is cut short, and then the chunk is used up.
ChunkedOK ==
    /\ chunked # NONE =>
         /\ req[chunked].state # "absent" /\ req[chunked].job.prefix_len = 0
         /\ req[chunked].fill < Len(Ids(chunked))
         /\ pc \in {"adding", "launch"} => chunked \in ToSet(batch)
         /\ pc \notin {"adding", "launch"} => req[chunked].state = "running"
         /\ pc = "adding" => rem_chunk = 0
    /\ \A r \in Holders : r # chunked => req[r].fill = Len(Ids(r))

\* The text of the i-th token of a job.
TextOf(j, i) ==
    IF j.prefix_len > 0 /\ i > j.prefix_len
    THEN Append(Take(j.ids, j.prefix_len), j.ids[i]) ELSE Take(j.ids, i)

\* A row begins with the slots of the node and holds the request's text; with
\* the last token came the answer.
RowAt(x, k) ==
    /\ Len(x.row) = x.fill
    /\ \A i \in 1 .. Len(x.node) : x.row[i] = x.prefix[i]
    /\ \A i \in 1 .. x.fill : k[x.row[i]] = TextOf(x.job, i)
    /\ x.fill = Len(x.job.ids) => x.value = Expected(x.job)

\* A request that holds a lock holds it on a node on the way to its own text.
HolderAt(x, T, k) ==
    /\ x.fill \in 1 .. Len(x.job.ids) /\ Len(x.node) <= x.fill
    /\ x.job.prefix_len > 0 => Len(x.node) < x.job.prefix_len
    /\ x.node = Take(x.job.ids, Len(x.node))
    /\ x.node # <<>> => x.node \in Nodes(T)
    /\ x.prefix = [i \in 1 .. Len(x.node) |-> T.slot[Take(x.node, i)]]
    /\ x.row # <<>> => RowAt(x, k)

\* All holders.
HoldersOK == \A r \in Holders : HolderAt(req[r], tree, kv)

\* The others have nothing; the requests in the batch have no row yet.
RestOK ==
    \A r \in Reqs :
        /\ req[r].state # "absent" /\ r \notin Holders =>
             req[r].row = <<>> /\ req[r].prefix = <<>> /\ req[r].node = <<>>
        /\ r \in ToSet(batch) => req[r].row = <<>> /\ Len(req[r].node) < req[r].fill
        /\ req[r].state = "running" /\ r \notin ToSet(batch) /\ pc # "crashed" => req[r].row # <<>>
        /\ req[r].state = "done" => req[r].value = Expected(req[r].job)

\* s is the slot of a token that only r has.
OwnsAt(q, r, s) ==
    q[r].state # "absent" /\ \E i \in Len(q[r].node) + 1 .. Len(q[r].row) : q[r].row[i] = s

\* s is the slot of a cached token.
CachedAt(T, s) == \E p \in DOMAIN T.slot : T.slot[p] = s

\* Every slot has one use.
SlotsAt(f, T, q) ==
    /\ \A p \in DOMAIN T.slot : T.slot[p] \in Slots /\ T.slot[p] \notin f
    /\ \A p, o \in DOMAIN T.slot : T.slot[p] = T.slot[o] => p = o
    /\ \A r \in Reqs : \A s \in Slots : OwnsAt(q, r, s) => s \notin f /\ ~CachedAt(T, s)
    /\ \A r, c \in Reqs : \A s \in Slots : OwnsAt(q, r, s) /\ OwnsAt(q, c, s) => r = c
    /\ \A r \in Reqs : q[r].state # "absent" =>
         \A i, k \in Len(q[r].node) + 1 .. Len(q[r].row) : q[r].row[i] = q[r].row[k] => i = k
    /\ \A s \in Slots : s \in f \/ CachedAt(T, s) \/ \E r \in Reqs : OwnsAt(q, r, s)

SlotsOK == SlotsAt(free, tree, req)

\* The locks of a node are the holders H whose nodes N[r] are below it.
LocksAt(T, H, N) == \A e \in Nodes(T) : T.ref[e] = Cardinality({r \in H : IsPrefix(e, N[r])})

\* The node each holder holds.
NodeOf == [r \in Holders |-> req[r].node]

LocksOK == LocksAt(tree, Holders, NodeOf)

\* The slots that are free or can be made free.
Available == Cardinality(free) + tree.evictable

\* What the adder has promised is there.
Reserved ==
    /\ pc = "adding" \/ batch # <<>> => offset = Needed
    /\ batch # <<>> => offset < Available
    /\ chunked # NONE /\ pc # "crashed" =>
         (IF batch = <<>> THEN 0 ELSE offset) + (Len(Ids(chunked)) - req[chunked].fill) < Available

\* Rows are free or with one request.
HasRow(q, r) == q[r].state # "absent" /\ q[r].row # <<>>

RowsOK == rows + Cardinality({r \in Reqs : HasRow(req, r)}) = Rows

IInv ==
    /\ Types /\ Shape(tree) /\ Exact(tree)
    /\ BatchOK /\ ResultsOK /\ Counted /\ ChunkedOK
    /\ HoldersOK /\ RestOK /\ SlotsOK /\ CacheHonest /\ LocksOK /\ Reserved /\ RowsOK

----------------------------------------------------------------------------
(* Counting and adding up.                                                 *)

\* Every set of numbers with a member has a least one.
LEMMA LeastNumber ==
    ASSUME NEW T \in SUBSET Nat, T # {}
    PROVE  \E x \in T : \A y \in T : x <= y
<1>1. IsWellFoundedOn(OpToRel(<, Nat), Nat)
  BY NatLessThanWellFounded, Zenon
<1>2. PICK x \in T : \A y \in T : ~(<<y, x>> \in OpToRel(<, Nat))
  BY <1>1, WFMin, Zenon
<1>3. ASSUME NEW y \in T PROVE x <= y
  <2>1. ~(<<y, x>> \in OpToRel(<, Nat))
    BY <1>2
  <2> QED
    BY <2>1 DEF OpToRel
<1> QED
  BY <1>3

\* A bounded set of numbers has a greatest one, and Max finds it.
LEMMA Greatest ==
    ASSUME NEW T \in SUBSET Nat, T # {}, NEW n \in Nat, \A x \in T : x <= n
    PROVE  Max(T) \in T /\ \A y \in T : y <= Max(T)
<1> DEFINE U == {k \in Nat : \A x \in T : x <= k}
<1>1. U \in SUBSET Nat /\ U # {}
  OBVIOUS
<1>2. PICK k \in U : \A y \in U : k <= y
  BY <1>1, LeastNumber
<1>3. k \in Nat /\ \A x \in T : x <= k
  BY <1>2
<1>4. k \in T
  <2> SUFFICES ASSUME k \notin T PROVE FALSE
    OBVIOUS
  <2>1. \A x \in T : x \in Nat /\ x < k
    BY <1>3
  <2>2. k > 0 /\ k - 1 \in Nat
    <3>1. PICK x : x \in T
      OBVIOUS
    <3>2. x \in Nat /\ x < k
      BY <2>1, <3>1
    <3> QED
      BY <1>3, <3>2
  <2>3. \A x \in T : x <= k - 1
    BY <1>3, <2>1, <2>2
  <2> QED
    BY <1>2, <1>3, <2>2, <2>3
<1>5. \E x \in T : \A y \in T : x >= y
  BY <1>3, <1>4
<1>6. Max(T) \in T /\ \A y \in T : Max(T) >= y
  BY <1>5 DEF Max
<1> QED
  BY <1>6

\* The smaller of two numbers.
LEMMA SmallerOfTwo ==
    ASSUME NEW a \in Int, NEW b \in Int
    PROVE  Min({a, b}) = IF a <= b THEN a ELSE b
BY DEF Min

\* The size of a set in two parts.
LEMMA TwoParts ==
    ASSUME NEW S, IsFiniteSet(S), NEW T, IsFiniteSet(T), S \cap T = {}
    PROVE  /\ IsFiniteSet(S \cup T) /\ Cardinality(S) \in Nat /\ Cardinality(T) \in Nat
           /\ Cardinality(S \cup T) = Cardinality(S) + Cardinality(T)
<1>1. Cardinality(S) \in Nat /\ Cardinality(T) \in Nat
  BY FS_CardinalityType
<1>2. Cardinality(S \cap T) = 0
  BY FS_EmptySet
<1>3. /\ IsFiniteSet(S \cup T)
      /\ Cardinality(S \cup T) = Cardinality(S) + Cardinality(T) - Cardinality(S \cap T)
  BY FS_Union
<1> QED
  BY <1>1, <1>2, <1>3

\* Sets that a function pairs off have as many members.
LEMMA PairedOff ==
    ASSUME NEW S, NEW T, IsFiniteSet(S), NEW f \in [S -> T],
           \A x, y \in S : f[x] = f[y] => x = y, \A y \in T : \E x \in S : f[x] = y
    PROVE  IsFiniteSet(T) /\ Cardinality(T) = Cardinality(S)
<1>1. f \in Bijection(S, T)
  BY DEF Bijection, Injection, Surjection, IsInjective
<1>2. ExistsBijection(S, T)
  BY <1>1 DEF ExistsBijection
<1> QED
  BY <1>2, FS_Bijection

\* What the sets C[x] of the x in s have together.
Union(C, s) == UNION {C[x] : x \in s}

\* Disjoint finite sets.
Apart(C, S) ==
    /\ IsFiniteSet(S) /\ \A x \in S : IsFiniteSet(C[x])
    /\ \A x, y \in S : C[x] \cap C[y] # {} => x = y

\* Together they are finite, and one of them can be taken out.
LEMMA UnionParts ==
    ASSUME NEW S, NEW C, Apart(C, S), NEW s \in SUBSET S
    PROVE  /\ IsFiniteSet(Union(C, s)) /\ Cardinality(Union(C, s)) \in Nat
           /\ \A x \in s : Cardinality(Union(C, s)) = Cardinality(C[x]) + Cardinality(Union(C, s \ {x}))
<1>1. IsFiniteSet(s)
  BY FS_Subset DEF Apart
<1>2. \A t \in SUBSET S : IsFiniteSet(t)
  BY FS_Subset DEF Apart
<1>3. \A t \in SUBSET S : IsFiniteSet({C[x] : x \in t})
  <2> TAKE t \in SUBSET S
  <2> DEFINE f == [x \in t |-> C[x]]
  <2>1. f \in Surjection(t, {C[x] : x \in t})
    BY DEF Surjection
  <2> QED
    BY <1>2, <2>1, FS_Surjection
<1>4. \A t \in SUBSET S : IsFiniteSet(Union(C, t))
  <2> TAKE t \in SUBSET S
  <2>1. \A X \in {C[x] : x \in t} : IsFiniteSet(X)
    BY DEF Apart
  <2> QED
    BY <1>3, <2>1, FS_UNION DEF Union
<1>5. ASSUME NEW x \in s
      PROVE  Cardinality(Union(C, s)) = Cardinality(C[x]) + Cardinality(Union(C, s \ {x}))
  <2>1. Union(C, s) = C[x] \cup Union(C, s \ {x})
    BY DEF Union
  <2>2. C[x] \cap Union(C, s \ {x}) = {}
    BY DEF Union, Apart
  <2>3. IsFiniteSet(C[x]) /\ IsFiniteSet(Union(C, s \ {x}))
    BY <1>4 DEF Apart
  <2> QED
    BY <2>1, <2>2, <2>3, TwoParts
<1> QED
  BY <1>4, <1>5, FS_CardinalityType

\* The element a sum takes next.
NextOf(s) == CHOOSE x \in s : TRUE

\* f adds up the numbers c[x].
Adds(f, c, S) ==
    f = [s \in SUBSET S |-> IF s = {} THEN 0 ELSE c[NextOf(s)] + f[s \ {NextOf(s)}]]

\* The sizes of disjoint sets can be added up ...
LEMMA SumExists ==
    ASSUME NEW S, NEW C, Apart(C, S), NEW c, \A x \in S : c[x] = Cardinality(C[x])
    PROVE  \E f : Adds(f, c, S)
<1> DEFINE f == [s \in SUBSET S |-> Cardinality(Union(C, s))]
<1>1. ASSUME NEW s \in SUBSET S
      PROVE  f[s] = IF s = {} THEN 0 ELSE c[NextOf(s)] + f[s \ {NextOf(s)}]
  <2>1. CASE s = {}
    <3>1. Union(C, s) = {}
      BY <2>1 DEF Union
    <3> QED
      BY <2>1, <3>1, FS_EmptySet
  <2>2. CASE s # {}
    <3>1. NextOf(s) \in s
      BY <2>2 DEF NextOf
    <3>2. Cardinality(Union(C, s)) = Cardinality(C[NextOf(s)]) + Cardinality(Union(C, s \ {NextOf(s)}))
      BY <3>1, UnionParts
    <3>3. c[NextOf(s)] = Cardinality(C[NextOf(s)])
      BY <3>1
    <3>4. s \ {NextOf(s)} \in SUBSET S
      OBVIOUS
    <3> QED
      BY <2>2, <3>2, <3>3, <3>4
  <2> QED
    BY <2>1, <2>2
<1>2. f = [s \in SUBSET S |-> f[s]]
  OBVIOUS
<1> HIDE DEF f
<1>3. f = [s \in SUBSET S |-> IF s = {} THEN 0 ELSE c[NextOf(s)] + f[s \ {NextOf(s)}]]
  BY <1>1, <1>2
<1> QED
  BY <1>3 DEF Adds

\* ... to the size of their union.
LEMMA SumCounts ==
    ASSUME NEW S, NEW C, Apart(C, S), NEW c, \A x \in S : c[x] = Cardinality(C[x]),
           NEW f, Adds(f, c, S)
    PROVE  f[S] = Cardinality(Union(C, S))
<1> DEFINE Bad == {s \in SUBSET S : f[s] # Cardinality(Union(C, s))}
<1>1. SUFFICES ASSUME Bad # {} PROVE FALSE
  OBVIOUS
<1>2. \A s \in SUBSET S : IsFiniteSet(s) /\ Cardinality(s) \in Nat
  BY FS_Subset, FS_CardinalityType DEF Apart
<1>3. {Cardinality(s) : s \in Bad} \in SUBSET Nat /\ {Cardinality(s) : s \in Bad} # {}
  BY <1>1, <1>2
<1>4. PICK n \in {Cardinality(s) : s \in Bad} : \A y \in {Cardinality(s) : s \in Bad} : n <= y
  BY <1>3, LeastNumber
<1>5. PICK s \in Bad : n = Cardinality(s)
  BY <1>4
<1>6. s \in SUBSET S /\ f[s] = IF s = {} THEN 0 ELSE c[NextOf(s)] + f[s \ {NextOf(s)}]
  BY <1>5 DEF Adds
<1>7. CASE s = {}
  <2>1. Union(C, s) = {}
    BY <1>7 DEF Union
  <2> QED
    BY <1>5, <1>6, <1>7, <2>1, FS_EmptySet
<1>8. CASE s # {}
  <2>1. NextOf(s) \in s
    BY <1>8 DEF NextOf
  <2>2. Cardinality(s \ {NextOf(s)}) = Cardinality(s) - 1
    BY <1>2, <1>6, <2>1, FS_RemoveElement
  <2>3. s \ {NextOf(s)} \in SUBSET S
    BY <1>6
  <2>4. s \ {NextOf(s)} \notin Bad
    <3>1. n \in Nat /\ ~(n <= n - 1)
      BY <1>2, <1>5, <1>6
    <3> QED
      BY <1>4, <1>5, <2>2, <3>1
  <2>5. f[s \ {NextOf(s)}] = Cardinality(Union(C, s \ {NextOf(s)}))
    BY <2>3, <2>4
  <2>6. Cardinality(Union(C, s)) = Cardinality(C[NextOf(s)]) + Cardinality(Union(C, s \ {NextOf(s)}))
    BY <1>6, <2>1, UnionParts
  <2>7. c[NextOf(s)] = Cardinality(C[NextOf(s)])
    BY <1>6, <2>1
  <2> QED
    BY <1>5, <1>6, <1>8, <2>5, <2>6, <2>7
<1> QED
  BY <1>7, <1>8

----------------------------------------------------------------------------
(* Beginnings of sequences.                                                *)

\* The first n of a sequence.
LEMMA TakeFacts ==
    ASSUME NEW S, NEW s \in Seq(S), NEW n \in 0 .. Len(s)
    PROVE  /\ Take(s, n) \in Seq(S) /\ Len(Take(s, n)) = n
           /\ \A i \in 1 .. n : Take(s, n)[i] = s[i]
<1>1. Len(s) \in Nat /\ \A i \in 1 .. Len(s) : s[i] \in S
  BY LenProperties, ElementOfSeq
<1>2. \A i \in 1 .. n : s[i] \in S
  BY <1>1
<1>3. /\ SubSeq(s, 1, n) \in Seq(S)
      /\ Len(SubSeq(s, 1, n)) = IF 1 <= n THEN n - 1 + 1 ELSE 0
      /\ \A i \in 1 .. n - 1 + 1 : SubSeq(s, 1, n)[i] = s[1 + i - 1]
  BY <1>1, <1>2, SubSeqProperties
<1>4. \A i \in 1 .. n : i \in 1 .. n - 1 + 1 /\ 1 + i - 1 = i
  BY <1>1
<1> QED
  BY <1>1, <1>3, <1>4 DEF Take

\* All of it, and nothing of it.
LEMMA TakeEnds ==
    ASSUME NEW S, NEW s \in Seq(S)
    PROVE  Take(s, Len(s)) = s /\ Take(s, 0) = <<>> /\ (Len(s) = 0 <=> s = <<>>)
<1>1. Take(s, Len(s)) = s
  BY SubSeqFull DEF Take
<1>2. Take(s, 0) = <<>>
  BY SubSeqEmpty DEF Take
<1> QED
  BY <1>1, <1>2, EmptySeq

\* The first n of the first m.
LEMMA TakeTake ==
    ASSUME NEW S, NEW s \in Seq(S), NEW m \in 0 .. Len(s), NEW n \in 0 .. m
    PROVE  Take(Take(s, m), n) = Take(s, n)
<1>1. Len(s) \in Nat
  BY LenProperties
<1>2. PICK u \in Seq(S) : u = Take(s, m) /\ Len(u) = m /\ \A i \in 1 .. m : u[i] = s[i]
  BY TakeFacts
<1>3. /\ Take(u, n) \in Seq(S) /\ Len(Take(u, n)) = n /\ \A i \in 1 .. n : Take(u, n)[i] = u[i]
  BY <1>2, TakeFacts
<1>4. n \in 0 .. Len(s)
  BY <1>1
<1>5. /\ Take(s, n) \in Seq(S) /\ Len(Take(s, n)) = n /\ \A i \in 1 .. n : Take(s, n)[i] = s[i]
  BY <1>4, TakeFacts
<1>6. \A i \in 1 .. n : i \in 1 .. m
  BY <1>1
<1>7. \A i \in 1 .. n : Take(u, n)[i] = Take(s, n)[i]
  BY <1>2, <1>3, <1>5, <1>6
<1> QED
  BY <1>2, <1>3, <1>5, <1>7, SeqEqual

\* A prefix is what a sequence begins with.
LEMMA PrefixIs ==
    ASSUME NEW S, NEW s \in Seq(S), NEW t \in Seq(S)
    PROVE  IsPrefix(s, t) <=> Len(s) <= Len(t) /\ s = Take(t, Len(s))
<1>1. SubSeq(s, 1, Len(s)) = s
  BY SubSeqFull
<1> QED
  BY <1>1 DEF IsPrefix, Take

\* The beginnings of a sequence are its prefixes.
LEMMA TakePrefix ==
    ASSUME NEW S, NEW t \in Seq(S), NEW n \in 0 .. Len(t)
    PROVE  IsPrefix(Take(t, n), t)
<1>1. Take(t, n) \in Seq(S) /\ Len(Take(t, n)) = n /\ Len(t) \in Nat
  BY TakeFacts, LenProperties
<1> QED
  BY <1>1, PrefixIs

\* Prefixes are ordered, and the prefixes of one sequence by their length.
LEMMA PrefixOrder ==
    ASSUME NEW S
    PROVE  /\ \A s \in Seq(S) : IsPrefix(s, s) /\ IsPrefix(<<>>, s) /\ (IsPrefix(s, <<>>) => s = <<>>)
           /\ \A s, t, u \in Seq(S) : IsPrefix(s, t) /\ IsPrefix(t, u) => IsPrefix(s, u)
           /\ \A s, t \in Seq(S) : IsPrefix(s, t) => Len(s) <= Len(t)
           /\ \A s, t \in Seq(S) : IsPrefix(s, t) /\ Len(t) <= Len(s) => s = t
           /\ \A s, t, u \in Seq(S) :
                IsPrefix(s, u) /\ IsPrefix(t, u) /\ Len(s) <= Len(t) => IsPrefix(s, t)
<1>1. ASSUME NEW s \in Seq(S)
      PROVE  IsPrefix(s, s) /\ IsPrefix(<<>>, s) /\ (IsPrefix(s, <<>>) => s = <<>>)
  <2>1. Len(s) \in Nat /\ <<>> \in Seq(S) /\ Len(<<>>) = 0
    BY LenProperties, EmptySeq
  <2>2. Take(s, Len(s)) = s /\ Take(s, 0) = <<>> /\ (Len(s) = 0 <=> s = <<>>)
    BY TakeEnds
  <2>3. IsPrefix(s, s) /\ IsPrefix(<<>>, s)
    <3>1. IsPrefix(s, s) <=> Len(s) <= Len(s) /\ s = Take(s, Len(s))
      BY PrefixIs
    <3>2. PICK e \in Seq(S) : e = <<>>
      BY <2>1
    <3>3. IsPrefix(e, s) <=> Len(e) <= Len(s) /\ e = Take(s, Len(e))
      BY PrefixIs
    <3> QED
      BY <2>1, <2>2, <3>1, <3>2, <3>3
  <2>4. IsPrefix(s, <<>>) => Len(s) <= 0
    BY <2>1, PrefixIs
  <2> QED
    BY <2>1, <2>2, <2>3, <2>4
<1>2. ASSUME NEW s \in Seq(S), NEW t \in Seq(S), NEW u \in Seq(S), IsPrefix(s, t), IsPrefix(t, u)
      PROVE  IsPrefix(s, u)
  <2>1. PICK a \in Nat : a = Len(s)
    BY LenProperties
  <2>2. PICK b \in Nat : b = Len(t)
    BY LenProperties
  <2>3. PICK c \in Nat : c = Len(u)
    BY LenProperties
  <2>4. a <= b /\ b <= c /\ s = Take(t, a) /\ t = Take(u, b)
    BY <1>2, <2>1, <2>2, <2>3, PrefixIs
  <2>5. Take(Take(u, b), a) = Take(u, a)
    BY <2>3, <2>4, TakeTake
  <2> QED
    BY <2>1, <2>3, <2>4, <2>5, PrefixIs
<1>3. ASSUME NEW s \in Seq(S), NEW t \in Seq(S), IsPrefix(s, t)
      PROVE  Len(s) <= Len(t)
  BY <1>3, PrefixIs
<1>4. ASSUME NEW s \in Seq(S), NEW t \in Seq(S), IsPrefix(s, t), Len(t) <= Len(s)
      PROVE  s = t
  <2>1. Len(s) = Len(t)
    BY <1>3, <1>4, LenProperties
  <2>2. s = Take(t, Len(t))
    BY <1>4, <2>1, PrefixIs
  <2> QED
    BY <2>2, TakeEnds
<1>5. ASSUME NEW s \in Seq(S), NEW t \in Seq(S), NEW u \in Seq(S),
             IsPrefix(s, u), IsPrefix(t, u), Len(s) <= Len(t)
      PROVE  IsPrefix(s, t)
  <2>1. PICK a \in Nat : a = Len(s)
    BY LenProperties
  <2>2. PICK b \in Nat : b = Len(t)
    BY LenProperties
  <2>3. PICK c \in Nat : c = Len(u)
    BY LenProperties
  <2>4. a <= b /\ b <= c /\ s = Take(u, a) /\ t = Take(u, b)
    BY <1>5, <2>1, <2>2, <2>3, PrefixIs
  <2>5. Take(Take(u, b), a) = Take(u, a)
    BY <2>3, <2>4, TakeTake
  <2> QED
    BY <2>1, <2>2, <2>4, <2>5, PrefixIs
<1> QED
  BY <1>1, <1>2, <1>3, <1>4, <1>5

\* Of two beginnings of a sequence the shorter one is a prefix of the other.
LEMMA TakePrefixes ==
    ASSUME NEW S, NEW t \in Seq(S), NEW m \in 0 .. Len(t), NEW n \in 0 .. Len(t)
    PROVE  IsPrefix(Take(t, m), Take(t, n)) <=> m <= n
<1>1. /\ Take(t, m) \in Seq(S) /\ Len(Take(t, m)) = m
      /\ Take(t, n) \in Seq(S) /\ Len(Take(t, n)) = n
  BY TakeFacts
<1>2. IsPrefix(Take(t, m), t) /\ IsPrefix(Take(t, n), t)
  BY TakePrefix
<1> QED
  BY <1>1, <1>2, PrefixOrder

----------------------------------------------------------------------------
(* Tokens, nodes and owners.                                               *)

\* The tokens of the segment of node e.
Owned(T, e) == {p \in DOMAIN T.slot : IsOwner(T, p, e)}

\* The paths and nodes of a tree are texts.
LEMMA Paths ==
    ASSUME NEW T, Shape(T)
    PROVE  /\ \A p \in DOMAIN T.slot : p \in Seq(Token) /\ p # <<>> /\ Len(p) \in Nat /\ Len(p) > 0
           /\ \A e \in Nodes(T) : e \in DOMAIN T.slot
           /\ IsFiniteSet(Nodes(T))
<1>1. ASSUME NEW p \in DOMAIN T.slot
      PROVE  p \in Seq(Token) /\ p # <<>> /\ Len(p) \in Nat /\ Len(p) > 0
  <2>1. p \in Seq(Token) /\ p # <<>>
    BY DEF Shape
  <2> QED
    BY <2>1, LenProperties, EmptySeq
<1>2. Nodes(T) \subseteq DOMAIN T.slot /\ IsFiniteSet(DOMAIN T.slot)
  BY DEF Shape
<1> QED
  BY <1>1, <1>2, FS_Subset

\* Everything above a path is in the tree.
LEMMA Closed ==
    ASSUME NEW T, Shape(T), NEW q \in DOMAIN T.slot, NEW p \in Seq(Token), p # <<>>, IsPrefix(p, q)
    PROVE  p \in DOMAIN T.slot
<1>1. q \in Seq(Token) /\ Len(q) \in Nat /\ Len(p) \in Nat /\ Len(p) > 0
  BY Paths, LenProperties, EmptySeq
<1>2. Len(p) <= Len(q) /\ p = Take(q, Len(p))
  BY <1>1, PrefixIs
<1>3. Len(p) \in 1 .. Len(q)
  BY <1>1, <1>2
<1> QED
  BY <1>2, <1>3 DEF Shape

\* A token has one owner.
LEMMA OneOwner ==
    ASSUME NEW T, Shape(T), NEW p, NEW e, NEW f, IsOwner(T, p, e), IsOwner(T, p, f)
    PROVE  e = f
<1>1. e \in Seq(Token) /\ f \in Seq(Token) /\ IsPrefix(e, f) /\ IsPrefix(f, e)
  BY Paths DEF IsOwner
<1> QED
  BY <1>1, PrefixOrder

\* A node owns its last token.
LEMMA OwnsLast ==
    ASSUME NEW T, Shape(T), NEW e \in Nodes(T)
    PROVE  IsOwner(T, e, e)
BY Paths, PrefixOrder DEF IsOwner

\* The end of the node above e, or 0.
Above(T, e) == Max({0} \cup {Len(a) : a \in PathTo(T, e) \ {e}})

\* len(node.key) is what lies between a node and the node above it.
LEMMA KeyLenIs ==
    ASSUME NEW T, Shape(T), NEW e \in Nodes(T)
    PROVE  /\ Len(e) \in Nat /\ Above(T, e) \in 0 .. Len(e) /\ KeyLen(T, e) = Len(e) - Above(T, e)
           /\ \A a \in Nodes(T) : IsPrefix(a, e) /\ a # e => Len(a) <= Above(T, e)
           /\ Above(T, e) > 0 =>
                \E a \in Nodes(T) : IsPrefix(a, e) /\ a # e /\ Len(a) = Above(T, e)
<1> DEFINE U == {0} \cup {Len(a) : a \in PathTo(T, e) \ {e}}
<1>1. e \in Seq(Token) /\ Len(e) \in Nat /\ \A a \in Nodes(T) : a \in Seq(Token) /\ Len(a) \in Nat
  BY Paths
<1>2. \A a \in PathTo(T, e) : a \in Nodes(T) /\ IsPrefix(a, e) /\ Len(a) \in Nat /\ Len(a) <= Len(e)
  BY <1>1, PrefixOrder DEF PathTo
<1>3. U \in SUBSET Nat /\ U # {} /\ \A x \in U : x <= Len(e)
  BY <1>1, <1>2
<1>4. Max(U) \in U /\ \A y \in U : y <= Max(U)
  BY <1>1, <1>3, Greatest
<1>5. Above(T, e) = Max(U) /\ KeyLen(T, e) = Len(e) - Max(U)
  BY DEF Above, KeyLen
<1>6. Above(T, e) \in 0 .. Len(e)
  BY <1>1, <1>3, <1>4, <1>5
<1>7. \A a \in Nodes(T) : IsPrefix(a, e) /\ a # e => Len(a) \in U
  BY DEF PathTo
<1>8. Above(T, e) > 0 => \E a \in Nodes(T) : IsPrefix(a, e) /\ a # e /\ Len(a) = Above(T, e)
  <2> SUFFICES ASSUME Above(T, e) > 0
               PROVE  \E a \in Nodes(T) : IsPrefix(a, e) /\ a # e /\ Len(a) = Above(T, e)
    OBVIOUS
  <2>1. Above(T, e) # 0 /\ Above(T, e) \in U
    BY <1>4, <1>5
  <2>2. PICK a \in PathTo(T, e) \ {e} : Above(T, e) = Len(a)
    BY <2>1
  <2> QED
    BY <1>2, <2>2
<1> QED
  BY <1>1, <1>4, <1>5, <1>6, <1>7, <1>8

\* The tokens of a node's segment are the ones it owns.
LEMMA SegmentIs ==
    ASSUME NEW T, Shape(T), NEW e \in Nodes(T), NEW p \in DOMAIN T.slot
    PROVE  IsOwner(T, p, e) <=> IsPrefix(p, e) /\ Len(p) > Len(e) - KeyLen(T, e)
<1>1. /\ Len(e) \in Nat /\ Above(T, e) \in 0 .. Len(e) /\ KeyLen(T, e) = Len(e) - Above(T, e)
      /\ \A a \in Nodes(T) : IsPrefix(a, e) /\ a # e => Len(a) <= Above(T, e)
      /\ Above(T, e) > 0 =>
           \E a \in Nodes(T) : IsPrefix(a, e) /\ a # e /\ Len(a) = Above(T, e)
  BY KeyLenIs
<1>2. PICK m \in Nat : m = Above(T, e)
  BY <1>1
<1>3. Len(e) - KeyLen(T, e) = m
  <2>1. PICK n \in Nat : n = Len(e)
    BY <1>1
  <2>2. PICK k \in Int : k = KeyLen(T, e)
    BY <1>1, <2>1
  <2>3. k = n - m
    BY <1>1, <1>2, <2>1, <2>2
  <2>4. n - k = m
    BY <2>3
  <2> QED
    BY <2>1, <2>2, <2>4
<1>4. /\ p \in Seq(Token) /\ Len(p) \in Nat /\ Len(p) > 0 /\ e \in Seq(Token)
      /\ \A f \in Nodes(T) : f \in Seq(Token) /\ f # <<>> /\ Len(f) \in Nat
  BY Paths
<1>5. ASSUME IsOwner(T, p, e)
      PROVE  Len(p) > m
  <2> SUFFICES ASSUME Len(p) <= m PROVE FALSE
    BY <1>2, <1>4
  <2>1. PICK a \in Nodes(T) : IsPrefix(a, e) /\ a # e /\ Len(a) = m
    BY <1>1, <1>2, <1>4
  <2>2. IsPrefix(p, a)
    BY <1>4, <1>5, <2>1, PrefixOrder DEF IsOwner
  <2>3. IsPrefix(e, a)
    BY <1>5, <2>1, <2>2 DEF IsOwner
  <2> QED
    BY <1>4, <2>1, <2>3, PrefixOrder
<1>6. ASSUME IsPrefix(p, e), Len(p) > m
      PROVE  IsOwner(T, p, e)
  <2>1. PICK o \in Nodes(T) : IsOwner(T, p, o)
    BY DEF Shape
  <2>2. IsPrefix(p, o) /\ IsPrefix(o, e)
    BY <1>6, <2>1 DEF IsOwner
  <2>3. Len(p) <= Len(o)
    BY <1>4, <2>1, <2>2, PrefixOrder
  <2>4. o = e
    <3> SUFFICES ASSUME o # e PROVE FALSE
      OBVIOUS
    <3>1. Len(o) <= m
      BY <1>1, <1>2, <2>1, <2>2
    <3> QED
      BY <1>2, <1>4, <1>6, <2>1, <2>3, <3>1
  <2> QED
    BY <2>1, <2>4
<1> QED
  BY <1>3, <1>5, <1>6 DEF IsOwner

\* PathsOf are the tokens that the nodes own.
LEMMA PathsOfIs ==
    ASSUME NEW T, Shape(T), NEW E \in SUBSET Nodes(T)
    PROVE  /\ PathsOf(T, E) = {p \in DOMAIN T.slot : \E e \in E : IsOwner(T, p, e)}
           /\ PathsOf(T, E) \subseteq DOMAIN T.slot
           /\ IsFiniteSet(PathsOf(T, E)) /\ Cardinality(PathsOf(T, E)) \in Nat
<1>1. PathsOf(T, E) = {p \in DOMAIN T.slot : \E e \in E : IsOwner(T, p, e)}
  BY SegmentIs DEF PathsOf
<1>2. IsFiniteSet(DOMAIN T.slot) /\ PathsOf(T, E) \subseteq DOMAIN T.slot
  BY <1>1 DEF Shape
<1> QED
  BY <1>1, <1>2, FS_Subset, FS_CardinalityType

\* A node owns len(node.key) tokens.
LEMMA KeyLenCounts ==
    ASSUME NEW T, Shape(T), NEW e \in Nodes(T)
    PROVE  IsFiniteSet(Owned(T, e)) /\ Cardinality(Owned(T, e)) = KeyLen(T, e) /\ KeyLen(T, e) \in Nat
<1>1. /\ Len(e) \in Nat /\ Above(T, e) \in 0 .. Len(e) /\ KeyLen(T, e) = Len(e) - Above(T, e)
  BY KeyLenIs
<1>2. PICK m \in Nat : m = Above(T, e)
  BY <1>1
<1>3. PICK n \in Nat : n = Len(e)
  BY <1>1
<1>4. m <= n /\ KeyLen(T, e) = n - m /\ n - m \in Nat /\ n - (n - m) = m
  BY <1>1, <1>2, <1>3
<1>5. e \in Seq(Token) /\ e \in DOMAIN T.slot
  BY Paths
<1>6. \A i \in m + 1 .. n : /\ i \in 1 .. n /\ i \in 0 .. n /\ i > m
                            /\ Take(e, i) \in Seq(Token) /\ Len(Take(e, i)) = i /\ IsPrefix(Take(e, i), e)
  <2> TAKE i \in m + 1 .. n
  <2>1. i \in 1 .. n /\ i \in 0 .. n /\ i > m
    BY <1>2, <1>3
  <2> QED
    BY <1>3, <1>5, <2>1, TakeFacts, TakePrefix
<1> DEFINE f == [i \in m + 1 .. n |-> Take(e, i)]
<1>7. f \in [m + 1 .. n -> Owned(T, e)]
  <2>1. ASSUME NEW i \in m + 1 .. n PROVE Take(e, i) \in Owned(T, e)
    <3>1. Take(e, i) \in DOMAIN T.slot
      BY <1>3, <1>5, <1>6 DEF Shape
    <3>2. IsOwner(T, Take(e, i), e)
      BY <1>3, <1>4, <1>6, <3>1, SegmentIs
    <3> QED
      BY <3>1, <3>2 DEF Owned
  <2> QED
    BY <2>1
<1>8. \A i, k \in m + 1 .. n : f[i] = f[k] => i = k
  BY <1>6
<1>9. ASSUME NEW p \in Owned(T, e) PROVE \E i \in m + 1 .. n : f[i] = p
  <2>1. p \in DOMAIN T.slot /\ IsOwner(T, p, e)
    BY DEF Owned
  <2>2. IsPrefix(p, e) /\ Len(p) > Len(e) - KeyLen(T, e)
    BY <2>1, SegmentIs
  <2>3. p \in Seq(Token) /\ Len(p) \in Nat
    BY <2>1, Paths
  <2>4. Len(p) <= n /\ p = Take(e, Len(p)) /\ Len(p) > m
    BY <1>3, <1>4, <1>5, <2>2, <2>3, PrefixIs
  <2>5. Len(p) \in m + 1 .. n
    BY <2>3, <2>4
  <2> QED
    BY <2>4, <2>5
<1>10. IsFiniteSet(m + 1 .. n) /\ Cardinality(m + 1 .. n) = n - m
  <2>1. m + 1 \in Int /\ n \in Int
    OBVIOUS
  <2>2. IsFiniteSet(m + 1 .. n) /\ Cardinality(m + 1 .. n) = IF m + 1 > n THEN 0 ELSE n - (m + 1) + 1
    BY <2>1, FS_Interval
  <2>3. (IF m + 1 > n THEN 0 ELSE n - (m + 1) + 1) = n - m
    BY <1>4
  <2> QED
    BY <2>2, <2>3
<1> HIDE DEF f
<1>11. IsFiniteSet(Owned(T, e)) /\ Cardinality(Owned(T, e)) = Cardinality(m + 1 .. n)
  <2>1. PICK I : I = m + 1 .. n
    OBVIOUS
  <2>2. /\ f \in [I -> Owned(T, e)] /\ (\A i, k \in I : f[i] = f[k] => i = k)
        /\ (\A y \in Owned(T, e) : \E i \in I : f[i] = y) /\ IsFiniteSet(I)
    BY <1>7, <1>8, <1>9, <1>10, <2>1
  <2>3. IsFiniteSet(Owned(T, e)) /\ Cardinality(Owned(T, e)) = Cardinality(I)
    BY <2>2, PairedOff
  <2> QED
    BY <2>1, <2>3
<1> QED
  BY <1>4, <1>10, <1>11

\* f adds up the lengths of the segments.
AddsKeys(T, f, E) ==
    f = [s \in SUBSET E |-> IF s = {} THEN 0
                            ELSE KeyLen(T, CHOOSE x \in s : TRUE) + f[s \ {CHOOSE x \in s : TRUE}]]

\* Tokens counts the tokens of nodes.
LEMMA TokensCount ==
    ASSUME NEW T, Shape(T), NEW E \in SUBSET Nodes(T)
    PROVE  Tokens(T, E) = Cardinality(PathsOf(T, E)) /\ Tokens(T, E) \in Nat
<1> DEFINE C == [e \in E |-> Owned(T, e)]
           c == [e \in E |-> KeyLen(T, e)]
<1>1. Apart(C, E)
  <2>1. IsFiniteSet(E)
    BY Paths, FS_Subset
  <2>2. \A e \in E : IsFiniteSet(C[e])
    BY KeyLenCounts
  <2>3. \A e, f \in E : C[e] \cap C[f] # {} => e = f
    BY OneOwner DEF Owned
  <2> QED
    BY <2>1, <2>2, <2>3 DEF Apart
<1>2. \A e \in E : c[e] = Cardinality(C[e])
  BY KeyLenCounts
<1>3. Union(C, E) = PathsOf(T, E)
  BY PathsOfIs DEF Union, Owned
<1>4. \A s \in SUBSET E : s # {} => KeyLen(T, CHOOSE x \in s : TRUE) = c[NextOf(s)]
  BY DEF NextOf
<1>5. \A s : (CHOOSE x \in s : TRUE) = NextOf(s)
  BY DEF NextOf
<1> HIDE DEF C, c
<1>6. \A f : Adds(f, c, E) <=> AddsKeys(T, f, E)
  BY <1>4, <1>5 DEF Adds, AddsKeys
<1>7. \E f : AddsKeys(T, f, E)
  BY <1>1, <1>2, <1>6, SumExists
<1> DEFINE g == CHOOSE f : AddsKeys(T, f, E)
<1>8. AddsKeys(T, g, E)
  BY <1>7
<1>9. Tokens(T, E) = g[E]
  BY DEF Tokens, MapThenSumSet, MapThenFoldSet, AddsKeys
<1> HIDE DEF g
<1>10. g[E] = Cardinality(Union(C, E))
  BY <1>1, <1>2, <1>6, <1>8, SumCounts
<1> QED
  BY <1>3, <1>9, <1>10, PathsOfIs

\* MatchLen is where key leaves the tree.
LEMMA MatchIs ==
    ASSUME NEW T, Shape(T), NEW key \in Seq(Token)
    PROVE  /\ MatchLen(T, key) \in 0 .. Len(key)
           /\ \A n \in 1 .. Len(key) : Take(key, n) \in DOMAIN T.slot <=> n <= MatchLen(T, key)
           /\ Take(key, MatchLen(T, key)) \in DOMAIN T.slot \cup {<<>>}
           /\ Take(key, MatchLen(T, key)) \in Seq(Token)
           /\ Len(Take(key, MatchLen(T, key))) = MatchLen(T, key)
<1> DEFINE U == {0} \cup {n \in 1 .. Len(key) : Take(key, n) \in DOMAIN T.slot}
<1>1. Len(key) \in Nat
  BY LenProperties
<1>2. U \in SUBSET Nat /\ U # {} /\ \A x \in U : x <= Len(key)
  BY <1>1
<1>3. Max(U) \in U /\ \A y \in U : y <= Max(U)
  BY <1>1, <1>2, Greatest
<1>4. PICK m \in Nat : m = MatchLen(T, key)
  BY <1>2, <1>3 DEF MatchLen
<1>5. m \in U /\ \A y \in U : y <= m
  BY <1>3, <1>4 DEF MatchLen
<1>6. m \in 0 .. Len(key)
  BY <1>1, <1>2, <1>5
<1>7. Take(key, m) \in Seq(Token) /\ Len(Take(key, m)) = m
  BY <1>6, TakeFacts
<1>8. Take(key, m) \in DOMAIN T.slot \cup {<<>>}
  <2>1. CASE m = 0
    BY <2>1, TakeEnds
  <2>2. CASE m # 0
    BY <1>5, <2>2
  <2> QED
    BY <2>1, <2>2
<1>9. ASSUME NEW n \in 1 .. Len(key)
      PROVE  Take(key, n) \in DOMAIN T.slot <=> n <= m
  <2>1. ASSUME Take(key, n) \in DOMAIN T.slot PROVE n <= m
    BY <1>5, <2>1
  <2>2. ASSUME n <= m PROVE Take(key, n) \in DOMAIN T.slot
    <3>1. m # 0 /\ Take(key, m) \in DOMAIN T.slot
      BY <1>1, <1>5, <2>2
    <3>2. n \in 1 .. m /\ n \in 0 .. m
      BY <1>1, <2>2
    <3>3. Take(Take(key, m), n) \in DOMAIN T.slot
      BY <1>7, <3>1, <3>2 DEF Shape
    <3>4. Take(Take(key, m), n) = Take(key, n)
      BY <1>6, <3>2, TakeTake
    <3> QED
      BY <3>3, <3>4
  <2> QED
    BY <2>1, <2>2
<1> QED
  BY <1>4, <1>6, <1>7, <1>8, <1>9

----------------------------------------------------------------------------
(* What the operations do to a tree.                                       *)

\* _split_node: the upper half has the owner's lock_ref, and nothing else
\* changes.
LEMMA SplitEffect ==
    ASSUME NEW T, Shape(T), NEW p \in DOMAIN T.slot \cup {<<>>}, NEW S, S = Split(T, p)
    PROVE  /\ Shape(S) /\ S.slot = T.slot /\ S.evictable = T.evictable /\ S.protected = T.protected
           /\ Nodes(S) = Nodes(T) \cup ({p} \ {<<>>})
           /\ \A e \in Nodes(S) : \E f \in Nodes(T) : S.ref[e] = T.ref[f] /\ IsOwner(T, e, f)
           /\ Unlocked(S) = Unlocked(T)
<1>1. /\ \A q \in DOMAIN T.slot : q \in Seq(Token) /\ q # <<>> /\ Len(q) \in Nat
      /\ \A e \in Nodes(T) : e \in DOMAIN T.slot
  BY Paths
<1>2. CASE p = <<>> \/ p \in Nodes(T)
  <2>1. S = T
    BY <1>2 DEF Split
  <2>2. p \in Nodes(T) \/ {p} \ {<<>>} = {}
    BY <1>2
  <2> QED
    BY <2>1, <2>2, OwnsLast
<1>3. CASE p # <<>> /\ p \notin Nodes(T)
  <2> DEFINE below == {e \in Nodes(T) : IsPrefix(p, e)}
             child == CHOOSE e \in below : \A f \in below : Len(e) <= Len(f)
  <2>1. p \in DOMAIN T.slot /\ p \in Seq(Token)
    BY <1>1, <1>3
  <2>2. PICK c \in Nodes(T) : IsOwner(T, p, c)
    BY <2>1 DEF Shape
  <2>3. c \in below /\ c \in Seq(Token) /\ \A f \in below : f \in Seq(Token) /\ IsPrefix(c, f) /\ Len(c) <= Len(f)
    BY <1>1, <2>2, PrefixOrder DEF IsOwner
  <2>4. child \in below /\ \A f \in below : Len(child) <= Len(f)
    BY <2>3
  <2>5. child = c
    BY <2>3, <2>4, PrefixOrder
  <2>15. S = [T EXCEPT !.ref = With(@, [e \in {p} |-> T.ref[child]])]
    BY <1>3 DEF Split
  <2> HIDE DEF child, below
  <2>6. S = [T EXCEPT !.ref = With(@, [e \in {p} |-> T.ref[c]])]
    BY <2>5, <2>15
  <2>7. S = [slot |-> T.slot, ref |-> With(T.ref, [e \in {p} |-> T.ref[c]]), evictable |-> T.evictable,
             protected |-> T.protected]
    BY <2>6 DEF Shape
  <2>8. S.slot = T.slot /\ S.evictable = T.evictable /\ S.protected = T.protected
        /\ S.ref = With(T.ref, [e \in {p} |-> T.ref[c]])
    BY <2>7
  <2>9. /\ S.ref = [e \in Nodes(T) \cup {p} |-> IF e = p THEN T.ref[c] ELSE T.ref[e]]
        /\ Nodes(S) = Nodes(T) \cup {p}
    BY <2>8 DEF With, Nodes
  <2>10. ASSUME NEW q \in DOMAIN T.slot PROVE \E e \in Nodes(S) : IsOwner(S, q, e)
    <3>1. PICK o \in Nodes(T) : IsOwner(T, q, o)
      BY DEF Shape
    <3>2. q \in Seq(Token) /\ o \in Seq(Token) /\ \A f \in Nodes(T) : f \in Seq(Token)
      BY <1>1
    <3>3. CASE IsPrefix(q, p) /\ ~IsPrefix(o, p)
      <4>1. IsPrefix(q, c) /\ IsPrefix(p, c)
        BY <2>1, <2>2, <2>3, <3>2, <3>3, PrefixOrder DEF IsOwner
      <4>2. IsPrefix(o, c)
        BY <3>1, <4>1 DEF IsOwner
      <4>3. IsPrefix(p, o)
        <5>1. Len(p) \in Nat /\ Len(o) \in Nat
          BY <1>1, <2>1
        <5>2. ~(Len(o) <= Len(p))
          BY <2>1, <2>3, <3>2, <3>3, <4>1, <4>2, PrefixOrder
        <5>3. Len(p) <= Len(o)
          BY <5>1, <5>2
        <5> QED
          BY <2>1, <2>3, <3>2, <4>1, <4>2, <5>3, PrefixOrder
      <4>4. \A f \in Nodes(T) : IsPrefix(q, f) => IsPrefix(p, f)
        BY <2>1, <3>1, <3>2, <4>3, PrefixOrder DEF IsOwner
      <4>5. IsPrefix(p, p)
        BY <2>1, PrefixOrder
      <4> QED
        BY <2>9, <3>3, <4>4, <4>5 DEF IsOwner
    <3>4. CASE ~(IsPrefix(q, p) /\ ~IsPrefix(o, p))
      BY <2>9, <3>1, <3>4 DEF IsOwner
    <3> QED
      BY <3>3, <3>4
  <2>11. Shape(S)
    <3>1. S = [slot |-> S.slot, ref |-> S.ref, evictable |-> S.evictable, protected |-> S.protected]
      BY <2>7
    <3>2. S.ref = [e \in DOMAIN S.ref |-> S.ref[e]]
      BY <2>9
    <3>3. \A e \in Nodes(S) : S.ref[e] \in Int
      BY <2>2, <2>9 DEF Shape
    <3>4. Nodes(S) \subseteq DOMAIN S.slot
      BY <1>1, <2>1, <2>8, <2>9
    <3> QED
      BY <2>8, <2>10, <3>1, <3>2, <3>3, <3>4 DEF Shape
  <2>12. \A e \in Nodes(S) : \E f \in Nodes(T) : S.ref[e] = T.ref[f] /\ IsOwner(T, e, f)
    BY <1>3, <2>2, <2>9, OwnsLast
  <2>13. ASSUME NEW q \in DOMAIN T.slot, NEW o \in Nodes(S), IsOwner(S, q, o)
         PROVE  \E f \in Nodes(T) : S.ref[o] = T.ref[f] /\ IsOwner(T, q, f)
    <3>1. PICK f \in Nodes(T) : S.ref[o] = T.ref[f] /\ IsOwner(T, o, f)
      BY <2>12
    <3>2. q \in Seq(Token) /\ o \in Seq(Token) /\ \A g \in Nodes(T) : g \in Seq(Token)
      BY <1>1, <2>1, <2>9
    <3>3. IsPrefix(q, f)
      BY <2>13, <3>1, <3>2, PrefixOrder DEF IsOwner
    <3>4. \A g \in Nodes(T) : IsPrefix(q, g) => IsPrefix(o, g)
      BY <2>9, <2>13 DEF IsOwner
    <3> QED
      BY <3>1, <3>3, <3>4 DEF IsOwner
  <2>14. Unlocked(S) = Unlocked(T)
    <3>1. ASSUME NEW q \in Unlocked(S) PROVE q \in Unlocked(T)
      BY <2>8, <2>13 DEF Unlocked
    <3>2. ASSUME NEW q \in Unlocked(T) PROVE q \in Unlocked(S)
      <4>1. PICK e \in Nodes(T) : q \in DOMAIN T.slot /\ IsOwner(T, q, e) /\ T.ref[e] = 0
        BY DEF Unlocked
      <4>2. PICK o \in Nodes(S) : IsOwner(S, q, o)
        BY <2>10, <4>1
      <4>3. PICK f \in Nodes(T) : S.ref[o] = T.ref[f] /\ IsOwner(T, q, f)
        BY <2>13, <4>1, <4>2
      <4>4. f = e
        BY <4>1, <4>3, OneOwner
      <4> QED
        BY <2>8, <4>1, <4>2, <4>3, <4>4 DEF Unlocked
    <3> QED
      BY <3>1, <3>2
  <2> QED
    BY <1>3, <2>8, <2>9, <2>11, <2>12, <2>14
<1> QED
  BY <1>2, <1>3

\* match_prefix exposes the boundary of what is matched.
LEMMA MatchEffect ==
    ASSUME NEW T, Shape(T), NEW key \in Seq(Token), NEW S, S = match_prefix(T, key)
    PROVE  /\ Shape(S) /\ S.slot = T.slot /\ S.evictable = T.evictable /\ S.protected = T.protected
           /\ Nodes(S) = Nodes(T) \cup ({Take(key, MatchLen(T, key))} \ {<<>>})
           /\ \A e \in Nodes(S) : \E f \in Nodes(T) : S.ref[e] = T.ref[f] /\ IsOwner(T, e, f)
           /\ Unlocked(S) = Unlocked(T)
<1>1. Take(key, MatchLen(T, key)) \in DOMAIN T.slot \cup {<<>>}
  BY MatchIs
<1>2. S = Split(T, Take(key, MatchLen(T, key)))
  BY DEF match_prefix
<1> QED
  BY <1>1, <1>2, SplitEffect

\* The beginnings of a text from m on, one of each length.
Rest(key, m) == {Take(key, i) : i \in m + 1 .. Len(key)}

\* There are Len(key) - m of them.
LEMMA RestCount ==
    ASSUME NEW key \in Seq(Token), NEW m \in 0 .. Len(key)
    PROVE  /\ IsFiniteSet(Rest(key, m)) /\ Cardinality(Rest(key, m)) = Len(key) - m
           /\ \A i \in m + 1 .. Len(key) : i \in 0 .. Len(key) /\ Len(Take(key, i)) = i
<1>1. PICK n \in Nat : n = Len(key)
  BY LenProperties
<1>2. m \in Nat /\ m <= n
  BY <1>1
<1>3. \A i \in m + 1 .. n : i \in 0 .. n
  BY <1>1, <1>2
<1>4. \A i \in m + 1 .. n : Len(Take(key, i)) = i
  BY <1>1, <1>3, TakeFacts
<1> DEFINE f == [i \in m + 1 .. n |-> Take(key, i)]
<1>5. f \in [m + 1 .. n -> Rest(key, m)]
  BY <1>1 DEF Rest
<1>6. \A i, k \in m + 1 .. n : f[i] = f[k] => i = k
  BY <1>4
<1>7. \A y \in Rest(key, m) : \E i \in m + 1 .. n : f[i] = y
  BY <1>1 DEF Rest
<1>8. IsFiniteSet(m + 1 .. n) /\ Cardinality(m + 1 .. n) = n - m
  <2>1. m + 1 \in Int /\ n \in Int
    BY <1>2
  <2>2. IsFiniteSet(m + 1 .. n) /\ Cardinality(m + 1 .. n) = IF m + 1 > n THEN 0 ELSE n - (m + 1) + 1
    BY <2>1, FS_Interval
  <2>3. (IF m + 1 > n THEN 0 ELSE n - (m + 1) + 1) = n - m
    BY <1>2
  <2> QED
    BY <2>2, <2>3
<1> HIDE DEF f
<1>9. IsFiniteSet(Rest(key, m)) /\ Cardinality(Rest(key, m)) = Cardinality(m + 1 .. n)
  <2>1. PICK I : I = m + 1 .. n
    OBVIOUS
  <2>2. /\ f \in [I -> Rest(key, m)] /\ (\A i, k \in I : f[i] = f[k] => i = k)
        /\ (\A y \in Rest(key, m) : \E i \in I : f[i] = y) /\ IsFiniteSet(I)
    BY <1>5, <1>6, <1>7, <1>8, <2>1
  <2>3. IsFiniteSet(Rest(key, m)) /\ Cardinality(Rest(key, m)) = Cardinality(I)
    BY <2>2, PairedOff
  <2> QED
    BY <2>1, <2>3
<1> QED
  BY <1>1, <1>3, <1>4, <1>8, <1>9

\* insert: a leaf, unlocked, for what is not in the tree.
LEMMA InsertEffect ==
    ASSUME NEW T, Shape(T), NEW key \in Seq(Token), key # <<>>, NEW value,
           NEW I, I = insert(T, key, value), NEW m \in Nat, m = MatchLen(T, key)
    PROVE  /\ Shape(I)
           /\ DOMAIN I.slot = DOMAIN T.slot \cup Rest(key, m) /\ DOMAIN T.slot \cap Rest(key, m) = {}
           /\ \A p \in DOMAIN T.slot : I.slot[p] = T.slot[p]
           /\ \A i \in m + 1 .. Len(key) : I.slot[Take(key, i)] = value[i]
           /\ Nodes(T) \subseteq Nodes(I) /\ key \in Nodes(I)
           /\ \A e \in Nodes(I) :
                \/ \E f \in Nodes(T) : I.ref[e] = T.ref[f] /\ IsOwner(T, e, f)
                \/ e = key /\ e \notin DOMAIN T.slot /\ I.ref[e] = 0
           /\ I.protected = T.protected /\ I.evictable = T.evictable + (Len(key) - m)
           /\ Unlocked(I) = Unlocked(T) \cup Rest(key, m)
<1> DEFINE P == Take(key, m)
           S == Split(T, P)
<1>1. /\ m \in 0 .. Len(key)
      /\ \A n \in 1 .. Len(key) : Take(key, n) \in DOMAIN T.slot <=> n <= m
      /\ P \in DOMAIN T.slot \cup {<<>>} /\ P \in Seq(Token) /\ Len(P) = m
  BY MatchIs
<1>2. PICK k \in Nat : k = Len(key)
  BY LenProperties
<1>3. /\ Shape(S) /\ S.slot = T.slot /\ S.evictable = T.evictable /\ S.protected = T.protected
      /\ Nodes(S) = Nodes(T) \cup ({P} \ {<<>>})
      /\ \A e \in Nodes(S) : \E f \in Nodes(T) : S.ref[e] = T.ref[f] /\ IsOwner(T, e, f)
      /\ Unlocked(S) = Unlocked(T)
  BY <1>1, SplitEffect
<1>4. I = IF m = Len(key) THEN S
          ELSE [S EXCEPT !.slot = With(@, [p \in Rest(key, m) |-> value[Len(p)]]),
                         !.ref = With(@, [e \in {key} |-> 0]),
                         !.evictable = @ + Len(key) - m]
  BY DEF insert, Rest
<1> HIDE DEF P, S
<1>5. CASE m = Len(key)
  <2>1. I = S /\ P = key
    BY <1>4, <1>5, TakeEnds DEF P
  <2>2. Rest(key, m) = {}
    <3>1. m + 1 .. k = {}
      BY <1>2, <1>5
    <3> QED
      BY <1>2, <3>1 DEF Rest
  <2>3. \A i \in m + 1 .. Len(key) : FALSE
    BY <1>2, <1>5
  <2>4. T.evictable + (Len(key) - m) = T.evictable
    <3>1. PICK x \in Int : x = T.evictable
      BY DEF Shape
    <3>2. x + (k - k) = x
      OBVIOUS
    <3> QED
      BY <1>2, <1>5, <3>1, <3>2
  <2> QED
    BY <1>3, <2>1, <2>2, <2>3, <2>4
<1>6. CASE m # Len(key)
  <2>0. m < k /\ k \in 1 .. k /\ k \in m + 1 .. k /\ 0 \in 0 .. k
    BY <1>1, <1>2, <1>6
  <2>1. I = [slot |-> With(S.slot, [p \in Rest(key, m) |-> value[Len(p)]]),
             ref |-> With(S.ref, [e \in {key} |-> 0]),
             evictable |-> S.evictable + Len(key) - m, protected |-> S.protected]
    <3>1. S = [slot |-> S.slot, ref |-> S.ref, evictable |-> S.evictable, protected |-> S.protected]
      BY <1>3 DEF Shape
    <3>2. PICK a, b, d : /\ a = With(S.slot, [p \in Rest(key, m) |-> value[Len(p)]])
                         /\ b = With(S.ref, [e \in {key} |-> 0]) /\ d = S.evictable + Len(key) - m
      OBVIOUS
    <3>3. I = [S EXCEPT !.slot = a, !.ref = b, !.evictable = d]
      BY <1>4, <1>6, <3>2
    <3>4. I = [slot |-> a, ref |-> b, evictable |-> d, protected |-> S.protected]
      BY <3>1, <3>3
    <3> QED
      BY <3>2, <3>4
  <2>2. /\ I.slot = With(T.slot, [p \in Rest(key, m) |-> value[Len(p)]])
        /\ I.ref = With(S.ref, [e \in {key} |-> 0])
        /\ I.evictable = T.evictable + Len(key) - m /\ I.protected = T.protected
    BY <1>3, <2>1
  <2>3. I.slot = [p \in DOMAIN T.slot \cup Rest(key, m) |->
                    IF p \in Rest(key, m) THEN value[Len(p)] ELSE T.slot[p]]
    BY <2>2 DEF With
  <2>4. I.ref = [e \in Nodes(S) \cup {key} |-> IF e = key THEN 0 ELSE S.ref[e]]
    BY <2>2 DEF With, Nodes
  <2>5. Nodes(I) = Nodes(S) \cup {key}
    BY <2>4 DEF Nodes
  <2>6. /\ IsFiniteSet(Rest(key, m)) /\ Cardinality(Rest(key, m)) = Len(key) - m
        /\ \A i \in m + 1 .. Len(key) : i \in 0 .. Len(key) /\ Len(Take(key, i)) = i
    BY <1>1, RestCount
  <2>7. \A i \in m + 1 .. Len(key) : /\ i \in 1 .. Len(key) /\ ~(i <= m)
                                     /\ Take(key, i) \in Seq(Token) /\ Take(key, i) # <<>>
                                     /\ Take(key, i) \notin DOMAIN T.slot
    <3> TAKE i \in m + 1 .. Len(key)
    <3>1. i \in 1 .. Len(key) /\ ~(i <= m)
      BY <1>2
    <3>2. Take(key, i) \in Seq(Token) /\ Len(Take(key, i)) = i
      BY <2>6, TakeFacts
    <3>3. Take(key, i) # <<>>
      BY <1>2, <3>1, <3>2, EmptySeq
    <3> QED
      BY <1>1, <3>1, <3>2, <3>3
  <2>8. DOMAIN T.slot \cap Rest(key, m) = {}
    BY <2>7 DEF Rest
  <2>9. Take(key, k) = key /\ key \in Rest(key, m)
    BY <1>2, <2>0, TakeEnds DEF Rest
  <2>10. key \notin DOMAIN T.slot
    BY <2>8, <2>9
  <2>11. /\ \A p \in DOMAIN T.slot : p \in Seq(Token) /\ p # <<>>
         /\ \A e \in Nodes(S) : e \in DOMAIN T.slot /\ e \in Seq(Token)
    BY <1>3, Paths
  <2>12. ASSUME NEW p \in Rest(key, m)
         PROVE  p \in Seq(Token) /\ IsPrefix(p, key) /\ \A e \in Nodes(S) : ~IsPrefix(p, e)
    <3>1. PICK i \in m + 1 .. Len(key) : p = Take(key, i)
      BY DEF Rest
    <3>2. p \in Seq(Token) /\ p # <<>> /\ p \notin DOMAIN T.slot /\ IsPrefix(p, key)
      BY <2>6, <2>7, <3>1, TakePrefix
    <3>3. ASSUME NEW e \in Nodes(S), IsPrefix(p, e) PROVE FALSE
      <4>1. p \in DOMAIN S.slot
        BY <1>3, <2>11, <3>2, <3>3, Closed
      <4> QED
        BY <1>3, <3>2, <4>1
    <3> QED
      BY <3>2, <3>3
  <2>13. \A p \in Rest(key, m) : IsOwner(I, p, key)
    BY <2>5, <2>12, PrefixOrder DEF IsOwner
  <2>14. ASSUME NEW p \in DOMAIN T.slot, NEW o \in Nodes(S), IsOwner(S, p, o)
         PROVE  IsOwner(I, p, o)
    <3>1. IsPrefix(p, o) /\ \A f \in Nodes(S) : IsPrefix(p, f) => IsPrefix(o, f)
      BY <2>14 DEF IsOwner
    <3>2. ASSUME IsPrefix(p, key) PROVE IsPrefix(o, key)
      <4>1. p \in Seq(Token) /\ p # <<>> /\ Len(p) \in Nat /\ Len(p) > 0 /\ o \in Seq(Token)
        BY <2>11, Paths
      <4>2. Len(p) <= Len(key) /\ p = Take(key, Len(p))
        BY <3>2, <4>1, PrefixIs
      <4>3. Len(p) \in 1 .. Len(key) /\ Len(p) \in 0 .. Len(key)
        BY <1>2, <4>1, <4>2
      <4>4. Len(p) <= m
        BY <1>1, <4>2, <4>3
      <4>5. IsPrefix(p, P)
        BY <1>1, <4>2, <4>3, <4>4, TakePrefixes DEF P
      <4>6. P # <<>>
        BY <1>1, <4>1, <4>4, EmptySeq
      <4>7. IsPrefix(o, P)
        BY <1>3, <3>1, <4>5, <4>6
      <4>8. IsPrefix(P, key)
        BY <1>1, TakePrefix DEF P
      <4> QED
        BY <1>1, <4>1, <4>7, <4>8, PrefixOrder
    <3> QED
      BY <2>5, <3>1, <3>2 DEF IsOwner
  <2>15. Shape(I)
    <3>1. I = [slot |-> I.slot, ref |-> I.ref, evictable |-> I.evictable, protected |-> I.protected]
      BY <2>1
    <3>2. I.ref = [e \in DOMAIN I.ref |-> I.ref[e]] /\ I.slot = [p \in DOMAIN I.slot |-> I.slot[p]]
      BY <2>3, <2>4
    <3>3. DOMAIN I.slot = DOMAIN T.slot \cup Rest(key, m)
      BY <2>3
    <3>4. DOMAIN I.slot \subseteq Seq(Token) \ {<<>>}
      BY <2>7, <2>11, <3>3 DEF Rest
    <3>5. IsFiniteSet(DOMAIN I.slot)
      <4>1. IsFiniteSet(DOMAIN T.slot)
        BY DEF Shape
      <4>2. IsFiniteSet(DOMAIN T.slot \cup Rest(key, m))
        BY <2>6, <4>1, FS_Union
      <4> QED
        BY <3>3, <4>2
    <3>6. ASSUME NEW p \in DOMAIN I.slot, NEW n \in 1 .. Len(p) PROVE Take(p, n) \in DOMAIN I.slot
      <4>1. CASE p \in DOMAIN T.slot
        BY <3>3, <4>1 DEF Shape
      <4>2. CASE p \in Rest(key, m)
        <5>1. PICK i \in m + 1 .. Len(key) : p = Take(key, i)
          BY <4>2 DEF Rest
        <5>2. i \in Nat /\ n \in 0 .. i /\ n \in 1 .. Len(key) /\ (n <= m \/ n \in m + 1 .. Len(key))
          BY <1>1, <1>2, <2>6, <5>1
        <5>3. Take(p, n) = Take(key, n)
          BY <2>6, <5>1, <5>2, TakeTake
        <5> QED
          BY <1>1, <3>3, <5>2, <5>3 DEF Rest
      <4> QED
        BY <3>3, <4>1, <4>2
    <3>7. Nodes(I) \subseteq DOMAIN I.slot
      BY <2>5, <2>9, <2>11, <3>3
    <3>8. \A p \in DOMAIN I.slot : \E e \in Nodes(I) : IsOwner(I, p, e)
      BY <1>3, <2>5, <2>13, <2>14, <3>3 DEF Shape
    <3>9. \A e \in Nodes(I) : I.ref[e] \in Int
      BY <1>3, <2>4, <2>5 DEF Shape
    <3>10. I.evictable \in Int /\ I.protected \in Int
      BY <1>2, <2>2 DEF Shape
    <3> QED
      BY <3>1, <3>2, <3>4, <3>5, <3>6, <3>7, <3>8, <3>9, <3>10 DEF Shape
  <2>16. \A i \in m + 1 .. Len(key) : I.slot[Take(key, i)] = value[i]
    BY <2>3, <2>6 DEF Rest
  <2>17. \A p \in DOMAIN T.slot : I.slot[p] = T.slot[p]
    BY <2>3, <2>8
  <2>18. \A e \in Nodes(I) :
                \/ \E f \in Nodes(T) : I.ref[e] = T.ref[f] /\ IsOwner(T, e, f)
                \/ e = key /\ e \notin DOMAIN T.slot /\ I.ref[e] = 0
    BY <1>3, <2>4, <2>5, <2>10
  <2>19. I.evictable = T.evictable + (Len(key) - m)
    <3>1. PICK x \in Int : x = T.evictable
      BY DEF Shape
    <3>2. x + k - m = x + (k - m)
      OBVIOUS
    <3> QED
      BY <1>2, <2>2, <3>1, <3>2
  <2>20. Unlocked(I) = Unlocked(T) \cup Rest(key, m)
    <3>0. I.ref[key] = 0 /\ \A e \in Nodes(S) : I.ref[e] = S.ref[e]
      BY <2>4, <2>10, <2>11
    <3>1. ASSUME NEW p \in DOMAIN T.slot PROVE p \in Unlocked(I) <=> p \in Unlocked(S)
      <4>1. PICK o \in Nodes(S) : IsOwner(S, p, o)
        BY <1>3 DEF Shape
      <4>2. IsOwner(I, p, o)
        BY <2>14, <4>1
      <4>3. \A e \in Nodes(I) : IsOwner(I, p, e) => e = o
        BY <2>15, <4>2, OneOwner
      <4>4. \A e \in Nodes(S) : IsOwner(S, p, e) => e = o
        BY <1>3, <4>1, OneOwner
      <4>5. p \in DOMAIN I.slot /\ p \in DOMAIN S.slot
        BY <1>3, <2>3
      <4> QED
        BY <2>5, <3>0, <4>1, <4>2, <4>3, <4>4, <4>5 DEF Unlocked
    <3>2. \A p \in Rest(key, m) : p \in Unlocked(I)
      BY <2>3, <2>5, <2>13, <3>0 DEF Unlocked
    <3>3. Unlocked(I) \subseteq DOMAIN T.slot \cup Rest(key, m) /\ Unlocked(T) \subseteq DOMAIN T.slot
      BY <2>3 DEF Unlocked
    <3> QED
      BY <1>3, <3>1, <3>2, <3>3
  <2> QED
    BY <1>3, <2>2, <2>3, <2>5, <2>8, <2>15, <2>16, <2>17, <2>18, <2>19, <2>20
<1> QED
  BY <1>5, <1>6

\* The counters follow when tokens become unlocked or locked.
LEMMA ExactMove ==
    ASSUME NEW T, Shape(T), Exact(T), NEW L, L.slot = T.slot, NEW M \in SUBSET DOMAIN T.slot
    PROVE  /\ T.evictable \in Nat /\ T.protected \in Nat /\ Cardinality(M) \in Nat
           /\ (/\ M \subseteq Unlocked(T) /\ Unlocked(L) = Unlocked(T) \ M
               /\ L.evictable = T.evictable - Cardinality(M)
               /\ L.protected = T.protected + Cardinality(M)) => Exact(L)
           /\ (/\ M \cap Unlocked(T) = {} /\ Unlocked(L) = Unlocked(T) \cup M
               /\ L.evictable = T.evictable + Cardinality(M)
               /\ L.protected = T.protected - Cardinality(M)) => Exact(L)
<1> DEFINE D == DOMAIN T.slot
           U == Unlocked(T)
<1>1. IsFiniteSet(D) /\ U \subseteq D
  BY DEF Shape, Unlocked
<1>2. \A X \in SUBSET D : IsFiniteSet(X) /\ Cardinality(X) \in Nat
  BY <1>1, FS_Subset, FS_CardinalityType
<1>3. T.evictable = Cardinality(U) /\ T.protected = Cardinality(D \ U)
  BY DEF Exact
<1>4. \A X, Y \in SUBSET D : X \cap Y = {} => Cardinality(X \cup Y) = Cardinality(X) + Cardinality(Y)
  BY <1>2, TwoParts
<1>5. ASSUME M \subseteq U, Unlocked(L) = U \ M,
             L.evictable = T.evictable - Cardinality(M), L.protected = T.protected + Cardinality(M)
      PROVE  Exact(L)
  <2>1. U = (U \ M) \cup M /\ D \ (U \ M) = (D \ U) \cup M /\ (D \ U) \cap M = {} /\ (U \ M) \cap M = {}
    BY <1>1, <1>5
  <2>2. Cardinality(U) = Cardinality(U \ M) + Cardinality(M)
    BY <1>1, <1>4, <2>1
  <2>3. Cardinality(D \ (U \ M)) = Cardinality(D \ U) + Cardinality(M)
    BY <1>1, <1>4, <2>1
  <2>4. Cardinality(U) \in Nat /\ Cardinality(U \ M) \in Nat /\ Cardinality(M) \in Nat
    BY <1>1, <1>2
  <2>5. \A x, y, z \in Nat : x = y + z => x - z = y
    OBVIOUS
  <2>6. Cardinality(U) - Cardinality(M) = Cardinality(U \ M)
    BY <2>2, <2>4, <2>5
  <2> QED
    BY <1>3, <1>5, <2>3, <2>6 DEF Exact
<1>6. ASSUME M \cap U = {}, Unlocked(L) = U \cup M,
             L.evictable = T.evictable + Cardinality(M), L.protected = T.protected - Cardinality(M)
      PROVE  Exact(L)
  <2>1. D \ U = (D \ (U \cup M)) \cup M /\ (D \ (U \cup M)) \cap M = {}
    BY <1>1, <1>6
  <2>2. Cardinality(U \cup M) = Cardinality(U) + Cardinality(M)
    BY <1>1, <1>4, <1>6
  <2>3. Cardinality(D \ U) = Cardinality(D \ (U \cup M)) + Cardinality(M)
    BY <1>1, <1>4, <2>1
  <2>4. Cardinality(D \ U) \in Nat /\ Cardinality(D \ (U \cup M)) \in Nat /\ Cardinality(M) \in Nat
    BY <1>1, <1>2
  <2>5. \A x, y, z \in Nat : x = y + z => x - z = y
    OBVIOUS
  <2>6. Cardinality(D \ U) - Cardinality(M) = Cardinality(D \ (U \cup M))
    BY <2>3, <2>4, <2>5
  <2> QED
    BY <1>3, <1>6, <2>2, <2>6 DEF Exact
<1> QED
  BY <1>1, <1>2, <1>3, <1>5, <1>6

\* A tree with the same nodes and tokens has the same owners and the same shape.
LEMMA SameNodes ==
    ASSUME NEW T, Shape(T), NEW L, L.slot = T.slot, NEW g, \A e \in Nodes(T) : g[e] \in Int,
           L.ref = [e \in Nodes(T) |-> g[e]], L.evictable \in Int, L.protected \in Int,
           L = [slot |-> L.slot, ref |-> L.ref, evictable |-> L.evictable, protected |-> L.protected]
    PROVE  /\ Shape(L) /\ Nodes(L) = Nodes(T) /\ \A p, e : IsOwner(L, p, e) <=> IsOwner(T, p, e)
           /\ Unlocked(L) = {p \in DOMAIN T.slot : \E e \in Nodes(T) : IsOwner(T, p, e) /\ g[e] = 0}
<1>1. Nodes(L) = Nodes(T) /\ \A e \in Nodes(T) : L.ref[e] = g[e]
  BY DEF Nodes
<1>2. \A p, e : IsOwner(L, p, e) <=> IsOwner(T, p, e)
  BY <1>1 DEF IsOwner
<1>3. L.ref = [e \in DOMAIN L.ref |-> L.ref[e]]
  OBVIOUS
<1>4. Shape(L)
  BY <1>1, <1>2, <1>3 DEF Shape
<1>5. Unlocked(L) = {p \in DOMAIN T.slot : \E e \in Nodes(T) : IsOwner(T, p, e) /\ g[e] = 0}
  BY <1>1, <1>2 DEF Unlocked
<1> QED
  BY <1>1, <1>2, <1>4, <1>5

\* inc_lock_ref counts one lock more on the way to n.
LEMMA IncEffect ==
    ASSUME NEW T, Shape(T), \A e \in Nodes(T) : T.ref[e] >= 0, NEW n, NEW L, L = inc_lock_ref(T, n)
    PROVE  /\ Shape(L) /\ L.slot = T.slot /\ Nodes(L) = Nodes(T)
           /\ \A e \in Nodes(T) : L.ref[e] = IF IsPrefix(e, n) THEN T.ref[e] + 1 ELSE T.ref[e]
           /\ Exact(T) => Exact(L) /\ L.evictable <= T.evictable
<1> DEFINE F == {e \in PathTo(T, n) : T.ref[e] = 0}
           M == PathsOf(T, F)
           g == [e \in Nodes(T) |-> IF IsPrefix(e, n) THEN T.ref[e] + 1 ELSE T.ref[e]]
<1>1. F \in SUBSET Nodes(T)
  BY DEF PathTo
<1>2. Tokens(T, F) = Cardinality(M) /\ Cardinality(M) \in Nat /\ M \in SUBSET DOMAIN T.slot
  BY <1>1, TokensCount, PathsOfIs
<1>3. M = {p \in DOMAIN T.slot : \E e \in F : IsOwner(T, p, e)}
  BY <1>1, PathsOfIs
<1>4. L = [slot |-> T.slot, ref |-> [e \in Nodes(T) |-> g[e]],
           evictable |-> T.evictable - Cardinality(M), protected |-> T.protected + Cardinality(M)]
  <2>1. L = [T EXCEPT !.ref = [e \in Nodes(T) |-> IF IsPrefix(e, n) THEN @[e] + 1 ELSE @[e]],
                      !.evictable = @ - Cardinality(M), !.protected = @ + Cardinality(M)]
    BY <1>2 DEF inc_lock_ref
  <2> QED
    BY <2>1 DEF Shape
<1>5. /\ L.slot = T.slot /\ L.ref = [e \in Nodes(T) |-> g[e]]
      /\ L.evictable = T.evictable - Cardinality(M) /\ L.protected = T.protected + Cardinality(M)
      /\ L = [slot |-> L.slot, ref |-> L.ref, evictable |-> L.evictable, protected |-> L.protected]
  BY <1>4
<1>6. \A e \in Nodes(T) : T.ref[e] \in Int /\ T.ref[e] >= 0 /\ g[e] \in Int
  BY DEF Shape
<1>7. \A e \in Nodes(T) : g[e] = 0 <=> T.ref[e] = 0 /\ ~IsPrefix(e, n)
  BY <1>6
<1>8. \A e \in Nodes(T) : g[e] = IF IsPrefix(e, n) THEN T.ref[e] + 1 ELSE T.ref[e]
  OBVIOUS
<1>9. L.evictable \in Int /\ L.protected \in Int
  BY <1>2, <1>5 DEF Shape
<1>10. F = {e \in Nodes(T) : IsPrefix(e, n) /\ T.ref[e] = 0}
  BY DEF PathTo
<1> HIDE DEF F, M, g
<1>11. /\ Shape(L) /\ Nodes(L) = Nodes(T)
       /\ Unlocked(L) = {p \in DOMAIN T.slot : \E e \in Nodes(T) : IsOwner(T, p, e) /\ g[e] = 0}
  BY <1>5, <1>6, <1>9, SameNodes
<1>12. M \subseteq Unlocked(T)
  BY <1>3, <1>10 DEF Unlocked
<1>13. Unlocked(L) = Unlocked(T) \ M
  BY <1>3, <1>7, <1>10, <1>11, OneOwner DEF Unlocked
<1>14. Exact(T) => Exact(L) /\ L.evictable <= T.evictable
  <2> HAVE Exact(T)
  <2>1. Exact(L) /\ T.evictable \in Nat
    BY <1>2, <1>5, <1>12, <1>13, ExactMove
  <2> QED
    BY <1>2, <1>5, <2>1
<1> QED
  BY <1>5, <1>8, <1>11, <1>14

\* dec_lock_ref takes one lock back on the way to n.
LEMMA DecEffect ==
    ASSUME NEW T, Shape(T), NEW n,
           \A e \in Nodes(T) : T.ref[e] >= (IF IsPrefix(e, n) THEN 1 ELSE 0), NEW L, L = dec_lock_ref(T, n)
    PROVE  /\ Shape(L) /\ L.slot = T.slot /\ Nodes(L) = Nodes(T)
           /\ \A e \in Nodes(T) : L.ref[e] = IF IsPrefix(e, n) THEN T.ref[e] - 1 ELSE T.ref[e]
           /\ Exact(T) => Exact(L) /\ L.evictable >= T.evictable
<1> DEFINE F == {e \in PathTo(T, n) : T.ref[e] = 1}
           M == PathsOf(T, F)
           g == [e \in Nodes(T) |-> IF IsPrefix(e, n) THEN T.ref[e] - 1 ELSE T.ref[e]]
<1>1. F \in SUBSET Nodes(T)
  BY DEF PathTo
<1>2. Tokens(T, F) = Cardinality(M) /\ Cardinality(M) \in Nat /\ M \in SUBSET DOMAIN T.slot
  BY <1>1, TokensCount, PathsOfIs
<1>3. M = {p \in DOMAIN T.slot : \E e \in F : IsOwner(T, p, e)}
  BY <1>1, PathsOfIs
<1>4. L = [slot |-> T.slot, ref |-> [e \in Nodes(T) |-> g[e]],
           evictable |-> T.evictable + Cardinality(M), protected |-> T.protected - Cardinality(M)]
  <2>1. L = [T EXCEPT !.ref = [e \in Nodes(T) |-> IF IsPrefix(e, n) THEN @[e] - 1 ELSE @[e]],
                      !.evictable = @ + Cardinality(M), !.protected = @ - Cardinality(M)]
    BY <1>2 DEF dec_lock_ref
  <2> QED
    BY <2>1 DEF Shape
<1>5. /\ L.slot = T.slot /\ L.ref = [e \in Nodes(T) |-> g[e]]
      /\ L.evictable = T.evictable + Cardinality(M) /\ L.protected = T.protected - Cardinality(M)
      /\ L = [slot |-> L.slot, ref |-> L.ref, evictable |-> L.evictable, protected |-> L.protected]
  BY <1>4
<1>6. \A e \in Nodes(T) : T.ref[e] \in Int /\ g[e] \in Int
  BY DEF Shape
<1>7. \A e \in Nodes(T) : g[e] = 0 <=> (T.ref[e] = 0 \/ (T.ref[e] = 1 /\ IsPrefix(e, n)))
  BY <1>6
<1>8. \A e \in Nodes(T) : g[e] = IF IsPrefix(e, n) THEN T.ref[e] - 1 ELSE T.ref[e]
  OBVIOUS
<1>9. L.evictable \in Int /\ L.protected \in Int
  BY <1>2, <1>5 DEF Shape
<1>10. F = {e \in Nodes(T) : IsPrefix(e, n) /\ T.ref[e] = 1}
  BY DEF PathTo
<1> HIDE DEF F, M, g
<1>11. /\ Shape(L) /\ Nodes(L) = Nodes(T)
       /\ Unlocked(L) = {p \in DOMAIN T.slot : \E e \in Nodes(T) : IsOwner(T, p, e) /\ g[e] = 0}
  BY <1>5, <1>6, <1>9, SameNodes
<1>12. M \cap Unlocked(T) = {}
  BY <1>3, <1>10, OneOwner DEF Unlocked
<1>13. Unlocked(L) = Unlocked(T) \cup M
  BY <1>3, <1>7, <1>10, <1>11 DEF Unlocked
<1>14. Exact(T) => Exact(L) /\ L.evictable >= T.evictable
  <2> HAVE Exact(T)
  <2>1. Exact(L) /\ T.evictable \in Nat
    BY <1>2, <1>5, <1>12, <1>13, ExactMove
  <2> QED
    BY <1>2, <1>5, <2>1
<1> QED
  BY <1>5, <1>8, <1>11, <1>14

\* The counters stay exact when a tree is split, or gets a leaf.
LEMMA ExactKept ==
    ASSUME NEW T, Shape(T), Exact(T), NEW I, NEW R, IsFiniteSet(R), R \cap DOMAIN T.slot = {},
           DOMAIN I.slot = DOMAIN T.slot \cup R, Unlocked(I) = Unlocked(T) \cup R,
           I.protected = T.protected, I.evictable = T.evictable + Cardinality(R)
    PROVE  Exact(I)
<1>1. Unlocked(T) \subseteq DOMAIN T.slot /\ IsFiniteSet(DOMAIN T.slot)
  BY DEF Unlocked, Shape
<1>2. IsFiniteSet(Unlocked(T)) /\ Unlocked(T) \cap R = {}
  BY <1>1, FS_Subset
<1>3. Cardinality(Unlocked(T) \cup R) = Cardinality(Unlocked(T)) + Cardinality(R)
  BY <1>2, TwoParts
<1>4. DOMAIN I.slot \ Unlocked(I) = DOMAIN T.slot \ Unlocked(T)
  BY <1>1
<1> QED
  BY <1>3, <1>4 DEF Exact

\* evict: the tokens of unlocked nodes go, and nothing below a node that goes
\* stays.
LEMMA EvictEffect ==
    ASSUME NEW T, Shape(T), NEW E \in SUBSET Nodes(T), Evictable(T, E), NEW V, V = Evicted(T, E),
           NEW G, G = PathsOf(T, E)
    PROVE  /\ Shape(V) /\ DOMAIN V.slot = DOMAIN T.slot \ G /\ G \subseteq DOMAIN T.slot
           /\ \A p \in DOMAIN V.slot : V.slot[p] = T.slot[p]
           /\ Nodes(V) = Nodes(T) \ E /\ \A e \in Nodes(V) : V.ref[e] = T.ref[e]
           /\ \A p \in G : \E e \in E : IsOwner(T, p, e) /\ T.ref[e] = 0
           /\ IsFiniteSet(G) /\ Cardinality(G) \in Nat /\ V.evictable = T.evictable - Cardinality(G)
           /\ Exact(T) => Exact(V)
<1>1. /\ G = {p \in DOMAIN T.slot : \E e \in E : IsOwner(T, p, e)} /\ G \subseteq DOMAIN T.slot
      /\ IsFiniteSet(G) /\ Cardinality(G) \in Nat /\ Tokens(T, E) = Cardinality(G)
  BY PathsOfIs, TokensCount
<1>2. \A e \in E : T.ref[e] = 0 /\ \A f \in Nodes(T) : IsPrefix(e, f) => f \in E
  BY DEF Evictable
<1>3. V = [slot |-> [p \in DOMAIN T.slot \ G |-> T.slot[p]], ref |-> [e \in Nodes(T) \ E |-> T.ref[e]],
           evictable |-> T.evictable - Cardinality(G), protected |-> T.protected]
  BY <1>1 DEF Evicted, Shape, Nodes
<1>4. /\ V.slot = [p \in DOMAIN T.slot \ G |-> T.slot[p]] /\ V.ref = [e \in Nodes(T) \ E |-> T.ref[e]]
      /\ V.evictable = T.evictable - Cardinality(G) /\ V.protected = T.protected
      /\ V = [slot |-> V.slot, ref |-> V.ref, evictable |-> V.evictable, protected |-> V.protected]
  BY <1>3
<1>5. /\ DOMAIN V.slot = DOMAIN T.slot \ G /\ \A p \in DOMAIN V.slot : V.slot[p] = T.slot[p]
      /\ Nodes(V) = Nodes(T) \ E /\ \A e \in Nodes(V) : V.ref[e] = T.ref[e]
  BY <1>4 DEF Nodes
<1>6. ASSUME NEW p \in DOMAIN V.slot
      PROVE  \E e \in Nodes(V) : IsOwner(T, p, e) /\ IsOwner(V, p, e)
  <2>1. PICK e \in Nodes(T) : IsOwner(T, p, e)
    BY <1>5 DEF Shape
  <2>2. e \notin E
    BY <1>1, <1>5, <2>1
  <2> QED
    BY <1>5, <2>1, <2>2 DEF IsOwner
<1>7. ASSUME NEW p \in DOMAIN V.slot, NEW n \in 1 .. Len(p) PROVE Take(p, n) \in DOMAIN V.slot
  <2> SUFFICES ASSUME Take(p, n) \in G PROVE FALSE
    BY <1>5 DEF Shape
  <2>1. PICK f \in E : IsOwner(T, Take(p, n), f)
    BY <1>1
  <2>2. PICK e \in Nodes(V) : IsOwner(T, p, e)
    BY <1>6
  <2>3. p \in Seq(Token) /\ e \in Seq(Token) /\ Take(p, n) \in Seq(Token) /\ e \in Nodes(T) /\ e \notin E
    BY <1>1, <1>5, <2>2, Paths
  <2>4. IsPrefix(Take(p, n), p)
    <3>1. n \in 0 .. Len(p)
      BY <2>3, LenProperties
    <3> QED
      BY <2>3, <3>1, TakePrefix
  <2>5. IsPrefix(Take(p, n), e)
    BY <2>2, <2>3, <2>4, PrefixOrder DEF IsOwner
  <2>6. IsPrefix(f, e)
    BY <2>1, <2>3, <2>5 DEF IsOwner
  <2> QED
    BY <1>2, <2>3, <2>6
<1>8. Nodes(V) \subseteq DOMAIN V.slot
  <2> SUFFICES ASSUME NEW e \in Nodes(V), e \in G PROVE FALSE
    BY <1>5, Paths
  <2>1. PICK f \in E : IsOwner(T, e, f)
    BY <1>1
  <2>2. f = e
    BY <1>5, <2>1, OneOwner, OwnsLast
  <2> QED
    BY <1>5, <2>2
<1>9. Shape(V)
  <2>1. IsFiniteSet(DOMAIN V.slot) /\ DOMAIN V.slot \subseteq Seq(Token) \ {<<>>}
    <3>1. IsFiniteSet(DOMAIN T.slot) /\ DOMAIN T.slot \subseteq Seq(Token) \ {<<>>}
      BY DEF Shape
    <3>2. DOMAIN V.slot \in SUBSET DOMAIN T.slot
      BY <1>5
    <3>3. IsFiniteSet(DOMAIN V.slot)
      BY <3>1, <3>2, FS_Subset
    <3> QED
      BY <3>1, <3>2, <3>3
  <2>2. V.slot = [p \in DOMAIN V.slot |-> V.slot[p]] /\ V.ref = [e \in DOMAIN V.ref |-> V.ref[e]]
    BY <1>4
  <2>3. V.evictable \in Int /\ V.protected \in Int /\ \A e \in Nodes(V) : V.ref[e] \in Int
    BY <1>1, <1>4, <1>5 DEF Shape
  <2> QED
    BY <1>4, <1>6, <1>7, <1>8, <2>1, <2>2, <2>3 DEF Shape
<1>10. Unlocked(V) = Unlocked(T) \ G
  <2>1. ASSUME NEW p \in DOMAIN V.slot PROVE p \in Unlocked(V) <=> p \in Unlocked(T)
    <3>1. PICK o \in Nodes(V) : IsOwner(T, p, o) /\ IsOwner(V, p, o)
      BY <1>6
    <3>2. \A e \in Nodes(T) : IsOwner(T, p, e) => e = o
      BY <3>1, OneOwner
    <3>3. \A e \in Nodes(V) : IsOwner(V, p, e) => e = o
      BY <1>9, <3>1, OneOwner
    <3> QED
      BY <1>5, <3>1, <3>2, <3>3 DEF Unlocked
  <2>2. Unlocked(V) \subseteq DOMAIN V.slot /\ Unlocked(T) \subseteq DOMAIN T.slot
    BY DEF Unlocked
  <2> QED
    BY <1>5, <2>1, <2>2
<1>11. G \subseteq Unlocked(T)
  BY <1>1, <1>2 DEF Unlocked
<1>12. ASSUME Exact(T) PROVE Exact(V)
  <2>1. IsFiniteSet(Unlocked(T)) /\ Unlocked(T) \subseteq DOMAIN T.slot
    <3>1. Unlocked(T) \in SUBSET DOMAIN T.slot /\ IsFiniteSet(DOMAIN T.slot)
      BY DEF Unlocked, Shape
    <3> QED
      BY <3>1, FS_Subset
  <2>2. IsFiniteSet(Unlocked(T) \ G) /\ (Unlocked(T) \ G) \cap G = {} /\ (Unlocked(T) \ G) \cup G = Unlocked(T)
    BY <1>11, <2>1, FS_Difference
  <2>3. /\ Cardinality(Unlocked(T) \ G) \in Nat
        /\ Cardinality(Unlocked(T)) = Cardinality(Unlocked(T) \ G) + Cardinality(G)
    BY <1>1, <2>2, TwoParts
  <2>4. V.evictable = Cardinality(Unlocked(T)) - Cardinality(G)
    BY <1>4, <1>12 DEF Exact
  <2>5. \A x, y, z \in Nat : x = y + z => x - z = y
    OBVIOUS
  <2>6. Cardinality(Unlocked(T)) \in Nat
    BY <2>1, FS_CardinalityType
  <2>7. V.evictable = Cardinality(Unlocked(V))
    BY <1>1, <1>10, <2>3, <2>4, <2>5, <2>6
  <2>8. DOMAIN V.slot \ Unlocked(V) = DOMAIN T.slot \ Unlocked(T)
    BY <1>5, <1>10, <1>11
  <2> QED
    BY <1>4, <1>12, <2>7, <2>8 DEF Exact
<1> QED
  BY <1>1, <1>2, <1>4, <1>5, <1>9, <1>12

----------------------------------------------------------------------------
(* alloc: the new slots and who gets them.                                 *)

\* Lowest picks n slots.
LEMMA LowestPicks ==
    ASSUME NEW S \in SUBSET Nat, IsFiniteSet(S), NEW n \in Nat, n <= Cardinality(S),
           NEW out, out = Lowest(S, n)
    PROVE  /\ out \in [1 .. n -> S] /\ out \in Seq(S) /\ Len(out) = n
           /\ \A i, k \in 1 .. n : out[i] = out[k] => i = k
<1> DEFINE lower(s) == {t \in S : t < s}
           rank == [s \in S |-> Cardinality(lower(s))]
<1>1. PICK c \in Nat : c = Cardinality(S)
  BY FS_CardinalityType
<1>2. ASSUME NEW s \in S
      PROVE  IsFiniteSet(lower(s)) /\ Cardinality(lower(s)) \in 0 .. c - 1
  <2>1. lower(s) \in SUBSET S
    OBVIOUS
  <2>2. /\ IsFiniteSet(lower(s)) /\ Cardinality(lower(s)) <= Cardinality(S)
        /\ (Cardinality(S) = Cardinality(lower(s)) => S = lower(s))
    BY <2>1, FS_Subset
  <2>3. s \notin lower(s)
    OBVIOUS
  <2>4. Cardinality(lower(s)) \in Nat /\ Cardinality(lower(s)) # c /\ Cardinality(lower(s)) <= c
    BY <1>1, <2>2, <2>3, FS_CardinalityType
  <2>5. \A x \in Nat : x # c /\ x <= c => x \in 0 .. c - 1
    OBVIOUS
  <2> QED
    BY <2>2, <2>4, <2>5
<1>3. ASSUME NEW s \in S, NEW t \in S, s < t
      PROVE  Cardinality(lower(s)) # Cardinality(lower(t))
  <2>2. s \in Nat /\ t \in Nat /\ \A x \in S : x \in Nat
    OBVIOUS
  <2>3. \A x \in S : x < s => x < t
    BY <1>3, <2>2
  <2>4. lower(s) \in SUBSET lower(t)
    BY <2>3
  <2>5. s \in lower(t) /\ s \notin lower(s)
    BY <1>3, <2>2
  <2>1. lower(s) \in SUBSET lower(t) /\ s \in lower(t) /\ s \notin lower(s)
    BY <2>4, <2>5
  <2> QED
    BY <1>2, <2>1, FS_Subset
<1>4. rank \in [S -> 0 .. c - 1]
  BY <1>2
<1>5. \A s, t \in S : rank[s] = rank[t] => s = t
  <2> SUFFICES ASSUME NEW s \in S, NEW t \in S, rank[s] = rank[t], s # t PROVE FALSE
    OBVIOUS
  <2>1. s \in Nat /\ t \in Nat /\ (s < t \/ t < s)
    OBVIOUS
  <2> QED
    BY <1>3, <2>1
<1>6. \A s \in S : rank[s] = Cardinality({t \in S : t < s})
  OBVIOUS
<1> HIDE DEF rank
<1>7. ASSUME NEW k \in 0 .. c - 1 PROVE \E s \in S : rank[s] = k
  <2> SUFFICES ASSUME \A s \in S : rank[s] # k PROVE FALSE
    OBVIOUS
  <2>1. IsFiniteSet(0 .. c - 1) /\ Cardinality(0 .. c - 1) = c
    <3>1. c - 1 \in Int /\ 0 \in Int
      OBVIOUS
    <3>2. IsFiniteSet(0 .. c - 1) /\ Cardinality(0 .. c - 1) = IF 0 > c - 1 THEN 0 ELSE (c - 1) - 0 + 1
      BY <3>1, FS_Interval
    <3> QED
      BY <3>2
  <2>2. /\ IsFiniteSet((0 .. c - 1) \ {k})
        /\ Cardinality((0 .. c - 1) \ {k}) = c - 1
    <3>1. /\ IsFiniteSet((0 .. c - 1) \ {k})
          /\ Cardinality((0 .. c - 1) \ {k})
               = IF k \in 0 .. c - 1 THEN Cardinality(0 .. c - 1) - 1 ELSE Cardinality(0 .. c - 1)
      BY <2>1, FS_RemoveElement, Zenon
    <3> QED
      BY <2>1, <3>1
  <2>3. Cardinality((0 .. c - 1) \ {k}) < Cardinality(S)
    BY <1>1, <2>2
  <2>4. rank \in [S -> (0 .. c - 1) \ {k}]
    BY <1>4
  <2>5. PICK K : K = (0 .. c - 1) \ {k}
    OBVIOUS
  <2>6. IsFiniteSet(K) /\ Cardinality(K) < Cardinality(S) /\ rank \in [S -> K]
    BY <2>2, <2>3, <2>4, <2>5
  <2>7. \E s, t \in S : s # t /\ rank[s] = rank[t]
    BY <2>6, FS_PigeonHole
  <2> QED
    BY <1>5, <2>7
<1>8. out = [i \in 1 .. n |-> CHOOSE s \in S : Cardinality({t \in S : t < s}) = i - 1]
  BY DEF Lowest
<1>9. ASSUME NEW i \in 1 .. n PROVE out[i] \in S /\ rank[out[i]] = i - 1
  <2>1. i - 1 \in 0 .. c - 1
    BY <1>1
  <2>2. PICK s \in S : rank[s] = i - 1
    BY <1>7, <2>1
  <2>3. \E x \in S : Cardinality({t \in S : t < x}) = i - 1
    BY <1>6, <2>2
  <2>4. out[i] = CHOOSE x \in S : Cardinality({t \in S : t < x}) = i - 1
    BY <1>8
  <2>5. out[i] \in S /\ Cardinality({t \in S : t < out[i]}) = i - 1
    BY <2>3, <2>4
  <2> QED
    BY <1>6, <2>5
<1>10. out \in [1 .. n -> S]
  <2>1. out = [i \in 1 .. n |-> out[i]]
    BY <1>8
  <2> QED
    BY <1>9, <2>1
<1>11. out \in Seq(S) /\ Len(out) = n
  BY <1>10
<1>12. \A i, k \in 1 .. n : out[i] = out[k] => i = k
  BY <1>9
<1> QED
  BY <1>10, <1>11, <1>12

\* The tokens of request r that its batch computes.
Extent(q, r) == q[r].fill - Len(q[r].prefix)
\* The tokens that the requests X need together.
Extents(q, X) == MapThenSumSet(LAMBDA r : Extent(q, r), X)

\* A set of that size for every request.
Cells(q, X) == [r \in X |-> {r} \X (1 .. Extent(q, r))]

\* f adds up the extents.
AddsExtents(f, q, X) ==
    f = [s \in SUBSET X |-> IF s = {} THEN 0
                            ELSE Extent(q, CHOOSE x \in s : TRUE) + f[s \ {CHOOSE x \in s : TRUE}]]

\* The tokens to extend, counted.
LEMMA ExtentsCount ==
    ASSUME NEW q, NEW X, IsFiniteSet(X), \A r \in X : Extent(q, r) \in Nat
    PROVE  /\ Apart(Cells(q, X), X) /\ \A r \in X : Cardinality(Cells(q, X)[r]) = Extent(q, r)
           /\ Extents(q, X) = Cardinality(Union(Cells(q, X), X))
<1> DEFINE C == Cells(q, X)
           c == [r \in X |-> Extent(q, r)]
<1>1. ASSUME NEW r \in X
      PROVE  IsFiniteSet(C[r]) /\ Cardinality(C[r]) = Extent(q, r)
  <2>1. PICK n \in Nat : n = Extent(q, r)
    OBVIOUS
  <2>2. C[r] = {r} \X (1 .. n)
    BY <2>1 DEF Cells
  <2>3. IsFiniteSet(1 .. n) /\ Cardinality(1 .. n) = n
    <3>1. 1 \in Int /\ n \in Int
      OBVIOUS
    <3>2. IsFiniteSet(1 .. n) /\ Cardinality(1 .. n) = IF 1 > n THEN 0 ELSE n - 1 + 1
      BY <3>1, FS_Interval
    <3> QED
      BY <3>2
  <2> DEFINE f == [i \in 1 .. n |-> <<r, i>>]
  <2>4. f \in [1 .. n -> C[r]]
    BY <2>2
  <2>5. \A i, k \in 1 .. n : f[i] = f[k] => i = k
    OBVIOUS
  <2>6. \A y \in C[r] : \E i \in 1 .. n : f[i] = y
    BY <2>2
  <2> HIDE DEF f, C
  <2>7. IsFiniteSet(C[r]) /\ Cardinality(C[r]) = Cardinality(1 .. n)
    <3>1. PICK I : I = 1 .. n
      OBVIOUS
    <3>2. PICK D : D = C[r]
      OBVIOUS
    <3>3. /\ f \in [I -> D] /\ (\A i, k \in I : f[i] = f[k] => i = k)
          /\ (\A y \in D : \E i \in I : f[i] = y) /\ IsFiniteSet(I)
      BY <2>3, <2>4, <2>5, <2>6, <3>1, <3>2
    <3>4. IsFiniteSet(D) /\ Cardinality(D) = Cardinality(I)
      BY <3>3, PairedOff
    <3> QED
      BY <3>1, <3>2, <3>4
  <2> QED
    BY <2>1, <2>3, <2>7
<1>2. \A r, s \in X : C[r] \cap C[s] # {} => r = s
  BY DEF Cells
<1>3. Apart(C, X)
  BY <1>1, <1>2 DEF Apart
<1>4. \A r \in X : c[r] = Cardinality(C[r])
  BY <1>1
<1>5. \A s \in SUBSET X : s # {} => Extent(q, CHOOSE x \in s : TRUE) = c[NextOf(s)]
  BY DEF NextOf
<1>6. \A s : (CHOOSE x \in s : TRUE) = NextOf(s)
  BY DEF NextOf
<1> HIDE DEF C, c
<1>7. \A f : Adds(f, c, X) <=> AddsExtents(f, q, X)
  BY <1>5, <1>6 DEF Adds, AddsExtents
<1>8. \E f : AddsExtents(f, q, X)
  BY <1>3, <1>4, <1>7, SumExists
<1> DEFINE g == CHOOSE f : AddsExtents(f, q, X)
<1>9. AddsExtents(g, q, X)
  BY <1>8
<1>10. Extents(q, X) = g[X]
  BY DEF Extents, MapThenSumSet, MapThenFoldSet, AddsExtents
<1> HIDE DEF g
<1>11. g[X] = Cardinality(Union(C, X))
  BY <1>3, <1>4, <1>7, <1>9, SumCounts
<1> QED
  BY <1>1, <1>3, <1>10, <1>11 DEF C

\* Sums of extents: of nothing, with one request more, of fewer.
LEMMA ExtentsSum ==
    ASSUME NEW q, NEW Y, IsFiniteSet(Y), \A r \in Y : Extent(q, r) \in Nat
    PROVE  /\ Extents(q, {}) = 0
           /\ \A X \in SUBSET Y : Extents(q, X) \in Nat /\ Extents(q, X) <= Extents(q, Y)
           /\ \A X \in SUBSET Y : \A r \in Y \ X : Extents(q, X \cup {r}) = Extents(q, X) + Extent(q, r)
<1> DEFINE C == Cells(q, Y)
<1>1. Apart(C, Y) /\ \A r \in Y : Cardinality(C[r]) = Extent(q, r)
  BY ExtentsCount
<1>2. ASSUME NEW X \in SUBSET Y PROVE Extents(q, X) = Cardinality(Union(C, X))
  <2>1. IsFiniteSet(X)
    BY FS_Subset
  <2>2. Extents(q, X) = Cardinality(Union(Cells(q, X), X))
    BY <2>1, ExtentsCount
  <2>3. Union(Cells(q, X), X) = Union(C, X)
    BY DEF Union, Cells
  <2> QED
    BY <2>2, <2>3
<1> HIDE DEF C
<1>3. \A X \in SUBSET Y : IsFiniteSet(Union(C, X)) /\ Cardinality(Union(C, X)) \in Nat
  BY <1>1, UnionParts
<1>4. Extents(q, {}) = 0
  <2>1. Union(C, {}) = {} /\ {} \in SUBSET Y
    BY DEF Union
  <2>2. Extents(q, {}) = Cardinality(Union(C, {}))
    BY <1>2, <2>1
  <2> QED
    BY <2>1, <2>2, FS_EmptySet
<1>5. ASSUME NEW X \in SUBSET Y PROVE Extents(q, X) \in Nat /\ Extents(q, X) <= Extents(q, Y)
  <2>1. Union(C, X) \in SUBSET Union(C, Y) /\ Y \in SUBSET Y
    BY DEF Union
  <2>2. Cardinality(Union(C, X)) <= Cardinality(Union(C, Y))
    BY <1>3, <2>1, FS_Subset
  <2> QED
    BY <1>2, <1>3, <2>1, <2>2
<1>6. ASSUME NEW X \in SUBSET Y, NEW r \in Y \ X
      PROVE  Extents(q, X \cup {r}) = Extents(q, X) + Extent(q, r)
  <2>1. X \cup {r} \in SUBSET Y /\ (X \cup {r}) \ {r} = X /\ r \in X \cup {r}
    OBVIOUS
  <2>2. Cardinality(Union(C, X \cup {r})) = Cardinality(C[r]) + Cardinality(Union(C, (X \cup {r}) \ {r}))
    BY <1>1, <2>1, UnionParts
  <2>3. Cardinality(Union(C, X \cup {r})) = Extent(q, r) + Extents(q, X)
    BY <1>1, <1>2, <2>1, <2>2
  <2>4. Extents(q, X \cup {r}) = Cardinality(Union(C, X \cup {r}))
    BY <1>2, <2>1
  <2>5. Extents(q, X) \in Nat /\ Extent(q, r) \in Nat
    BY <1>5
  <2> QED
    BY <2>3, <2>4, <2>5
<1> QED
  BY <1>4, <1>5, <1>6

----------------------------------------------------------------------------
(* Locks.                                                                  *)

\* Locks are counts, and a request's way is locked.
LEMMA LockCounts ==
    ASSUME NEW T, NEW H, IsFiniteSet(H), NEW N, LocksAt(T, H, N), NEW e \in Nodes(T)
    PROVE  /\ T.ref[e] \in Nat
           /\ \A r \in H : IsPrefix(e, N[r]) => T.ref[e] >= 1
<1> DEFINE B == {r \in H : IsPrefix(e, N[r])}
<1>1. IsFiniteSet(B) /\ T.ref[e] = Cardinality(B)
  BY FS_Subset DEF LocksAt
<1>2. Cardinality(B) \in Nat /\ (Cardinality(B) = 0 <=> B = {})
  BY <1>1, FS_CardinalityType, FS_EmptySet
<1>3. \A r \in H : IsPrefix(e, N[r]) => r \in B
  OBVIOUS
<1> HIDE DEF B
<1>4. PICK n \in Nat : n = Cardinality(B)
  BY <1>2
<1> QED
  BY <1>1, <1>2, <1>3, <1>4

\* A new node is locked like its owner before, or is a leaf nobody holds.
LEMMA LocksNewNodes ==
    ASSUME NEW T, Shape(T), NEW H, NEW N, LocksAt(T, H, N),
           \A r \in H : N[r] = <<>> \/ N[r] \in Nodes(T),
           NEW S, Shape(S),
           \A e \in Nodes(S) :
                \/ \E f \in Nodes(T) : S.ref[e] = T.ref[f] /\ IsOwner(T, e, f)
                \/ e \notin DOMAIN T.slot /\ S.ref[e] = 0
    PROVE  LocksAt(S, H, N)
<1> SUFFICES ASSUME NEW e \in Nodes(S)
             PROVE  S.ref[e] = Cardinality({r \in H : IsPrefix(e, N[r])})
  BY DEF LocksAt
<1>1. e \in Seq(Token) /\ e # <<>> /\ \A f \in Nodes(T) : f \in Seq(Token) /\ f # <<>> /\ f \in DOMAIN T.slot
  BY Paths
<1>2. ~IsPrefix(e, <<>>) /\ \A f \in Nodes(T) : ~IsPrefix(f, <<>>)
  BY <1>1, PrefixOrder
<1>3. CASE \E f \in Nodes(T) : S.ref[e] = T.ref[f] /\ IsOwner(T, e, f)
  <2>1. PICK f \in Nodes(T) : S.ref[e] = T.ref[f] /\ IsOwner(T, e, f)
    BY <1>3
  <2>2. \A r \in H : IsPrefix(e, N[r]) <=> IsPrefix(f, N[r])
    BY <1>1, <1>2, <2>1, PrefixOrder DEF IsOwner
  <2>3. {r \in H : IsPrefix(e, N[r])} = {r \in H : IsPrefix(f, N[r])}
    BY <2>2
  <2> QED
    BY <2>1, <2>3 DEF LocksAt
<1>4. CASE e \notin DOMAIN T.slot /\ S.ref[e] = 0
  <2>1. \A r \in H : ~IsPrefix(e, N[r])
    BY <1>1, <1>2, <1>4, Closed
  <2>2. {r \in H : IsPrefix(e, N[r])} = {}
    BY <2>1
  <2> QED
    BY <1>4, <2>2, FS_EmptySet
<1> QED
  BY <1>3, <1>4

\* L is T with one lock more, or less, on the way to n.
OneMore(L, T, n) ==
    /\ Nodes(L) = Nodes(T)
    /\ \A e \in Nodes(T) : L.ref[e] = IF IsPrefix(e, n) THEN T.ref[e] + 1 ELSE T.ref[e]

\* L is T with one lock less on the way to n.
OneLess(L, T, n) ==
    /\ Nodes(L) = Nodes(T)
    /\ \A e \in Nodes(T) : L.ref[e] = IF IsPrefix(e, n) THEN T.ref[e] - 1 ELSE T.ref[e]

\* M and N give the requests H the same nodes.
Agree(M, N, H) == \A h \in H : M[h] = N[h]

\* One holder more.
LEMMA LocksInc ==
    ASSUME NEW T, NEW H, IsFiniteSet(H), NEW N, LocksAt(T, H, N), NEW r, r \notin H, NEW n,
           NEW L, OneMore(L, T, n), NEW M, M[r] = n, Agree(M, N, H)
    PROVE  LocksAt(L, H \cup {r}, M)
<1>a. /\ Nodes(L) = Nodes(T) /\ \A h \in H : M[h] = N[h]
      /\ \A e \in Nodes(T) : L.ref[e] = IF IsPrefix(e, n) THEN T.ref[e] + 1 ELSE T.ref[e]
  BY DEF OneMore, Agree
<1> SUFFICES ASSUME NEW e \in Nodes(T)
             PROVE  L.ref[e] = Cardinality({h \in H \cup {r} : IsPrefix(e, M[h])})
  BY <1>a DEF LocksAt
<1> DEFINE B == {h \in H : IsPrefix(e, N[h])}
           C == {h \in H \cup {r} : IsPrefix(e, M[h])}
<1>1. IsFiniteSet(B) /\ T.ref[e] = Cardinality(B) /\ r \notin B
  BY FS_Subset DEF LocksAt
<1>2. CASE IsPrefix(e, n)
  <2>1. C = B \cup {r}
    BY <1>2, <1>a
  <2>2. Cardinality(B \cup {r}) = Cardinality(B) + 1
    BY <1>1, FS_AddElement
  <2> QED
    BY <1>1, <1>2, <1>a, <2>1, <2>2
<1>3. CASE ~IsPrefix(e, n)
  <2>1. C = B
    BY <1>3, <1>a
  <2> QED
    BY <1>1, <1>3, <1>a, <2>1
<1> QED
  BY <1>2, <1>3

\* One holder less.
LEMMA LocksDec ==
    ASSUME NEW T, NEW H, IsFiniteSet(H), NEW N, LocksAt(T, H, N), NEW r \in H,
           NEW L, OneLess(L, T, N[r]), NEW M, Agree(M, N, H \ {r})
    PROVE  LocksAt(L, H \ {r}, M)
<1>a. /\ Nodes(L) = Nodes(T) /\ \A h \in H \ {r} : M[h] = N[h]
      /\ \A e \in Nodes(T) : L.ref[e] = IF IsPrefix(e, N[r]) THEN T.ref[e] - 1 ELSE T.ref[e]
  BY DEF OneLess, Agree
<1> SUFFICES ASSUME NEW e \in Nodes(T)
             PROVE  L.ref[e] = Cardinality({h \in H \ {r} : IsPrefix(e, M[h])})
  BY <1>a DEF LocksAt
<1> DEFINE B == {h \in H : IsPrefix(e, N[h])}
           C == {h \in H \ {r} : IsPrefix(e, M[h])}
<1>1. IsFiniteSet(B) /\ T.ref[e] = Cardinality(B)
  BY FS_Subset DEF LocksAt
<1>2. CASE IsPrefix(e, N[r])
  <2>1. C = B \ {r} /\ r \in B
    BY <1>2, <1>a
  <2>2. Cardinality(B \ {r}) = Cardinality(B) - 1
    BY <1>1, <2>1, FS_RemoveElement
  <2> QED
    BY <1>1, <1>2, <1>a, <2>1, <2>2
<1>3. CASE ~IsPrefix(e, N[r])
  <2>1. C = B
    BY <1>3, <1>a
  <2> QED
    BY <1>1, <1>3, <1>a, <2>1
<1> QED
  BY <1>2, <1>3

\* Same holders, same nodes.
LEMMA LocksSame ==
    ASSUME NEW T, NEW H, NEW N, LocksAt(T, H, N), NEW M, \A r \in H : M[r] = N[r]
    PROVE  LocksAt(T, H, M)
<1>1. \A e : {r \in H : IsPrefix(e, N[r])} = {r \in H : IsPrefix(e, M[r])}
  OBVIOUS
<1> QED
  BY <1>1 DEF LocksAt

\* What is evicted is not on the way of a holder.
LEMMA LockedStays ==
    ASSUME NEW T, Shape(T), NEW H, IsFiniteSet(H), NEW N, LocksAt(T, H, N),
           NEW r \in H, N[r] \in Nodes(T), NEW p \in DOMAIN T.slot, IsPrefix(p, N[r]),
           NEW e \in Nodes(T), IsOwner(T, p, e)
    PROVE  T.ref[e] # 0
<1>1. IsPrefix(e, N[r])
  BY DEF IsOwner
<1>2. T.ref[e] \in Nat /\ T.ref[e] >= 1
  BY <1>1, LockCounts
<1> QED
  BY <1>2

----------------------------------------------------------------------------
(* Slots change hands.                                                     *)

\* The private slots of c, P + 1 .. F, go: m + 1 .. K to the tree, as the rest
\* of key, the others, X, are freed.
Handed(f, T, q, c, P, F, m, K, key, U, X, z) ==
    /\ SlotsAt(f, T, q) /\ q[c].state # "absent" /\ P = Len(q[c].node) /\ F = Len(q[c].row)
    /\ \A i \in P + 1 .. F : q[c].row[i] \in Slots
    /\ P <= m /\ m <= K /\ K <= F /\ Len(key) = K
    /\ DOMAIN U.slot = DOMAIN T.slot \cup Rest(key, m)
    /\ \A p \in DOMAIN T.slot : U.slot[p] = T.slot[p]
    /\ \A i \in m + 1 .. K : U.slot[Take(key, i)] = q[c].row[i]
    /\ X = {q[c].row[i] : i \in P + 1 .. m} \cup {q[c].row[i] : i \in K + 1 .. F}
    /\ \A r \in Reqs \ {c} : z[r] = q[r]
    /\ \A i \in Len(z[c].node) + 1 .. Len(z[c].row) : FALSE

\* Every slot still has one use.
LEMMA SlotsReleased ==
    ASSUME NEW f \in SUBSET Slots, NEW T, NEW q, NEW c \in Reqs, NEW P \in Nat, NEW F \in Nat,
           NEW m \in Nat, NEW K \in Nat, NEW key, NEW U, NEW X, NEW z,
           Handed(f, T, q, c, P, F, m, K, key, U, X, z)
    PROVE  SlotsAt(f \cup X, U, z)
<1> USE DEF Handed
<1> DEFINE w == q[c].row
<1>1. /\ \A i \in P + 1 .. m : i \in P + 1 .. F /\ i \notin m + 1 .. K
      /\ \A i \in m + 1 .. K : i \in P + 1 .. F
      /\ \A i \in K + 1 .. F : i \in P + 1 .. F /\ i \notin m + 1 .. K
      /\ \A i \in P + 1 .. F : i \in P + 1 .. m \/ i \in m + 1 .. K \/ i \in K + 1 .. F
  OBVIOUS
<1>2. \A i \in P + 1 .. F : w[i] \in Slots /\ OwnsAt(q, c, w[i])
  BY DEF OwnsAt
<1>3. \A i \in P + 1 .. F : w[i] \notin f /\ ~CachedAt(T, w[i])
  BY <1>2 DEF SlotsAt
<1>4. \A i, k \in P + 1 .. F : w[i] = w[k] => i = k
  BY DEF SlotsAt
<1>5. \A s \in X : \E i \in P + 1 .. F : s = w[i] /\ i \notin m + 1 .. K
  BY <1>1
<1>6. X = {w[i] : i \in P + 1 .. m} \cup {w[i] : i \in K + 1 .. F}
  OBVIOUS
<1>7. \A s : OwnsAt(q, c, s) => \E i \in P + 1 .. F : s = w[i]
  BY DEF OwnsAt
<1>8. \A p \in Rest(key, m) : \E i \in m + 1 .. K : p = Take(key, i) /\ U.slot[p] = w[i]
  BY DEF Rest
<1>9. \A i \in m + 1 .. K : Take(key, i) \in Rest(key, m) /\ U.slot[Take(key, i)] = w[i]
  BY DEF Rest
<1>10. \A s : ~OwnsAt(z, c, s)
  BY DEF OwnsAt
<1>11. \A r \in Reqs : \A s : r # c => (OwnsAt(z, r, s) <=> OwnsAt(q, r, s))
  BY DEF OwnsAt
<1>12. \A r \in Reqs : \A s \in Slots : OwnsAt(z, r, s) => r # c /\ OwnsAt(q, r, s) /\ ~OwnsAt(q, c, s)
  BY <1>10, <1>11 DEF SlotsAt
<1> HIDE DEF w
<1>13. ASSUME NEW p \in DOMAIN U.slot PROVE U.slot[p] \in Slots /\ U.slot[p] \notin f \cup X
  <2>1. CASE p \in DOMAIN T.slot
    <3>1. U.slot[p] = T.slot[p] /\ T.slot[p] \in Slots /\ T.slot[p] \notin f /\ CachedAt(T, T.slot[p])
      BY <2>1 DEF SlotsAt, CachedAt
    <3>2. U.slot[p] \notin X
      <4> SUFFICES ASSUME U.slot[p] \in X PROVE FALSE
        OBVIOUS
      <4>1. PICK i \in P + 1 .. F : U.slot[p] = w[i]
        BY <1>5
      <4>2. ~CachedAt(T, w[i])
        BY <1>3
      <4> QED
        BY <3>1, <4>1, <4>2
    <3> QED
      BY <3>1, <3>2
  <2>2. CASE p \in Rest(key, m)
    <3>1. PICK i \in m + 1 .. K : U.slot[p] = w[i]
      BY <1>8, <2>2
    <3>2. i \in P + 1 .. F
      BY <1>1
    <3>3. U.slot[p] \notin X
      <4> SUFFICES ASSUME U.slot[p] \in X PROVE FALSE
        OBVIOUS
      <4>1. PICK k \in P + 1 .. F : U.slot[p] = w[k] /\ k \notin m + 1 .. K
        BY <1>5
      <4>2. i = k
        BY <1>4, <3>1, <3>2, <4>1
      <4> QED
        BY <4>1, <4>2
    <3> QED
      BY <1>2, <1>3, <3>1, <3>2, <3>3
  <2> QED
    BY <2>1, <2>2
<1>14. ASSUME NEW p \in DOMAIN U.slot, NEW o \in DOMAIN U.slot, U.slot[p] = U.slot[o] PROVE p = o
  <2>1. CASE p \in DOMAIN T.slot /\ o \in DOMAIN T.slot
    BY <1>14, <2>1 DEF SlotsAt
  <2>2. ASSUME NEW a \in DOMAIN T.slot, NEW b \in Rest(key, m) PROVE U.slot[a] # U.slot[b]
    <3>1. PICK i \in m + 1 .. K : U.slot[b] = w[i]
      BY <1>8
    <3>2. CachedAt(T, U.slot[a])
      BY DEF CachedAt
    <3> QED
      BY <1>1, <1>3, <3>1, <3>2
  <2>3. CASE p \in Rest(key, m) /\ o \in Rest(key, m)
    <3>1. PICK i \in m + 1 .. K : p = Take(key, i) /\ U.slot[p] = w[i]
      BY <1>8, <2>3
    <3>2. PICK k \in m + 1 .. K : o = Take(key, k) /\ U.slot[o] = w[k]
      BY <1>8, <2>3
    <3> QED
      BY <1>1, <1>4, <1>14, <3>1, <3>2
  <2> QED
    BY <1>14, <2>1, <2>2, <2>3
<1>15. ASSUME NEW r \in Reqs, NEW s \in Slots, OwnsAt(z, r, s) PROVE s \notin f \cup X /\ ~CachedAt(U, s)
  <2>1. r # c /\ OwnsAt(q, r, s) /\ ~OwnsAt(q, c, s)
    BY <1>12, <1>15
  <2>2. s \notin f /\ ~CachedAt(T, s)
    BY <2>1 DEF SlotsAt
  <2>3. \A i \in P + 1 .. F : w[i] # s
    BY <1>2, <2>1
  <2>4. s \notin X
    BY <1>5, <2>3
  <2>5. ~CachedAt(U, s)
    <3> SUFFICES ASSUME NEW p \in DOMAIN U.slot, U.slot[p] = s PROVE FALSE
      BY DEF CachedAt
    <3>1. p \in DOMAIN T.slot \/ p \in Rest(key, m)
      OBVIOUS
    <3> QED
      BY <1>1, <1>8, <2>2, <2>3, <3>1 DEF CachedAt
  <2> QED
    BY <2>2, <2>4, <2>5
<1>16. \A r, d \in Reqs : \A s \in Slots : OwnsAt(z, r, s) /\ OwnsAt(z, d, s) => r = d
  BY <1>12 DEF SlotsAt
<1>17. ASSUME NEW r \in Reqs, z[r].state # "absent",
              NEW i \in Len(z[r].node) + 1 .. Len(z[r].row),
              NEW k \in Len(z[r].node) + 1 .. Len(z[r].row), z[r].row[i] = z[r].row[k]
       PROVE  i = k
  <2>1. r # c /\ z[r] = q[r]
    BY <1>17
  <2> QED
    BY <1>17, <2>1 DEF SlotsAt
<1>18. ASSUME NEW s \in Slots PROVE s \in f \cup X \/ CachedAt(U, s) \/ \E r \in Reqs : OwnsAt(z, r, s)
  <2>1. CASE s \in f
    BY <2>1
  <2>2. CASE CachedAt(T, s)
    BY <2>2 DEF CachedAt
  <2>3. ASSUME NEW r \in Reqs, OwnsAt(q, r, s) PROVE s \in f \cup X \/ CachedAt(U, s) \/ OwnsAt(z, r, s)
    <3>1. CASE r # c
      BY <1>11, <2>3, <3>1
    <3>2. CASE r = c
      <4>1. PICK i \in P + 1 .. F : s = w[i]
        BY <1>7, <2>3, <3>2
      <4>2. i \in m + 1 .. K => CachedAt(U, s)
        BY <1>9, <4>1 DEF CachedAt
      <4> QED
        BY <1>1, <1>6, <4>1, <4>2
    <3> QED
      BY <3>1, <3>2
  <2>4. s \in f \/ CachedAt(T, s) \/ \E r \in Reqs : OwnsAt(q, r, s)
    BY DEF SlotsAt
  <2> QED
    BY <2>1, <2>2, <2>3, <2>4
<1> QED
  BY <1>13, <1>14, <1>15, <1>16, <1>17, <1>18 DEF SlotsAt

\* The beginnings of a holder's node are in the tree.
LEMMA NodePaths ==
    ASSUME NEW T, Shape(T), NEW n \in Seq(Token), n # <<>> => n \in Nodes(T)
    PROVE  \A i \in 1 .. Len(n) : Take(n, i) \in DOMAIN T.slot
<1> SUFFICES ASSUME NEW i \in 1 .. Len(n) PROVE Take(n, i) \in DOMAIN T.slot
  OBVIOUS
<1>1. n # <<>>
  BY EmptySeq
<1> QED
  BY <1>1, Paths DEF Shape

\* A holder has none of the private slots of another request.
LEMMA OthersSlots ==
    ASSUME NEW f, NEW T, Shape(T), NEW q, SlotsAt(f, T, q), NEW h \in Reqs, NEW c \in Reqs, h # c,
           NEW k, q[h] \in Req, HolderAt(q[h], T, k)
    PROVE  \A i \in 1 .. Len(q[h].row) : ~OwnsAt(q, c, q[h].row[i])
<1> SUFFICES ASSUME NEW i \in 1 .. Len(q[h].row), OwnsAt(q, c, q[h].row[i]) PROVE FALSE
  OBVIOUS
<1> DEFINE x == q[h]
<1>a. q[h].row[i] \in Slots
  <2>1. q[h].row \in Seq(Slots)
    BY DEF Req
  <2> QED
    BY <2>1, ElementOfSeq
<1>1. x.row \in Seq(Slots) /\ x.node \in Seq(Token) /\ x.state # "absent"
  BY DEF Req, States
<1>2. PICK P \in Nat : P = Len(x.node)
  BY <1>1, LenProperties
<1>3. x.row # <<>> /\ RowAt(x, k)
  BY <1>1, EmptySeq DEF HolderAt
<1>4. CASE i \in 1 .. P
  <2>1. x.row[i] = x.prefix[i]
    BY <1>2, <1>3, <1>4 DEF RowAt
  <2>2. x.prefix[i] = T.slot[Take(x.node, i)]
    BY <1>2, <1>4 DEF HolderAt
  <2>3. Take(x.node, i) \in DOMAIN T.slot
    BY <1>1, <1>2, <1>4, NodePaths DEF HolderAt
  <2>4. CachedAt(T, x.row[i])
    BY <2>1, <2>2, <2>3 DEF CachedAt
  <2> QED
    BY <1>a, <2>4 DEF SlotsAt
<1>5. CASE i \notin 1 .. P
  <2>1. i \in P + 1 .. Len(x.row)
    BY <1>1, <1>2, <1>5, LenProperties
  <2>2. OwnsAt(q, h, x.row[i])
    BY <1>1, <1>2, <2>1 DEF OwnsAt
  <2> QED
    BY <1>a, <2>2 DEF SlotsAt
<1> QED
  BY <1>4, <1>5

\* A holder is as it was when its node, its slots and what they hold are.
LEMMA HolderStays ==
    ASSUME NEW x, x \in Req, NEW T, NEW k, HolderAt(x, T, k), NEW U, NEW g,
           x.node # <<>> => x.node \in Nodes(U),
           \A i \in 1 .. Len(x.node) : U.slot[Take(x.node, i)] = T.slot[Take(x.node, i)],
           \A i \in 1 .. Len(x.row) : g[x.row[i]] = k[x.row[i]]
    PROVE  HolderAt(x, U, g)
<1>1. [i \in 1 .. Len(x.node) |-> U.slot[Take(x.node, i)]] = [i \in 1 .. Len(x.node) |-> T.slot[Take(x.node, i)]]
  OBVIOUS
<1>2. RowAt(x, k) => RowAt(x, g)
  BY DEF RowAt
<1> QED
  BY <1>1, <1>2 DEF HolderAt

----------------------------------------------------------------------------
(* The new tokens of a batch, one request after the other.                 *)

\* Where the i-th request of batch b starts among the new slots.
StartOf(q, b, i) == Extents(q, ToSet(Take(b, i - 1)))

\* The requests of a batch, and their number.
LEMMA OnceCount ==
    ASSUME NEW S, NEW b \in Seq(S), Once(b)
    PROVE  /\ ToSet(b) = {b[i] : i \in 1 .. Len(b)} /\ ToSet(b) \subseteq S
           /\ IsFiniteSet(ToSet(b)) /\ Cardinality(ToSet(b)) = Len(b)
<1>1. PICK n \in Nat : n = Len(b)
  BY LenProperties
<1>2. DOMAIN b = 1 .. n /\ \A i \in 1 .. n : b[i] \in S
  BY <1>1, LenProperties, ElementOfSeq
<1>3. ToSet(b) = {b[i] : i \in 1 .. n}
  BY <1>2 DEF ToSet
<1> DEFINE f == [i \in 1 .. n |-> b[i]]
<1>4. f \in [1 .. n -> ToSet(b)]
  BY <1>3
<1>5. \A i, k \in 1 .. n : f[i] = f[k] => i = k
  BY <1>2 DEF Once
<1>6. \A y \in ToSet(b) : \E i \in 1 .. n : f[i] = y
  BY <1>3
<1>7. IsFiniteSet(1 .. n) /\ Cardinality(1 .. n) = n
  <2>1. 1 \in Int /\ n \in Int
    OBVIOUS
  <2>2. IsFiniteSet(1 .. n) /\ Cardinality(1 .. n) = IF 1 > n THEN 0 ELSE n - 1 + 1
    BY <2>1, FS_Interval
  <2> QED
    BY <2>2
<1> HIDE DEF f
<1>8. IsFiniteSet(ToSet(b)) /\ Cardinality(ToSet(b)) = Cardinality(1 .. n)
  BY <1>4, <1>5, <1>6, <1>7, PairedOff
<1> QED
  BY <1>1, <1>2, <1>3, <1>7, <1>8

\* The parts do not overlap and fill the whole.
LEMMA Layout ==
    ASSUME NEW q, NEW b \in Seq(Reqs), Once(b), \A r \in ToSet(b) : Extent(q, r) \in Nat,
           NEW n \in Nat, n = Len(b)
    PROVE  /\ \A i \in 1 .. n : /\ StartOf(q, b, i) \in Nat /\ Extent(q, b[i]) \in Nat
                                /\ StartOf(q, b, i) + Extent(q, b[i]) <= Extents(q, ToSet(b))
           /\ \A i, k \in 1 .. n : i < k => StartOf(q, b, i) + Extent(q, b[i]) <= StartOf(q, b, k)
           /\ \A x \in 1 .. Extents(q, ToSet(b)) : \E i \in 1 .. n :
                x \in StartOf(q, b, i) + 1 .. StartOf(q, b, i) + Extent(q, b[i])
           /\ Extents(q, ToSet(b)) \in Nat
<1> DEFINE X(i) == {b[k] : k \in 1 .. i}
           B(i) == Extents(q, X(i))
<1>1. DOMAIN b = 1 .. n /\ X(n) = ToSet(b) /\ IsFiniteSet(ToSet(b)) /\ X(0) = {}
  BY OnceCount, LenProperties
<1>2. \A i \in 1 .. n : StartOf(q, b, i) = B(i - 1)
  <2> SUFFICES ASSUME NEW i \in 1 .. n PROVE ToSet(Take(b, i - 1)) = X(i - 1)
    BY DEF StartOf
  <2>1. i - 1 \in 0 .. Len(b)
    OBVIOUS
  <2>2. Take(b, i - 1) \in Seq(Reqs) /\ Len(Take(b, i - 1)) = i - 1 /\ \A k \in 1 .. i - 1 : Take(b, i - 1)[k] = b[k]
    BY <2>1, TakeFacts
  <2>3. DOMAIN Take(b, i - 1) = 1 .. i - 1
    BY <2>2, LenProperties
  <2> QED
    BY <2>2, <2>3 DEF ToSet
<1>3. \A i, k \in 0 .. n : i <= k => X(i) \subseteq X(k) /\ X(i) \in SUBSET ToSet(b)
  BY <1>1
<1>4. \A i \in 1 .. n : i \in 0 .. n /\ i - 1 \in 0 .. n /\ X(i) = X(i - 1) \cup {b[i]} /\ b[i] \in ToSet(b) \ X(i - 1)
  <2> SUFFICES ASSUME NEW i \in 1 .. n PROVE X(i) = X(i - 1) \cup {b[i]} /\ b[i] \in ToSet(b) \ X(i - 1)
    OBVIOUS
  <2>1. \A k \in 1 .. i : k \in 1 .. i - 1 \/ k = i
    OBVIOUS
  <2>2. \A k \in 1 .. i - 1 : k \in 1 .. i /\ k \in 1 .. n /\ k # i
    OBVIOUS
  <2>3. b[i] \notin X(i - 1)
    BY <1>1, <2>2 DEF Once
  <2>4. i \in 1 .. i
    OBVIOUS
  <2>5. b[i] \in X(n)
    OBVIOUS
  <2>6. X(i) = X(i - 1) \cup {b[i]}
    BY <2>1, <2>2, <2>4
  <2> QED
    BY <1>1, <2>3, <2>5, <2>6
<1> HIDE DEF X
<1>a. /\ \A Z \in SUBSET ToSet(b) : Extents(q, Z) \in Nat
      /\ \A Z \in SUBSET ToSet(b) : \A r \in ToSet(b) \ Z : Extents(q, Z \cup {r}) = Extents(q, Z) + Extent(q, r)
  <2>1. IsFiniteSet(ToSet(b)) /\ \A r \in ToSet(b) : Extent(q, r) \in Nat
    BY <1>1
  <2> QED
    BY <2>1, ExtentsSum
<1>5. \A i \in 0 .. n : B(i) \in Nat
  <2>1. \A i \in 0 .. n : X(i) \in SUBSET ToSet(b)
    BY <1>3
  <2> QED
    BY <1>a, <2>1
<1>6. \A i \in 1 .. n : B(i) = B(i - 1) + Extent(q, b[i]) /\ Extent(q, b[i]) \in Nat
  <2> SUFFICES ASSUME NEW i \in 1 .. n PROVE B(i) = B(i - 1) + Extent(q, b[i]) /\ Extent(q, b[i]) \in Nat
    OBVIOUS
  <2>1. X(i - 1) \in SUBSET ToSet(b) /\ b[i] \in ToSet(b) \ X(i - 1)
    BY <1>3, <1>4
  <2>2. Extents(q, X(i - 1) \cup {b[i]}) = Extents(q, X(i - 1)) + Extent(q, b[i])
    BY <1>a, <2>1
  <2> QED
    BY <1>4, <2>1, <2>2
<1>7. \A i, k \in 0 .. n : i <= k => B(i) <= B(k)
  <2> SUFFICES ASSUME NEW i \in 0 .. n, NEW k \in 0 .. n, i <= k PROVE Extents(q, X(i)) <= Extents(q, X(k))
    OBVIOUS
  <2>1. X(i) \in SUBSET X(k) /\ X(k) \in SUBSET ToSet(b)
    BY <1>3
  <2>2. IsFiniteSet(X(k)) /\ \A r \in X(k) : Extent(q, r) \in Nat
    BY <1>1, <2>1, FS_Subset
  <2> QED
    BY <2>1, <2>2, ExtentsSum
<1>8. B(0) = 0 /\ B(n) = Extents(q, ToSet(b))
  BY <1>1, ExtentsSum
<1> HIDE DEF B
<1>9. PICK N \in Nat : N = B(n)
  BY <1>5
<1>10. ASSUME NEW i \in 1 .. n
       PROVE  B(i - 1) \in Nat /\ B(i - 1) + Extent(q, b[i]) <= N
  <2>1. i \in 0 .. n /\ i - 1 \in 0 .. n /\ n \in 0 .. n /\ i <= n
    OBVIOUS
  <2> QED
    BY <1>6, <1>7, <1>9, <1>5, <2>1
<1>11. ASSUME NEW i \in 1 .. n, NEW k \in 1 .. n, i < k PROVE B(i - 1) + Extent(q, b[i]) <= B(k - 1)
  <2>1. i \in 0 .. n /\ k - 1 \in 0 .. n /\ i <= k - 1
    BY <1>11
  <2> QED
    BY <1>6, <1>7, <2>1
<1>12. ASSUME NEW x \in 1 .. N
       PROVE  \E i \in 1 .. n : x \in B(i - 1) + 1 .. B(i - 1) + Extent(q, b[i])
  <2> DEFINE M == {k \in 1 .. n : x <= B(k)}
  <2>1. n \in M
    <3>1. n # 0
      BY <1>8, <1>9
    <3> QED
      BY <1>9, <3>1
  <2>2. M \in SUBSET Nat
    OBVIOUS
  <2>3. PICK i \in M : \A k \in M : i <= k
    BY <2>1, <2>2, LeastNumber
  <2>4. i \in 1 .. n /\ i - 1 \in 0 .. n /\ i \in 0 .. n
    OBVIOUS
  <2>5. B(i - 1) \in Nat /\ B(i) \in Nat
    BY <1>5, <2>4
  <2>6. ~(x <= B(i - 1))
    <3>1. CASE i = 1
      BY <1>8, <3>1
    <3>2. CASE i # 1
      <4>1. i - 1 \in 1 .. n /\ i - 1 \notin M
        BY <2>3, <2>4, <3>2
      <4> QED
        BY <4>1
    <3> QED
      BY <3>1, <3>2
  <2>7. x <= B(i)
    OBVIOUS
  <2>8. B(i) = B(i - 1) + Extent(q, b[i]) /\ Extent(q, b[i]) \in Nat
    BY <1>6, <2>4
  <2>9. x \in B(i - 1) + 1 .. B(i - 1) + Extent(q, b[i])
    BY <2>5, <2>6, <2>7, <2>8
  <2> QED
    BY <2>4, <2>9
<1> QED
  BY <1>2, <1>6, <1>8, <1>9, <1>10, <1>11, <1>12

\* Needed and Start in these terms.
LEMMA NeededIs == Needed = Extents(req, ToSet(batch))
BY DEF Needed, Extents, Extent, ExtendLen, Protected, MapThenSumSet, MapThenFoldSet

\* Start, in these terms.
LEMMA StartIs == \A i : Start(i) = StartOf(req, batch, i)
BY DEF Start, StartOf, Extents, Extent, ExtendLen, Protected, MapThenSumSet, MapThenFoldSet

\* Needed after a step.
LEMMA NeededNext == Needed' = Extents(req', ToSet(batch'))
BY DEF Needed, Extents, Extent, ExtendLen, Protected, MapThenSumSet, MapThenFoldSet

----------------------------------------------------------------------------
(* Jobs and texts.                                                         *)

\* What a job is.
LEMMA JobFacts ==
    ASSUME NEW j \in JobChoices
    PROVE  /\ j.ids \in Seq(Token) /\ Len(j.ids) \in Nat /\ Len(j.ids) >= 1 /\ Len(j.ids) < PoolSize
           /\ j.prefix_len \in Nat /\ j.prefix_len < Len(j.ids) /\ j.bypass \in BOOLEAN
<1>1. j \in [ids : Seq(Token), prefix_len : Nat, bypass : BOOLEAN]
  BY JobTypes
<1>2. j.ids \in Seq(Token) /\ j.prefix_len \in Nat /\ j.bypass \in BOOLEAN
  BY <1>1
<1>3. PICK n \in Nat : n = Len(j.ids)
  BY <1>2, LenProperties
<1> QED
  BY <1>2, <1>3, JobsFit, Sizes

\* What a request is, once it has arrived.
LEMMA ReqFacts ==
    ASSUME NEW x \in Req
    PROVE  /\ x.job \in JobChoices /\ x.state \in States /\ x.state # "absent" /\ x.prefix \in Seq(Slots)
           /\ x.node \in Seq(Token) /\ Len(x.node) \in Nat /\ Len(x.prefix) \in Nat /\ x.fill \in Nat
           /\ x.row \in Seq(Slots) /\ Len(x.row) \in Nat /\ x.is_chunked \in Nat /\ x.value \in SUBSET Seq(Token)
<1>1. /\ x.job \in JobChoices /\ x.state \in States /\ x.prefix \in Seq(Slots)
      /\ x.node \in Seq(Token) /\ x.fill \in Nat
      /\ x.row \in Seq(Slots) /\ x.is_chunked \in Nat /\ x.value \in SUBSET Seq(Token)
  BY DEF Req
<1> QED
  BY <1>1, LenProperties DEF States

\* A cached prefix and the tokens computed after it, and the text they make.
Joined(s, P, u, e) == Take(s, P) \o Append(SubSeq(s, P + 1, u), e)
Grown(s, u, e) == Append(Take(s, u), e)

\* A text goes on with its next tokens.
LEMMA TextJoin ==
    ASSUME NEW S, NEW s \in Seq(S), NEW n \in Nat, n = Len(s), NEW P \in Nat, NEW u \in Nat,
           P <= u, u <= n, NEW e \in S
    PROVE  Joined(s, P, u, e) = Grown(s, u, e)
<1> DEFINE m == SubSeq(s, P + 1, u)
           a == Append(m, e)
           l == Take(s, P) \o a
           t == Append(Take(s, u), e)
<1>1. P \in 0 .. Len(s) /\ u \in 0 .. Len(s)
  OBVIOUS
<1>2. /\ Take(s, P) \in Seq(S) /\ Len(Take(s, P)) = P /\ \A i \in 1 .. P : Take(s, P)[i] = s[i]
      /\ Take(s, u) \in Seq(S) /\ Len(Take(s, u)) = u /\ \A i \in 1 .. u : Take(s, u)[i] = s[i]
  BY <1>1, TakeFacts
<1>3. m \in Seq(S) /\ Len(m) = u - P /\ \A i \in 1 .. u - P : m[i] = s[P + i]
  <2>1. \A i \in P + 1 .. u : s[i] \in S
    BY ElementOfSeq
  <2> QED
    BY <2>1, SubSeqProperties
<1>4. a \in Seq(S) /\ Len(a) = u - P + 1 /\ a[u - P + 1] = e /\ \A i \in 1 .. u - P : a[i] = m[i]
  BY <1>3, AppendProperties
<1>5. t \in Seq(S) /\ Len(t) = u + 1 /\ t[u + 1] = e /\ \A i \in 1 .. u : t[i] = Take(s, u)[i]
  BY <1>2, AppendProperties
<1> DEFINE c == Take(s, P)
<1>6. c \in Seq(S) /\ Len(c) = P /\ \A i \in 1 .. P : c[i] = s[i]
  BY <1>2
<1> HIDE DEF m, a, c
<1>7. /\ c \o a \in Seq(S) /\ Len(c \o a) = Len(c) + Len(a)
      /\ \A i \in 1 .. Len(c) + Len(a) : (c \o a)[i] = IF i <= Len(c) THEN c[i] ELSE a[i - Len(c)]
  BY <1>4, <1>6, ConcatProperties
<1>8. Len(c \o a) = u + 1 /\ \A i \in 1 .. u + 1 : (c \o a)[i] = IF i <= P THEN c[i] ELSE a[i - P]
  BY <1>4, <1>6, <1>7
<1> HIDE DEF t
<1>9. ASSUME NEW i \in 1 .. u + 1 PROVE (c \o a)[i] = t[i]
  <2>1. CASE i <= P
    BY <1>2, <1>5, <1>6, <1>8, <2>1
  <2>2. CASE i > P /\ i <= u
    <3>1. i - P \in 1 .. u - P /\ P + (i - P) = i /\ i \in 1 .. u
      BY <2>2
    <3>2. a[i - P] = s[i]
      BY <1>3, <1>4, <3>1
    <3> QED
      BY <1>2, <1>5, <1>8, <2>2, <3>1, <3>2
  <2>3. CASE i = u + 1
    <3>1. i - P = u - P + 1 /\ ~(i <= P)
      BY <2>3
    <3> QED
      BY <1>4, <1>5, <1>8, <2>3, <3>1
  <2>4. i <= P \/ (i > P /\ i <= u) \/ i = u + 1
    OBVIOUS
  <2> QED
    BY <2>1, <2>2, <2>3, <2>4
<1>10. c \o a = t
  BY <1>5, <1>7, <1>8, <1>9, SeqEqual
<1> QED
  BY <1>10 DEF c, a, t, m, Joined, Grown

\* The first n are the first n - 1 and the n-th.
LEMMA TakeNext ==
    ASSUME NEW S, NEW s \in Seq(S), NEW n \in 1 .. Len(s)
    PROVE  Append(Take(s, n - 1), s[n]) = Take(s, n)
<1>1. n - 1 \in 0 .. Len(s) /\ n \in 0 .. Len(s) /\ s[n] \in S
  BY LenProperties, ElementOfSeq
<1>2. /\ Take(s, n - 1) \in Seq(S) /\ Len(Take(s, n - 1)) = n - 1 /\ \A i \in 1 .. n - 1 : Take(s, n - 1)[i] = s[i]
      /\ Take(s, n) \in Seq(S) /\ Len(Take(s, n)) = n /\ \A i \in 1 .. n : Take(s, n)[i] = s[i]
  BY <1>1, TakeFacts
<1> DEFINE t == Append(Take(s, n - 1), s[n])
<1>3. t \in Seq(S) /\ Len(t) = n /\ t[n] = s[n] /\ \A i \in 1 .. n - 1 : t[i] = Take(s, n - 1)[i]
  BY <1>1, <1>2, AppendProperties
<1> HIDE DEF t
<1>4. \A i \in 1 .. n : t[i] = Take(s, n)[i]
  <2> SUFFICES ASSUME NEW i \in 1 .. n PROVE t[i] = Take(s, n)[i]
    OBVIOUS
  <2>1. i = n \/ i \in 1 .. n - 1
    OBVIOUS
  <2> QED
    BY <1>2, <1>3, <2>1
<1>5. t = Take(s, n)
  BY <1>2, <1>3, <1>4, SeqEqual
<1> QED
  BY <1>5 DEF t

\* The texts of a job, the valued ones among them.
LEMMA Texts ==
    ASSUME NEW j \in JobChoices
    PROVE  /\ \A n \in 1 .. Len(j.ids) : TextOf(j, n) \in Seq(Token)
           /\ Expected(j) = {TextOf(j, n) : n \in Valued(j)}
           /\ Valued(j) \subseteq 1 .. Len(j.ids)
           /\ \A n \in Valued(j) : n > j.prefix_len /\ (j.prefix_len = 0 => n = Len(j.ids))
           /\ Expected(j) \in SUBSET Seq(Token)
<1>1. /\ j.ids \in Seq(Token) /\ Len(j.ids) \in Nat /\ Len(j.ids) >= 1
      /\ j.prefix_len \in Nat /\ j.prefix_len < Len(j.ids)
  BY JobFacts
<1>2. PICK L \in Nat : L = Len(j.ids) /\ L >= 1
  BY <1>1
<1>3. PICK p \in Nat : p = j.prefix_len /\ p < L
  BY <1>1, <1>2
<1>4. \A n \in Valued(j) : n \in 1 .. L /\ n > p /\ (p = 0 => n = L)
  BY <1>2, <1>3 DEF Valued
<1>5. ASSUME NEW n \in 1 .. L PROVE TextOf(j, n) \in Seq(Token)
  <2>1. p \in 0 .. Len(j.ids) /\ n \in 0 .. Len(j.ids)
    BY <1>2, <1>3
  <2>2. Take(j.ids, p) \in Seq(Token) /\ Take(j.ids, n) \in Seq(Token) /\ j.ids[n] \in Token
    BY <1>1, <1>2, <2>1, TakeFacts, ElementOfSeq
  <2>3. Append(Take(j.ids, p), j.ids[n]) \in Seq(Token)
    BY <2>2, AppendProperties
  <2> QED
    BY <1>3, <2>2, <2>3 DEF TextOf
<1>6. \A n \in Valued(j) :
        Append(Take(j.ids, IF j.prefix_len > 0 THEN j.prefix_len ELSE Len(j.ids) - 1), j.ids[n]) = TextOf(j, n)
  <2> SUFFICES ASSUME NEW n \in Valued(j)
               PROVE  Append(Take(j.ids, IF p > 0 THEN p ELSE L - 1), j.ids[n]) = TextOf(j, n)
    BY <1>2, <1>3
  <2>1. n \in 1 .. L /\ n > p /\ (p = 0 => n = L)
    BY <1>4
  <2>2. CASE p > 0
    BY <1>3, <2>1, <2>2 DEF TextOf
  <2>3. CASE ~(p > 0)
    <3>1. n = L /\ n \in 1 .. Len(j.ids) /\ p = 0
      BY <1>2, <2>1, <2>3
    <3>2. Append(Take(j.ids, n - 1), j.ids[n]) = Take(j.ids, n)
      BY <1>1, <3>1, TakeNext
    <3>3. TextOf(j, n) = Take(j.ids, n)
      BY <1>3, <3>1 DEF TextOf
    <3> QED
      BY <2>3, <3>1, <3>2, <3>3
  <2> QED
    BY <2>2, <2>3
<1>7. Expected(j) = {TextOf(j, n) : n \in Valued(j)}
  BY <1>6 DEF Expected
<1> QED
  BY <1>2, <1>3, <1>4, <1>5, <1>7

\* The slots of a request's node hold the node.
LEMMA NodeTexts ==
    ASSUME NEW T, Shape(T), NEW k, \A p \in DOMAIN T.slot : k[T.slot[p]] = p,
           NEW x \in Req, HolderAt(x, T, k)
    PROVE  /\ Len(x.prefix) = Len(x.node) /\ DOMAIN x.prefix = 1 .. Len(x.node)
           /\ \A i \in 1 .. Len(x.node) :
                /\ Take(x.node, i) \in DOMAIN T.slot /\ x.prefix[i] = T.slot[Take(x.node, i)]
                /\ k[x.prefix[i]] = Take(x.node, i) /\ Take(x.node, i) = Take(x.job.ids, i)
<1>1. /\ x.prefix \in Seq(Slots) /\ x.node \in Seq(Token) /\ Len(x.node) \in Nat
      /\ Len(x.prefix) \in Nat /\ x.job \in JobChoices /\ x.fill \in Nat
  BY ReqFacts
<1>2. x.prefix = [i \in 1 .. Len(x.node) |-> T.slot[Take(x.node, i)]]
  BY DEF HolderAt
<1>3. DOMAIN x.prefix = 1 .. Len(x.node) /\ DOMAIN x.prefix = 1 .. Len(x.prefix)
  BY <1>1, <1>2, LenProperties
<1>4. Len(x.prefix) = Len(x.node)
  BY <1>1, <1>3
<1>5. \A i \in 1 .. Len(x.node) : Take(x.node, i) \in DOMAIN T.slot
  BY <1>1, NodePaths DEF HolderAt
<1>6. ASSUME NEW i \in 1 .. Len(x.node) PROVE Take(x.node, i) = Take(x.job.ids, i)
  <2>1. x.node = Take(x.job.ids, Len(x.node)) /\ x.fill \in 1 .. Len(x.job.ids) /\ Len(x.node) <= x.fill
    BY DEF HolderAt
  <2>2. x.job.ids \in Seq(Token) /\ Len(x.job.ids) \in Nat
    BY <1>1, JobFacts
  <2>3. PICK P \in Nat : P = Len(x.node)
    BY <1>1
  <2>4. P \in 0 .. Len(x.job.ids) /\ i \in 0 .. P
    BY <1>1, <2>1, <2>2, <2>3
  <2>5. Take(Take(x.job.ids, P), i) = Take(x.job.ids, i)
    BY <2>2, <2>4, TakeTake
  <2> QED
    BY <2>1, <2>3, <2>5
<1> QED
  BY <1>2, <1>3, <1>4, <1>5, <1>6

\* A request of the batch is computed on its own text.
LEMMA ContentIs ==
    ASSUME Shape(tree), CacheHonest, NEW r, req[r] \in Req, HolderAt(req[r], tree, kv),
           NEW n \in Len(req[r].node) + 1 .. Len(req[r].job.ids)
    PROVE  Content(r, n) = TextOf(req[r].job, n)
<1> DEFINE x == req[r]
           j == x.job
<1>1. x \in Req /\ HolderAt(x, tree, kv)
  OBVIOUS
<1>2. PICK P \in Nat : P = Len(x.node)
  BY <1>1, ReqFacts
<1>3. /\ Len(x.prefix) = P /\ DOMAIN x.prefix = 1 .. P
      /\ \A i \in 1 .. P : Take(x.node, i) \in DOMAIN tree.slot /\ x.prefix[i] = tree.slot[Take(x.node, i)]
      /\ \A i \in 1 .. P : kv[x.prefix[i]] = Take(x.node, i)
  <2>1. \A p \in DOMAIN tree.slot : kv[tree.slot[p]] = p
    BY DEF CacheHonest
  <2> HIDE DEF x, j
  <2>2. /\ Len(x.prefix) = Len(x.node) /\ DOMAIN x.prefix = 1 .. Len(x.node)
        /\ \A i \in 1 .. Len(x.node) :
             /\ Take(x.node, i) \in DOMAIN tree.slot /\ x.prefix[i] = tree.slot[Take(x.node, i)]
             /\ kv[x.prefix[i]] = Take(x.node, i)
    BY <1>1, <2>1, NodeTexts
  <2> QED
    BY <1>2, <2>2
<1>4. /\ x.node \in Seq(Token) /\ x.prefix \in Seq(Slots) /\ j \in JobChoices /\ x.node = Take(j.ids, P)
      /\ j.prefix_len > 0 => P < j.prefix_len
  BY <1>1, <1>2, ReqFacts DEF HolderAt
<1>5. Context(x.prefix) = Take(j.ids, P)
  <2>1. CASE P = 0
    <3>1. x.prefix = <<>> /\ x.node = <<>>
      BY <1>2, <1>3, <1>4, <2>1, EmptySeq
    <3> QED
      BY <1>4, <3>1 DEF Context
  <2>2. CASE P # 0
    <3>1. x.prefix # <<>> /\ P \in 1 .. P
      BY <1>3, <1>4, <2>2, EmptySeq
    <3>2. Last(x.prefix) = x.prefix[P]
      BY <1>3 DEF Last
    <3>3. kv[Last(x.prefix)] = x.node
      <4>1. Take(x.node, P) = x.node
        BY <1>2, <1>4, TakeEnds
      <4> QED
        BY <1>3, <3>1, <3>2, <4>1
    <3>4. \A i \in DOMAIN x.prefix : kv[x.prefix[i]] = Take(kv[Last(x.prefix)], i)
      BY <1>3, <3>3
    <3>5. Context(x.prefix) = x.node
      BY <3>1, <3>3, <3>4 DEF Context
    <3> QED
      BY <1>4, <3>5
  <2> QED
    BY <2>1, <2>2
<1>6. /\ j.ids \in Seq(Token) /\ Len(j.ids) \in Nat /\ j.prefix_len \in Nat /\ j.prefix_len < Len(j.ids)
  BY <1>4, JobFacts
<1>7. n \in 1 .. Len(j.ids) /\ n \in Nat /\ P < n /\ j.ids[n] \in Token
  BY <1>2, <1>6, ElementOfSeq
<1> DEFINE u == IF j.prefix_len > 0 /\ n > j.prefix_len THEN j.prefix_len ELSE n - 1
<1>8. u \in Nat /\ P <= u /\ u <= Len(j.ids)
  BY <1>4, <1>6, <1>7
<1>9. Content(r, n) = Take(j.ids, P) \o Append(SubSeq(j.ids, P + 1, u), j.ids[n])
  BY <1>3, <1>5 DEF Content, IsTreeValue, Ids, Protected
<1>a. PICK L \in Nat : L = Len(j.ids)
  BY <1>6
<1>b. PICK t \in Seq(Token) : t = j.ids
  BY <1>6
<1>c. PICK v \in Nat : v = u
  BY <1>8
<1> HIDE DEF u
<1>d. Take(t, P) \o Append(SubSeq(t, P + 1, v), t[n]) = Append(Take(t, v), t[n])
  <2>1. L = Len(t) /\ P <= v /\ v <= L
    BY <1>8, <1>a, <1>b, <1>c
  <2>2. PICK e \in Token : e = t[n]
    BY <1>7, <1>b
  <2>3. Joined(t, P, v, e) = Grown(t, v, e)
    BY <2>1, TextJoin
  <2> QED
    BY <2>2, <2>3 DEF Joined, Grown
<1>10. Content(r, n) = Append(Take(j.ids, u), j.ids[n])
  BY <1>9, <1>b, <1>c, <1>d
<1>11. CASE j.prefix_len > 0 /\ n > j.prefix_len
  BY <1>10, <1>11 DEF TextOf, u
<1>12. CASE ~(j.prefix_len > 0 /\ n > j.prefix_len)
  <2>1. Append(Take(j.ids, n - 1), j.ids[n]) = Take(j.ids, n)
    BY <1>6, <1>7, TakeNext
  <2> QED
    BY <1>10, <1>12, <2>1 DEF TextOf, u
<1> QED
  BY <1>11, <1>12

----------------------------------------------------------------------------
(* What the invariant says of requests and locks.                          *)

\* A token is unlocked when it is on no holder's way.
LEMMA UnlockedIs ==
    ASSUME NEW T, Shape(T), NEW H, IsFiniteSet(H), NEW N, LocksAt(T, H, N),
           \A r \in H : N[r] \in Seq(Token) /\ (N[r] # <<>> => N[r] \in Nodes(T))
    PROVE  Unlocked(T) = {p \in DOMAIN T.slot : \A r \in H : ~IsPrefix(p, N[r])}
<1> SUFFICES ASSUME NEW p \in DOMAIN T.slot
             PROVE  p \in Unlocked(T) <=> \A r \in H : ~IsPrefix(p, N[r])
  BY DEF Unlocked
<1>1. PICK e \in Nodes(T) : IsOwner(T, p, e)
  BY DEF Shape
<1>2. p \in Unlocked(T) <=> T.ref[e] = 0
  BY <1>1, OneOwner DEF Unlocked
<1>3. p \in Seq(Token) /\ p # <<>> /\ e \in Seq(Token)
  BY <1>1, Paths
<1>4. \A r \in H : IsPrefix(p, N[r]) => N[r] \in Nodes(T)
  BY <1>3, PrefixOrder
<1>5. \A r \in H : IsPrefix(p, N[r]) <=> IsPrefix(e, N[r])
  BY <1>1, <1>3, <1>4, PrefixOrder DEF IsOwner
<1> DEFINE A == {r \in H : IsPrefix(e, N[r])}
<1>6. T.ref[e] = Cardinality(A) /\ IsFiniteSet(A)
  BY <1>1, FS_Subset DEF LocksAt
<1>7. Cardinality(A) = 0 <=> A = {}
  BY <1>6, FS_EmptySet
<1> QED
  BY <1>2, <1>5, <1>6, <1>7

\* The locks of the tree, all of them counts.
LEMMA Basics ==
    ASSUME IInv
    PROVE  /\ Holders \subseteq Reqs /\ IsFiniteSet(Holders) /\ IsFiniteSet(Reqs)
           /\ \A r \in Reqs : req[r].state # "absent" => req[r] \in Req
           /\ \A r \in Holders : req[r] \in Req /\ NodeOf[r] = req[r].node /\ HolderAt(req[r], tree, kv)
           /\ \A r \in Holders : NodeOf[r] \in Seq(Token) /\ (NodeOf[r] # <<>> => NodeOf[r] \in Nodes(tree))
           /\ \A e \in Nodes(tree) : tree.ref[e] >= 0
           /\ ToSet(batch) \subseteq Reqs /\ \A r \in ToSet(batch) : r \in Holders
           /\ IsFiniteSet(free) /\ Cardinality(free) \in Nat
           /\ tree.evictable \in Nat /\ Available \in Nat
<1>1. Types
  BY DEF IInv
<1>2. ToSet(batch) \subseteq Reqs
  <2>1. batch \in Seq(Reqs)
    BY <1>1 DEF Types
  <2> QED
    BY <2>1, LenProperties, ElementOfSeq DEF ToSet
<1>3. IsFiniteSet(Reqs) /\ Holders \subseteq Reqs
  BY <1>2, ReqNames DEF Holders
<1>4. IsFiniteSet(Holders)
  BY <1>3, FS_Subset
<1>5. \A r \in Reqs : req[r].state # "absent" => req[r] \in Req
  BY <1>1 DEF Types, Absent
<1>6. \A r \in ToSet(batch) : req[r].state \in {"waiting", "running"} /\ r \in Holders
  <2>1. \A i \in DOMAIN batch : req[batch[i]].state \in {"waiting", "running"}
    BY DEF IInv, BatchOK
  <2> QED
    BY <2>1 DEF ToSet, Holders
<1>7. \A r \in Holders : req[r] \in Req /\ NodeOf[r] = req[r].node /\ HolderAt(req[r], tree, kv)
  <2> SUFFICES ASSUME NEW r \in Holders PROVE req[r] \in Req /\ NodeOf[r] = req[r].node /\ HolderAt(req[r], tree, kv)
    OBVIOUS
  <2>1. req[r].state # "absent"
    BY <1>6 DEF Holders
  <2> QED
    BY <1>3, <1>5, <2>1 DEF NodeOf, IInv, HoldersOK
<1>8. \A r \in Holders : NodeOf[r] \in Seq(Token) /\ (NodeOf[r] # <<>> => NodeOf[r] \in Nodes(tree))
  BY <1>7, ReqFacts DEF HolderAt
<1>9. \A e \in Nodes(tree) : tree.ref[e] >= 0
  <2> SUFFICES ASSUME NEW e \in Nodes(tree) PROVE tree.ref[e] \in Nat
    OBVIOUS
  <2>1. LocksAt(tree, Holders, NodeOf)
    BY DEF IInv, LocksOK
  <2> QED
    BY <1>4, <2>1, LockCounts
<1>10. IsFiniteSet(free) /\ Cardinality(free) \in Nat
  <2>1. IsFiniteSet(1 .. PoolSize)
    BY Sizes, FS_Interval
  <2>2. free \subseteq 1 .. PoolSize
    BY <1>1 DEF Types, Slots
  <2>3. IsFiniteSet(free)
    BY <2>1, <2>2, FS_Subset
  <2> QED
    BY <2>3, FS_CardinalityType
<1>11. tree.evictable \in Nat
  <2>1. Shape(tree) /\ Exact(tree)
    BY DEF IInv
  <2>2. Unlocked(tree) \subseteq DOMAIN tree.slot /\ IsFiniteSet(DOMAIN tree.slot)
    BY <2>1 DEF Unlocked, Shape
  <2>3. IsFiniteSet(Unlocked(tree))
    BY <2>2, FS_Subset
  <2>4. Cardinality(Unlocked(tree)) \in Nat
    BY <2>3, FS_CardinalityType
  <2> QED
    BY <2>1, <2>4 DEF Exact
<1>12. Available \in Nat
  BY <1>10, <1>11 DEF Available
<1> QED
  BY <1>2, <1>3, <1>4, <1>5, <1>6, <1>7, <1>8, <1>9, <1>10, <1>11, <1>12

\* Steps that leave the tree, the slots and the requests alone.
LEMMA QuietKeeps ==
    ASSUME IInv, tree' = tree, free' = free, kv' = kv, rows' = rows, req' = req, batch' = batch
    PROVE  /\ Holders' = Holders /\ Needed' = Needed /\ Available' = Available
           /\ Shape(tree)' /\ Exact(tree)' /\ HoldersOK' /\ SlotsOK' /\ CacheHonest' /\ LocksOK' /\ RowsOK'
<1>1. Holders' = Holders
  BY DEF Holders
<1>2. Needed' = Needed
  BY NeededIs, NeededNext
<1>3. Available' = Available
  BY DEF Available
<1>4. Shape(tree)' /\ Exact(tree)'
  BY DEF IInv
<1>5. HoldersOK'
  BY <1>1 DEF IInv, HoldersOK
<1>6. SlotsOK'
  BY DEF IInv, SlotsOK
<1>7. CacheHonest'
  BY DEF IInv, CacheHonest
<1>8. LocksOK'
  BY <1>1 DEF IInv, LocksOK, NodeOf
<1>9. RowsOK'
  BY DEF IInv, RowsOK
<1> QED
  BY <1>1, <1>2, <1>3, <1>4, <1>5, <1>6, <1>7, <1>8, <1>9

----------------------------------------------------------------------------
(* The steps of the loop that decide and change nothing else.              *)

\* Nothing to add.
LEMMA BeginNoneKeeps == IInv /\ BeginNone => IInv'
<1> SUFFICES ASSUME IInv, BeginNone PROVE IInv'
  OBVIOUS
<1>1. /\ overlap' = overlap /\ tree' = tree /\ free' = free /\ kv' = kv /\ rows' = rows /\ req' = req
      /\ batch' = batch /\ mode' = mode /\ offset' = offset /\ rem_chunk' = rem_chunk
      /\ chunked' = chunked /\ last' = last /\ results' = results
      /\ pc = "top" /\ pc' = "launch" /\ chunked = NONE /\ full' \in BOOLEAN /\ batch = <<>>
  BY DEF BeginNone, adder, IInv, BatchOK
<1>2. /\ Holders' = Holders /\ Needed' = Needed /\ Available' = Available
      /\ Shape(tree)' /\ Exact(tree)' /\ HoldersOK' /\ SlotsOK' /\ CacheHonest' /\ LocksOK' /\ RowsOK'
  BY <1>1, QuietKeeps
<1>3. Types'
  BY <1>1 DEF IInv, Types
<1>4. BatchOK'
  BY <1>1 DEF IInv, BatchOK
<1>5. ResultsOK'
  BY <1>1 DEF IInv, ResultsOK
<1>6. Counted'
  BY <1>1 DEF IInv, Counted
<1>7. ChunkedOK'
  BY <1>1, <1>2 DEF IInv, ChunkedOK, Ids
<1>8. RestOK'
  BY <1>1, <1>2 DEF IInv, RestOK
<1>9. Reserved'
  BY <1>1 DEF Reserved
<1> QED
  BY <1>2, <1>3, <1>4, <1>5, <1>6, <1>7, <1>8, <1>9 DEF IInv

\* A new adder.
LEMMA BeginNewKeeps == IInv /\ BeginNew => IInv'
<1> SUFFICES ASSUME IInv, BeginNew PROVE IInv'
  OBVIOUS
<1>1. /\ overlap' = overlap /\ tree' = tree /\ free' = free /\ kv' = kv /\ rows' = rows /\ req' = req
      /\ batch' = batch /\ offset' = 0 /\ rem_chunk' = ChunkSize
      /\ chunked' = chunked /\ last' = last /\ results' = results
      /\ pc = "top" /\ pc' = "adding" /\ chunked = NONE /\ full' \in BOOLEAN /\ batch = <<>>
      /\ mode' \in BOOLEAN
  <2>1. mode' \in BOOLEAN
    BY DEF BeginNew, IsTreeValue
  <2> QED
    BY <2>1 DEF BeginNew, IInv, BatchOK
<1>2. /\ Holders' = Holders /\ Needed' = Needed /\ Available' = Available
      /\ Shape(tree)' /\ Exact(tree)' /\ HoldersOK' /\ SlotsOK' /\ CacheHonest' /\ LocksOK' /\ RowsOK'
  BY <1>1, QuietKeeps
<1>3. Types'
  BY <1>1, Sizes DEF IInv, Types
<1>4. BatchOK'
  <2>1. DOMAIN batch = {}
    BY <1>1
  <2> QED
    BY <1>1, <2>1 DEF IInv, BatchOK
<1>5. ResultsOK'
  BY <1>1 DEF IInv, ResultsOK
<1>6. Counted'
  BY <1>1 DEF IInv, Counted
<1>7. ChunkedOK'
  BY <1>1, <1>2 DEF IInv, ChunkedOK, Ids
<1>8. RestOK'
  BY <1>1, <1>2 DEF IInv, RestOK
<1>9. Reserved'
  <2>1. ToSet(batch) = {}
    BY <1>1 DEF ToSet
  <2>2. IsFiniteSet({}) /\ \A r \in {} : Extent(req, r) \in Nat
    BY FS_EmptySet
  <2>3. Extents(req, {}) = 0
    BY <2>2, ExtentsSum
  <2>4. Needed' = 0
    BY <1>2, <2>1, <2>3, NeededIs
  <2> QED
    BY <1>1, <2>4 DEF Reserved
<1> QED
  BY <1>2, <1>3, <1>4, <1>5, <1>6, <1>7, <1>8, <1>9 DEF IInv

\* The loop over the waiting queue ends.
LEMMA StopAddingKeeps ==
    ASSUME IInv, pc = "adding", pc' = "launch", full' \in BOOLEAN,
           UNCHANGED <<overlap, tree, free, kv, rows, req, adder, chunked, last, results, crashed>>
    PROVE  IInv'
<1>1. /\ overlap' = overlap /\ tree' = tree /\ free' = free /\ kv' = kv /\ rows' = rows /\ req' = req
      /\ batch' = batch /\ mode' = mode /\ offset' = offset /\ rem_chunk' = rem_chunk
      /\ chunked' = chunked /\ last' = last /\ results' = results
      /\ pc = "adding" /\ pc' = "launch" /\ full' \in BOOLEAN
  BY DEF adder
<1>2. /\ Holders' = Holders /\ Needed' = Needed /\ Available' = Available
      /\ Shape(tree)' /\ Exact(tree)' /\ HoldersOK' /\ SlotsOK' /\ CacheHonest' /\ LocksOK' /\ RowsOK'
  BY <1>1, QuietKeeps
<1>3. Types'
  BY <1>1 DEF IInv, Types
<1>4. BatchOK'
  BY <1>1 DEF IInv, BatchOK
<1>5. ResultsOK'
  BY <1>1 DEF IInv, ResultsOK
<1>6. Counted'
  BY <1>1 DEF IInv, Counted
<1>7. ChunkedOK'
  BY <1>1, <1>2 DEF IInv, ChunkedOK, Ids
<1>8. RestOK'
  BY <1>1, <1>2 DEF IInv, RestOK
<1>9. Reserved'
  BY <1>1, <1>2 DEF IInv, Reserved, Ids
<1> QED
  BY <1>2, <1>3, <1>4, <1>5, <1>6, <1>7, <1>8, <1>9 DEF IInv

\* No batch: with overlap the last one may still be due.
LEMMA LaunchNoneKeeps == IInv /\ LaunchNone => IInv'
<1> SUFFICES ASSUME IInv, LaunchNone PROVE IInv'
  OBVIOUS
<1>1. /\ overlap' = overlap /\ tree' = tree /\ free' = free /\ kv' = kv /\ rows' = rows /\ req' = req
      /\ batch' = batch /\ mode' = mode /\ offset' = offset /\ rem_chunk' = rem_chunk
      /\ chunked' = chunked /\ last' = NoBatch /\ results' = results /\ full' = full
      /\ pc = "launch" /\ pc' \in {"process", "top"} /\ batch = <<>>
      /\ pc' = "process" <=> (overlap /\ last.reqs # <<>>)
  BY DEF LaunchNone, adder, Due
<1>2. /\ Holders' = Holders /\ Needed' = Needed /\ Available' = Available
      /\ Shape(tree)' /\ Exact(tree)' /\ HoldersOK' /\ SlotsOK' /\ CacheHonest' /\ LocksOK' /\ RowsOK'
  BY <1>1, QuietKeeps
<1>3. chunked = NONE
  BY <1>1 DEF IInv, ChunkedOK, ToSet
<1>4. Types'
  <2>1. NoBatch \in [reqs : Seq(Reqs), chunked : Reqs \cup {NONE}]
    BY EmptySeq DEF NoBatch
  <2> QED
    BY <1>1, <2>1 DEF IInv, Types
<1>5. BatchOK'
  BY <1>1 DEF IInv, BatchOK
<1>6. ResultsOK'
  <2>1. overlap \in BOOLEAN /\ last'.reqs = <<>>
    BY <1>1 DEF IInv, Types, NoBatch
  <2>2. CASE overlap /\ last.reqs # <<>>
    <3>1. results = <<last.reqs>>
      BY <1>1, <2>2 DEF IInv, ResultsOK
    <3>2. Len(results) = 1 /\ pc' = "process"
      BY <1>1, <2>2, <3>1
    <3> QED
      BY <1>1, <2>1, <3>2 DEF IInv, ResultsOK
  <2>3. CASE ~(overlap /\ last.reqs # <<>>)
    <3>1. results = <<>> /\ pc' # "process"
      BY <1>1, <2>1, <2>3 DEF IInv, ResultsOK
    <3> QED
      BY <1>1, <2>1, <3>1 DEF IInv, ResultsOK
  <2> QED
    BY <2>2, <2>3
<1>7. Counted'
  BY <1>1 DEF IInv, Counted
<1>8. ChunkedOK'
  BY <1>1, <1>2, <1>3 DEF IInv, ChunkedOK, Ids
<1>9. RestOK'
  BY <1>1, <1>2 DEF IInv, RestOK
<1>10. Reserved'
  BY <1>1, <1>3 DEF Reserved
<1> QED
  BY <1>2, <1>4, <1>5, <1>6, <1>7, <1>8, <1>9, <1>10 DEF IInv

----------------------------------------------------------------------------
(* Arrivals and aborts.                                                    *)

\* A split disturbs nobody.
LEMMA SplitKeeps ==
    ASSUME IInv, NEW key \in Seq(Token), NEW S, S = match_prefix(tree, key)
    PROVE  /\ Shape(S) /\ Exact(S) /\ S.slot = tree.slot /\ S.evictable = tree.evictable
           /\ Nodes(S) = Nodes(tree) \cup ({Take(key, MatchLen(tree, key))} \ {<<>>})
           /\ LocksAt(S, Holders, NodeOf)
           /\ \A h \in Holders : HolderAt(req[h], S, kv)
<1>1. Shape(tree) /\ Exact(tree) /\ LocksAt(tree, Holders, NodeOf)
  BY DEF IInv, LocksOK
<1>2. /\ Shape(S) /\ S.slot = tree.slot /\ S.evictable = tree.evictable /\ S.protected = tree.protected
      /\ Nodes(S) = Nodes(tree) \cup ({Take(key, MatchLen(tree, key))} \ {<<>>})
      /\ \A e \in Nodes(S) : \E f \in Nodes(tree) : S.ref[e] = tree.ref[f] /\ IsOwner(tree, e, f)
      /\ Unlocked(S) = Unlocked(tree)
  BY <1>1, MatchEffect
<1>3. Exact(S)
  BY <1>1, <1>2 DEF Exact
<1>4. LocksAt(S, Holders, NodeOf)
  BY <1>1, <1>2, Basics, LocksNewNodes
<1>5. ASSUME NEW h \in Holders PROVE HolderAt(req[h], S, kv)
  <2>1. req[h] \in Req /\ HolderAt(req[h], tree, kv)
    BY Basics
  <2>2. req[h].node # <<>> => req[h].node \in Nodes(S)
    BY <1>2, <2>1 DEF HolderAt
  <2> QED
    BY <1>2, <2>1, <2>2, HolderStays
<1> QED
  BY <1>2, <1>3, <1>4, <1>5

\* Requests without slots own none.
LEMMA NoRow ==
    ASSUME NEW q, NEW r, q[r] \in Req, q[r].row = <<>>
    PROVE  /\ \A s : ~OwnsAt(q, r, s)
           /\ \A i \in Len(q[r].node) + 1 .. Len(q[r].row) : FALSE
<1>1. PICK P \in Nat : P = Len(q[r].node)
  BY ReqFacts
<1>2. Len(q[r].row) = 0
  BY EmptySeq
<1>3. \A i \in Len(q[r].node) + 1 .. Len(q[r].row) : FALSE
  BY <1>1, <1>2
<1> QED
  BY <1>3 DEF OwnsAt

\* Slots have the same use when the tree has the same tokens and no request
\* with slots changes.
LEMMA SlotsSame ==
    ASSUME NEW f, NEW T, NEW q, SlotsAt(f, T, q), NEW U, U.slot = T.slot, NEW z,
           \A r \in Reqs : \/ z[r] = q[r]
                           \/ /\ z[r] \in Req /\ z[r].row = <<>>
                              /\ q[r].state = "absent" \/ (q[r] \in Req /\ q[r].row = <<>>)
    PROVE  SlotsAt(f, U, z)
<1>1. \A s : CachedAt(U, s) <=> CachedAt(T, s)
  BY DEF CachedAt
<1>2. ASSUME NEW r \in Reqs, NEW s PROVE OwnsAt(z, r, s) <=> OwnsAt(q, r, s)
  <2>1. CASE z[r] = q[r]
    BY <2>1 DEF OwnsAt
  <2>2. CASE z[r] # q[r]
    <3>1. ~OwnsAt(z, r, s)
      BY <2>2, NoRow
    <3>2. ~OwnsAt(q, r, s)
      BY <2>2, NoRow DEF OwnsAt
    <3> QED
      BY <3>1, <3>2
  <2> QED
    BY <2>1, <2>2
<1>3. ASSUME NEW r \in Reqs, z[r].state # "absent",
             NEW i \in Len(z[r].node) + 1 .. Len(z[r].row), NEW k \in Len(z[r].node) + 1 .. Len(z[r].row),
             z[r].row[i] = z[r].row[k]
      PROVE  i = k
  <2>1. z[r] = q[r]
    BY NoRow
  <2> QED
    BY <1>3, <2>1 DEF SlotsAt
<1> QED
  BY <1>1, <1>2, <1>3 DEF SlotsAt

\* A request that holds nothing arrives or goes.
LEMMA OtherKeeps ==
    ASSUME IInv, pc = "top", NEW r \in Reqs, NEW x \in Req,
           x.state \in {"waiting", "aborted"}, req[r].state \in {"absent", "waiting"},
           x.row = <<>>, x.prefix = <<>>, x.node = <<>>, x.is_chunked = 0,
           req' = [req EXCEPT ![r] = x], NEW key \in Seq(Token),
           tree' = tree \/ tree' = match_prefix(tree, key),
           UNCHANGED <<overlap, pc, free, kv, rows, adder, full, chunked, last, results, crashed>>
    PROVE  IInv'
<1>1. /\ overlap' = overlap /\ pc' = pc /\ free' = free /\ kv' = kv /\ rows' = rows
      /\ batch' = batch /\ mode' = mode /\ offset' = offset /\ rem_chunk' = rem_chunk /\ full' = full
      /\ chunked' = chunked /\ last' = last /\ results' = results
      /\ batch = <<>> /\ ToSet(batch) = {}
  BY DEF adder, IInv, BatchOK, ToSet
<1>2. /\ req' \in [Reqs -> Req \cup {Absent}] /\ req'[r] = x /\ \A h \in Reqs : h # r => req'[h] = req[h]
      /\ req \in [Reqs -> Req \cup {Absent}]
  BY DEF IInv, Types
<1>3. r \notin Holders /\ Holders' = Holders
  BY <1>1, <1>2 DEF Holders
<1>4. /\ Shape(tree') /\ Exact(tree') /\ tree'.slot = tree.slot /\ tree'.evictable = tree.evictable
      /\ LocksAt(tree', Holders, NodeOf) /\ \A h \in Holders : HolderAt(req[h], tree', kv)
  <2>1. CASE tree' = tree
    BY <2>1 DEF IInv, LocksOK, HoldersOK
  <2>2. CASE tree' = match_prefix(tree, key)
    BY <2>2, SplitKeeps
  <2> QED
    BY <2>1, <2>2
<1>5. \A h \in Holders : h \in Reqs /\ h # r /\ req'[h] = req[h] /\ req[h] \in Req
  BY <1>2, <1>3, Basics
<1>6. Types'
  BY <1>1, <1>2 DEF IInv, Types
<1>7. BatchOK'
  BY <1>1 DEF IInv, BatchOK
<1>8. ResultsOK'
  BY <1>1 DEF IInv, ResultsOK
<1>9. Counted'
  <2> SUFFICES ASSUME NEW h \in Reqs
               PROVE  /\ req'[h].state = "running" =>
                            Open(results, h) = req'[h].is_chunked + (IF h = chunked \/ h \in ToSet(batch) THEN 0 ELSE 1)
                      /\ req'[h].state # "running" => Open(results, h) = 0
                      /\ req'[h].state \notin {"running", "absent"} => req'[h].is_chunked = 0
    BY <1>1 DEF Counted
  <2>1. CASE h = r
    BY <1>2, <2>1 DEF IInv, Counted
  <2>2. CASE h # r
    BY <1>2, <2>2 DEF IInv, Counted
  <2> QED
    BY <2>1, <2>2
<1>10. ChunkedOK'
  <2>1. chunked # NONE => chunked \in Reqs /\ chunked # r /\ req'[chunked] = req[chunked]
    BY <1>2, <1>1 DEF IInv, Types, ChunkedOK
  <2> QED
    BY <1>1, <1>3, <1>5, <2>1 DEF IInv, ChunkedOK, Ids
<1>11. HoldersOK'
  BY <1>1, <1>3, <1>4, <1>5 DEF HoldersOK
<1>12. RestOK'
  <2> SUFFICES ASSUME NEW h \in Reqs
               PROVE /\ req'[h].state # "absent" /\ h \notin Holders =>
                            req'[h].row = <<>> /\ req'[h].prefix = <<>> /\ req'[h].node = <<>>
                     /\ req'[h].state = "running" => req'[h].row # <<>>
                     /\ req'[h].state = "done" => req'[h].value = Expected(req'[h].job)
    BY <1>1, <1>3 DEF RestOK
  <2>1. CASE h = r
    BY <1>2, <2>1
  <2>2. CASE h # r
    BY <1>1, <1>2, <2>2 DEF IInv, RestOK
  <2> QED
    BY <2>1, <2>2
<1>13. SlotsOK'
  <2>1. SlotsAt(free, tree, req)
    BY DEF IInv, SlotsOK
  <2>2. req[r].state = "absent" \/ (req[r] \in Req /\ req[r].row = <<>>)
    BY <1>3, Basics DEF IInv, RestOK
  <2>3. \A h \in Reqs : \/ req'[h] = req[h]
                        \/ /\ req'[h] \in Req /\ req'[h].row = <<>>
                           /\ req[h].state = "absent" \/ (req[h] \in Req /\ req[h].row = <<>>)
    BY <1>2, <2>2
  <2>4. SlotsAt(free, tree', req')
    BY <1>4, <2>1, <2>3, SlotsSame
  <2> QED
    BY <1>1, <2>4 DEF SlotsOK
<1>14. CacheHonest'
  BY <1>1, <1>4 DEF IInv, CacheHonest
<1>15. LocksOK'
  <2>1. \A h \in Holders : NodeOf'[h] = NodeOf[h]
    BY <1>3, <1>5 DEF NodeOf
  <2>2. LocksAt(tree', Holders, NodeOf')
    BY <1>4, <2>1, LocksSame
  <2> QED
    BY <1>3, <2>2 DEF LocksOK
<1>16. Reserved'
  <2>1. Available' = Available
    BY <1>1, <1>4 DEF Available
  <2>2. chunked # NONE => chunked \in Reqs /\ chunked # r /\ req'[chunked] = req[chunked]
    BY <1>2, <1>1 DEF IInv, Types, ChunkedOK
  <2> QED
    BY <1>1, <2>1, <2>2 DEF IInv, Reserved, Ids
<1>17. RowsOK'
  <2>1. {h \in Reqs : HasRow(req', h)} = {h \in Reqs : HasRow(req, h)}
    <3>1. ~HasRow(req', r) /\ ~HasRow(req, r)
      BY <1>2, <1>3 DEF HasRow, IInv, RestOK
    <3>2. \A h \in Reqs : h # r => (HasRow(req', h) <=> HasRow(req, h))
      BY <1>2 DEF HasRow
    <3> QED
      BY <3>1, <3>2
  <2> QED
    BY <1>1, <2>1 DEF IInv, RowsOK
<1> QED
  BY <1>4, <1>6, <1>7, <1>8, <1>9, <1>10, <1>11, <1>12, <1>13, <1>14, <1>15, <1>16, <1>17 DEF IInv

\* What may be matched of a job.
LEMMA MatchKeyFacts ==
    ASSUME NEW j \in JobChoices
    PROVE  \E n \in Nat : /\ MatchKey(j) = Take(j.ids, n) /\ n < Len(j.ids) /\ MatchKey(j) \in Seq(Token)
                          /\ Len(MatchKey(j)) = n /\ (j.prefix_len > 0 => n < j.prefix_len)
<1>1. /\ j.ids \in Seq(Token) /\ Len(j.ids) \in Nat /\ Len(j.ids) >= 1
      /\ j.prefix_len \in Nat /\ j.prefix_len < Len(j.ids)
  BY JobFacts
<1> DEFINE n == IF j.prefix_len > 0 THEN j.prefix_len - 1 ELSE Len(j.ids) - 1
<1>2. n \in Nat /\ n < Len(j.ids) /\ (j.prefix_len > 0 => n < j.prefix_len) /\ n \in 0 .. Len(j.ids)
  BY <1>1
<1>3. MatchKey(j) = Take(j.ids, n)
  BY DEF MatchKey
<1> HIDE DEF n
<1>4. Take(j.ids, n) \in Seq(Token) /\ Len(Take(j.ids, n)) = n
  BY <1>1, <1>2, TakeFacts
<1> QED
  BY <1>2, <1>3, <1>4

\* A request arrives, and its prefix may split a node.
LEMMA ArriveKeeps ==
    ASSUME IInv, NEW r \in Reqs, NEW j \in JobChoices, Arrive(r, j)
    PROVE  IInv'
<1>1. NewReq(j) \in Req
  <2>1. <<>> \in Seq(Slots) /\ <<>> \in Seq(Token)
    BY EmptySeq
  <2> QED
    BY <2>1 DEF NewReq, Req, States
<1>2. /\ NewReq(j).state = "waiting" /\ NewReq(j).row = <<>> /\ NewReq(j).prefix = <<>>
      /\ NewReq(j).node = <<>> /\ NewReq(j).is_chunked = 0
  BY DEF NewReq
<1>3. MatchKey(j) \in Seq(Token)
  BY MatchKeyFacts
<1>4. /\ pc = "top" /\ req[r].state = "absent" /\ req' = [req EXCEPT ![r] = NewReq(j)]
      /\ tree' = tree \/ tree' = match_prefix(tree, MatchKey(j))
      /\ UNCHANGED <<overlap, pc, free, kv, rows, adder, full, chunked, last, results, crashed>>
  BY DEF Arrive
<1> QED
  BY <1>1, <1>2, <1>3, <1>4, OtherKeeps

\* A waiting request is aborted.
LEMMA AbortKeeps ==
    ASSUME IInv, NEW r \in Reqs, Abort(r)
    PROVE  IInv'
<1> DEFINE x == [req[r] EXCEPT !.state = "aborted"]
<1>1. /\ pc = "top" /\ req[r].state = "waiting" /\ req' = [req EXCEPT ![r] = x]
      /\ tree' = tree
      /\ UNCHANGED <<overlap, pc, free, kv, rows, adder, full, chunked, last, results, crashed>>
  BY DEF Abort, Waiting
<1>2. req[r] \in Req /\ r \notin Holders
  BY <1>1, Basics DEF IInv, BatchOK, Holders, ToSet
<1>3. x \in Req /\ x.state = "aborted"
  BY <1>2 DEF Req, States
<1>4. x.row = req[r].row /\ x.prefix = req[r].prefix /\ x.node = req[r].node /\ x.is_chunked = req[r].is_chunked
  BY <1>2 DEF Req
<1>5. req[r].row = <<>> /\ req[r].prefix = <<>> /\ req[r].node = <<>> /\ req[r].is_chunked = 0
  BY <1>1, <1>2 DEF IInv, RestOK, Counted
<1>6. <<>> \in Seq(Token)
  BY EmptySeq
<1> HIDE DEF x
<1> QED
  BY <1>1, <1>3, <1>4, <1>5, <1>6, OtherKeeps

----------------------------------------------------------------------------
(* A request is added to the batch.                                        *)

\* A batch with one request more.
LEMMA AppendOnce ==
    ASSUME NEW S, NEW b \in Seq(S), Once(b), NEW r \in S, r \notin ToSet(b), NEW n \in Nat, n = Len(b)
    PROVE  /\ Append(b, r) \in Seq(S) /\ Len(Append(b, r)) = n + 1 /\ Append(b, r) # <<>>
           /\ ToSet(Append(b, r)) = ToSet(b) \cup {r} /\ Once(Append(b, r))
           /\ DOMAIN Append(b, r) = 1 .. n + 1
           /\ Append(b, r)[n + 1] = r /\ \A i \in 1 .. n : Append(b, r)[i] = b[i] /\ i \in DOMAIN b
<1> DEFINE t == Append(b, r)
<1>1. t \in Seq(S) /\ Len(t) = n + 1 /\ t[n + 1] = r /\ \A i \in 1 .. n : t[i] = b[i]
  BY AppendProperties
<1>2. DOMAIN b = 1 .. n /\ DOMAIN t = 1 .. n + 1
  BY <1>1, LenProperties
<1> HIDE DEF t
<1>3. t # <<>>
  BY <1>1, EmptySeq
<1>4. \A i \in 1 .. n + 1 : i \in 1 .. n \/ i = n + 1
  OBVIOUS
<1>5. \A i \in 1 .. n : i \in 1 .. n + 1 /\ i # n + 1
  OBVIOUS
<1>6. ToSet(t) = ToSet(b) \cup {r}
  <2>1. \A i \in 1 .. n + 1 : t[i] \in ToSet(b) \cup {r}
    BY <1>1, <1>2, <1>4 DEF ToSet
  <2>2. \A e \in ToSet(b) : \E i \in 1 .. n + 1 : t[i] = e
    BY <1>1, <1>2, <1>5 DEF ToSet
  <2>3. n + 1 \in 1 .. n + 1
    OBVIOUS
  <2> QED
    BY <1>1, <1>2, <2>1, <2>2, <2>3 DEF ToSet
<1>7. Once(t)
  <2> SUFFICES ASSUME NEW i \in 1 .. n + 1, NEW k \in 1 .. n + 1, t[i] = t[k] PROVE i = k
    BY <1>2 DEF Once
  <2>1. \A m \in 1 .. n : t[m] # r
    BY <1>1, <1>2 DEF ToSet
  <2>2. CASE i \in 1 .. n /\ k \in 1 .. n
    BY <1>1, <1>2, <2>2 DEF Once
  <2> QED
    BY <1>1, <1>4, <2>1, <2>2
<1> QED
  BY <1>1, <1>2, <1>3, <1>6, <1>7 DEF t

\* Sums of extents depend on the requests they add only.
LEMMA ExtentsSame ==
    ASSUME NEW q, NEW z, NEW X, IsFiniteSet(X), \A r \in X : Extent(q, r) \in Nat /\ Extent(z, r) = Extent(q, r)
    PROVE  Extents(z, X) = Extents(q, X)
<1>1. Cells(z, X) = Cells(q, X)
  BY DEF Cells
<1>2. Extents(q, X) = Cardinality(Union(Cells(q, X), X))
  BY ExtentsCount
<1>3. Extents(z, X) = Cardinality(Union(Cells(z, X), X))
  <2>1. \A r \in X : Extent(z, r) \in Nat
    OBVIOUS
  <2> QED
    BY <2>1, ExtentsCount
<1> QED
  BY <1>1, <1>2, <1>3

\* A holder's prefix is as long as its node.
LEMMA HolderExtent ==
    ASSUME NEW T, NEW k, NEW q, NEW r, q[r] \in Req, HolderAt(q[r], T, k)
    PROVE  /\ Len(q[r].prefix) = Len(q[r].node) /\ Extent(q, r) = q[r].fill - Len(q[r].node)
           /\ Extent(q, r) \in Nat
<1> DEFINE x == q[r]
<1>1. x.prefix = [i \in 1 .. Len(x.node) |-> T.slot[Take(x.node, i)]] /\ Len(x.node) <= x.fill
  BY DEF HolderAt
<1>2. x.prefix \in Seq(Slots) /\ Len(x.prefix) \in Nat /\ Len(x.node) \in Nat /\ x.fill \in Nat
  BY ReqFacts
<1>3. DOMAIN x.prefix = 1 .. Len(x.node) /\ DOMAIN x.prefix = 1 .. Len(x.prefix)
  BY <1>1, <1>2, LenProperties
<1>4. Len(x.prefix) = Len(x.node)
  BY <1>2, <1>3
<1> QED
  BY <1>1, <1>2, <1>4 DEF Extent

\* The prefix match of a request that is to be added.
LEMMA AddMatch ==
    ASSUME IInv, NEW j \in JobChoices, NEW node, node = Take(MatchKey(j), MatchLen(tree, MatchKey(j))),
           NEW T, T = match_prefix(tree, node)
    PROVE  /\ node \in Seq(Token) /\ Len(node) \in Nat /\ Len(node) < Len(j.ids)
           /\ j.prefix_len > 0 => Len(node) < j.prefix_len
           /\ node = Take(j.ids, Len(node))
           /\ node # <<>> => node \in Nodes(T)
<1>1. Shape(tree) /\ j.ids \in Seq(Token) /\ Len(j.ids) \in Nat
  BY JobFacts DEF IInv
<1>2. PICK n \in Nat : /\ MatchKey(j) = Take(j.ids, n) /\ n < Len(j.ids) /\ MatchKey(j) \in Seq(Token)
                       /\ Len(MatchKey(j)) = n /\ (j.prefix_len > 0 => n < j.prefix_len)
  BY MatchKeyFacts
<1>3. PICK m \in Nat : m = MatchLen(tree, MatchKey(j)) /\ m <= n
  BY <1>1, <1>2, MatchIs
<1>4. node \in DOMAIN tree.slot \cup {<<>>} /\ node \in Seq(Token) /\ Len(node) = m
  BY <1>1, <1>2, <1>3, MatchIs
<1>5. node = Take(j.ids, m)
  <2>1. n \in 0 .. Len(j.ids) /\ m \in 0 .. n
    BY <1>1, <1>2, <1>3
  <2> QED
    BY <1>1, <1>2, <1>3, <2>1, TakeTake
<1>6. MatchLen(tree, node) = m
  <2>1. /\ MatchLen(tree, node) \in 0 .. m
        /\ \A i \in 1 .. m : Take(node, i) \in DOMAIN tree.slot <=> i <= MatchLen(tree, node)
    BY <1>1, <1>4, MatchIs
  <2>2. CASE m = 0
    BY <2>1, <2>2
  <2>3. CASE m # 0
    <3>1. node # <<>> /\ Take(node, m) = node /\ m \in 1 .. m
      BY <1>4, <2>3, TakeEnds
    <3>2. m <= MatchLen(tree, node)
      BY <1>4, <2>1, <3>1
    <3> QED
      BY <2>1, <3>2
  <2> QED
    BY <2>2, <2>3
<1>7. Take(node, MatchLen(tree, node)) = node
  BY <1>4, <1>6, TakeEnds
<1>8. Nodes(T) = Nodes(tree) \cup ({node} \ {<<>>})
  BY <1>1, <1>4, <1>7, MatchEffect
<1>9. PICK l \in Nat : l = Len(j.ids)
  BY <1>1
<1>10. m < l /\ (j.prefix_len > 0 => m < j.prefix_len)
  <2>1. j.prefix_len \in Nat
    BY JobFacts
  <2> QED
    BY <1>2, <1>3, <1>9, <2>1
<1> QED
  BY <1>4, <1>5, <1>8, <1>9, <1>10

\* No row, or not enough tokens.
LEMMA AddNoneKeeps ==
    ASSUME IInv, pc = "adding", pc' = "launch", full' = TRUE, NEW key \in Seq(Token),
           tree' = tree \/ tree' = match_prefix(tree, key),
           UNCHANGED <<overlap, free, kv, rows, req, adder, chunked, last, results, crashed>>
    PROVE  IInv'
<1>1. /\ overlap' = overlap /\ free' = free /\ kv' = kv /\ rows' = rows /\ req' = req
      /\ batch' = batch /\ mode' = mode /\ offset' = offset /\ rem_chunk' = rem_chunk
      /\ chunked' = chunked /\ last' = last /\ results' = results
      /\ pc = "adding" /\ pc' = "launch" /\ full' = TRUE
  BY DEF adder
<1>2. /\ Shape(tree') /\ Exact(tree') /\ tree'.slot = tree.slot /\ tree'.evictable = tree.evictable
      /\ LocksAt(tree', Holders, NodeOf) /\ \A h \in Holders : HolderAt(req[h], tree', kv)
  <2>1. CASE tree' = tree
    BY <2>1 DEF IInv, LocksOK, HoldersOK
  <2>2. CASE tree' = match_prefix(tree, key)
    BY <2>2, SplitKeeps
  <2> QED
    BY <2>1, <2>2
<1>3. Holders' = Holders /\ NodeOf' = NodeOf /\ Needed' = Needed /\ Available' = Available
  <2>1. Holders' = Holders
    BY <1>1 DEF Holders
  <2> QED
    BY <1>1, <1>2, <2>1, NeededIs, NeededNext DEF NodeOf, Available
<1>4. Types'
  BY <1>1 DEF IInv, Types
<1>5. BatchOK'
  BY <1>1 DEF IInv, BatchOK
<1>6. ResultsOK'
  BY <1>1 DEF IInv, ResultsOK
<1>7. Counted'
  BY <1>1 DEF IInv, Counted
<1>8. ChunkedOK'
  BY <1>1, <1>3 DEF IInv, ChunkedOK, Ids
<1>9. RestOK'
  BY <1>1, <1>3 DEF IInv, RestOK
<1>10. Reserved'
  BY <1>1, <1>3 DEF IInv, Reserved, Ids
<1>11. HoldersOK' /\ LocksOK'
  BY <1>1, <1>2, <1>3 DEF HoldersOK, LocksOK
<1>12. SlotsOK'
  <2>1. SlotsAt(free, tree, req)
    BY DEF IInv, SlotsOK
  <2>2. SlotsAt(free, tree', req)
    BY <1>2, <2>1, SlotsSame
  <2> QED
    BY <1>1, <2>2 DEF SlotsOK
<1>13. CacheHonest'
  BY <1>1, <1>2 DEF IInv, CacheHonest
<1>14. RowsOK'
  BY <1>1 DEF IInv, RowsOK
<1> QED
  BY <1>2, <1>4, <1>5, <1>6, <1>7, <1>8, <1>9, <1>10, <1>11, <1>12, <1>13, <1>14 DEF IInv

\* The third branch of AddOne.
AddSome(r, node, T, todo, extend) ==
    /\ pc = "adding" /\ r \in Candidates
    /\ node = Take(MatchKey(req[r].job), MatchLen(tree, MatchKey(req[r].job)))
    /\ T = match_prefix(tree, node)
    /\ todo = Len(Ids(r)) - Len(node)
    /\ extend = (IF mode THEN todo ELSE Min({todo, rem_chunk}))
    /\ Len(batch) < rows /\ Fits(T, node, todo) /\ extend > 0
    /\ tree' = inc_lock_ref(T, node)
    /\ req' = [req EXCEPT ![r].prefix = [i \in 1 .. Len(node) |-> T.slot[Take(node, i)]],
                          ![r].node = node, ![r].fill = Len(node) + extend]
    /\ batch' = Append(batch, r)
    /\ offset' = offset + extend
    /\ rem_chunk' = (IF mode THEN rem_chunk ELSE rem_chunk - extend)
    /\ chunked' = (IF extend < todo THEN r ELSE chunked)
    /\ pc' = (IF extend < todo THEN "launch" ELSE pc)
    /\ UNCHANGED <<mode, full, crashed, overlap, free, kv, rows, last, results>>

\* A request is added, in part when the chunk is used up.
LEMMA AddSomeKeeps ==
    ASSUME IInv, NEW r \in Reqs, NEW node, NEW T, NEW todo, NEW extend, AddSome(r, node, T, todo, extend)
    PROVE  IInv'
<1> DEFINE j == req[r].job
           x == req'[r]
           a == [i \in 1 .. Len(node) |-> T.slot[Take(node, i)]]
           L == tree'
<1>1. /\ overlap' = overlap /\ free' = free /\ kv' = kv /\ rows' = rows /\ last' = last /\ results' = results
      /\ mode' = mode /\ full' = full
  BY DEF AddSome
<1>a. /\ pc = "adding" /\ r \in Candidates
      /\ node = Take(MatchKey(j), MatchLen(tree, MatchKey(j))) /\ T = match_prefix(tree, node)
  BY DEF AddSome
<1>b. todo = Len(j.ids) - Len(node)
  BY DEF AddSome, Ids
<1>c. extend > 0 /\ (mode => extend = todo) /\ (~mode => extend = Min({todo, rem_chunk}))
  BY DEF AddSome
<1>d. Len(batch) < rows /\ Fits(T, node, todo) /\ L = inc_lock_ref(T, node) /\ batch' = Append(batch, r)
  BY DEF AddSome
<1>e. /\ offset' = offset + extend /\ rem_chunk' = (IF mode THEN rem_chunk ELSE rem_chunk - extend)
      /\ (extend < todo => chunked' = r /\ pc' = "launch")
      /\ (~(extend < todo) => chunked' = chunked /\ pc' = pc)
  BY DEF AddSome
<1>f. req' = [req EXCEPT ![r].prefix = a, ![r].node = node, ![r].fill = Len(node) + extend]
  BY DEF AddSome
<1> HIDE DEF j, x, a, L
<1>2. Types /\ BatchOK /\ ResultsOK /\ Counted /\ ChunkedOK /\ RestOK /\ SlotsOK /\ CacheHonest /\ Reserved /\ RowsOK
  BY DEF IInv
<1>3. /\ req[r].state = "waiting" /\ r \notin ToSet(batch) /\ (j.prefix_len > 0) = mode
      /\ req[r] \in Req /\ r \notin Holders /\ j \in JobChoices
  <2>1. req[r].state = "waiting" /\ r \notin ToSet(batch) /\ (j.prefix_len > 0) = mode
    BY <1>a DEF Candidates, Waiting, IsTreeValue, ToSet, j
  <2>2. req[r] \in Req
    BY <2>1, Basics
  <2> QED
    BY <2>1, <2>2, ReqFacts DEF Holders, j
<1>4. PICK P \in Nat : P = Len(node)
  BY <1>3, <1>a, AddMatch
<1>5. PICK l \in Nat : l = Len(j.ids)
  BY <1>3, JobFacts
<1>6. /\ node \in Seq(Token) /\ P < l /\ (j.prefix_len > 0 => P < j.prefix_len)
      /\ node = Take(j.ids, P) /\ (node # <<>> => node \in Nodes(T))
  BY <1>3, <1>4, <1>5, <1>a, AddMatch
<1>7. /\ Shape(T) /\ Exact(T) /\ T.slot = tree.slot /\ T.evictable = tree.evictable
      /\ Nodes(tree) \subseteq Nodes(T) /\ LocksAt(T, Holders, NodeOf)
      /\ \A h \in Holders : HolderAt(req[h], T, kv)
  BY <1>6, <1>a, SplitKeeps
<1>8. \A e \in Nodes(T) : T.ref[e] >= 0
  <2>1. ASSUME NEW e \in Nodes(T) PROVE T.ref[e] \in Nat
    BY <1>7, Basics, LockCounts
  <2>2. \A e \in Nodes(T) : T.ref[e] \in Nat
    BY <2>1
  <2>3. \A y \in Nat : y >= 0
    OBVIOUS
  <2> QED
    BY <2>2, <2>3
<1>9. /\ Shape(L) /\ L.slot = T.slot /\ Nodes(L) = Nodes(T) /\ Exact(L)
      /\ \A e \in Nodes(T) : L.ref[e] = IF IsPrefix(e, node) THEN T.ref[e] + 1 ELSE T.ref[e]
  BY <1>7, <1>8, <1>d, IncEffect
<1>10. mode \in BOOLEAN /\ rem_chunk \in 0 .. ChunkSize /\ offset \in Int /\ ChunkSize \in Nat
  BY <1>2, Sizes DEF Types
<1>11. todo \in Nat /\ todo = l - P
  BY <1>4, <1>5, <1>6, <1>b
<1>12. /\ extend \in Nat /\ extend > 0 /\ extend <= todo /\ (mode => extend = todo)
       /\ ~mode => extend <= rem_chunk
  <2>1. CASE mode
    BY <1>11, <1>c, <2>1
  <2>2. CASE ~mode
    <3>1. rem_chunk \in Int /\ todo \in Int
      BY <1>10, <1>11
    <3>2. Min({todo, rem_chunk}) = IF todo <= rem_chunk THEN todo ELSE rem_chunk
      BY <3>1, SmallerOfTwo
    <3> QED
      BY <1>10, <1>11, <1>c, <2>2, <3>2
  <2> QED
    BY <2>1, <2>2
<1>13. chunked = NONE
  <2> SUFFICES ASSUME chunked # NONE PROVE FALSE
    OBVIOUS
  <2>1. chunked \in ToSet(batch) /\ req[chunked].job.prefix_len = 0 /\ rem_chunk = 0
    BY <1>2, <1>a DEF ChunkedOK
  <2>2. (req[chunked].job.prefix_len > 0) = mode
    BY <1>2, <2>1 DEF BatchOK, ToSet
  <2>3. ~(req[chunked].job.prefix_len > 0)
    BY <2>1
  <2>4. ~mode
    BY <1>10, <2>2, <2>3
  <2> QED
    BY <1>12, <2>1, <2>4
<1>14. /\ x.job = j /\ x.state = "waiting" /\ x.prefix = a /\ x.node = node /\ x.fill = P + extend
       /\ x.row = <<>> /\ x.is_chunked = 0 /\ x.value = req[r].value
       /\ \A h \in Reqs : h # r => req'[h] = req[h]
       /\ DOMAIN req' = Reqs
  <2>1. req[r].row = <<>> /\ req[r].is_chunked = 0
    BY <1>2, <1>3 DEF RestOK, Counted
  <2>2. req \in [Reqs -> Req \cup {Absent}]
    BY <1>2 DEF Types
  <2> QED
    BY <1>3, <1>4, <1>f, <2>1, <2>2 DEF Req, x, j
<1>15. a \in Seq(Slots)
  <2>1. \A i \in 1 .. P : Take(node, i) \in DOMAIN T.slot
    BY <1>4, <1>6, <1>7, NodePaths
  <2>2. \A p \in DOMAIN tree.slot : tree.slot[p] \in Slots
    BY <1>2 DEF SlotsOK, SlotsAt
  <2>3. a \in [1 .. P -> Slots]
    BY <1>4, <1>7, <2>1, <2>2 DEF a
  <2> QED
    BY <2>3, SeqDef
<1>16. x \in Req /\ req' \in [Reqs -> Req \cup {Absent}]
  <2>1. req \in [Reqs -> Req \cup {Absent}]
    BY <1>2 DEF Types
  <2>2. P + extend \in Nat
    BY <1>12
  <2>3. x = [req[r] EXCEPT !.prefix = a, !.node = node, !.fill = P + extend]
    BY <1>4, <1>f, <2>1 DEF x
  <2>4. x \in Req
    BY <1>3, <1>6, <1>15, <2>2, <2>3 DEF Req
  <2>5. req' = [req EXCEPT ![r] = x]
    BY <1>4, <1>f, <2>1, <2>3
  <2> QED
    BY <2>1, <2>4, <2>5
<1>17. PICK n \in Nat : n = Len(batch)
  BY <1>2, LenProperties DEF Types
<1>18. /\ batch' \in Seq(Reqs) /\ Len(batch') = n + 1 /\ batch' # <<>>
       /\ ToSet(batch') = ToSet(batch) \cup {r} /\ Once(batch') /\ DOMAIN batch' = 1 .. n + 1
       /\ batch'[n + 1] = r /\ \A i \in 1 .. n : batch'[i] = batch[i] /\ i \in DOMAIN batch
  <2>1. batch \in Seq(Reqs) /\ Once(batch)
    BY <1>2 DEF Types, BatchOK
  <2> QED
    BY <1>3, <1>17, <1>d, <2>1, AppendOnce
<1>19. Holders' = Holders \cup {r} /\ \A h \in Holders : h \in Reqs /\ h # r /\ req'[h] = req[h] /\ req[h] \in Req
  <2>1. \A h \in Reqs : req'[h].state = req[h].state
    BY <1>3, <1>14 DEF x
  <2>2. Holders' = Holders \cup {r}
    BY <1>18, <2>1 DEF Holders
  <2> QED
    BY <1>3, <1>14, <2>2, Basics
<1>20. Types'
  <2>1. rem_chunk' \in 0 .. ChunkSize /\ offset' \in Int
    BY <1>10, <1>12, <1>e
  <2>2. chunked' \in Reqs \cup {NONE}
    BY <1>13, <1>e
  <2>3. pc' \in {"top", "adding", "launch", "process", "crashed"}
    BY <1>a, <1>e
  <2> QED
    BY <1>1, <1>2, <1>16, <1>18, <2>1, <2>2, <2>3 DEF Types
<1>21. BatchOK'
  <2>1. pc' \notin {"top", "process", "crashed"}
    BY <1>a, <1>e
  <2>2. Len(batch') <= rows'
    <3>1. rows \in Nat
      BY <1>2 DEF Types
    <3> QED
      BY <1>1, <1>17, <1>18, <1>d, <3>1
  <2>3. ASSUME NEW i \in 1 .. n + 1
        PROVE  req'[batch'[i]].state \in {"waiting", "running"} /\ (req'[batch'[i]].job.prefix_len > 0) = mode'
    <3>1. CASE i = n + 1
      BY <1>1, <1>3, <1>14, <1>18, <3>1 DEF x, j
    <3>2. CASE i \in 1 .. n
      <4>1. batch'[i] = batch[i] /\ i \in DOMAIN batch /\ batch[i] \in ToSet(batch)
        BY <1>18, <3>2 DEF ToSet
      <4>2. batch[i] \in Holders
        BY <4>1, Basics
      <4>3. req'[batch[i]] = req[batch[i]]
        BY <1>19, <4>2
      <4> QED
        BY <1>1, <1>2, <4>1, <4>3 DEF BatchOK
    <3>3. i = n + 1 \/ i \in 1 .. n
      OBVIOUS
    <3> QED
      BY <3>1, <3>2, <3>3
  <2> QED
    BY <1>18, <2>1, <2>2, <2>3 DEF BatchOK
<1>22. ResultsOK'
  <2>1. pc # "process" /\ pc' # "process"
    BY <1>a, <1>e
  <2> QED
    BY <1>1, <1>2, <2>1 DEF ResultsOK
<1>23. Counted'
  <2> SUFFICES ASSUME NEW h \in Reqs
               PROVE  /\ req'[h].state = "running" =>
                            Open(results, h) = req'[h].is_chunked + (IF h = chunked' \/ h \in ToSet(batch') THEN 0 ELSE 1)
                      /\ req'[h].state # "running" => Open(results, h) = 0
                      /\ req'[h].state \notin {"running", "absent"} => req'[h].is_chunked = 0
    BY <1>1 DEF Counted
  <2>1. CASE h = r
    BY <1>2, <1>3, <1>14, <2>1 DEF Counted, x
  <2>2. CASE h # r
    <3>1. req'[h] = req[h] /\ (h \in ToSet(batch') <=> h \in ToSet(batch)) /\ (h = chunked' <=> h = chunked)
      <4>1. h # NONE
        BY ReqNames
      <4> QED
        BY <1>13, <1>14, <1>18, <1>e, <2>2, <4>1
    <3> QED
      BY <1>2, <3>1 DEF Counted
  <2> QED
    BY <2>1, <2>2
<1>24. x.fill \in 1 .. l /\ (extend = todo => x.fill = l) /\ (extend < todo => x.fill < l) /\ P < x.fill
  BY <1>6, <1>11, <1>12, <1>14
<1>25. ChunkedOK'
  <2>1. \A h \in Holders' : h # chunked' => req'[h].fill = Len(Ids(h)')
    <3> SUFFICES ASSUME NEW h \in Holders', h # chunked' PROVE req'[h].fill = Len(req'[h].job.ids)
      BY DEF Ids
    <3>1. CASE h = r
      <4>1. extend = todo
        BY <1>11, <1>12, <1>e, <3>1
      <4> QED
        BY <1>5, <1>14, <1>24, <3>1, <4>1 DEF x
    <3>2. CASE h # r
      <4>1. h \in Holders /\ req'[h] = req[h] /\ h \in Reqs
        BY <1>19, <3>2
      <4>2. h # chunked
        BY <1>13, <4>1, ReqNames
      <4> QED
        BY <1>2, <4>1, <4>2 DEF ChunkedOK, Ids
    <3> QED
      BY <3>1, <3>2
  <2>2. ASSUME chunked' # NONE
        PROVE  /\ chunked' = r /\ pc' = "launch" /\ x.fill < l /\ j.prefix_len = 0
    <3>1. extend < todo
      BY <1>13, <1>e, <2>2
    <3>2. ~mode
      BY <1>10, <1>11, <1>12, <3>1
    <3>3. j.prefix_len \in Nat
      BY <1>3, JobFacts
    <3>4. ~(j.prefix_len > 0)
      BY <1>3, <1>10, <3>2
    <3> QED
      BY <1>24, <1>e, <3>1, <3>3, <3>4
  <2>3. chunked' # NONE => /\ req'[chunked'].state # "absent" /\ req'[chunked'].job.prefix_len = 0
                           /\ req'[chunked'].fill < Len(req'[chunked'].job.ids)
                           /\ chunked' \in ToSet(batch') /\ pc' = "launch"
    BY <1>3, <1>5, <1>14, <1>18, <2>2 DEF x
  <2> QED
    BY <2>1, <2>3 DEF ChunkedOK, Ids
<1>26. HolderAt(x, L, kv)
  <2>1. x.fill \in 1 .. Len(x.job.ids) /\ Len(x.node) <= x.fill /\ Len(x.node) = P
    BY <1>4, <1>5, <1>14, <1>24
  <2>2. x.job.prefix_len > 0 => Len(x.node) < x.job.prefix_len
    BY <1>4, <1>6, <1>14
  <2>3. x.node = Take(x.job.ids, Len(x.node)) /\ (x.node # <<>> => x.node \in Nodes(L))
    BY <1>4, <1>6, <1>9, <1>14
  <2>4. x.prefix = [i \in 1 .. Len(x.node) |-> L.slot[Take(x.node, i)]]
    BY <1>9, <1>14 DEF a
  <2> QED
    BY <1>14, <2>1, <2>2, <2>3, <2>4 DEF HolderAt
<1>27. HoldersOK'
  <2> SUFFICES ASSUME NEW h \in Holders' PROVE HolderAt(req'[h], L, kv)
    BY <1>1 DEF HoldersOK, L
  <2>1. CASE h = r
    BY <1>26, <2>1 DEF x
  <2>2. CASE h # r
    <3>1. h \in Holders /\ req'[h] = req[h] /\ req[h] \in Req
      BY <1>19, <2>2
    <3>2. HolderAt(req[h], T, kv)
      BY <1>7, <3>1
    <3>3. req[h].node # <<>> => req[h].node \in Nodes(L)
      BY <1>9, <3>2 DEF HolderAt
    <3>4. HolderAt(req[h], L, kv)
      BY <1>9, <3>1, <3>2, <3>3, HolderStays
    <3> QED
      BY <3>1, <3>4
  <2> QED
    BY <2>1, <2>2
<1>28. RestOK'
  <2> SUFFICES ASSUME NEW h \in Reqs
               PROVE /\ req'[h].state # "absent" /\ h \notin Holders' =>
                            req'[h].row = <<>> /\ req'[h].prefix = <<>> /\ req'[h].node = <<>>
                     /\ h \in ToSet(batch') => req'[h].row = <<>> /\ Len(req'[h].node) < req'[h].fill
                     /\ req'[h].state = "running" /\ h \notin ToSet(batch') => req'[h].row # <<>>
                     /\ req'[h].state = "done" => req'[h].value = Expected(req'[h].job)
    BY DEF RestOK
  <2>1. CASE h = r
    BY <1>4, <1>14, <1>19, <1>24, <2>1 DEF x
  <2>2. CASE h # r
    <3>1. /\ req'[h] = req[h] /\ (h \in ToSet(batch') <=> h \in ToSet(batch))
          /\ (h \in Holders' <=> h \in Holders) /\ pc # "crashed"
      BY <1>14, <1>18, <1>19, <1>a, <2>2
    <3> QED
      BY <1>2, <3>1 DEF RestOK
  <2> QED
    BY <2>1, <2>2
<1>29. SlotsOK'
  <2>1. SlotsAt(free, tree, req) /\ L.slot = tree.slot /\ req[r].row = <<>>
    BY <1>2, <1>3, <1>7, <1>9 DEF SlotsOK, RestOK
  <2>2. \A h \in Reqs : \/ req'[h] = req[h]
                        \/ /\ req'[h] \in Req /\ req'[h].row = <<>>
                           /\ req[h].state = "absent" \/ (req[h] \in Req /\ req[h].row = <<>>)
    BY <1>3, <1>14, <1>16, <2>1 DEF x
  <2>3. SlotsAt(free, L, req')
    BY <2>1, <2>2, SlotsSame
  <2> QED
    BY <1>1, <2>3 DEF SlotsOK, L
<1>30. CacheHonest'
  <2>1. tree'.slot = tree.slot
    BY <1>7, <1>9 DEF L
  <2> QED
    BY <1>1, <1>2, <2>1 DEF CacheHonest
<1>31. LocksOK'
  <2>1. NodeOf'[r] = node /\ \A h \in Holders : NodeOf'[h] = NodeOf[h]
    BY <1>14, <1>19 DEF NodeOf, x
  <2>2. LocksAt(L, Holders \cup {r}, NodeOf')
    <3>1. IsFiniteSet(Holders)
      BY Basics
    <3>2. PICK N : N = NodeOf'
      OBVIOUS
    <3>3. N[r] = node /\ \A h \in Holders : N[h] = NodeOf[h]
      BY <2>1, <3>2
    <3>4. LocksAt(L, Holders \cup {r}, N)
      <4>1. LocksAt(T, Holders, NodeOf) /\ r \notin Holders
        BY <1>3, <1>7
      <4>2. OneMore(L, T, node)
        BY <1>9 DEF OneMore
      <4>3. Agree(N, NodeOf, Holders)
        BY <3>3 DEF Agree
      <4> QED
        BY <3>1, <3>3, <4>1, <4>2, <4>3, LocksInc
    <3> QED
      BY <3>2, <3>4
  <2> QED
    BY <1>19, <2>2 DEF LocksOK, L
<1>32. Needed' = Needed + extend
  <2>1. /\ \A h \in ToSet(batch) : Extent(req, h) \in Nat /\ Extent(req', h) = Extent(req, h)
    <3> SUFFICES ASSUME NEW h \in ToSet(batch) PROVE Extent(req, h) \in Nat /\ Extent(req', h) = Extent(req, h)
      OBVIOUS
    <3>1. h \in Holders
      BY Basics
    <3>2. req[h] \in Req /\ HolderAt(req[h], tree, kv) /\ req'[h] = req[h]
      BY <1>19, <3>1, Basics
    <3> QED
      BY <3>2, HolderExtent DEF Extent
  <2>2. IsFiniteSet(ToSet(batch))
    BY Basics, FS_Subset
  <2>3. Extents(req', ToSet(batch)) = Needed
    BY <2>1, <2>2, ExtentsSame, NeededIs
  <2>4. Extent(req', r) = extend
    <3>1. req'[r] \in Req /\ HolderAt(req'[r], L, kv)
      BY <1>16, <1>26 DEF x
    <3>2. Extent(req', r) = req'[r].fill - Len(req'[r].node)
      BY <3>1, HolderExtent
    <3> QED
      BY <1>4, <1>12, <1>14, <3>2 DEF x
  <2>5. IsFiniteSet(ToSet(batch')) /\ ToSet(batch) \in SUBSET ToSet(batch') /\ r \in ToSet(batch') \ ToSet(batch)
    <3>1. IsFiniteSet(ToSet(batch) \cup {r})
      BY <2>2, FS_AddElement
    <3> QED
      BY <1>3, <1>18, <3>1
  <2>6. \A h \in ToSet(batch') : Extent(req', h) \in Nat
    BY <1>12, <1>18, <2>1, <2>4
  <2>7. Extents(req', ToSet(batch) \cup {r}) = Extents(req', ToSet(batch)) + Extent(req', r)
    BY <2>5, <2>6, ExtentsSum
  <2> QED
    BY <1>18, <2>3, <2>4, <2>7, NeededNext
<1>33. Reserved'
  <2>1. offset = Needed
    BY <1>2, <1>a DEF Reserved
  <2>2. offset' = Needed'
    BY <1>32, <1>e, <2>1
  <2>3. PICK c \in Int, v \in Int : c = Cardinality(free) /\ v = L.evictable
    <3>1. L.evictable \in Int /\ Cardinality(free) \in Int
      BY <1>9, Basics DEF Shape
    <3> QED
      BY <3>1
  <2>4. PICK A \in Int : A = Available' /\ A = c + v
    <3>1. Available' = c + v
      BY <1>1, <2>3 DEF Available, L
    <3> QED
      BY <3>1
  <2>a. PICK o \in Int : o = offset
    BY <1>10
  <2>b. PICK t \in Nat, d \in Nat : t = todo /\ d = extend /\ d <= t /\ offset' = o + d
    BY <1>11, <1>12, <1>e, <2>a
  <2>c. t < A - o
    <3>1. todo < Cardinality(free) + L.evictable - offset
      BY <1>d DEF Fits
    <3> QED
      BY <2>3, <2>4, <2>a, <2>b, <3>1
  <2>5. offset' < Available'
    BY <2>4, <2>b, <2>c
  <2>6. chunked' # NONE => offset' + (Len(req'[chunked'].job.ids) - req'[chunked'].fill) < Available'
    <3>1. CASE extend < todo
      <4>1. chunked' = r /\ req'[chunked'].fill = P + extend /\ Len(req'[chunked'].job.ids) = l
        BY <1>5, <1>14, <1>e, <3>1 DEF x
      <4> QED
        BY <1>11, <2>4, <2>b, <2>c, <4>1
    <3>2. CASE ~(extend < todo)
      BY <1>13, <1>e, <3>2
    <3> QED
      BY <3>1, <3>2
  <2> QED
    BY <1>18, <2>2, <2>5, <2>6 DEF Reserved, Ids
<1>34. RowsOK'
  <2>1. {h \in Reqs : HasRow(req', h)} = {h \in Reqs : HasRow(req, h)}
    <3>1. ~HasRow(req', r) /\ ~HasRow(req, r)
      BY <1>2, <1>3, <1>14 DEF HasRow, RestOK, x
    <3>2. \A h \in Reqs : h # r => (HasRow(req', h) <=> HasRow(req, h))
      BY <1>14 DEF HasRow
    <3> QED
      BY <3>1, <3>2
  <2> QED
    BY <1>1, <1>2, <2>1 DEF RowsOK
<1>35. Shape(tree)' /\ Exact(tree)'
  BY <1>9 DEF L
<1> QED
  BY <1>20, <1>21, <1>22, <1>23, <1>25, <1>27, <1>28, <1>29, <1>30, <1>31, <1>33, <1>34, <1>35 DEF IInv

\* One round of the loop over the waiting queue.
LEMMA AddOneKeeps ==
    ASSUME IInv, NEW r \in Reqs, AddOne(r)
    PROVE  IInv'
<1> DEFINE node == Take(MatchKey(req[r].job), MatchLen(tree, MatchKey(req[r].job)))
           T == match_prefix(tree, node)
           todo == Len(Ids(r)) - Len(node)
           extend == IF mode THEN todo ELSE Min({todo, rem_chunk})
<1>1. pc = "adding" /\ r \in Candidates /\ UNCHANGED <<overlap, free, kv, rows, last, results>>
  BY DEF AddOne
<1>2. node \in Seq(Token)
  <2>1. req[r].job \in JobChoices
    <3>1. req[r] \in Req
      BY <1>1, Basics DEF Candidates, Waiting
    <3> QED
      BY <3>1, ReqFacts
  <2> QED
    BY <2>1, AddMatch
<1>3. CASE /\ Len(batch) >= rows
           /\ full' = TRUE
           /\ pc' = "launch"
           /\ UNCHANGED <<tree, req, adder, chunked, crashed>>
  <2>1. UNCHANGED <<overlap, free, kv, rows, req, adder, chunked, last, results, crashed>> /\ tree' = tree
    BY <1>1, <1>3
  <2> QED
    BY <1>1, <1>2, <1>3, <2>1, AddNoneKeeps
<1>4. CASE /\ Len(batch) < rows
           /\ ~Fits(T, node, todo)
           /\ tree' = T
           /\ full' = TRUE
           /\ pc' = "launch"
           /\ UNCHANGED <<req, adder, chunked, crashed>>
  <2>1. UNCHANGED <<overlap, free, kv, rows, req, adder, chunked, last, results, crashed>>
    BY <1>1, <1>4
  <2> QED
    BY <1>1, <1>2, <1>4, <2>1, AddNoneKeeps
<1>5. CASE /\ Len(batch) < rows
           /\ Fits(T, node, todo)
           /\ extend > 0
           /\ tree' = inc_lock_ref(T, node)
           /\ req' = [req EXCEPT ![r].prefix = [i \in 1 .. Len(node) |-> T.slot[Take(node, i)]],
                                 ![r].node = node, ![r].fill = Len(node) + extend]
           /\ batch' = Append(batch, r)
           /\ offset' = offset + extend
           /\ rem_chunk' = IF mode THEN rem_chunk ELSE rem_chunk - extend
           /\ chunked' = IF extend < todo THEN r ELSE chunked
           /\ pc' = IF extend < todo THEN "launch" ELSE pc
           /\ UNCHANGED <<mode, full, crashed>>
  <2>1. AddSome(r, node, T, todo, extend)
    BY <1>1, <1>5 DEF AddSome
  <2> HIDE DEF node, T, todo, extend
  <2> QED
    BY <2>1, AddSomeKeeps
<1> QED
  BY <1>3, <1>4, <1>5 DEF AddOne

----------------------------------------------------------------------------
(* A running request gives its row back.                                   *)

\* Of the request c the first K tokens may go to the tree: from m on they do,
\* the other slots that only c has, X, are freed.  A request that bypasses the
\* cache gives everything back.
Release(c, key, K, m, U, X) ==
    /\ c \in Holders /\ req[c].row # <<>>
    /\ K \in Nat /\ key = Take(req[c].job.ids, K)
    /\ K >= 1 /\ Len(req[c].node) <= K /\ K <= req[c].fill
    /\ req[c].job.prefix_len > 0 => K <= req[c].job.prefix_len
    /\ \/ m = MatchLen(tree, key) /\ U = insert(tree, key, req[c].row)
       \/ m = K /\ U = tree
    /\ X = {req[c].row[i] : i \in Len(req[c].node) + 1 .. m} \cup {req[c].row[i] : i \in K + 1 .. req[c].fill}

\* What the slots hold when S is freed.
Emptied(S) == [s \in Slots |-> IF s \in S THEN <<>> ELSE kv[s]]

\* The request's row, its key and the length of what was matched.
LEMMA ReleaseFacts ==
    ASSUME IInv, NEW c, NEW key, NEW K, NEW m, NEW U, NEW X, Release(c, key, K, m, U, X)
    PROVE  /\ c \in Reqs /\ req[c] \in Req /\ HolderAt(req[c], tree, kv) /\ RowAt(req[c], kv)
           /\ Len(req[c].row) = req[c].fill /\ req[c].fill <= Len(req[c].job.ids)
           /\ K \in Nat /\ K \in 1 .. Len(req[c].job.ids)
           /\ key \in Seq(Token) /\ Len(key) = K /\ key # <<>>
           /\ \A i \in 1 .. K : Take(key, i) = Take(req[c].job.ids, i)
           /\ m \in Nat /\ Len(req[c].node) <= m /\ m <= K
<1> DEFINE x == req[c]
<1>1. c \in Holders /\ x.row # <<>> /\ K \in Nat /\ key = Take(x.job.ids, K)
  BY DEF Release
<1>2. K >= 1 /\ Len(x.node) <= K /\ K <= x.fill /\ (m = MatchLen(tree, key) \/ m = K)
  BY DEF Release
<1>3. c \in Reqs /\ x \in Req /\ HolderAt(x, tree, kv) /\ Shape(tree)
  BY <1>1, Basics DEF IInv
<1>4. RowAt(x, kv) /\ Len(x.row) = x.fill /\ x.fill \in 1 .. Len(x.job.ids)
  BY <1>1, <1>3 DEF HolderAt, RowAt
<1>5. x.node \in Seq(Token) /\ x.fill \in Nat /\ x.job \in JobChoices
  BY <1>3, ReqFacts
<1>6. x.job.ids \in Seq(Token)
  BY <1>5, JobFacts
<1>7. PICK l \in Nat : l = Len(x.job.ids)
  BY <1>5, JobFacts
<1>8. PICK P \in Nat : P = Len(x.node)
  BY <1>3, ReqFacts
<1>9. PICK F \in Nat : F = x.fill /\ F <= l
  BY <1>4, <1>5, <1>7
<1>10. K \in 1 .. l /\ K \in 0 .. Len(x.job.ids) /\ P <= K
  BY <1>1, <1>2, <1>7, <1>8, <1>9
<1>11. key \in Seq(Token) /\ Len(key) = K
  BY <1>1, <1>6, <1>10, TakeFacts
<1>12. key # <<>>
  BY <1>2, <1>11, EmptySeq
<1>13. \A i \in 0 .. K : Take(key, i) = Take(x.job.ids, i)
  BY <1>1, <1>6, <1>10, TakeTake
<1>14. m \in Nat /\ P <= m /\ m <= K
  <2>1. CASE m = K
    BY <1>1, <1>10, <2>1
  <2>2. CASE m = MatchLen(tree, key)
    <3>1. m \in 0 .. K /\ \A n \in 1 .. K : Take(key, n) \in DOMAIN tree.slot <=> n <= m
      BY <1>3, <1>11, <2>2, MatchIs
    <3>2. CASE P = 0
      BY <3>1, <3>2
    <3>3. CASE P # 0
      <4>1. P \in 1 .. K /\ P \in 0 .. K
        BY <1>10, <3>3
      <4>2. x.node \in Nodes(tree) /\ x.node = Take(x.job.ids, P)
        <5>1. x.node # <<>>
          BY <1>5, <1>8, <3>3, EmptySeq
        <5> QED
          BY <1>3, <1>8, <5>1 DEF HolderAt
      <4>3. Take(key, P) \in DOMAIN tree.slot
        BY <1>3, <1>13, <4>1, <4>2, Paths
      <4> QED
        BY <3>1, <4>1, <4>3
    <3> QED
      BY <3>2, <3>3
  <2> QED
    BY <1>2, <2>1, <2>2
<1>15. \A i \in 1 .. K : Take(key, i) = Take(x.job.ids, i)
  BY <1>13
<1> QED
  BY <1>1, <1>3, <1>4, <1>7, <1>8, <1>9, <1>10, <1>11, <1>12, <1>14, <1>15

\* The tree with the request's tokens.
LEMMA ReleaseTree ==
    ASSUME IInv, NEW c, NEW key, NEW K, NEW m, NEW U, NEW X, Release(c, key, K, m, U, X)
    PROVE  /\ Shape(U) /\ Exact(U) /\ LocksAt(U, Holders, NodeOf) /\ Nodes(tree) \subseteq Nodes(U)
           /\ DOMAIN U.slot = DOMAIN tree.slot \cup Rest(key, m)
           /\ \A p \in DOMAIN tree.slot : U.slot[p] = tree.slot[p]
           /\ \A i \in m + 1 .. K : U.slot[Take(key, i)] = req[c].row[i]
           /\ U = insert(tree, key, req[c].row) => key \in Nodes(U)
<1>1. /\ key \in Seq(Token) /\ Len(key) = K /\ key # <<>> /\ m \in Nat /\ m <= K /\ K \in Nat
  BY ReleaseFacts
<1>2. Shape(tree) /\ Exact(tree) /\ LocksAt(tree, Holders, NodeOf)
  BY DEF IInv, LocksOK
<1>3. (m = MatchLen(tree, key) /\ U = insert(tree, key, req[c].row)) \/ (m = K /\ U = tree)
  BY DEF Release
<1>4. \A r \in Holders : NodeOf[r] = <<>> \/ NodeOf[r] \in Nodes(tree)
  BY Basics
<1>5. CASE m = MatchLen(tree, key) /\ U = insert(tree, key, req[c].row)
  <2>1. /\ Shape(U)
        /\ DOMAIN U.slot = DOMAIN tree.slot \cup Rest(key, m) /\ DOMAIN tree.slot \cap Rest(key, m) = {}
        /\ \A p \in DOMAIN tree.slot : U.slot[p] = tree.slot[p]
        /\ \A i \in m + 1 .. Len(key) : U.slot[Take(key, i)] = req[c].row[i]
        /\ Nodes(tree) \subseteq Nodes(U) /\ key \in Nodes(U)
        /\ \A e \in Nodes(U) :
             \/ \E f \in Nodes(tree) : U.ref[e] = tree.ref[f] /\ IsOwner(tree, e, f)
             \/ e = key /\ e \notin DOMAIN tree.slot /\ U.ref[e] = 0
        /\ U.protected = tree.protected /\ U.evictable = tree.evictable + (Len(key) - m)
        /\ Unlocked(U) = Unlocked(tree) \cup Rest(key, m)
    BY <1>1, <1>2, <1>5, InsertEffect
  <2>2. m \in 0 .. Len(key)
    BY <1>1
  <2>3. IsFiniteSet(Rest(key, m)) /\ Cardinality(Rest(key, m)) = Len(key) - m
    BY <1>1, <2>2, RestCount
  <2>4. Exact(U)
    <3>1. U.evictable = tree.evictable + Cardinality(Rest(key, m)) /\ Rest(key, m) \cap DOMAIN tree.slot = {}
      BY <2>1, <2>3
    <3> QED
      BY <1>2, <2>1, <2>3, <3>1, ExactKept
  <2>5. LocksAt(U, Holders, NodeOf)
    BY <1>2, <1>4, <2>1, LocksNewNodes
  <2> QED
    BY <1>1, <2>1, <2>4, <2>5
<1>6. CASE m = K /\ U = tree
  <2>1. \A i \in m + 1 .. K : FALSE
    BY <1>1, <1>6
  <2>2. Rest(key, m) = {}
    BY <1>1, <2>1 DEF Rest
  <2>3. U = insert(tree, key, req[c].row) => key \in Nodes(U)
    BY <1>1, <1>2, InsertEffect, MatchIs
  <2> QED
    BY <1>2, <1>6, <2>1, <2>2, <2>3
<1> QED
  BY <1>3, <1>5, <1>6

\* The requests z after c has given its row back.
Cleared(z, c) == (\A r \in Reqs \ {c} : z[r] = req[r]) /\ z[c] \in Req /\ z[c].row = <<>>

\* The slots, and what they hold.
LEMMA ReleaseSlots ==
    ASSUME IInv, NEW c, NEW key, NEW K, NEW m, NEW U, NEW X, Release(c, key, K, m, U, X),
           NEW z, Cleared(z, c)
    PROVE  /\ SlotsAt(free \cup X, U, z) /\ X \subseteq Slots /\ X \cap free = {}
           /\ \A s \in X : OwnsAt(req, c, s)
           /\ \A p \in DOMAIN U.slot : Emptied(X)[U.slot[p]] = p
<1> DEFINE x == req[c]
<1>a. (\A r \in Reqs \ {c} : z[r] = req[r]) /\ z[c] \in Req /\ z[c].row = <<>>
  BY DEF Cleared
<1>1. /\ c \in Reqs /\ x \in Req /\ HolderAt(x, tree, kv) /\ RowAt(x, kv)
      /\ Len(x.row) = x.fill /\ key \in Seq(Token) /\ Len(key) = K /\ K \in Nat /\ m \in Nat
      /\ Len(x.node) <= m /\ m <= K /\ \A i \in 1 .. K : Take(key, i) = Take(x.job.ids, i)
  BY ReleaseFacts
<1>2. /\ x.row \in Seq(Slots) /\ x.state # "absent" /\ x.job \in JobChoices
  BY <1>1, ReqFacts
<1>3. PICK P \in Nat : P = Len(x.node)
  BY <1>1, ReqFacts
<1>4. PICK F \in Nat : F = Len(x.row) /\ F = x.fill
  BY <1>1, ReqFacts
<1>5. P <= m /\ m <= K /\ K <= F
  BY <1>1, <1>3, <1>4 DEF Release
<1>6. X = {x.row[i] : i \in P + 1 .. m} \cup {x.row[i] : i \in K + 1 .. F}
  BY <1>3, <1>4 DEF Release
<1>7. \A i \in 1 .. F : x.row[i] \in Slots
  BY <1>2, <1>4, ElementOfSeq
<1>8. \A i \in P + 1 .. F : i \in 1 .. F
  OBVIOUS
<1>9. /\ DOMAIN U.slot = DOMAIN tree.slot \cup Rest(key, m)
      /\ \A p \in DOMAIN tree.slot : U.slot[p] = tree.slot[p]
      /\ \A i \in m + 1 .. K : U.slot[Take(key, i)] = x.row[i]
  BY ReleaseTree
<1>10. SlotsAt(free, tree, req) /\ free \in SUBSET Slots
  BY DEF IInv, SlotsOK, Types
<1>11. \A i \in Len(z[c].node) + 1 .. Len(z[c].row) : FALSE
  BY <1>a, NoRow
<1>12. \A i \in P + 1 .. F : x.row[i] \in Slots
  BY <1>7, <1>8
<1>13. SlotsAt(free \cup X, U, z)
  <2>1. Handed(free, tree, req, c, P, F, m, K, key, U, X, z)
    BY <1>a, <1>1, <1>2, <1>3, <1>4, <1>5, <1>6, <1>9, <1>10, <1>11, <1>12 DEF Handed
  <2> QED
    BY <1>1, <1>10, <2>1, SlotsReleased
<1>14. ASSUME NEW s \in X PROVE OwnsAt(req, c, s) /\ s \in Slots
  <2>1. PICK i \in P + 1 .. F : s = x.row[i]
    <3>1. (\A i \in P + 1 .. m : i \in P + 1 .. F) /\ (\A i \in K + 1 .. F : i \in P + 1 .. F)
      BY <1>1, <1>5
    <3> QED
      BY <1>6, <3>1
  <2> QED
    BY <1>2, <1>3, <1>4, <1>12, <2>1 DEF OwnsAt
<1>15. X \cap free = {}
  BY <1>1, <1>10, <1>14 DEF SlotsAt
<1>16. ASSUME NEW p \in DOMAIN U.slot PROVE Emptied(X)[U.slot[p]] = p
  <2>1. U.slot[p] \in Slots /\ U.slot[p] \notin X
    BY <1>13 DEF SlotsAt
  <2>2. Emptied(X)[U.slot[p]] = kv[U.slot[p]]
    BY <2>1 DEF Emptied
  <2>3. CASE p \in DOMAIN tree.slot
    BY <1>9, <2>2, <2>3 DEF IInv, CacheHonest
  <2>4. CASE p \in Rest(key, m)
    <3>1. PICK i \in m + 1 .. K : p = Take(key, i)
      BY <1>1, <2>4 DEF Rest
    <3>2. i \in 1 .. K /\ i \in 1 .. F
      BY <1>1, <1>5
    <3>3. kv[x.row[i]] = TextOf(x.job, i)
      BY <1>1, <1>4, <3>2 DEF RowAt
    <3>4. TextOf(x.job, i) = Take(x.job.ids, i)
      <4>1. x.job.prefix_len \in Nat
        BY <1>2, JobFacts
      <4>2. x.job.prefix_len > 0 => K <= x.job.prefix_len
        BY DEF Release
      <4>3. ~(x.job.prefix_len > 0 /\ i > x.job.prefix_len)
        BY <1>1, <3>2, <4>1, <4>2
      <4> QED
        BY <4>3 DEF TextOf
    <3> QED
      BY <1>1, <1>9, <2>2, <3>1, <3>2, <3>3, <3>4
  <2> QED
    BY <1>9, <2>3, <2>4
<1> QED
  BY <1>13, <1>14, <1>15, <1>16

\* D is U without the lock of request c.
Unlocks(D, U, c) == D = dec_lock_ref(U, req[c].node)

\* The request unlocks its node; the other holders are as they were.
LEMMA ReleaseLocks ==
    ASSUME IInv, NEW c, NEW key, NEW K, NEW m, NEW U, NEW X, Release(c, key, K, m, U, X),
           NEW D, Unlocks(D, U, c)
    PROVE  /\ Shape(D) /\ Exact(D) /\ D.slot = U.slot /\ Nodes(D) = Nodes(U)
           /\ LocksAt(D, Holders \ {c}, NodeOf)
           /\ \A h \in Holders \ {c} : HolderAt(req[h], D, Emptied(X))
<1>1. /\ Shape(U) /\ Exact(U) /\ LocksAt(U, Holders, NodeOf) /\ Nodes(tree) \subseteq Nodes(U)
      /\ \A p \in DOMAIN tree.slot : U.slot[p] = tree.slot[p]
  BY ReleaseTree
<1>2. c \in Holders /\ NodeOf[c] = req[c].node /\ IsFiniteSet(Holders) /\ c \in Reqs
  BY ReleaseFacts, Basics DEF Release
<1>3. \A e \in Nodes(U) : U.ref[e] >= (IF IsPrefix(e, req[c].node) THEN 1 ELSE 0)
  <2> SUFFICES ASSUME NEW e \in Nodes(U) PROVE U.ref[e] >= (IF IsPrefix(e, req[c].node) THEN 1 ELSE 0)
    OBVIOUS
  <2>1. U.ref[e] \in Nat /\ \A r \in Holders : IsPrefix(e, NodeOf[r]) => U.ref[e] >= 1
    BY <1>1, <1>2, LockCounts
  <2> QED
    BY <1>2, <2>1
<1>4. /\ Shape(D) /\ D.slot = U.slot /\ Nodes(D) = Nodes(U) /\ Exact(D)
      /\ \A e \in Nodes(U) : D.ref[e] = IF IsPrefix(e, req[c].node) THEN U.ref[e] - 1 ELSE U.ref[e]
  BY <1>1, <1>3, DecEffect DEF Unlocks
<1>5. LocksAt(D, Holders \ {c}, NodeOf)
  <2>1. OneLess(D, U, NodeOf[c])
    BY <1>2, <1>4 DEF OneLess
  <2>2. Agree(NodeOf, NodeOf, Holders \ {c})
    BY DEF Agree
  <2> QED
    BY <1>1, <1>2, <2>1, <2>2, LocksDec
<1>6. ASSUME NEW h \in Holders \ {c} PROVE HolderAt(req[h], D, Emptied(X))
  <2>1. req[h] \in Req /\ HolderAt(req[h], tree, kv) /\ h \in Reqs /\ h # c /\ Shape(tree)
    BY Basics DEF IInv
  <2>2. req[h].node \in Seq(Token) /\ req[h].row \in Seq(Slots)
    BY <2>1, ReqFacts
  <2>3. req[h].node # <<>> => req[h].node \in Nodes(D) /\ req[h].node \in Nodes(tree)
    BY <1>1, <1>4, <2>1 DEF HolderAt
  <2>4. \A i \in 1 .. Len(req[h].node) : Take(req[h].node, i) \in DOMAIN tree.slot
    BY <2>1, <2>2, <2>3, NodePaths
  <2>5. \A i \in 1 .. Len(req[h].node) : D.slot[Take(req[h].node, i)] = tree.slot[Take(req[h].node, i)]
    BY <1>1, <1>4, <2>4
  <2>6. ASSUME NEW i \in 1 .. Len(req[h].row) PROVE Emptied(X)[req[h].row[i]] = kv[req[h].row[i]]
    <3>1. req[h].row[i] \in Slots
      BY <2>2, ElementOfSeq
    <3>2. \A s \in X : OwnsAt(req, c, s) /\ s \in Slots
      <4>1. PICK y \in Req : y.row = <<>>
        <5>1. [req[h] EXCEPT !.row = <<>>] \in Req /\ [req[h] EXCEPT !.row = <<>>].row = <<>>
          <6>1. <<>> \in Seq(Slots)
            BY EmptySeq
          <6> QED
            BY <2>1, <6>1 DEF Req
        <5> QED
          BY <5>1
      <4> DEFINE z == [req EXCEPT ![c] = y]
      <4>2. (\A r \in Reqs \ {c} : z[r] = req[r]) /\ z[c] = y
        BY <1>2 DEF IInv, Types
      <4> HIDE DEF z
      <4>3. z[c] \in Req /\ z[c].row = <<>>
        BY <4>1, <4>2
      <4>4. Cleared(z, c)
        BY <4>2, <4>3 DEF Cleared
      <4> QED
        BY <4>4, ReleaseSlots
    <3>3. SlotsAt(free, tree, req)
      BY DEF IInv, SlotsOK
    <3>4. req[h].row[i] \notin X
      <4> SUFFICES ASSUME req[h].row[i] \in X PROVE FALSE
        OBVIOUS
      <4>1. OwnsAt(req, c, req[h].row[i])
        BY <3>2
      <4> QED
        BY <1>2, <2>1, <3>1, <3>3, <4>1, OthersSlots
    <3> QED
      BY <3>1, <3>4 DEF Emptied
  <2> QED
    BY <2>1, <2>3, <2>5, <2>6, HolderStays
<1> QED
  BY <1>4, <1>5, <1>6

----------------------------------------------------------------------------
(* Results are processed.                                                  *)

\* The open results without the first request of the first batch.
NextResults(res) == IF Len(res[1]) > 1 THEN [res EXCEPT ![1] = Tail(@)] ELSE Tail(res)

\* A batch without its first request.
LEMMA TailOnce ==
    ASSUME NEW S, NEW b \in Seq(S), Once(b), b # <<>>
    PROVE  /\ Tail(b) \in Seq(S) /\ Len(Tail(b)) = Len(b) - 1 /\ Once(Tail(b))
           /\ b[1] \in ToSet(b) /\ b[1] \in S /\ Len(b) \in Nat \ {0}
           /\ ToSet(Tail(b)) = ToSet(b) \ {b[1]}
<1>1. PICK n \in Nat : n = Len(b) /\ n # 0
  BY LenProperties, EmptySeq
<1> DEFINE t == Tail(b)
<1>2. t \in Seq(S) /\ Len(t) = n - 1 /\ \A i \in 1 .. n - 1 : t[i] = b[i + 1]
  BY <1>1, HeadTailProperties
<1>3. DOMAIN b = 1 .. n /\ DOMAIN t = 1 .. n - 1
  BY <1>1, <1>2, LenProperties
<1> HIDE DEF t
<1>4. \A i \in 1 .. n - 1 : i + 1 \in 1 .. n /\ i + 1 # 1
  BY <1>1
<1>5. \A i \in 1 .. n : i # 1 => i - 1 \in 1 .. n - 1 /\ (i - 1) + 1 = i
  BY <1>1
<1>6. Once(t)
  <2> SUFFICES ASSUME NEW i \in 1 .. n - 1, NEW k \in 1 .. n - 1, t[i] = t[k] PROVE i = k
    BY <1>3 DEF Once
  <2>1. i + 1 = k + 1
    BY <1>2, <1>3, <1>4 DEF Once
  <2> QED
    BY <1>1, <2>1
<1>7. 1 \in 1 .. n
  BY <1>1
<1>8. b[1] \in ToSet(b) /\ b[1] \in S
  BY <1>1, <1>3, <1>7, ElementOfSeq DEF ToSet
<1>9. ToSet(t) = ToSet(b) \ {b[1]}
  <2>1. ASSUME NEW e \in ToSet(t) PROVE e \in ToSet(b) \ {b[1]}
    <3>1. PICK i \in 1 .. n - 1 : e = t[i]
      BY <1>3 DEF ToSet
    <3>2. e = b[i + 1] /\ i + 1 \in 1 .. n /\ i + 1 # 1
      BY <1>2, <1>4, <3>1
    <3> QED
      BY <1>3, <1>7, <3>2 DEF ToSet, Once
  <2>2. ASSUME NEW e \in ToSet(b) \ {b[1]} PROVE e \in ToSet(t)
    <3>1. PICK i \in 1 .. n : e = b[i] /\ i # 1
      BY <1>3 DEF ToSet
    <3>2. i - 1 \in 1 .. n - 1 /\ t[i - 1] = b[i]
      BY <1>2, <1>5, <3>1
    <3> QED
      BY <1>3, <3>1, <3>2 DEF ToSet
  <2> QED
    BY <2>1, <2>2
<1> QED
  BY <1>1, <1>2, <1>6, <1>8, <1>9 DEF t

\* The first request of the first open batch is taken out.
LEMMA ResultsShift ==
    ASSUME NEW res \in Seq(Seq(Reqs)), NEW l \in {1, 2}, l = Len(res),
           \A i \in DOMAIN res : res[i] # <<>> /\ Once(res[i]),
           NEW n, n = NextResults(res), NEW r, r = res[1][1]
    PROVE  /\ n \in Seq(Seq(Reqs)) /\ r \in Reqs /\ Open(res, r) >= 1
           /\ \A i \in DOMAIN n : n[i] # <<>> /\ Once(n[i])
           /\ Open(n, r) = Open(res, r) - 1
           /\ \A h \in Reqs : h # r => Open(n, h) = Open(res, h)
           /\ Len(res[1]) > 1 => Len(n) = l /\ (l = 2 => n[2] = res[2])
           /\ ~(Len(res[1]) > 1) => (l = 2 => n = <<res[2]>>) /\ (l = 1 => n = <<>>)
<1>1. DOMAIN res = 1 .. l /\ 1 \in 1 .. l
  BY LenProperties
<1>2. res[1] \in Seq(Reqs) /\ res[1] # <<>> /\ Once(res[1])
  BY <1>1, ElementOfSeq
<1>3. /\ Tail(res[1]) \in Seq(Reqs) /\ Len(Tail(res[1])) = Len(res[1]) - 1 /\ Once(Tail(res[1]))
      /\ r \in ToSet(res[1]) /\ r \in Reqs /\ Len(res[1]) \in Nat \ {0}
      /\ ToSet(Tail(res[1])) = ToSet(res[1]) \ {r}
  BY <1>2, TailOnce
<1>4. PICK k \in Nat : k = Len(res[1]) /\ k # 0
  BY <1>3
<1>5. \A s, h, i : In(s, h, i) \in {0, 1}
  BY DEF In
<1>6. In(res, r, 1) = 1
  BY <1>1, <1>3 DEF In
<1>7. CASE k > 1
  <2>1. n = [res EXCEPT ![1] = Tail(res[1])]
    BY <1>4, <1>7 DEF NextResults
  <2>2. n \in Seq(Seq(Reqs)) /\ Len(n) = l /\ n[1] = Tail(res[1]) /\ DOMAIN n = 1 .. l
        /\ \A i \in 1 .. l : i # 1 => n[i] = res[i]
    BY <1>1, <1>3, <2>1, ExceptSeq, LenProperties
  <2>3. Tail(res[1]) # <<>>
    BY <1>3, <1>4, <1>7, EmptySeq
  <2>4. \A i \in DOMAIN n : n[i] # <<>> /\ Once(n[i])
    BY <1>1, <1>3, <2>2, <2>3
  <2>5. In(n, r, 1) = 0
    BY <1>3, <2>2 DEF In
  <2>6. \A h : In(n, h, 2) = In(res, h, 2)
    BY <1>1, <2>2 DEF In
  <2>7. \A h \in Reqs : h # r => In(n, h, 1) = In(res, h, 1)
    BY <1>1, <1>3, <2>2 DEF In
  <2>8. Open(n, r) = Open(res, r) - 1 /\ Open(res, r) >= 1
    BY <1>5, <1>6, <2>5, <2>6 DEF Open
  <2>9. \A h \in Reqs : h # r => Open(n, h) = Open(res, h)
    BY <2>6, <2>7 DEF Open
  <2>10. l = 2 => n[2] = res[2]
    BY <2>2
  <2> QED
    BY <1>3, <1>4, <1>7, <2>2, <2>4, <2>8, <2>9, <2>10
<1>8. CASE ~(k > 1)
  <2>a. k = 1
    <3>1. \A y \in Nat : y # 0 /\ ~(y > 1) => y = 1
      OBVIOUS
    <3> QED
      BY <1>4, <1>8, <3>1
  <2>b. ~(Len(res[1]) > 1)
    BY <1>4, <1>8
  <2>1. n = Tail(res)
    BY <2>b DEF NextResults
  <2>2. res # <<>>
    BY EmptySeq
  <2>3. n \in Seq(Seq(Reqs)) /\ Len(n) = l - 1 /\ \A i \in 1 .. l - 1 : n[i] = res[i + 1]
    BY <2>1, <2>2, HeadTailProperties
  <2>4. DOMAIN n = 1 .. l - 1
    BY <2>3, LenProperties
  <2>5. \A h : In(n, h, 1) = In(res, h, 2) /\ In(n, h, 2) = 0
    <3>1. CASE l = 1
      <4>1. 1 \notin DOMAIN n /\ 2 \notin DOMAIN n /\ 2 \notin DOMAIN res
        BY <1>1, <2>4, <3>1
      <4> QED
        BY <4>1 DEF In
    <3>2. CASE l = 2
      <4>1. 1 \in DOMAIN n /\ 2 \notin DOMAIN n /\ 2 \in DOMAIN res /\ n[1] = res[2]
        BY <1>1, <2>3, <2>4, <3>2
      <4> QED
        BY <4>1 DEF In
    <3> QED
      BY <3>1, <3>2
  <2>6. ToSet(res[1]) = {r}
    <3>1. Tail(res[1]) = <<>>
      <4>1. Len(Tail(res[1])) = 0
        BY <1>3, <1>4, <2>a
      <4> QED
        BY <1>3, <4>1, EmptySeq
    <3>2. ToSet(Tail(res[1])) = {}
      BY <3>1 DEF ToSet
    <3> QED
      BY <1>3, <3>2
  <2>7. \A h \in Reqs : h # r => In(res, h, 1) = 0
    BY <2>6 DEF In
  <2>8. Open(n, r) = Open(res, r) - 1 /\ Open(res, r) >= 1
    BY <1>5, <1>6, <2>5 DEF Open
  <2>9. \A h \in Reqs : h # r => Open(n, h) = Open(res, h)
    BY <1>5, <2>5, <2>7 DEF Open
  <2>10. \A i \in DOMAIN n : n[i] # <<>> /\ Once(n[i])
    <3> SUFFICES ASSUME NEW i \in 1 .. l - 1 PROVE n[i] # <<>> /\ Once(n[i])
      BY <2>4
    <3>1. i + 1 \in DOMAIN res /\ n[i] = res[i + 1]
      BY <1>1, <2>3
    <3> QED
      BY <3>1
  <2>11. l = 1 => n = <<>>
    BY <2>3, EmptySeq
  <2>12. l = 2 => n = <<res[2]>>
    <3> SUFFICES ASSUME l = 2 PROVE n = <<res[2]>>
      OBVIOUS
    <3>1. Len(n) = 1 /\ n[1] = res[2] /\ n \in Seq(Seq(Reqs))
      BY <2>3
    <3>2. <<res[2]>> \in Seq(Seq(Reqs)) /\ Len(<<res[2]>>) = 1 /\ <<res[2]>>[1] = res[2]
      <4>1. res[2] \in Seq(Reqs)
        <5>1. 2 \in 1 .. Len(res)
          OBVIOUS
        <5> QED
          BY <5>1, ElementOfSeq
      <4> QED
        BY <4>1
    <3>3. \A i \in 1 .. Len(n) : n[i] = <<res[2]>>[i]
      BY <3>1, <3>2
    <3> QED
      BY <3>1, <3>2, <3>3, SeqEqual
  <2> QED
    BY <1>3, <1>4, <1>8, <2>3, <2>8, <2>9, <2>10, <2>11, <2>12
<1> QED
  BY <1>7, <1>8

\* process_batch_result_prefill takes the next request.
Taken == pc = "process" /\ results' = NextResults(results) /\ overlap' = overlap /\ last' = last
         /\ pc' = IF Len(results[1]) > 1 THEN "process" ELSE "top"

\* The request whose result is processed is running.
LEMMA ProcessResults ==
    ASSUME IInv, Taken, NEW r, r = results[1][1]
    PROVE  /\ ResultsOK' /\ results' \in Seq(Seq(Reqs)) /\ pc' \in {"top", "process"}
           /\ r \in Reqs /\ req[r].state = "running"
           /\ Open(results', r) = Open(results, r) - 1 /\ Open(results, r) >= 1
           /\ \A h \in Reqs : h # r => Open(results', h) = Open(results, h)
<1>1. results \in Seq(Seq(Reqs)) /\ overlap \in BOOLEAN
  BY DEF IInv, Types
<1>2. /\ \A i \in DOMAIN results : results[i] # <<>> /\ Once(results[i])
      /\ Len(results) = (IF overlap /\ last.reqs # <<>> THEN 2 ELSE 1)
      /\ Len(results) = 2 => results[2] = last.reqs
  BY DEF IInv, ResultsOK, Taken
<1>3. PICK l \in {1, 2} : l = Len(results)
  BY <1>2
<1>4. results' = NextResults(results) /\ overlap' = overlap /\ last' = last
  BY DEF Taken
<1>5. /\ results' \in Seq(Seq(Reqs)) /\ r \in Reqs /\ Open(results, r) >= 1
      /\ \A i \in DOMAIN results' : results'[i] # <<>> /\ Once(results'[i])
      /\ Open(results', r) = Open(results, r) - 1
      /\ \A h \in Reqs : h # r => Open(results', h) = Open(results, h)
      /\ Len(results[1]) > 1 => Len(results') = l /\ (l = 2 => results'[2] = results[2])
      /\ ~(Len(results[1]) > 1) => (l = 2 => results' = <<results[2]>>) /\ (l = 1 => results' = <<>>)
  BY <1>1, <1>2, <1>3, <1>4, ResultsShift
<1>6. req[r].state = "running"
  <2>1. req[r].state # "running" => Open(results, r) = 0
    BY <1>5 DEF IInv, Counted
  <2> QED
    BY <1>5, <2>1
<1>7. ResultsOK'
  <2>1. CASE Len(results[1]) > 1
    <3>1. pc' = "process"
      BY <2>1 DEF Taken
    <3> QED
      BY <1>2, <1>3, <1>4, <1>5, <2>1, <3>1 DEF ResultsOK
  <2>2. CASE ~(Len(results[1]) > 1)
    <3>1. pc' = "top"
      BY <2>2 DEF Taken
    <3>2. CASE overlap /\ last.reqs # <<>>
      <4>1. results' = <<last'.reqs>>
        BY <1>2, <1>3, <1>4, <1>5, <2>2, <3>2
      <4> QED
        BY <1>1, <1>4, <1>5, <3>1, <3>2, <4>1 DEF ResultsOK
    <3>3. CASE ~(overlap /\ last.reqs # <<>>)
      <4>1. results' = <<>>
        BY <1>2, <1>3, <1>5, <2>2, <3>3
      <4> QED
        BY <1>1, <1>4, <1>5, <3>1, <3>3, <4>1 DEF ResultsOK
    <3> QED
      BY <3>2, <3>3
  <2> QED
    BY <2>1, <2>2
<1>8. pc' \in {"top", "process"}
  BY DEF Taken
<1> QED
  BY <1>5, <1>6, <1>7, <1>8

\* z and q give the requests the same rows and nodes.
SameRows(z, q) ==
    \A r \in Reqs : /\ z[r].state = "absent" <=> q[r].state = "absent"
                    /\ z[r].state # "absent" => z[r].node = q[r].node /\ z[r].row = q[r].row

\* Slots have the same use when requests keep their rows.
LEMMA SlotsFields ==
    ASSUME NEW f, NEW T, NEW q, SlotsAt(f, T, q), NEW z, SameRows(z, q)
    PROVE  SlotsAt(f, T, z)
<1> USE DEF SameRows
<1>1. \A r \in Reqs : \A s : OwnsAt(z, r, s) <=> OwnsAt(q, r, s)
  BY DEF OwnsAt
<1>2. ASSUME NEW r \in Reqs, z[r].state # "absent",
             NEW i \in Len(z[r].node) + 1 .. Len(z[r].row), NEW k \in Len(z[r].node) + 1 .. Len(z[r].row),
             z[r].row[i] = z[r].row[k]
      PROVE  i = k
  BY <1>2 DEF SlotsAt
<1> QED
  BY <1>1, <1>2 DEF SlotsAt

\* The result of a chunk that does not end its request.
LEMMA ProcessChunk ==
    ASSUME IInv, Taken, NEW r, r = results[1][1], req[r].is_chunked > 0,
           req' = [req EXCEPT ![r].is_chunked = @ - 1],
           UNCHANGED <<tree, free, kv, rows, adder, full, chunked, crashed>>
    PROVE  IInv'
<1> DEFINE x == req'[r]
<1>1. /\ tree' = tree /\ free' = free /\ kv' = kv /\ rows' = rows /\ batch' = batch /\ mode' = mode
      /\ offset' = offset /\ rem_chunk' = rem_chunk /\ full' = full /\ chunked' = chunked
      /\ pc = "process" /\ overlap' = overlap /\ last' = last /\ batch = <<>> /\ ToSet(batch) = {}
  BY DEF adder, Taken, IInv, BatchOK, ToSet
<1>2. /\ ResultsOK' /\ results' \in Seq(Seq(Reqs)) /\ pc' \in {"top", "process"}
      /\ r \in Reqs /\ req[r].state = "running"
      /\ Open(results', r) = Open(results, r) - 1 /\ Open(results, r) >= 1
      /\ \A h \in Reqs : h # r => Open(results', h) = Open(results, h)
  BY ProcessResults
<1>3. req \in [Reqs -> Req \cup {Absent}] /\ req[r] \in Req
  BY <1>2, Basics DEF IInv, Types
<1>4. PICK d \in Nat : req[r].is_chunked = d + 1
  <2>1. PICK y \in Nat : y = req[r].is_chunked
    BY <1>3, ReqFacts
  <2>2. y > 0
    BY <2>1
  <2>3. y - 1 \in Nat /\ y = (y - 1) + 1
    BY <2>2
  <2> QED
    BY <2>1, <2>3
<1>a. req[r].is_chunked - 1 = d
  BY <1>4
<1>b. x = [req[r] EXCEPT !.is_chunked = d]
  BY <1>2, <1>3, <1>a
<1>5. x = [req[r] EXCEPT !.is_chunked = d] /\ req' = [req EXCEPT ![r] = x]
  BY <1>2, <1>3, <1>a, <1>b
<1> HIDE DEF x
<1>6. /\ x \in Req /\ x.job = req[r].job /\ x.state = req[r].state /\ x.prefix = req[r].prefix
      /\ x.node = req[r].node /\ x.fill = req[r].fill /\ x.row = req[r].row /\ x.value = req[r].value
      /\ x.is_chunked = d
  BY <1>3, <1>5 DEF Req
<1>7. req' \in [Reqs -> Req \cup {Absent}] /\ \A h \in Reqs : h # r => req'[h] = req[h]
  BY <1>2, <1>3, <1>5, <1>6
<1>8. \A h \in Reqs : /\ req'[h].state = req[h].state
                      /\ req[h].state # "absent" =>
                           /\ req'[h].job = req[h].job /\ req'[h].node = req[h].node /\ req'[h].row = req[h].row
                           /\ req'[h].prefix = req[h].prefix /\ req'[h].fill = req[h].fill
                           /\ req'[h].value = req[h].value
  BY <1>6, <1>7 DEF x
<1>9. Holders' = Holders
  BY <1>1, <1>8 DEF Holders
<1>10. Types'
  BY <1>1, <1>2, <1>7 DEF IInv, Types
<1>11. BatchOK'
  <2>1. DOMAIN batch = {}
    BY <1>1
  <2> QED
    BY <1>1, <1>2, <2>1 DEF IInv, BatchOK
<1>12. Counted'
  <2> SUFFICES ASSUME NEW h \in Reqs
               PROVE  /\ req'[h].state = "running" =>
                            Open(results', h) = req'[h].is_chunked + (IF h = chunked \/ h \in ToSet(batch) THEN 0 ELSE 1)
                      /\ req'[h].state # "running" => Open(results', h) = 0
                      /\ req'[h].state \notin {"running", "absent"} => req'[h].is_chunked = 0
    BY <1>1 DEF Counted
  <2>1. CASE h = r
    <3>1. Open(results, r) = req[r].is_chunked + (IF r = chunked \/ r \in ToSet(batch) THEN 0 ELSE 1)
      BY <1>2 DEF IInv, Counted
    <3> QED
      BY <1>2, <1>4, <1>6, <2>1, <3>1 DEF x
  <2>2. CASE h # r
    BY <1>2, <1>7, <2>2 DEF IInv, Counted
  <2> QED
    BY <2>1, <2>2
<1>13. ChunkedOK'
  <2>1. \A h \in Holders : h \in Reqs /\ req[h].state # "absent"
    BY Basics, ReqFacts
  <2>2. chunked # NONE => chunked \in Reqs /\ req[chunked].state # "absent"
    BY DEF IInv, Types, ChunkedOK
  <2> QED
    BY <1>1, <1>2, <1>8, <1>9, <2>1, <2>2 DEF IInv, ChunkedOK, Ids
<1>14. HoldersOK'
  <2> SUFFICES ASSUME NEW h \in Holders PROVE HolderAt(req'[h], tree, kv)
    BY <1>1, <1>9 DEF HoldersOK
  <2>1. h \in Reqs /\ req[h] \in Req /\ HolderAt(req[h], tree, kv) /\ req[h].state # "absent"
    BY Basics, ReqFacts
  <2> QED
    BY <1>8, <2>1 DEF HolderAt, RowAt
<1>15. RestOK'
  BY <1>1, <1>2, <1>8, <1>9 DEF IInv, RestOK
<1>16. SlotsOK'
  <2>1. SlotsAt(free, tree, req)
    BY DEF IInv, SlotsOK
  <2>a. SameRows(req', req)
    BY <1>8 DEF SameRows
  <2>2. SlotsAt(free, tree, req')
    BY <2>1, <2>a, SlotsFields
  <2> QED
    BY <1>1, <2>2 DEF SlotsOK
<1>17. CacheHonest' /\ Shape(tree)' /\ Exact(tree)'
  BY <1>1 DEF IInv, CacheHonest
<1>18. LocksOK'
  <2>1. \A h \in Holders : NodeOf'[h] = NodeOf[h]
    <3>1. \A h \in Holders : h \in Reqs /\ req[h].state # "absent"
      BY Basics, ReqFacts
    <3> QED
      BY <1>8, <1>9, <3>1 DEF NodeOf
  <2>2. LocksAt(tree, Holders, NodeOf')
    BY <2>1, LocksSame DEF IInv, LocksOK
  <2> QED
    BY <1>1, <1>9, <2>2 DEF LocksOK
<1>19. Reserved'
  <2>1. chunked # NONE => chunked \in Reqs /\ req[chunked].state # "absent"
    BY DEF IInv, Types, ChunkedOK
  <2>2. Available' = Available
    BY <1>1 DEF Available
  <2> QED
    BY <1>1, <1>2, <1>8, <2>1, <2>2 DEF IInv, Reserved, Ids
<1>20. RowsOK'
  <2>1. {h \in Reqs : HasRow(req', h)} = {h \in Reqs : HasRow(req, h)}
    BY <1>8 DEF HasRow
  <2> QED
    BY <1>1, <2>1 DEF IInv, RowsOK
<1> QED
  BY <1>2, <1>10, <1>11, <1>12, <1>13, <1>14, <1>15, <1>16, <1>17, <1>18, <1>19, <1>20 DEF IInv

\* When a request gives its row back, more is available.
LEMMA ReleaseRoom ==
    ASSUME IInv, NEW c, NEW key, NEW K, NEW m, NEW U, NEW X, Release(c, key, K, m, U, X),
           NEW D, Unlocks(D, U, c), X \subseteq Slots
    PROVE  Available <= Cardinality(free \cup X) + D.evictable
<1>1. /\ Shape(D) /\ Exact(D) /\ D.slot = U.slot /\ Nodes(D) = Nodes(U) /\ LocksAt(D, Holders \ {c}, NodeOf)
  BY ReleaseLocks
<1>2. DOMAIN tree.slot \subseteq DOMAIN D.slot /\ Nodes(tree) \subseteq Nodes(D)
  <2>1. DOMAIN U.slot = DOMAIN tree.slot \cup Rest(key, m) /\ Nodes(tree) \subseteq Nodes(U)
    BY ReleaseTree
  <2> QED
    BY <1>1, <2>1
<1>3. /\ Shape(tree) /\ Exact(tree) /\ LocksAt(tree, Holders, NodeOf) /\ IsFiniteSet(Holders)
      /\ \A r \in Holders : NodeOf[r] \in Seq(Token) /\ (NodeOf[r] # <<>> => NodeOf[r] \in Nodes(tree))
  BY Basics DEF IInv, LocksOK
<1>4. IsFiniteSet(Holders \ {c})
  BY <1>3, FS_Subset
<1>5. Unlocked(tree) = {p \in DOMAIN tree.slot : \A r \in Holders : ~IsPrefix(p, NodeOf[r])}
  BY <1>3, UnlockedIs
<1>6. Unlocked(D) = {p \in DOMAIN D.slot : \A r \in Holders \ {c} : ~IsPrefix(p, NodeOf[r])}
  <2>1. \A r \in Holders \ {c} : NodeOf[r] \in Seq(Token) /\ (NodeOf[r] # <<>> => NodeOf[r] \in Nodes(D))
    BY <1>2, <1>3
  <2> QED
    BY <1>1, <1>4, <2>1, UnlockedIs
<1>7. Unlocked(tree) \in SUBSET Unlocked(D)
  BY <1>2, <1>5, <1>6
<1>8. IsFiniteSet(Unlocked(D))
  <2>1. Unlocked(D) \in SUBSET DOMAIN D.slot
    BY DEF Unlocked
  <2>2. IsFiniteSet(DOMAIN D.slot)
    BY <1>1 DEF Shape
  <2> QED
    BY <2>1, <2>2, FS_Subset
<1>9. PICK a \in Nat, b \in Nat : a = tree.evictable /\ b = D.evictable /\ a <= b
  <2>1. Cardinality(Unlocked(tree)) <= Cardinality(Unlocked(D)) /\ IsFiniteSet(Unlocked(tree))
    BY <1>7, <1>8, FS_Subset
  <2>2. Cardinality(Unlocked(tree)) \in Nat /\ Cardinality(Unlocked(D)) \in Nat
    BY <1>8, <2>1, FS_CardinalityType
  <2> QED
    BY <1>1, <1>3, <2>1, <2>2 DEF Exact
<1>10. PICK s \in Nat, t \in Nat : s = Cardinality(free) /\ t = Cardinality(free \cup X) /\ s <= t
  <2>1. IsFiniteSet(Slots)
    BY Sizes, FS_Interval DEF Slots
  <2>2. free \cup X \in SUBSET Slots
    BY DEF IInv, Types
  <2>3. IsFiniteSet(free \cup X)
    BY <2>1, <2>2, FS_Subset
  <2>4. free \in SUBSET (free \cup X)
    OBVIOUS
  <2>5. Cardinality(free) <= Cardinality(free \cup X)
    BY <2>3, <2>4, FS_Subset
  <2>6. Cardinality(free) \in Nat /\ Cardinality(free \cup X) \in Nat
    BY <2>3, FS_CardinalityType, Basics
  <2> QED
    BY <2>5, <2>6
<1> QED
  BY <1>9, <1>10 DEF Available

\* The request's last result: it is released.
Finishes(r) == /\ Taken /\ r = results[1][1] /\ req[r].is_chunked = 0 /\ Finish(r)
               /\ UNCHANGED <<adder, full, chunked, crashed>>

\* The request that ends is not the chunked one and has its whole text.
LEMMA FinishFacts ==
    ASSUME IInv, NEW r, Finishes(r)
    PROVE  /\ r \in Reqs /\ req[r] \in Req /\ r \in Holders /\ r # chunked
           /\ req[r].fill = Len(req[r].job.ids) /\ req[r].row # <<>> /\ Open(results', r) = 0
           /\ req[r].value = Expected(req[r].job)
<1>1. Taken /\ r = results[1][1] /\ req[r].is_chunked = 0
  BY DEF Finishes
<1>2. /\ r \in Reqs /\ req[r].state = "running"
      /\ Open(results', r) = Open(results, r) - 1 /\ Open(results, r) >= 1
  BY <1>1, ProcessResults
<1>3. batch = <<>> /\ ToSet(batch) = {} /\ pc = "process"
  BY <1>1 DEF Taken, IInv, BatchOK, ToSet
<1>4. Open(results, r) = 0 + (IF r = chunked \/ r \in ToSet(batch) THEN 0 ELSE 1)
  BY <1>1, <1>2 DEF IInv, Counted
<1>5. r # chunked /\ Open(results, r) = 1
  BY <1>2, <1>3, <1>4
<1>6. r \in Holders /\ req[r] \in Req
  BY <1>2, Basics DEF Holders
<1>7. req[r].fill = Len(req[r].job.ids)
  BY <1>5, <1>6 DEF IInv, ChunkedOK, Ids
<1>8. req[r].row # <<>>
  BY <1>2, <1>3 DEF IInv, RestOK
<1>9. req[r].value = Expected(req[r].job)
  <2>1. HolderAt(req[r], tree, kv)
    BY <1>6, Basics
  <2> QED
    BY <1>7, <1>8, <2>1 DEF HolderAt, RowAt
<1> QED
  BY <1>2, <1>5, <1>6, <1>7, <1>8, <1>9

\* It gives its row back: the prefix of a tree_value request, or all, goes to
\* the tree.
LEMMA FinishReleases ==
    ASSUME IInv, NEW r, Finishes(r)
    PROVE  \E key, K, m, U, X :
             /\ Release(r, key, K, m, U, X) /\ Unlocks(tree', U, r)
             /\ free' = free \cup X /\ kv' = Emptied(X) /\ rows' = rows + 1
<1> DEFINE x == req[r]
           j == x.job
           K == InsertLen(j)
           key == Take(j.ids, K)
           m == IF j.bypass THEN K ELSE MatchLen(tree, key)
           U == IF j.bypass THEN tree ELSE insert(tree, key, x.row)
           X == {x.row[i] : i \in Len(x.node) + 1 .. m} \cup {x.row[i] : i \in K + 1 .. x.fill}
<1>1. /\ r \in Reqs /\ x \in Req /\ r \in Holders /\ x.fill = Len(j.ids) /\ x.row # <<>>
  BY FinishFacts
<1>2. HolderAt(x, tree, kv) /\ j \in JobChoices
  BY <1>1, Basics, ReqFacts
<1>3. /\ j.ids \in Seq(Token) /\ Len(j.ids) \in Nat /\ Len(j.ids) >= 1
      /\ j.prefix_len \in Nat /\ j.prefix_len < Len(j.ids) /\ j.bypass \in BOOLEAN
  BY <1>2, JobFacts
<1>4. PICK P \in Nat : P = Len(x.node) /\ P = Len(x.prefix)
  <2>1. x.node \in Seq(Token) /\ Len(x.node) \in Nat
    BY <1>1, ReqFacts
  <2>2. Len(x.prefix) = Len(x.node)
    <3>1. x.prefix = [i \in 1 .. Len(x.node) |-> tree.slot[Take(x.node, i)]] /\ x.prefix \in Seq(Slots)
      BY <1>1, <1>2, ReqFacts DEF HolderAt
    <3> QED
      BY <2>1, <3>1
  <2> QED
    BY <2>1, <2>2
<1>5. K \in Nat /\ K >= 1 /\ P <= K /\ K <= Len(j.ids) /\ (j.prefix_len > 0 => K <= j.prefix_len)
  <2>1. P <= x.fill /\ (j.prefix_len > 0 => P < j.prefix_len)
    BY <1>2, <1>4 DEF HolderAt
  <2> QED
    BY <1>1, <1>3, <1>4, <2>1 DEF InsertLen
<1>6. Len(key) = K
  BY <1>3, <1>5, TakeFacts
<1> HIDE DEF K
<1>7. Release(r, key, K, m, U, X)
  <2>1. \/ m = MatchLen(tree, key) /\ U = insert(tree, key, req[r].row)
        \/ m = K /\ U = tree
    OBVIOUS
  <2> HIDE DEF m, U
  <2> QED
    BY <1>1, <1>4, <1>5, <2>1 DEF Release
<1>8. /\ tree' = dec_lock_ref(U, x.node) /\ rows' = rows + 1
      /\ free' = free \cup X /\ kv' = Emptied(X)
  <2>1. Finish(r)
    BY DEF Finishes
  <2>2. (Duplicates(r, IF j.bypass THEN Len(key) ELSE MatchLen(tree, key))
            \cup {req[r].row[i] : i \in Len(key) + 1 .. Len(j.ids)}) = X
    BY <1>1, <1>4, <1>6 DEF Duplicates, Protected
  <2>3. /\ tree' = dec_lock_ref(U, x.node) /\ rows' = rows + 1
        /\ Freed(free, kv, Duplicates(r, IF j.bypass THEN Len(key) ELSE MatchLen(tree, key))
                           \cup {req[r].row[i] : i \in Len(key) + 1 .. Len(j.ids)})
    BY <2>1 DEF Finish, K
  <2>4. Freed(free, kv, X)
    BY <2>2, <2>3
  <2> HIDE DEF X
  <2> QED
    BY <2>3, <2>4 DEF Freed, Emptied
<1>9. Unlocks(tree', U, r)
  BY <1>8 DEF Unlocks
<1> HIDE DEF x, j, key, m, U, X
<1> QED
  BY <1>7, <1>8, <1>9

\* The request ends.
LEMMA FinishKeeps ==
    ASSUME IInv, NEW r, Finishes(r)
    PROVE  IInv'
<1> DEFINE x == req[r]
           y == req'[r]
           D == tree'
<1>1. /\ batch' = batch /\ mode' = mode /\ offset' = offset /\ rem_chunk' = rem_chunk /\ full' = full
      /\ chunked' = chunked /\ overlap' = overlap /\ last' = last
      /\ pc = "process" /\ batch = <<>> /\ ToSet(batch) = {}
  BY DEF Finishes, adder, Taken, IInv, BatchOK, ToSet
<1>2. /\ ResultsOK' /\ results' \in Seq(Seq(Reqs)) /\ pc' \in {"top", "process"}
      /\ \A h \in Reqs : h # r => Open(results', h) = Open(results, h)
  BY ProcessResults DEF Finishes
<1>3. /\ r \in Reqs /\ x \in Req /\ r \in Holders /\ r # chunked
      /\ x.row # <<>> /\ Open(results', r) = 0 /\ x.value = Expected(x.job)
  BY FinishFacts
<1>4. PICK key, K, m, U, X :
             /\ Release(r, key, K, m, U, X) /\ Unlocks(D, U, r)
             /\ free' = free \cup X /\ kv' = Emptied(X) /\ rows' = rows + 1
  BY FinishReleases
<1>5. req \in [Reqs -> Req \cup {Absent}] /\ x.is_chunked = 0
  BY DEF IInv, Types, Finishes
<1>6. y = [x EXCEPT !.state = "done", !.row = <<>>, !.prefix = <<>>, !.node = <<>>]
      /\ req' = [req EXCEPT ![r] = [x EXCEPT !.state = "done", !.row = <<>>, !.prefix = <<>>, !.node = <<>>]]
  BY <1>3, <1>5 DEF Finishes, Finish
<1> HIDE DEF y, x, D
<1>7. /\ y \in Req /\ y.job = x.job /\ y.state = "done" /\ y.prefix = <<>> /\ y.node = <<>>
      /\ y.row = <<>> /\ y.is_chunked = 0 /\ y.value = x.value
  <2>1. <<>> \in Seq(Slots) /\ <<>> \in Seq(Token)
    BY EmptySeq
  <2> QED
    BY <1>3, <1>5, <1>6, <2>1 DEF Req, States
<1>8. req' \in [Reqs -> Req \cup {Absent}] /\ req'[r] = y /\ \A h \in Reqs : h # r => req'[h] = req[h]
  BY <1>3, <1>5, <1>6, <1>7
<1>9. Holders' = Holders \ {r} /\ \A h \in Holders : h \in Reqs
  BY <1>1, <1>7, <1>8, Basics DEF Holders
<1>10. /\ SlotsAt(free \cup X, U, req') /\ X \subseteq Slots
       /\ \A p \in DOMAIN U.slot : Emptied(X)[U.slot[p]] = p
  <2>1. \A h \in Reqs \ {r} : req'[h] = req[h]
    BY <1>8
  <2>2. req'[r] \in Req /\ req'[r].row = <<>>
    BY <1>7, <1>8
  <2>3. PICK z : z = req'
    OBVIOUS
  <2>4. (\A h \in Reqs \ {r} : z[h] = req[h]) /\ z[r] \in Req /\ z[r].row = <<>>
    BY <2>1, <2>2, <2>3
  <2>a. Cleared(z, r)
    BY <2>4 DEF Cleared
  <2>5. /\ SlotsAt(free \cup X, U, z) /\ X \subseteq Slots
        /\ \A p \in DOMAIN U.slot : Emptied(X)[U.slot[p]] = p
    BY <1>4, <2>a, ReleaseSlots
  <2> QED
    BY <2>3, <2>5
<1>11. /\ Shape(D) /\ Exact(D) /\ D.slot = U.slot /\ Nodes(D) = Nodes(U)
       /\ LocksAt(D, Holders \ {r}, NodeOf)
       /\ \A h \in Holders \ {r} : HolderAt(req[h], D, Emptied(X))
  BY <1>4, ReleaseLocks
<1>12. Types'
  <2>1. free' \subseteq Slots
    BY <1>4, <1>10 DEF IInv, Types
  <2>2. kv' \in [Slots -> Seq(Token)]
    <3>1. <<>> \in Seq(Token)
      BY EmptySeq
    <3>2. kv \in [Slots -> Seq(Token)]
      BY DEF IInv, Types
    <3> QED
      BY <1>4, <3>1, <3>2 DEF Emptied
  <2>3. rows' \in Nat
    BY <1>4 DEF IInv, Types
  <2> QED
    BY <1>1, <1>2, <1>8, <2>1, <2>2, <2>3 DEF IInv, Types
<1>13. BatchOK'
  <2>1. DOMAIN batch = {} /\ Len(batch) = 0
    BY <1>1
  <2>2. rows' \in Nat
    BY <1>12 DEF Types
  <2> QED
    BY <1>1, <2>1, <2>2 DEF BatchOK, Once
<1>14. Counted'
  <2> SUFFICES ASSUME NEW h \in Reqs
               PROVE  /\ req'[h].state = "running" =>
                            Open(results', h) = req'[h].is_chunked + (IF h = chunked \/ h \in ToSet(batch) THEN 0 ELSE 1)
                      /\ req'[h].state # "running" => Open(results', h) = 0
                      /\ req'[h].state \notin {"running", "absent"} => req'[h].is_chunked = 0
    BY <1>1 DEF Counted
  <2>1. CASE h = r
    BY <1>3, <1>7, <1>8, <2>1
  <2>2. CASE h # r
    BY <1>2, <1>8, <2>2 DEF IInv, Counted
  <2> QED
    BY <2>1, <2>2
<1>15. ChunkedOK'
  <2>1. chunked # NONE => chunked \in Reqs /\ chunked # r /\ req'[chunked] = req[chunked]
    BY <1>3, <1>8 DEF IInv, Types
  <2>2. \A h \in Holders' : h \in Holders /\ req'[h] = req[h]
    BY <1>8, <1>9
  <2> QED
    BY <1>1, <1>2, <2>1, <2>2 DEF IInv, ChunkedOK, Ids
<1>16. HoldersOK'
  <2>1. \A h \in Holders' : HolderAt(req'[h], D, kv')
    BY <1>4, <1>8, <1>9, <1>11
  <2> QED
    BY <2>1 DEF HoldersOK, D
<1>17. RestOK'
  <2> SUFFICES ASSUME NEW h \in Reqs
               PROVE /\ req'[h].state # "absent" /\ h \notin Holders' =>
                            req'[h].row = <<>> /\ req'[h].prefix = <<>> /\ req'[h].node = <<>>
                     /\ req'[h].state = "running" => req'[h].row # <<>>
                     /\ req'[h].state = "done" => req'[h].value = Expected(req'[h].job)
    BY <1>1 DEF RestOK
  <2>1. CASE h = r
    BY <1>3, <1>7, <1>8, <2>1
  <2>2. CASE h # r
    BY <1>1, <1>8, <1>9, <2>2 DEF IInv, RestOK
  <2> QED
    BY <2>1, <2>2
<1>18. SlotsOK'
  <2>1. SlotsAt(free', D, req')
    BY <1>4, <1>10, <1>11, SlotsSame
  <2> QED
    BY <2>1 DEF SlotsOK, D
<1>19. CacheHonest'
  <2>1. \A p \in DOMAIN D.slot : kv'[D.slot[p]] = p
    BY <1>4, <1>10, <1>11
  <2> QED
    BY <2>1 DEF CacheHonest, D
<1>20. LocksOK'
  <2>1. \A h \in Holders \ {r} : NodeOf'[h] = NodeOf[h]
    BY <1>8, <1>9 DEF NodeOf
  <2>2. LocksAt(D, Holders \ {r}, NodeOf')
    BY <1>11, <2>1, LocksSame
  <2> QED
    BY <1>9, <2>2 DEF LocksOK, D
<1>21. Reserved'
  <2>1. Available <= Cardinality(free \cup X) + D.evictable
    BY <1>4, <1>10, ReleaseRoom
  <2>2. Available' = Cardinality(free \cup X) + D.evictable
    BY <1>4 DEF Available, D
  <2>3. chunked # NONE => chunked \in Reqs /\ chunked # r /\ req'[chunked] = req[chunked]
    BY <1>3, <1>8 DEF IInv, Types
  <2>4. PICK a \in Nat : a = Available
    BY Basics
  <2>5. PICK b \in Int : b = Available'
    <3>1. IsFiniteSet(Slots)
      BY Sizes, FS_Interval DEF Slots
    <3>2. free \cup X \in SUBSET Slots
      BY <1>10 DEF IInv, Types
    <3>3. IsFiniteSet(free \cup X)
      BY <3>1, <3>2, FS_Subset
    <3>4. Cardinality(free \cup X) \in Nat
      BY <3>3, FS_CardinalityType
    <3>5. D.evictable \in Int
      BY <1>11 DEF Shape
    <3> QED
      BY <2>2, <3>4, <3>5
  <2>6. a <= b
    BY <2>1, <2>2, <2>4, <2>5
  <2>7. ASSUME chunked # NONE PROVE Len(req[chunked].job.ids) - req[chunked].fill < b
    <3>1. 0 + (Len(req[chunked].job.ids) - req[chunked].fill) < a
      BY <1>1, <2>4, <2>7 DEF IInv, Reserved, Ids
    <3>2. req[chunked] \in Req
      BY <2>7, Basics DEF IInv, ChunkedOK, Types
    <3>3. Len(req[chunked].job.ids) \in Nat /\ req[chunked].fill \in Nat
      BY <3>2, ReqFacts, JobFacts
    <3> QED
      BY <2>6, <3>1, <3>3
  <2>8. ASSUME chunked # NONE PROVE 0 + (Len(req'[chunked].job.ids) - req'[chunked].fill) < Available'
    <3>1. req[chunked] \in Req
      BY <2>8, Basics DEF IInv, ChunkedOK, Types
    <3>2. PICK l \in Nat, f \in Nat : l = Len(req[chunked].job.ids) /\ f = req[chunked].fill
      BY <3>1, ReqFacts, JobFacts
    <3>3. l - f < b
      BY <2>7, <2>8, <3>2
    <3>4. 0 + (l - f) < b
      BY <3>3
    <3> QED
      BY <2>3, <2>5, <2>8, <3>2, <3>4
  <2>9. batch' = <<>> /\ pc' # "adding"
    BY <1>1, <1>2
  <2> QED
    BY <1>1, <2>8, <2>9 DEF Reserved, Ids
<1>22. RowsOK'
  <2> DEFINE A == {h \in Reqs : HasRow(req, h)}
             B == {h \in Reqs : HasRow(req', h)}
  <2>1. B = A \ {r} /\ r \in A
    <3>1. ~HasRow(req', r) /\ HasRow(req, r)
      <4>1. x.state # "absent"
        BY <1>3, ReqFacts
      <4> QED
        BY <1>3, <1>7, <1>8, <4>1 DEF HasRow, x
    <3>2. \A h \in Reqs : h # r => (HasRow(req', h) <=> HasRow(req, h))
      BY <1>8 DEF HasRow
    <3> QED
      BY <1>3, <3>1, <3>2
  <2>2. IsFiniteSet(A)
    BY ReqNames, FS_Subset
  <2> HIDE DEF A, B
  <2>3. Cardinality(B) = Cardinality(A) - 1 /\ Cardinality(A) \in Nat
    BY <2>1, <2>2, FS_RemoveElement, FS_CardinalityType
  <2>4. rows + Cardinality(A) = Rows /\ rows \in Nat
    BY DEF IInv, RowsOK, Types, A
  <2>5. rows' + Cardinality(B) = Rows
    BY <1>4, <2>3, <2>4
  <2> QED
    BY <2>5 DEF RowsOK, B
<1>23. Shape(tree)' /\ Exact(tree)'
  BY <1>11 DEF D
<1> QED
  BY <1>2, <1>12, <1>13, <1>14, <1>15, <1>16, <1>17, <1>18, <1>19, <1>20, <1>21, <1>22, <1>23 DEF IInv

\* One result.
LEMMA ProcessKeeps == IInv /\ Process => IInv'
<1> SUFFICES ASSUME IInv, Process PROVE IInv'
  OBVIOUS
<1> DEFINE r == results[1][1]
<1>1. Taken /\ UNCHANGED <<adder, full, chunked, crashed>>
  BY DEF Process, Taken, NextResults
<1>2. CASE req[r].is_chunked > 0 /\ req' = [req EXCEPT ![r].is_chunked = @ - 1] /\ UNCHANGED <<tree, free, kv, rows>>
  BY <1>1, <1>2, ProcessChunk
<1>3. CASE req[r].is_chunked = 0 /\ Finish(r)
  <2>1. Finishes(r)
    BY <1>1, <1>3 DEF Finishes
  <2> HIDE DEF r
  <2> QED
    BY <2>1, FinishKeeps
<1> QED
  BY <1>2, <1>3 DEF Process

----------------------------------------------------------------------------
(* The chunked request is stashed and goes on.                             *)

\* Stashing the chunked request c: its text key of K tokens goes to the tree,
\* its lock moves to the end of the text.
Stash(c, key, K, m, U, X, D, T) ==
    /\ pc = "top" /\ chunked # NONE /\ c = chunked
    /\ K = req[c].fill /\ key = FillIds(c) /\ m = MatchLen(tree, key)
    /\ U = insert(tree, key, req[c].row) /\ X = Duplicates(c, m)
    /\ Unlocks(D, U, c) /\ T = inc_lock_ref(D, key)

\* The chunked request is running, and gives its row back.
LEMMA StashReleases ==
    ASSUME IInv, NEW c, NEW key, NEW K, NEW m, NEW U, NEW X, NEW D, NEW T,
           Stash(c, key, K, m, U, X, D, T)
    PROVE  /\ Release(c, key, K, m, U, X) /\ Unlocks(D, U, c)
           /\ c \in Reqs /\ req[c] \in Req /\ c \in Holders /\ req[c].state = "running"
           /\ req[c].row # <<>> /\ K < Len(req[c].job.ids) /\ req[c].job.prefix_len = 0
           /\ batch = <<>> /\ ToSet(batch) = {} /\ Len(req[c].prefix) = Len(req[c].node)
<1> DEFINE x == req[c]
<1>1. pc = "top" /\ chunked # NONE /\ c = chunked
  BY DEF Stash
<1>2. K = x.fill /\ key = Take(x.job.ids, K) /\ m = MatchLen(tree, key) /\ U = insert(tree, key, x.row)
  BY DEF Stash, FillIds, Ids
<1>3. X = {x.row[i] : i \in Len(x.prefix) + 1 .. m} /\ Unlocks(D, U, c)
  BY DEF Stash, Duplicates, Protected
<1>4. batch = <<>> /\ ToSet(batch) = {}
  BY <1>1 DEF IInv, BatchOK, ToSet
<1>5. c \in Reqs /\ x.state = "running" /\ x.fill < Len(x.job.ids) /\ x.job.prefix_len = 0
  BY <1>1 DEF IInv, ChunkedOK, Types, Ids
<1>6. c \in Holders
  BY <1>5 DEF Holders
<1>7. x \in Req /\ HolderAt(x, tree, kv)
  BY <1>6, Basics
<1>8. x.row # <<>>
  BY <1>1, <1>4, <1>5 DEF IInv, RestOK
<1>9. Len(x.prefix) = Len(x.node)
  <2>1. x.prefix = [i \in 1 .. Len(x.node) |-> tree.slot[Take(x.node, i)]] /\ Len(x.node) \in Nat
    BY <1>7, ReqFacts DEF HolderAt
  <2> QED
    BY <2>1
<1>10. K \in Nat /\ K >= 1 /\ Len(x.node) <= K
  BY <1>2, <1>7, ReqFacts DEF HolderAt
<1>11. {x.row[i] : i \in K + 1 .. x.fill} = {}
  BY <1>2, <1>10
<1>12. X = {x.row[i] : i \in Len(x.node) + 1 .. m} \cup {x.row[i] : i \in K + 1 .. x.fill}
  BY <1>3, <1>9, <1>11
<1>13. Release(c, key, K, m, U, X)
  <2>1. ~(x.job.prefix_len > 0) /\ K <= x.fill
    BY <1>2, <1>5, <1>10
  <2> QED
    BY <1>2, <1>6, <1>8, <1>10, <1>12, <2>1 DEF Release
<1> QED
  BY <1>2, <1>3, <1>4, <1>5, <1>6, <1>7, <1>8, <1>9, <1>13

\* The nodes, with key that of c.
Moved(c, key) == [NodeOf EXCEPT ![c] = key]

\* The tree with the lock moved.
LEMMA StashTree ==
    ASSUME IInv, NEW c, NEW key, NEW K, NEW m, NEW U, NEW X, NEW D, NEW T,
           Stash(c, key, K, m, U, X, D, T)
    PROVE  /\ Shape(T) /\ Exact(T) /\ T.slot = U.slot /\ Nodes(T) = Nodes(U) /\ key \in Nodes(T)
           /\ Nodes(tree) \subseteq Nodes(T)
           /\ LocksAt(T, Holders, Moved(c, key))
           /\ \A h \in Holders \ {c} : HolderAt(req[h], T, Emptied(X))
<1>1. Release(c, key, K, m, U, X) /\ Unlocks(D, U, c) /\ c \in Holders
  BY StashReleases
<1>2. T = inc_lock_ref(D, key) /\ U = insert(tree, key, req[c].row)
  BY DEF Stash
<1>3. /\ Shape(D) /\ Exact(D) /\ D.slot = U.slot /\ Nodes(D) = Nodes(U)
      /\ LocksAt(D, Holders \ {c}, NodeOf)
      /\ \A h \in Holders \ {c} : HolderAt(req[h], D, Emptied(X))
  BY <1>1, ReleaseLocks
<1>4. key \in Nodes(U) /\ Nodes(tree) \subseteq Nodes(U)
  BY <1>1, <1>2, ReleaseTree
<1>5. IsFiniteSet(Holders) /\ IsFiniteSet(Holders \ {c})
  BY Basics, FS_Subset
<1>6. \A e \in Nodes(D) : D.ref[e] >= 0
  <2>1. ASSUME NEW e \in Nodes(D) PROVE D.ref[e] \in Nat
    BY <1>3, <1>5, LockCounts
  <2>2. \A y \in Nat : y >= 0
    OBVIOUS
  <2> QED
    BY <2>1, <2>2
<1>7. /\ Shape(T) /\ T.slot = D.slot /\ Nodes(T) = Nodes(D) /\ Exact(T)
      /\ \A e \in Nodes(D) : T.ref[e] = IF IsPrefix(e, key) THEN D.ref[e] + 1 ELSE D.ref[e]
  BY <1>2, <1>3, <1>6, IncEffect
<1>8. LocksAt(T, Holders, Moved(c, key))
  <2>1. PICK M : M = Moved(c, key)
    OBVIOUS
  <2>2. DOMAIN NodeOf = Holders /\ NodeOf = [h \in Holders |-> NodeOf[h]]
    BY DEF NodeOf
  <2>3. M[c] = key /\ Agree(M, NodeOf, Holders \ {c})
    BY <1>1, <2>1, <2>2 DEF Agree, Moved
  <2>4. OneMore(T, D, key)
    BY <1>7 DEF OneMore
  <2>5. c \notin Holders \ {c} /\ (Holders \ {c}) \cup {c} = Holders
    BY <1>1
  <2>6. LocksAt(T, (Holders \ {c}) \cup {c}, M)
    BY <1>3, <1>5, <2>3, <2>4, <2>5, LocksInc
  <2> QED
    BY <2>1, <2>5, <2>6
<1>9. ASSUME NEW h \in Holders \ {c} PROVE HolderAt(req[h], T, Emptied(X))
  <2>1. HolderAt(req[h], D, Emptied(X)) /\ req[h] \in Req
    BY <1>3, Basics
  <2>2. req[h].node # <<>> => req[h].node \in Nodes(T)
    BY <1>7, <2>1 DEF HolderAt
  <2> QED
    BY <1>7, <2>1, <2>2, HolderStays
<1> QED
  BY <1>3, <1>4, <1>7, <1>8, <1>9

\* As much is available as before: what the new lock takes, the freed
\* duplicates give back.
LEMMA StashRoom ==
    ASSUME IInv, NEW c, NEW key, NEW K, NEW m, NEW U, NEW X, NEW D, NEW T,
           Stash(c, key, K, m, U, X, D, T)
    PROVE  /\ Available <= Cardinality(free \cup X) + T.evictable
           /\ Cardinality(free \cup X) \in Nat /\ T.evictable \in Nat /\ X \subseteq Slots
<1> DEFINE x == req[c]
           M == Moved(c, key)
<1>1. /\ Release(c, key, K, m, U, X) /\ c \in Reqs /\ x \in Req /\ c \in Holders
      /\ x.row # <<>> /\ Len(x.prefix) = Len(x.node)
  BY StashReleases
<1>2. /\ Shape(T) /\ Exact(T) /\ T.slot = U.slot /\ key \in Nodes(T) /\ Nodes(tree) \subseteq Nodes(T)
      /\ LocksAt(T, Holders, M)
  BY StashTree
<1>3. /\ HolderAt(x, tree, kv) /\ Len(x.row) = x.fill /\ K \in Nat /\ key \in Seq(Token) /\ Len(key) = K
      /\ m \in Nat /\ Len(x.node) <= m /\ m <= K
      /\ \A i \in 1 .. K : Take(key, i) = Take(x.job.ids, i)
  BY <1>1, ReleaseFacts
<1>4. PICK P \in Nat : P = Len(x.node) /\ P <= m
  BY <1>1, <1>3, ReqFacts
<1>5. K = x.fill /\ m = MatchLen(tree, key) /\ X = {x.row[i] : i \in P + 1 .. m}
  BY <1>1, <1>4 DEF Stash, Duplicates, Protected
<1>6. DOMAIN U.slot = DOMAIN tree.slot \cup Rest(key, m)
  BY <1>1, ReleaseTree
<1>7. /\ Shape(tree) /\ Exact(tree) /\ LocksAt(tree, Holders, NodeOf) /\ IsFiniteSet(Holders)
      /\ \A r \in Holders : NodeOf[r] \in Seq(Token) /\ (NodeOf[r] # <<>> => NodeOf[r] \in Nodes(tree))
      /\ NodeOf[c] = x.node /\ SlotsAt(free, tree, req)
  BY <1>1, Basics DEF IInv, LocksOK, SlotsOK
<1>8. M[c] = key /\ \A r \in Holders : r # c => M[r] = NodeOf[r]
  <2>1. DOMAIN NodeOf = Holders
    BY DEF NodeOf
  <2> QED
    BY <1>1, <2>1 DEF Moved
<1> HIDE DEF M
<1>9. Unlocked(tree) = {p \in DOMAIN tree.slot : \A r \in Holders : ~IsPrefix(p, NodeOf[r])}
  BY <1>7, UnlockedIs
<1>10. Unlocked(T) = {p \in DOMAIN T.slot : \A r \in Holders : ~IsPrefix(p, M[r])}
  <2>1. \A r \in Holders : M[r] \in Seq(Token) /\ (M[r] # <<>> => M[r] \in Nodes(T))
    BY <1>2, <1>3, <1>7, <1>8
  <2> QED
    BY <1>2, <1>7, <2>1, UnlockedIs
<1> DEFINE W == Rest(Take(key, m), P)
<1>11. /\ Take(key, m) \in Seq(Token) /\ Len(Take(key, m)) = m
       /\ \A i \in 0 .. m : Take(Take(key, m), i) = Take(key, i)
  <2>1. m \in 0 .. Len(key)
    BY <1>3
  <2> QED
    BY <1>3, <2>1, TakeFacts, TakeTake
<1>12. IsFiniteSet(W) /\ Cardinality(W) = m - P
  <2>1. P \in 0 .. Len(Take(key, m))
    BY <1>4, <1>11, <1>3
  <2> QED
    BY <1>11, <2>1, RestCount
<1>13. ASSUME NEW p \in Unlocked(tree), p \notin Unlocked(T) PROVE p \in W
  <2>1. p \in DOMAIN tree.slot /\ \A r \in Holders : ~IsPrefix(p, NodeOf[r])
    BY <1>9
  <2>2. p \in DOMAIN T.slot
    BY <1>2, <1>6, <2>1
  <2>3. IsPrefix(p, key)
    BY <1>8, <1>10, <1>13, <2>1, <2>2
  <2>4. p \in Seq(Token) /\ p # <<>>
    BY <1>7, <2>1, Paths
  <2>5. PICK i \in Nat : i = Len(p) /\ i > 0
    BY <1>7, <2>1, Paths
  <2>6. i <= K /\ p = Take(key, i)
    BY <1>3, <2>3, <2>4, <2>5, PrefixIs
  <2>7. i <= m
    <3>1. i \in 1 .. Len(key)
      BY <1>3, <2>5, <2>6
    <3> QED
      BY <1>3, <1>5, <1>7, <2>1, <2>6, <3>1, MatchIs
  <2>8. ~(i <= P)
    <3> SUFFICES ASSUME i <= P PROVE FALSE
      OBVIOUS
    <3>1. x.node = Take(x.job.ids, P) /\ P \in 0 .. Len(key) /\ i \in 0 .. Len(key) /\ P \in 0 .. K
      BY <1>3, <1>4, <2>7 DEF HolderAt
    <3>2. Take(key, P) = x.node
      <4>1. CASE P = 0
        <5>1. x.node = <<>> /\ Take(key, P) = <<>>
          BY <1>1, <1>3, <1>4, <4>1, EmptySeq, ReqFacts, TakeEnds
        <5> QED
          BY <5>1
      <4>2. CASE P # 0
        <5>1. P \in 1 .. K
          BY <3>1, <4>2
        <5> QED
          BY <1>3, <3>1, <5>1
      <4> QED
        BY <4>1, <4>2
    <3>3. IsPrefix(Take(key, i), Take(key, P))
      BY <1>3, <3>1, TakePrefixes
    <3> QED
      BY <1>1, <1>7, <2>1, <2>6, <3>2, <3>3
  <2>9. i \in P + 1 .. Len(Take(key, m)) /\ i \in 0 .. m
    BY <1>3, <1>11, <2>5, <2>7, <2>8
  <2>10. p = Take(Take(key, m), i)
    BY <1>11, <2>6, <2>9
  <2> QED
    BY <2>9, <2>10 DEF Rest
<1> HIDE DEF W
<1>14. IsFiniteSet(Unlocked(tree)) /\ IsFiniteSet(Unlocked(T))
  <2>1. Unlocked(tree) \in SUBSET DOMAIN tree.slot /\ Unlocked(T) \in SUBSET DOMAIN T.slot
    BY DEF Unlocked
  <2>2. IsFiniteSet(DOMAIN tree.slot) /\ IsFiniteSet(DOMAIN T.slot)
    BY <1>2, <1>7 DEF Shape
  <2> QED
    BY <2>1, <2>2, FS_Subset
<1>15. PICK a \in Nat, b \in Nat : a = tree.evictable /\ b = T.evictable /\ a <= b + (m - P)
  <2>1. Unlocked(tree) \in SUBSET (Unlocked(T) \cup W)
    BY <1>13
  <2>2. /\ IsFiniteSet(Unlocked(T) \cup W)
        /\ Cardinality(Unlocked(T) \cup W) = Cardinality(Unlocked(T)) + Cardinality(W) - Cardinality(Unlocked(T) \cap W)
    BY <1>12, <1>14, FS_Union
  <2>3. Cardinality(Unlocked(tree)) <= Cardinality(Unlocked(T) \cup W)
    BY <2>1, <2>2, FS_Subset
  <2>4. IsFiniteSet(Unlocked(T) \cap W)
    BY <1>12, FS_Subset
  <2>5. /\ Cardinality(Unlocked(tree)) \in Nat /\ Cardinality(Unlocked(T)) \in Nat
        /\ Cardinality(Unlocked(T) \cap W) \in Nat
    BY <1>14, <2>4, FS_CardinalityType
  <2>6. Cardinality(Unlocked(tree)) <= Cardinality(Unlocked(T)) + (m - P)
    BY <1>3, <1>4, <1>12, <2>2, <2>3, <2>5
  <2> QED
    BY <1>2, <1>7, <2>5, <2>6 DEF Exact
<1>16. \A i \in P + 1 .. m : i \in Len(x.node) + 1 .. Len(x.row) /\ i \in 1 .. Len(x.row)
  <2>1. PICK F \in Nat : F = Len(x.row) /\ F = K
    BY <1>3, <1>5
  <2> QED
    BY <1>3, <1>4, <2>1
<1>17. IsFiniteSet(X) /\ Cardinality(X) = m - P
  <2> DEFINE g == [i \in P + 1 .. m |-> x.row[i]]
  <2>1. x.state # "absent"
    BY <1>1, ReqFacts
  <2>2. \A i, k \in P + 1 .. m : x.row[i] = x.row[k] => i = k
    BY <1>1, <1>7, <1>16, <2>1 DEF SlotsAt
  <2>3. g \in [P + 1 .. m -> X] /\ \A i \in P + 1 .. m : g[i] = x.row[i]
    BY <1>5
  <2>4. \A s \in X : \E i \in P + 1 .. m : g[i] = s
    BY <1>5
  <2> HIDE DEF g
  <2>5. IsFiniteSet(P + 1 .. m) /\ Cardinality(P + 1 .. m) = m - P
    <3>1. P + 1 \in Int /\ m \in Int
      BY <1>3
    <3>2. IsFiniteSet(P + 1 .. m) /\ Cardinality(P + 1 .. m) = IF P + 1 > m THEN 0 ELSE m - (P + 1) + 1
      BY <3>1, FS_Interval
    <3> QED
      BY <1>3, <1>4, <3>2
  <2>6. \A i, k \in P + 1 .. m : g[i] = g[k] => i = k
    BY <2>2, <2>3
  <2>7. PICK I : I = P + 1 .. m
    OBVIOUS
  <2>8. /\ g \in [I -> X] /\ (\A i, k \in I : g[i] = g[k] => i = k) /\ (\A s \in X : \E i \in I : g[i] = s)
        /\ IsFiniteSet(I) /\ Cardinality(I) = m - P
    BY <2>3, <2>4, <2>5, <2>6, <2>7
  <2> QED
    BY <2>8, PairedOff
<1>18. X \subseteq Slots /\ X \cap free = {}
  <2>1. ASSUME NEW i \in P + 1 .. m PROVE x.row[i] \in Slots /\ x.row[i] \notin free
    <3>1. x.row \in Seq(Slots) /\ x.state # "absent"
      BY <1>1, ReqFacts
    <3>2. x.row[i] \in Slots
      BY <1>16, <3>1, ElementOfSeq
    <3>3. OwnsAt(req, c, x.row[i])
      BY <1>16, <3>1 DEF OwnsAt
    <3> QED
      BY <1>1, <1>7, <3>2, <3>3 DEF SlotsAt
  <2> QED
    BY <1>5, <2>1
<1>19. IsFiniteSet(free) /\ Cardinality(free) \in Nat
  BY Basics
<1>20. Cardinality(free \cup X) = Cardinality(free) + (m - P)
  <2>1. free \cap X = {}
    BY <1>18
  <2> QED
    BY <1>17, <1>19, <2>1, TwoParts
<1>21. PICK f \in Nat, g \in Nat : f = Cardinality(free) /\ g = m - P
  <2>1. m - P \in Nat
    BY <1>3, <1>4
  <2> QED
    BY <1>19, <2>1
<1>22. Available = f + a
  BY <1>15, <1>21 DEF Available
<1>23. Cardinality(free \cup X) = f + g
  BY <1>20, <1>21
<1>24. a <= b + g
  BY <1>15, <1>21
<1>25. f + a <= (f + g) + b /\ f + g \in Nat
  BY <1>24
<1> QED
  BY <1>15, <1>18, <1>22, <1>23, <1>25

\* The request after it was stashed, to run up to token g.
StashedReq(x, key, K, T, g) ==
    [x EXCEPT !.prefix = [i \in 1 .. K |-> T.slot[Take(x.job.ids, i)]],
              !.node = key, !.row = <<>>, !.fill = g]

\* The state after it was stashed.
Stashes(c, key, K, m, U, X, D, T, g) ==
    /\ Stash(c, key, K, m, U, X, D, T)
    /\ tree' = T /\ free' = free \cup X /\ kv' = Emptied(X) /\ rows' = rows + 1
    /\ req' = [req EXCEPT ![c] = StashedReq(req[c], key, K, T, g)]
    /\ g \in Nat /\ K <= g /\ g <= Len(req[c].job.ids)
    /\ batch' = <<>> \/ batch' = <<c>>

\* The request is as the others are, its lock and slots those of its text.
LEMMA StashedFields ==
    ASSUME IInv, NEW c, NEW key, NEW K, NEW m, NEW U, NEW X, NEW D, NEW T, NEW g,
           Stashes(c, key, K, m, U, X, D, T, g)
    PROVE  /\ req' \in [Reqs -> Req \cup {Absent}] /\ \A h \in Reqs : h # c => req'[h] = req[h]
           /\ req'[c] \in Req /\ req'[c].job = req[c].job /\ req'[c].state = "running"
           /\ req'[c].node = key /\ req'[c].fill = g /\ req'[c].row = <<>>
           /\ req'[c].is_chunked = req[c].is_chunked /\ Len(req'[c].node) = K
           /\ Holders' = Holders /\ HolderAt(req'[c], T, kv')
<1> DEFINE x == req[c]
           y == req'[c]
           a == [i \in 1 .. K |-> T.slot[Take(x.job.ids, i)]]
<1>1. Stash(c, key, K, m, U, X, D, T)
  BY DEF Stashes
<1>2. g \in Nat /\ K <= g /\ g <= Len(x.job.ids) /\ (batch' = <<>> \/ batch' = <<c>>)
  BY DEF Stashes
<1>3. /\ Release(c, key, K, m, U, X) /\ c \in Reqs /\ x \in Req /\ c \in Holders /\ x.state = "running"
      /\ x.job.prefix_len = 0 /\ ToSet(batch) = {}
  BY <1>1, StashReleases
<1>4. /\ Shape(T) /\ T.slot = U.slot /\ key \in Nodes(T)
  BY <1>1, StashTree
<1>5. /\ key \in Seq(Token) /\ Len(key) = K /\ K \in Nat /\ K \in 1 .. Len(x.job.ids) /\ key # <<>>
      /\ \A i \in 1 .. K : Take(key, i) = Take(x.job.ids, i)
  BY <1>3, ReleaseFacts
<1>6. req \in [Reqs -> Req \cup {Absent}]
  BY DEF IInv, Types
<1>7. \A i \in 1 .. K : Take(key, i) \in DOMAIN U.slot
  BY <1>4, <1>5, NodePaths
<1>8. \A p \in DOMAIN U.slot : U.slot[p] \in Slots
  <2>1. PICK z : z = [req EXCEPT ![c] = [x EXCEPT !.row = <<>>]]
    OBVIOUS
  <2>2. <<>> \in Seq(Slots)
    BY EmptySeq
  <2>3. [x EXCEPT !.row = <<>>] \in Req /\ [x EXCEPT !.row = <<>>].row = <<>>
    BY <1>3, <2>2 DEF Req
  <2>4. Cleared(z, c)
    BY <1>3, <1>6, <2>1, <2>3 DEF Cleared
  <2>5. SlotsAt(free \cup X, U, z)
    BY <1>3, <2>4, ReleaseSlots
  <2> QED
    BY <2>5 DEF SlotsAt
<1>9. a \in Seq(Slots)
  <2>1. a \in [1 .. K -> Slots]
    BY <1>4, <1>5, <1>7, <1>8
  <2> HIDE DEF a
  <2> QED
    BY <1>5, <2>1, SeqDef
<1>10. req' = [req EXCEPT ![c] = [x EXCEPT !.prefix = a, !.node = key, !.row = <<>>, !.fill = g]]
  BY DEF Stashes, StashedReq
<1> HIDE DEF a
<1>11. y = [x EXCEPT !.prefix = a, !.node = key, !.row = <<>>, !.fill = g] /\ req' = [req EXCEPT ![c] = y]
  BY <1>3, <1>6, <1>10
<1> HIDE DEF x, y
<1>12. /\ y \in Req /\ y.job = x.job /\ y.state = x.state /\ y.prefix = a /\ y.node = key /\ y.fill = g
       /\ y.row = <<>> /\ y.is_chunked = x.is_chunked
  <2>1. <<>> \in Seq(Slots)
    BY EmptySeq
  <2> QED
    BY <1>2, <1>3, <1>5, <1>9, <1>11, <2>1 DEF Req
<1>13. req' \in [Reqs -> Req \cup {Absent}] /\ \A h \in Reqs : h # c => req'[h] = req[h]
  BY <1>3, <1>6, <1>11, <1>12
<1>14. Holders' = Holders
  <2>1. ToSet(batch') \subseteq {c}
    <3>1. CASE batch' = <<>>
      BY <3>1 DEF ToSet
    <3>2. CASE batch' = <<c>>
      BY <3>2 DEF ToSet
    <3> QED
      BY <1>2, <3>1, <3>2
  <2>2. \A h \in Reqs : req'[h].state = req[h].state
    BY <1>3, <1>12, <1>13 DEF x, y
  <2>3. Holders = {h \in Reqs : req[h].state = "running"} /\ Holders' = {h \in Reqs : req'[h].state = "running"} \cup ToSet(batch')
    BY <1>3 DEF Holders
  <2> QED
    BY <1>3, <2>1, <2>2, <2>3
<1>15. HolderAt(y, T, kv')
  <2>1. y.fill \in 1 .. Len(y.job.ids) /\ Len(y.node) <= y.fill /\ ~(y.job.prefix_len > 0)
    <3>1. PICK l \in Nat : l = Len(x.job.ids)
      BY <1>3, ReqFacts, JobFacts
    <3> QED
      BY <1>2, <1>3, <1>5, <1>12, <3>1
  <2>2. y.node = Take(y.job.ids, Len(y.node))
    BY <1>3, <1>5, <1>12 DEF Release, x
  <2>3. y.prefix = [i \in 1 .. Len(y.node) |-> T.slot[Take(y.node, i)]]
    BY <1>5, <1>12 DEF a
  <2> QED
    BY <1>4, <1>12, <2>1, <2>2, <2>3 DEF HolderAt
<1> QED
  BY <1>3, <1>5, <1>12, <1>13, <1>14, <1>15 DEF x, y

\* What stashing keeps, whatever comes next.
LEMMA StashedParts ==
    ASSUME IInv, NEW c, NEW key, NEW K, NEW m, NEW U, NEW X, NEW D, NEW T, NEW g,
           Stashes(c, key, K, m, U, X, D, T, g)
    PROVE  /\ free' \subseteq Slots /\ kv' \in [Slots -> Seq(Token)] /\ rows' \in Nat
           /\ rows' >= 1
           /\ HoldersOK' /\ SlotsOK' /\ CacheHonest' /\ LocksOK' /\ RowsOK' /\ Shape(tree)' /\ Exact(tree)'
<1>1. /\ Stash(c, key, K, m, U, X, D, T) /\ tree' = T /\ free' = free \cup X /\ kv' = Emptied(X)
      /\ rows' = rows + 1
  BY DEF Stashes
<1>2. /\ Release(c, key, K, m, U, X) /\ c \in Reqs /\ req[c] \in Req /\ c \in Holders /\ req[c].row # <<>>
  BY <1>1, StashReleases
<1>3. /\ Shape(T) /\ Exact(T) /\ T.slot = U.slot /\ LocksAt(T, Holders, Moved(c, key))
      /\ \A h \in Holders \ {c} : HolderAt(req[h], T, Emptied(X))
  BY <1>1, StashTree
<1>4. /\ \A h \in Reqs : h # c => req'[h] = req[h]
      /\ req'[c] \in Req /\ req'[c].node = key /\ req'[c].row = <<>>
      /\ Holders' = Holders /\ HolderAt(req'[c], T, kv')
  BY StashedFields
<1>5. \A h \in Holders : h \in Reqs
  BY Basics
<1>6. /\ SlotsAt(free \cup X, U, req') /\ X \subseteq Slots
      /\ \A p \in DOMAIN U.slot : Emptied(X)[U.slot[p]] = p
  <2>1. PICK z : z = req'
    OBVIOUS
  <2>2. Cleared(z, c)
    BY <1>4, <2>1 DEF Cleared
  <2>3. /\ SlotsAt(free \cup X, U, z) /\ X \subseteq Slots
        /\ \A p \in DOMAIN U.slot : Emptied(X)[U.slot[p]] = p
    <3>1. Release(c, key, K, m, U, X)
      BY <1>2
    <3>2. SlotsAt(free \cup X, U, z)
      BY <2>2, <3>1, ReleaseSlots
    <3>3. X \subseteq Slots /\ \A p \in DOMAIN U.slot : Emptied(X)[U.slot[p]] = p
      BY <2>2, <3>1, ReleaseSlots
    <3> QED
      BY <3>2, <3>3
  <2> QED
    BY <2>1, <2>3
<1>7. free' \subseteq Slots /\ kv' \in [Slots -> Seq(Token)] /\ rows' \in Nat /\ rows' >= 1
  <2>1. free' \subseteq Slots
    BY <1>1, <1>6 DEF IInv, Types
  <2>2. kv' \in [Slots -> Seq(Token)]
    <3>1. <<>> \in Seq(Token)
      BY EmptySeq
    <3>2. kv \in [Slots -> Seq(Token)]
      BY DEF IInv, Types
    <3> QED
      BY <1>1, <3>1, <3>2 DEF Emptied
  <2>3. rows \in Nat
    BY DEF IInv, Types
  <2> QED
    BY <1>1, <2>1, <2>2, <2>3
<1>8. HoldersOK'
  <2>1. \A h \in Holders' : HolderAt(req'[h], T, kv')
    BY <1>1, <1>3, <1>4, <1>5
  <2> QED
    BY <1>1, <2>1 DEF HoldersOK
<1>9. SlotsOK'
  <2>1. SlotsAt(free', T, req')
    BY <1>1, <1>3, <1>6, SlotsSame
  <2> QED
    BY <1>1, <2>1 DEF SlotsOK
<1>10. CacheHonest'
  <2>1. \A p \in DOMAIN T.slot : kv'[T.slot[p]] = p
    BY <1>1, <1>3, <1>6
  <2> QED
    BY <1>1, <2>1 DEF CacheHonest
<1>11. LocksOK'
  <2>1. NodeOf' = [h \in Holders |-> req'[h].node]
    BY <1>4 DEF NodeOf
  <2>2. \A h \in Holders : NodeOf'[h] = Moved(c, key)[h]
    <3>1. NodeOf = [h \in Holders |-> req[h].node]
      BY DEF NodeOf
    <3> QED
      BY <1>2, <1>4, <1>5, <2>1, <3>1 DEF Moved
  <2>3. LocksAt(T, Holders, NodeOf')
    BY <1>3, <2>2, LocksSame
  <2> QED
    BY <1>1, <1>4, <2>3 DEF LocksOK
<1>12. RowsOK'
  <2> DEFINE A == {h \in Reqs : HasRow(req, h)}
             B == {h \in Reqs : HasRow(req', h)}
  <2>1. B = A \ {c} /\ c \in A
    <3>1. ~HasRow(req', c) /\ HasRow(req, c)
      BY <1>2, <1>4, ReqFacts DEF HasRow
    <3>2. \A h \in Reqs : h # c => (HasRow(req', h) <=> HasRow(req, h))
      BY <1>4 DEF HasRow
    <3> QED
      BY <1>2, <3>1, <3>2
  <2>2. IsFiniteSet(A)
    BY ReqNames, FS_Subset
  <2> HIDE DEF A, B
  <2>3. Cardinality(B) = Cardinality(A) - 1 /\ Cardinality(A) \in Nat
    BY <2>1, <2>2, FS_RemoveElement, FS_CardinalityType
  <2>4. rows + Cardinality(A) = Rows /\ rows \in Nat
    BY DEF IInv, RowsOK, Types, A
  <2>5. rows' + Cardinality(B) = Rows
    BY <1>1, <2>3, <2>4
  <2> QED
    BY <2>5 DEF RowsOK, B
<1>13. Shape(tree)' /\ Exact(tree)'
  BY <1>1, <1>3
<1> QED
  BY <1>7, <1>8, <1>9, <1>10, <1>11, <1>12, <1>13

\* The next chunk: there is room for all that is left of the request.
LEMMA NextChunk ==
    ASSUME IInv, NEW c, NEW key, NEW K, NEW m, NEW U, NEW X, NEW D, NEW T,
           Stash(c, key, K, m, U, X, D, T),
           NEW e, e = ChunkTokens(c, Cardinality(free \cup X) + T.evictable)
    PROVE  \E l \in Nat, A \in Nat :
             /\ l = Len(req[c].job.ids) /\ A = Cardinality(free \cup X) + T.evictable
             /\ K \in Nat /\ K < l /\ l - K < A
             /\ e \in Nat /\ e >= 1 /\ e <= ChunkSize /\ e <= l - K
             /\ e < l - K => e = ChunkSize
<1>1. /\ c \in Reqs /\ req[c] \in Req /\ K < Len(req[c].job.ids) /\ batch = <<>>
  BY StashReleases
<1>2. K = req[c].fill /\ pc = "top" /\ chunked # NONE /\ c = chunked
  BY DEF Stash
<1>3. PICK l \in Nat, k \in Nat : l = Len(req[c].job.ids) /\ k = K
  BY <1>1, <1>2, ReqFacts, JobFacts
<1>4. /\ Available <= Cardinality(free \cup X) + T.evictable
      /\ Cardinality(free \cup X) \in Nat /\ T.evictable \in Nat
  BY StashRoom
<1>5. PICK A \in Nat : A = Cardinality(free \cup X) + T.evictable
  BY <1>4
<1>6. PICK v \in Nat : v = Available
  BY Basics
<1>7. l - k < v
  <2>1. 0 + (l - k) < Available
    BY <1>1, <1>2, <1>3 DEF IInv, Reserved, Ids
  <2> QED
    BY <1>6, <2>1
<1>8. l - k < A /\ k < l
  BY <1>1, <1>3, <1>4, <1>5, <1>6, <1>7
<1>9. PICK C \in Nat : C = ChunkSize /\ C >= 1
  BY Sizes
<1>10. Min({C, A}) = IF C <= A THEN C ELSE A
  BY SmallerOfTwo
<1>11. PICK d \in Nat : d = Min({C, A}) /\ d = (IF C <= A THEN C ELSE A)
  BY <1>10
<1>12. e = Min({l - k, d})
  <2>1. ~(A <= 0)
    BY <1>8
  <2>2. e = Min({l - k, IF A <= 0 THEN C ELSE Min({C, A})})
    BY <1>2, <1>3, <1>5, <1>9 DEF ChunkTokens, Ids
  <2> QED
    BY <1>11, <2>1, <2>2
<1>13. Min({l - k, d}) = IF l - k <= d THEN l - k ELSE d
  <2>1. l - k \in Int /\ d \in Int
    OBVIOUS
  <2> QED
    BY <2>1, SmallerOfTwo
<1>14. /\ e \in Nat /\ e >= 1 /\ e <= C /\ e <= l - k /\ (e < l - k => e = C)
  BY <1>8, <1>9, <1>11, <1>12, <1>13
<1> QED
  BY <1>3, <1>5, <1>8, <1>9, <1>14

\* A tree_value request at the head of the waiting queue: the scheduler dies.
StashCrashes(c, key, K, m, U, X, D, T) ==
    /\ Stashes(c, key, K, m, U, X, D, T, K)
    /\ pc' = "crashed" /\ full' \in BOOLEAN
    /\ UNCHANGED <<overlap, last, results, adder, chunked>>

\* It dies with everything accounted for.
LEMMA StashCrashKeeps ==
    ASSUME IInv, NEW c, NEW key, NEW K, NEW m, NEW U, NEW X, NEW D, NEW T,
           StashCrashes(c, key, K, m, U, X, D, T)
    PROVE  IInv'
<1>1. Stashes(c, key, K, m, U, X, D, T, K) /\ Stash(c, key, K, m, U, X, D, T)
  BY DEF StashCrashes, Stashes
<1>2. /\ pc' = "crashed" /\ full' \in BOOLEAN /\ overlap' = overlap /\ last' = last /\ results' = results
      /\ batch' = batch /\ mode' = mode /\ offset' = offset /\ rem_chunk' = rem_chunk /\ chunked' = chunked
  BY DEF StashCrashes, adder
<1>3. /\ c \in Reqs /\ req[c] \in Req /\ c \in Holders /\ req[c].state = "running" /\ batch = <<>>
      /\ ToSet(batch) = {} /\ K < Len(req[c].job.ids) /\ req[c].job.prefix_len = 0
  BY <1>1, StashReleases
<1>4. /\ req' \in [Reqs -> Req \cup {Absent}] /\ \A h \in Reqs : h # c => req'[h] = req[h]
      /\ req'[c] \in Req /\ req'[c].job = req[c].job /\ req'[c].state = "running"
      /\ req'[c].fill = K /\ req'[c].is_chunked = req[c].is_chunked /\ Holders' = Holders
  BY <1>1, StashedFields
<1>5. /\ free' \subseteq Slots /\ kv' \in [Slots -> Seq(Token)] /\ rows' \in Nat
      /\ HoldersOK' /\ SlotsOK' /\ CacheHonest' /\ LocksOK' /\ RowsOK' /\ Shape(tree)' /\ Exact(tree)'
  BY <1>1, StashedParts
<1>6. pc = "top" /\ chunked # NONE /\ c = chunked
  BY <1>1 DEF Stash
<1>7. Types'
  BY <1>2, <1>4, <1>5 DEF IInv, Types
<1>8. BatchOK'
  <2>1. DOMAIN batch = {} /\ Len(batch) = 0
    BY <1>3
  <2> QED
    BY <1>2, <1>3, <1>5, <2>1 DEF BatchOK, Once
<1>9. ResultsOK'
  BY <1>2, <1>6 DEF IInv, ResultsOK
<1>10. Counted'
  <2> SUFFICES ASSUME NEW h \in Reqs
               PROVE  /\ req'[h].state = "running" =>
                            Open(results, h) = req'[h].is_chunked + (IF h = chunked \/ h \in ToSet(batch) THEN 0 ELSE 1)
                      /\ req'[h].state # "running" => Open(results, h) = 0
                      /\ req'[h].state \notin {"running", "absent"} => req'[h].is_chunked = 0
    BY <1>2 DEF Counted
  <2>1. CASE h = c
    BY <1>3, <1>4, <2>1 DEF IInv, Counted
  <2>2. CASE h # c
    BY <1>4, <2>2 DEF IInv, Counted
  <2> QED
    BY <2>1, <2>2
<1>11. ChunkedOK'
  <2>1. \A h \in Holders : h \in Reqs
    BY Basics
  <2>2. \A h \in Holders : h # chunked => req'[h].fill = Len(req'[h].job.ids)
    BY <1>4, <1>6, <2>1 DEF IInv, ChunkedOK, Ids
  <2>3. req'[c].fill < Len(req'[c].job.ids) /\ req'[c].job.prefix_len = 0
    BY <1>3, <1>4
  <2> QED
    BY <1>2, <1>4, <1>6, <2>2, <2>3 DEF ChunkedOK, Ids
<1>12. RestOK'
  <2> SUFFICES ASSUME NEW h \in Reqs
               PROVE /\ req'[h].state # "absent" /\ h \notin Holders =>
                            req'[h].row = <<>> /\ req'[h].prefix = <<>> /\ req'[h].node = <<>>
                     /\ req'[h].state = "done" => req'[h].value = Expected(req'[h].job)
    BY <1>2, <1>3, <1>4 DEF RestOK
  <2>1. CASE h = c
    BY <1>3, <1>4, <2>1
  <2>2. CASE h # c
    BY <1>4, <2>2 DEF IInv, RestOK
  <2> QED
    BY <2>1, <2>2
<1>13. Reserved'
  BY <1>2, <1>3 DEF Reserved
<1> QED
  BY <1>5, <1>7, <1>8, <1>9, <1>10, <1>11, <1>12, <1>13 DEF IInv

\* The chunked request is the first of the new batch, with e tokens.
StashAdds(c, key, K, m, U, X, D, T, e) ==
    /\ Stashes(c, key, K, m, U, X, D, T, K + e)
    /\ e = ChunkTokens(c, Cardinality(free \cup X) + T.evictable)
    /\ mode' = FALSE /\ batch' = <<c>> /\ offset' = e /\ rem_chunk' = ChunkSize - e
    /\ chunked' = (IF K + e < Len(req[c].job.ids) THEN c ELSE NONE)
    /\ pc' = "adding" /\ full' \in BOOLEAN
    /\ UNCHANGED <<overlap, last, results>>

\* What is left of it still fits.
LEMMA StashAddKeeps ==
    ASSUME IInv, NEW c, NEW key, NEW K, NEW m, NEW U, NEW X, NEW D, NEW T, NEW e,
           StashAdds(c, key, K, m, U, X, D, T, e)
    PROVE  IInv'
<1>1. Stashes(c, key, K, m, U, X, D, T, K + e) /\ Stash(c, key, K, m, U, X, D, T)
  BY DEF StashAdds, Stashes
<1>2. /\ pc' = "adding" /\ full' \in BOOLEAN /\ overlap' = overlap /\ last' = last /\ results' = results
      /\ batch' = <<c>> /\ mode' = FALSE /\ offset' = e /\ rem_chunk' = ChunkSize - e
      /\ tree' = T /\ free' = free \cup X
  BY <1>1 DEF StashAdds, Stashes
<1>3. /\ c \in Reqs /\ req[c] \in Req /\ c \in Holders /\ req[c].state = "running" /\ batch = <<>>
      /\ ToSet(batch) = {} /\ req[c].job.prefix_len = 0
  BY <1>1, StashReleases
<1>4. /\ req' \in [Reqs -> Req \cup {Absent}] /\ \A h \in Reqs : h # c => req'[h] = req[h]
      /\ req'[c] \in Req /\ req'[c].job = req[c].job /\ req'[c].state = "running"
      /\ req'[c].fill = K + e /\ req'[c].row = <<>> /\ Len(req'[c].node) = K
      /\ req'[c].is_chunked = req[c].is_chunked /\ Holders' = Holders /\ HolderAt(req'[c], T, kv')
  BY <1>1, StashedFields
<1>5. /\ free' \subseteq Slots /\ kv' \in [Slots -> Seq(Token)] /\ rows' \in Nat /\ rows' >= 1
      /\ HoldersOK' /\ SlotsOK' /\ CacheHonest' /\ LocksOK' /\ RowsOK' /\ Shape(tree)' /\ Exact(tree)'
  BY <1>1, StashedParts
<1>6. pc = "top" /\ chunked # NONE /\ c = chunked
  BY <1>1 DEF Stash
<1>7. PICK l \in Nat, A \in Nat :
             /\ l = Len(req[c].job.ids) /\ A = Cardinality(free \cup X) + T.evictable
             /\ K \in Nat /\ K < l /\ l - K < A
             /\ e \in Nat /\ e >= 1 /\ e <= ChunkSize /\ e <= l - K
             /\ (e < l - K => e = ChunkSize)
  <2>1. e = ChunkTokens(c, Cardinality(free \cup X) + T.evictable)
    BY DEF StashAdds
  <2> QED
    BY <1>1, <2>1, NextChunk
<1>8. /\ K + e < l => chunked' = c /\ rem_chunk' = 0
      /\ ~(K + e < l) => chunked' = NONE /\ K + e = l
  <2>1. chunked' = IF K + e < Len(req[c].job.ids) THEN c ELSE NONE
    BY DEF StashAdds
  <2>2. ChunkSize \in Nat
    BY Sizes
  <2> QED
    BY <1>2, <1>7, <2>1, <2>2
<1>9. /\ ToSet(batch') = {c} /\ batch' \in Seq(Reqs) /\ Once(batch') /\ Len(batch') = 1
      /\ DOMAIN batch' = {1} /\ batch'[1] = c /\ batch' # <<>>
  <2>1. batch' \in Seq(Reqs) /\ Len(batch') = 1 /\ DOMAIN batch' = {1} /\ batch'[1] = c
    BY <1>2, <1>3
  <2>2. batch' # <<>>
    BY <2>1
  <2> QED
    BY <2>1, <2>2 DEF Once, ToSet
<1>10. Types'
  <2>1. rem_chunk' \in 0 .. ChunkSize /\ offset' \in Int /\ chunked' \in Reqs \cup {NONE}
    <3>1. ChunkSize \in Nat
      BY Sizes
    <3> QED
      BY <1>2, <1>3, <1>7, <1>8, <3>1
  <2> QED
    BY <1>2, <1>4, <1>5, <1>9, <2>1 DEF IInv, Types
<1>11. BatchOK'
  <2>1. ~(req'[c].job.prefix_len > 0)
    BY <1>3, <1>4
  <2>2. (req'[c].job.prefix_len > 0) = mode'
    <3>1. (req'[c].job.prefix_len > 0) \in BOOLEAN
      OBVIOUS
    <3> QED
      BY <1>2, <2>1, <3>1
  <2>3. Len(batch') <= rows'
    BY <1>5, <1>9
  <2>4. \A i \in DOMAIN batch' : batch'[i] = c
    BY <1>9
  <2> QED
    BY <1>2, <1>4, <1>9, <2>2, <2>3, <2>4 DEF BatchOK
<1>12. ResultsOK'
  BY <1>2, <1>6 DEF IInv, ResultsOK
<1>13. Counted'
  <2> SUFFICES ASSUME NEW h \in Reqs
               PROVE  /\ req'[h].state = "running" =>
                            Open(results, h) = req'[h].is_chunked + (IF h = chunked' \/ h \in ToSet(batch') THEN 0 ELSE 1)
                      /\ req'[h].state # "running" => Open(results, h) = 0
                      /\ req'[h].state \notin {"running", "absent"} => req'[h].is_chunked = 0
    BY <1>2 DEF Counted
  <2>1. CASE h = c
    <3>1. Open(results, c) = req[c].is_chunked + 0
      BY <1>3, <1>6 DEF IInv, Counted
    <3> QED
      BY <1>4, <1>9, <2>1, <3>1
  <2>2. CASE h # c
    <3>1. h # chunked' /\ h \notin ToSet(batch') /\ h # chunked /\ h \notin ToSet(batch)
      <4>1. h # NONE
        BY ReqNames
      <4> QED
        BY <1>3, <1>6, <1>8, <1>9, <2>2, <4>1
    <3> QED
      BY <1>4, <2>2, <3>1 DEF IInv, Counted
  <2> QED
    BY <2>1, <2>2
<1>14. ChunkedOK'
  <2>1. \A h \in Holders : h \in Reqs
    BY Basics
  <2>2. ASSUME NEW h \in Holders, h # chunked' PROVE req'[h].fill = Len(req'[h].job.ids)
    <3>1. CASE h = c
      BY <1>4, <1>7, <1>8, <2>2, <3>1
    <3>2. CASE h # c
      BY <1>4, <1>6, <2>1, <2>2, <3>2 DEF IInv, ChunkedOK, Ids
    <3> QED
      BY <3>1, <3>2
  <2>3. ASSUME chunked' # NONE
        PROVE  /\ chunked' = c /\ req'[c].fill < Len(req'[c].job.ids) /\ req'[c].job.prefix_len = 0
               /\ c \in ToSet(batch') /\ rem_chunk' = 0
    BY <1>3, <1>4, <1>7, <1>8, <1>9, <2>3
  <2>4. req'[c].state # "absent"
    BY <1>4
  <2>5. chunked' # NONE =>
         /\ req'[chunked'].state # "absent" /\ req'[chunked'].job.prefix_len = 0
         /\ req'[chunked'].fill < Len(req'[chunked'].job.ids) /\ chunked' \in ToSet(batch') /\ rem_chunk' = 0
    BY <2>3, <2>4
  <2> QED
    BY <1>2, <1>4, <2>2, <2>5 DEF ChunkedOK, Ids
<1>15. RestOK'
  <2> SUFFICES ASSUME NEW h \in Reqs
               PROVE /\ req'[h].state # "absent" /\ h \notin Holders =>
                            req'[h].row = <<>> /\ req'[h].prefix = <<>> /\ req'[h].node = <<>>
                     /\ h \in ToSet(batch') => req'[h].row = <<>> /\ Len(req'[h].node) < req'[h].fill
                     /\ req'[h].state = "running" /\ h \notin ToSet(batch') => req'[h].row # <<>>
                     /\ req'[h].state = "done" => req'[h].value = Expected(req'[h].job)
    BY <1>4 DEF RestOK
  <2>1. CASE h = c
    BY <1>3, <1>4, <1>7, <1>9, <2>1
  <2>2. CASE h # c
    BY <1>3, <1>4, <1>6, <1>9, <2>2 DEF IInv, RestOK
  <2> QED
    BY <2>1, <2>2
<1>16. Needed' = e
  <2>1. Extent(req', c) = e
    <3>a. Len(req'[c].node) \in Nat
      BY <1>4, <1>7
    <3>b. req'[c].prefix = [i \in 1 .. Len(req'[c].node) |-> T.slot[Take(req'[c].node, i)]]
      BY <1>4 DEF HolderAt
    <3>c. Len(req'[c].prefix) = Len(req'[c].node)
      BY <3>a, <3>b
    <3>1. Extent(req', c) = req'[c].fill - Len(req'[c].node)
      BY <3>c DEF Extent
    <3> QED
      BY <1>4, <1>7, <3>1
  <2>2. IsFiniteSet({c})
    BY FS_Singleton
  <2>3. \A h \in {c} : Extent(req', h) \in Nat
    BY <1>7, <2>1
  <2>4. /\ Extents(req', {}) = 0
        /\ \A S \in SUBSET {c} : \A h \in {c} \ S : Extents(req', S \cup {h}) = Extents(req', S) + Extent(req', h)
    BY <2>2, <2>3, ExtentsSum
  <2>5. Extents(req', {} \cup {c}) = 0 + e
    BY <2>1, <2>4
  <2>6. {} \cup {c} = {c}
    OBVIOUS
  <2> QED
    BY <1>7, <1>9, <2>5, <2>6, NeededNext
<1>17. Reserved'
  <2>1. Available' = A
    BY <1>2, <1>7 DEF Available
  <2>2. offset' = Needed' /\ offset' < A
    BY <1>2, <1>7, <1>16
  <2>3. chunked' # NONE => offset' + (Len(req'[chunked'].job.ids) - req'[chunked'].fill) < A
    <3>1. chunked' # NONE => chunked' = c
      BY <1>8
    <3>2. e + (l - (K + e)) < A
      BY <1>7
    <3> QED
      BY <1>2, <1>4, <1>7, <3>1, <3>2
  <2> QED
    BY <1>9, <2>1, <2>2, <2>3 DEF Reserved, Ids
<1> QED
  BY <1>5, <1>10, <1>11, <1>12, <1>13, <1>14, <1>15, <1>17 DEF IInv

\* The chunked request comes first.
LEMMA BeginChunkedKeeps == IInv /\ BeginChunked => IInv'
<1> SUFFICES ASSUME IInv, BeginChunked PROVE IInv'
  OBVIOUS
<1> DEFINE c == chunked
           key == FillIds(c)
           K == req[c].fill
           m == MatchLen(tree, key)
           U == insert(tree, key, req[c].row)
           D == dec_lock_ref(U, req[c].node)
           T == inc_lock_ref(D, key)
           X == Duplicates(c, m)
           e == ChunkTokens(c, Cardinality(free \cup X) + T.evictable)
           a == [i \in 1 .. K |-> T.slot[Take(req[c].job.ids, i)]]
           s == [req EXCEPT ![c].prefix = a, ![c].node = key, ![c].row = <<>>]
<1>1. /\ pc = "top" /\ chunked # NONE /\ tree' = T /\ Freed(free, kv, X) /\ rows' = rows + 1
      /\ full' = (full /\ ~Shrinks) /\ UNCHANGED <<overlap, last, results>>
  BY DEF BeginChunked, StashedTree
<1>2. \/ /\ pc' = "crashed" /\ req' = s /\ UNCHANGED <<adder, chunked>>
      \/ /\ req' = [s EXCEPT ![c].fill = @ + e] /\ mode' = FALSE
         /\ batch' = <<c>> /\ offset' = e /\ rem_chunk' = ChunkSize - e
         /\ chunked' = IF K + e < Len(req[c].job.ids) THEN c ELSE NONE
         /\ pc' = "adding"
  BY DEF BeginChunked, StashedTree, Crash, Ids
<1>3. Stash(c, key, K, m, U, X, D, T)
  BY <1>1 DEF Stash, Unlocks
<1>4. e = ChunkTokens(c, Cardinality(free \cup X) + T.evictable)
  OBVIOUS
<1>5. free' = free \cup X /\ kv' = Emptied(X)
  BY <1>1 DEF Freed, Emptied
<1>6. full' \in BOOLEAN
  BY <1>1 DEF IInv, Types
<1> HIDE DEF a, e
<1>7. c \in Reqs /\ req[c] \in Req
  <2> HIDE DEF c, key, K, m, U, D, T, X
  <2> QED
    BY <1>3, StashReleases
<1>8. req \in [Reqs -> Req \cup {Absent}]
  BY DEF IInv, Types
<1>9. s = [req EXCEPT ![c] = [req[c] EXCEPT !.prefix = a, !.node = key, !.row = <<>>]]
  BY <1>7, <1>8
<1>10. s = [req EXCEPT ![c] = StashedReq(req[c], key, K, T, K)]
  <2>1. [req[c] EXCEPT !.prefix = a, !.node = key, !.row = <<>>] = StashedReq(req[c], key, K, T, K)
    BY <1>7 DEF StashedReq, Req, a
  <2> QED
    BY <1>9, <2>1
<1>11. [s EXCEPT ![c].fill = @ + e] = [req EXCEPT ![c] = StashedReq(req[c], key, K, T, K + e)]
  <2>1. [s EXCEPT ![c].fill = @ + e]
          = [req EXCEPT ![c] = [req[c] EXCEPT !.prefix = a, !.node = key, !.row = <<>>, !.fill = K + e]]
    BY <1>7, <1>8, <1>9 DEF Req
  <2>2. [req[c] EXCEPT !.prefix = a, !.node = key, !.row = <<>>, !.fill = K + e]
          = StashedReq(req[c], key, K, T, K + e)
    BY DEF StashedReq, a
  <2> QED
    BY <2>1, <2>2
<1> HIDE DEF s, c, key, K, m, U, D, T, X
<1>12. PICK l \in Nat : l = Len(req[c].job.ids) /\ K \in Nat /\ K < l /\ e \in Nat /\ e <= l - K
  BY <1>3, <1>4, NextChunk
<1>13. batch = <<>>
  BY <1>3, StashReleases
<1>14. CASE pc' = "crashed" /\ req' = s /\ UNCHANGED <<adder, chunked>>
  <2>1. batch' = batch
    BY <1>14 DEF adder
  <2>2. K <= K /\ K <= Len(req[c].job.ids)
    BY <1>12
  <2>3. Stashes(c, key, K, m, U, X, D, T, K)
    BY <1>1, <1>3, <1>5, <1>10, <1>12, <1>13, <1>14, <2>1, <2>2 DEF Stashes
  <2>4. StashCrashes(c, key, K, m, U, X, D, T)
    BY <1>1, <1>6, <1>14, <2>3 DEF StashCrashes
  <2> QED
    BY <2>4, StashCrashKeeps
<1>15. CASE /\ req' = [s EXCEPT ![c].fill = @ + e] /\ mode' = FALSE
            /\ batch' = <<c>> /\ offset' = e /\ rem_chunk' = ChunkSize - e
            /\ chunked' = IF K + e < Len(req[c].job.ids) THEN c ELSE NONE
            /\ pc' = "adding"
  <2>1. K + e \in Nat /\ K <= K + e /\ K + e <= Len(req[c].job.ids)
    BY <1>12
  <2>2. Stashes(c, key, K, m, U, X, D, T, K + e)
    BY <1>1, <1>3, <1>5, <1>11, <1>15, <2>1 DEF Stashes
  <2>3. StashAdds(c, key, K, m, U, X, D, T, e)
    BY <1>1, <1>4, <1>6, <1>15, <2>2 DEF StashAdds
  <2> QED
    BY <2>3, StashAddKeeps
<1> QED
  BY <1>2, <1>14, <1>15

----------------------------------------------------------------------------
(* The batch is launched: eviction.                                        *)

\* The nodes E are evicted, with them the tokens G and their slots gone.
Evicts(E, G, gone, V) ==
    /\ E \in SUBSET Nodes(tree) /\ Evictable(tree, E) /\ G = PathsOf(tree, E)
    /\ gone = {tree.slot[p] : p \in G} /\ V = Evicted(tree, E)

\* What is evicted was nobody's.
LEMMA EvictKeeps ==
    ASSUME IInv, NEW E, NEW G, NEW gone, NEW V, Evicts(E, G, gone, V)
    PROVE  /\ Shape(V) /\ Exact(V) /\ G \subseteq DOMAIN tree.slot /\ DOMAIN V.slot = DOMAIN tree.slot \ G
           /\ \A p \in DOMAIN V.slot : V.slot[p] = tree.slot[p]
           /\ LocksAt(V, Holders, NodeOf)
           /\ \A h \in Holders : /\ req[h].node # <<>> => req[h].node \in Nodes(V)
                                 /\ \A i \in 1 .. Len(req[h].node) : Take(req[h].node, i) \in DOMAIN V.slot
<1>1. /\ E \in SUBSET Nodes(tree) /\ Evictable(tree, E) /\ G = PathsOf(tree, E) /\ V = Evicted(tree, E)
  BY DEF Evicts
<1>2. Shape(tree) /\ Exact(tree) /\ LocksAt(tree, Holders, NodeOf) /\ IsFiniteSet(Holders)
  BY Basics DEF IInv, LocksOK
<1>3. /\ Shape(V) /\ DOMAIN V.slot = DOMAIN tree.slot \ G /\ G \subseteq DOMAIN tree.slot
      /\ \A p \in DOMAIN V.slot : V.slot[p] = tree.slot[p]
      /\ Nodes(V) = Nodes(tree) \ E /\ \A e \in Nodes(V) : V.ref[e] = tree.ref[e]
      /\ \A p \in G : \E e \in E : IsOwner(tree, p, e) /\ tree.ref[e] = 0
      /\ Exact(V)
  BY <1>1, <1>2, EvictEffect
<1>4. LocksAt(V, Holders, NodeOf)
  BY <1>2, <1>3 DEF LocksAt
<1>5. ASSUME NEW h \in Holders
      PROVE  /\ req[h].node # <<>> => req[h].node \in Nodes(V)
             /\ \A i \in 1 .. Len(req[h].node) : Take(req[h].node, i) \in DOMAIN V.slot
  <2>1. /\ NodeOf[h] = req[h].node /\ req[h].node \in Seq(Token)
        /\ (req[h].node # <<>> => req[h].node \in Nodes(tree))
    BY Basics
  <2>2. req[h].node # <<>> => req[h].node \in Nodes(V)
    <3> SUFFICES ASSUME req[h].node # <<>> PROVE req[h].node \notin E
      BY <1>3, <2>1
    <3>1. IsPrefix(req[h].node, NodeOf[h]) /\ req[h].node \in Nodes(tree)
      BY <2>1, PrefixOrder
    <3>2. tree.ref[req[h].node] >= 1
      BY <1>2, <3>1, LockCounts
    <3> QED
      BY <1>1, <3>2 DEF Evictable
  <2>3. ASSUME NEW i \in 1 .. Len(req[h].node) PROVE Take(req[h].node, i) \in DOMAIN V.slot
    <3>1. Take(req[h].node, i) \in DOMAIN tree.slot
      BY <1>2, <2>1, NodePaths
    <3>2. NodeOf[h] \in Nodes(tree)
      <4>1. req[h].node # <<>>
        BY EmptySeq
      <4> QED
        BY <2>1, <4>1
    <3>3. IsPrefix(Take(req[h].node, i), NodeOf[h])
      <4>1. i \in 0 .. Len(req[h].node)
        OBVIOUS
      <4> QED
        BY <2>1, <4>1, TakePrefix
    <3>4. Take(req[h].node, i) \notin G
      <4> SUFFICES ASSUME Take(req[h].node, i) \in G PROVE FALSE
        OBVIOUS
      <4>1. PICK e \in E : IsOwner(tree, Take(req[h].node, i), e) /\ tree.ref[e] = 0
        BY <1>3
      <4>2. e \in Nodes(tree)
        BY <1>1
      <4> QED
        BY <1>2, <3>1, <3>2, <3>3, <4>1, <4>2, LockedStays
    <3> QED
      BY <1>3, <3>1, <3>4
  <2> QED
    BY <2>2, <2>3
<1> QED
  BY <1>3, <1>4, <1>5

\* Its slots are as many as its tokens, so nothing is lost.
LEMMA EvictRoom ==
    ASSUME IInv, NEW E, NEW G, NEW gone, NEW V, Evicts(E, G, gone, V)
    PROVE  /\ gone \subseteq Slots /\ IsFiniteSet(free \cup gone)
           /\ Cardinality(free \cup gone) \in Nat /\ V.evictable \in Int
           /\ Cardinality(free \cup gone) + V.evictable = Available
           /\ \A p \in DOMAIN V.slot : V.slot[p] \in Slots /\ V.slot[p] \notin free \cup gone
<1>1. /\ E \in SUBSET Nodes(tree) /\ Evictable(tree, E) /\ G = PathsOf(tree, E) /\ V = Evicted(tree, E)
      /\ gone = {tree.slot[p] : p \in G}
  BY DEF Evicts
<1>2. Shape(tree) /\ Exact(tree) /\ SlotsAt(free, tree, req)
  BY DEF IInv, SlotsOK
<1>3. /\ DOMAIN V.slot = DOMAIN tree.slot \ G /\ G \subseteq DOMAIN tree.slot
      /\ \A p \in DOMAIN V.slot : V.slot[p] = tree.slot[p]
      /\ IsFiniteSet(G) /\ Cardinality(G) \in Nat /\ V.evictable = tree.evictable - Cardinality(G)
  BY <1>1, <1>2, EvictEffect
<1>4. gone \subseteq Slots /\ free \cap gone = {}
  BY <1>1, <1>2, <1>3 DEF SlotsAt
<1>5. IsFiniteSet(gone) /\ Cardinality(gone) = Cardinality(G)
  <2> DEFINE g == [p \in G |-> tree.slot[p]]
  <2>1. g \in [G -> gone] /\ \A p \in G : g[p] = tree.slot[p]
    BY <1>1
  <2>2. \A p, o \in G : g[p] = g[o] => p = o
    BY <1>2, <1>3, <2>1 DEF SlotsAt
  <2>3. \A s \in gone : \E p \in G : g[p] = s
    BY <1>1, <2>1
  <2> HIDE DEF g
  <2> QED
    BY <1>3, <2>1, <2>2, <2>3, PairedOff
<1>6. IsFiniteSet(free) /\ Cardinality(free) \in Nat /\ tree.evictable \in Nat
  BY Basics
<1>7. IsFiniteSet(free \cup gone) /\ Cardinality(free \cup gone) = Cardinality(free) + Cardinality(G)
  BY <1>4, <1>5, <1>6, TwoParts
<1>8. PICK f \in Nat, d \in Nat, a \in Nat : f = Cardinality(free) /\ d = Cardinality(G) /\ a = tree.evictable
  BY <1>3, <1>6
<1>9. Cardinality(free \cup gone) = f + d /\ V.evictable = a - d /\ Available = f + a
  BY <1>3, <1>7, <1>8 DEF Available
<1>10. (f + d) + (a - d) = f + a /\ a - d \in Int /\ f + d \in Nat
  OBVIOUS
<1>11. ASSUME NEW p \in DOMAIN V.slot PROVE V.slot[p] \in Slots /\ V.slot[p] \notin free \cup gone
  <2>1. p \in DOMAIN tree.slot /\ p \notin G /\ V.slot[p] = tree.slot[p]
    BY <1>3
  <2>2. tree.slot[p] \in Slots /\ tree.slot[p] \notin free
    BY <1>2, <2>1 DEF SlotsAt
  <2>3. tree.slot[p] \notin gone
    BY <1>1, <1>2, <1>3, <2>1 DEF SlotsAt
  <2> QED
    BY <2>1, <2>2, <2>3
<1> QED
  BY <1>4, <1>7, <1>9, <1>10, <1>11

\* The rows of the other requests are outside of what is free after eviction.
LEMMA RowOutside ==
    ASSUME IInv, NEW E, NEW G, NEW gone, NEW V, Evicts(E, G, gone, V), NEW h \in Holders, req[h].row # <<>>
    PROVE  \A i \in 1 .. Len(req[h].row) : req[h].row[i] \notin free \cup gone
<1> SUFFICES ASSUME NEW i \in 1 .. Len(req[h].row) PROVE req[h].row[i] \notin free \cup gone
  OBVIOUS
<1>1. h \in Reqs /\ req[h] \in Req /\ HolderAt(req[h], tree, kv)
  BY Basics
<1>2. /\ req[h].row \in Seq(Slots) /\ req[h].state # "absent"
  BY <1>1, ReqFacts
<1>3. PICK P \in Nat, F \in Nat : P = Len(req[h].node) /\ F = Len(req[h].row)
  BY <1>1, ReqFacts
<1>4. RowAt(req[h], kv)
  BY <1>1 DEF HolderAt
<1>5. CASE i <= P
  <2>1. i \in 1 .. P
    BY <1>3, <1>5
  <2>2. req[h].row[i] = req[h].prefix[i] /\ req[h].prefix[i] = tree.slot[Take(req[h].node, i)]
    BY <1>1, <1>3, <1>4, <2>1 DEF HolderAt, RowAt
  <2>3. Take(req[h].node, i) \in DOMAIN V.slot /\ \A p \in DOMAIN V.slot : V.slot[p] = tree.slot[p]
    BY <1>3, <2>1, EvictKeeps
  <2>4. \A p \in DOMAIN V.slot : V.slot[p] \notin free \cup gone
    BY EvictRoom
  <2> QED
    BY <2>2, <2>3, <2>4
<1>6. CASE ~(i <= P)
  <2>1. i \in P + 1 .. F
    BY <1>3, <1>6
  <2>2. OwnsAt(req, h, req[h].row[i])
    BY <1>2, <1>3, <2>1 DEF OwnsAt
  <2>3. req[h].row[i] \in Slots
    BY <1>2, ElementOfSeq
  <2>4. req[h].row[i] \notin free /\ ~CachedAt(tree, req[h].row[i])
    BY <1>1, <2>2, <2>3 DEF IInv, SlotsOK, SlotsAt
  <2>5. \A s \in gone : CachedAt(tree, s)
    <3>1. G \subseteq DOMAIN tree.slot
      BY EvictKeeps
    <3> QED
      BY <3>1 DEF Evicts, CachedAt
  <2> QED
    BY <2>4, <2>5
<1> QED
  BY <1>5, <1>6

\* The requests B get the slots O, which are free in f2 no more.
Alloc(f, T, q, V, G, O, f2, B, z) ==
    /\ SlotsAt(f, T, q) /\ G \subseteq DOMAIN T.slot /\ DOMAIN V.slot = DOMAIN T.slot \ G
    /\ \A p \in DOMAIN V.slot : V.slot[p] = T.slot[p]
    /\ O \subseteq f \cup {T.slot[p] : p \in G} /\ f2 = (f \cup {T.slot[p] : p \in G}) \ O
    /\ \A r \in Reqs : r \notin B => z[r] = q[r]
    /\ \A r \in B : \A s \in Slots : ~OwnsAt(q, r, s)
    /\ \A r \in B : \A s \in Slots : OwnsAt(z, r, s) => s \in O
    /\ \A s \in O : \E r \in B : r \in Reqs /\ OwnsAt(z, r, s)
    /\ \A r, c \in B : \A s \in Slots : OwnsAt(z, r, s) /\ OwnsAt(z, c, s) => r = c
    /\ \A r \in B : \A i, k \in Len(z[r].node) + 1 .. Len(z[r].row) : z[r].row[i] = z[r].row[k] => i = k

\* Then every slot still has one use.
LEMMA SlotsAlloc ==
    ASSUME NEW f, NEW T, NEW q, NEW V, NEW G, NEW O, NEW f2, NEW B, NEW z, Alloc(f, T, q, V, G, O, f2, B, z)
    PROVE  SlotsAt(f2, V, z)
<1> DEFINE g == {T.slot[p] : p \in G}
<1>1. SlotsAt(f, T, q)
  BY DEF Alloc
<1>2. /\ G \subseteq DOMAIN T.slot /\ DOMAIN V.slot = DOMAIN T.slot \ G
      /\ \A p \in DOMAIN V.slot : V.slot[p] = T.slot[p]
  BY DEF Alloc
<1>3. O \subseteq f \cup g /\ f2 = (f \cup g) \ O
  BY DEF Alloc
<1>4. \A r \in Reqs : r \notin B => z[r] = q[r]
  BY DEF Alloc
<1>5. /\ \A r \in B : \A s \in Slots : ~OwnsAt(q, r, s)
      /\ \A r \in B : \A s \in Slots : OwnsAt(z, r, s) => s \in O
      /\ \A s \in O : \E r \in B : r \in Reqs /\ OwnsAt(z, r, s)
  BY DEF Alloc
<1>6. \A r, c \in B : \A s \in Slots : OwnsAt(z, r, s) /\ OwnsAt(z, c, s) => r = c
  BY DEF Alloc
<1>7. \A r \in B : \A i, k \in Len(z[r].node) + 1 .. Len(z[r].row) : z[r].row[i] = z[r].row[k] => i = k
  BY DEF Alloc
<1>8. \A s \in g : CachedAt(T, s) /\ ~CachedAt(V, s)
  <2> SUFFICES ASSUME NEW p \in G PROVE CachedAt(T, T.slot[p]) /\ ~CachedAt(V, T.slot[p])
    OBVIOUS
  <2> QED
    BY <1>1, <1>2 DEF SlotsAt, CachedAt
<1> HIDE DEF g
<1>9. \A s \in f : ~CachedAt(V, s)
  BY <1>1, <1>2 DEF SlotsAt, CachedAt
<1>10. \A s : CachedAt(V, s) => CachedAt(T, s)
  BY <1>2 DEF CachedAt
<1>11. \A r \in Reqs : \A s : r \notin B => (OwnsAt(z, r, s) <=> OwnsAt(q, r, s))
  BY <1>4 DEF OwnsAt
<1>12. \A p \in DOMAIN V.slot : V.slot[p] \in Slots /\ V.slot[p] \notin f2
  <2> SUFFICES ASSUME NEW p \in DOMAIN V.slot PROVE V.slot[p] \in Slots /\ V.slot[p] \notin f2
    OBVIOUS
  <2>1. CachedAt(V, V.slot[p])
    BY DEF CachedAt
  <2>2. V.slot[p] \in Slots
    BY <1>1, <1>2 DEF SlotsAt
  <2> QED
    BY <1>3, <1>8, <1>9, <2>1, <2>2
<1>13. \A p, o \in DOMAIN V.slot : V.slot[p] = V.slot[o] => p = o
  BY <1>1, <1>2 DEF SlotsAt
<1>14. ASSUME NEW r \in Reqs, NEW s \in Slots, OwnsAt(z, r, s) PROVE s \notin f2 /\ ~CachedAt(V, s)
  <2>1. CASE r \in B
    BY <1>3, <1>5, <1>8, <1>9, <1>14, <2>1
  <2>2. CASE r \notin B
    <3>1. OwnsAt(q, r, s)
      BY <1>11, <1>14, <2>2
    <3>2. s \notin f /\ ~CachedAt(T, s)
      BY <1>1, <3>1 DEF SlotsAt
    <3> QED
      BY <1>3, <1>8, <1>10, <3>2
  <2> QED
    BY <2>1, <2>2
<1>15. ASSUME NEW r \in Reqs, NEW c \in Reqs, NEW s \in Slots, OwnsAt(z, r, s), OwnsAt(z, c, s) PROVE r = c
  <2>1. \A h \in Reqs : h \notin B /\ OwnsAt(z, h, s) => s \notin f \cup g
    <3> SUFFICES ASSUME NEW h \in Reqs, h \notin B, OwnsAt(z, h, s) PROVE s \notin f \cup g
      OBVIOUS
    <3>1. OwnsAt(q, h, s)
      BY <1>11
    <3> QED
      BY <1>1, <1>8, <3>1 DEF SlotsAt
  <2>2. CASE r \in B /\ c \in B
    BY <1>6, <1>15, <2>2
  <2>3. CASE r \in B /\ c \notin B
    BY <1>3, <1>5, <1>15, <2>1, <2>3
  <2>4. CASE r \notin B /\ c \in B
    BY <1>3, <1>5, <1>15, <2>1, <2>4
  <2>5. CASE r \notin B /\ c \notin B
    <3>1. OwnsAt(q, r, s) /\ OwnsAt(q, c, s)
      BY <1>11, <1>15, <2>5
    <3> QED
      BY <1>1, <3>1 DEF SlotsAt
  <2> QED
    BY <2>2, <2>3, <2>4, <2>5
<1>16. ASSUME NEW r \in Reqs, z[r].state # "absent",
              NEW i \in Len(z[r].node) + 1 .. Len(z[r].row), NEW k \in Len(z[r].node) + 1 .. Len(z[r].row),
              z[r].row[i] = z[r].row[k]
       PROVE  i = k
  <2>1. CASE r \in B
    BY <1>7, <1>16, <2>1
  <2>2. CASE r \notin B
    BY <1>1, <1>4, <1>16, <2>2 DEF SlotsAt
  <2> QED
    BY <2>1, <2>2
<1>17. ASSUME NEW s \in Slots PROVE s \in f2 \/ CachedAt(V, s) \/ \E r \in Reqs : OwnsAt(z, r, s)
  <2>1. CASE s \in f \cup g
    BY <1>3, <1>5, <2>1
  <2>2. CASE CachedAt(T, s) /\ s \notin g
    <3>1. PICK p \in DOMAIN T.slot : T.slot[p] = s
      BY <2>2 DEF CachedAt
    <3>2. p \notin G
      BY <2>2, <3>1 DEF g
    <3> QED
      BY <1>2, <3>1, <3>2 DEF CachedAt
  <2>3. ASSUME NEW r \in Reqs, OwnsAt(q, r, s) PROVE OwnsAt(z, r, s)
    BY <1>5, <1>11, <2>3
  <2> QED
    BY <1>1, <2>1, <2>2, <2>3 DEF SlotsAt
<1> QED
  BY <1>12, <1>13, <1>14, <1>15, <1>16, <1>17 DEF SlotsAt

----------------------------------------------------------------------------
(* The batch is launched: the new rows.                                    *)

\* The i-th request r of the batch has P tokens and needs them up to F; its
\* new slots start after b.
Place(i, r, P, F, b) ==
    /\ i \in DOMAIN batch /\ r = batch[i]
    /\ P = Len(req[r].node) /\ F = req[r].fill /\ b = Start(i)

\* What is known of a request of the batch.
LEMMA PlaceFacts ==
    ASSUME IInv, NEW i, NEW r, NEW P, NEW F, NEW b, Place(i, r, P, F, b)
    PROVE  /\ i \in 1 .. Len(batch) /\ r \in Reqs /\ r \in ToSet(batch) /\ r \in Holders /\ req[r] \in Req
           /\ HolderAt(req[r], tree, kv) /\ P \in Nat /\ F \in Nat /\ b \in Nat /\ P < F
           /\ Len(req[r].prefix) = P /\ Protected(r) = P /\ ExtendLen(r) = F - P
           /\ b + (F - P) <= Needed /\ Needed \in Nat /\ Index(batch, r) = i
<1>1. /\ i \in DOMAIN batch /\ r = batch[i] /\ P = Len(req[r].node) /\ F = req[r].fill /\ b = Start(i)
  BY DEF Place
<1>2. batch \in Seq(Reqs) /\ Once(batch)
  BY DEF IInv, Types, BatchOK
<1>3. PICK n \in Nat : n = Len(batch) /\ DOMAIN batch = 1 .. n
  BY <1>2, LenProperties
<1>4. r \in ToSet(batch)
  BY <1>1 DEF ToSet
<1>5. r \in Reqs /\ r \in Holders /\ req[r] \in Req /\ HolderAt(req[r], tree, kv)
  BY <1>4, Basics
<1>6. P \in Nat /\ F \in Nat
  BY <1>1, <1>5, ReqFacts
<1>7. P < F
  BY <1>1, <1>4, <1>5 DEF IInv, RestOK
<1>8. Len(req[r].prefix) = P
  BY <1>1, <1>5, HolderExtent
<1>9. Protected(r) = P /\ ExtendLen(r) = F - P /\ Extent(req, r) = F - P
  BY <1>1, <1>8 DEF Protected, ExtendLen, Extent
<1>10. \A h \in ToSet(batch) : Extent(req, h) \in Nat
  <2> SUFFICES ASSUME NEW h \in ToSet(batch) PROVE Extent(req, h) \in Nat
    OBVIOUS
  <2>1. req[h] \in Req /\ HolderAt(req[h], tree, kv)
    BY Basics
  <2> QED
    BY <2>1, HolderExtent
<1>11. /\ StartOf(req, batch, i) \in Nat /\ StartOf(req, batch, i) + Extent(req, batch[i]) <= Extents(req, ToSet(batch))
       /\ Extents(req, ToSet(batch)) \in Nat
  BY <1>1, <1>2, <1>3, <1>10, Layout
<1>12. b \in Nat /\ b + (F - P) <= Needed /\ Needed \in Nat
  BY <1>1, <1>9, <1>11, StartIs, NeededIs
<1>13. Index(batch, r) = i
  <2>1. \A k \in DOMAIN batch : batch[k] = r => k = i
    BY <1>1, <1>2 DEF Once
  <2> QED
    BY <1>1, <2>1 DEF Index
<1> QED
  BY <1>1, <1>3, <1>4, <1>5, <1>6, <1>7, <1>8, <1>9, <1>12, <1>13

\* Two requests of the batch have their new slots apart.
LEMMA PlacesApart ==
    ASSUME IInv, NEW i, NEW r, NEW P, NEW F, NEW b, Place(i, r, P, F, b),
           NEW j, NEW c, NEW Q, NEW H, NEW d, Place(j, c, Q, H, d),
           NEW x \in b + 1 .. b + (F - P), x \in d + 1 .. d + (H - Q)
    PROVE  i = j
<1>1. i \in 1 .. Len(batch) /\ b \in Nat /\ P \in Nat /\ F \in Nat /\ ExtendLen(r) = F - P
  BY PlaceFacts
<1>2. j \in 1 .. Len(batch) /\ d \in Nat /\ Q \in Nat /\ H \in Nat /\ ExtendLen(c) = H - Q
  BY PlaceFacts
<1>3. r = batch[i] /\ b = Start(i) /\ c = batch[j] /\ d = Start(j)
  BY DEF Place
<1>4. batch \in Seq(Reqs) /\ Once(batch)
  BY DEF IInv, Types, BatchOK
<1>5. PICK n \in Nat : n = Len(batch)
  BY <1>4, LenProperties
<1>6. \A h \in ToSet(batch) : Extent(req, h) \in Nat
  <2> SUFFICES ASSUME NEW h \in ToSet(batch) PROVE Extent(req, h) \in Nat
    OBVIOUS
  <2>1. req[h] \in Req /\ HolderAt(req[h], tree, kv)
    BY Basics
  <2> QED
    BY <2>1, HolderExtent
<1>7. \A u, w \in 1 .. n : u < w => StartOf(req, batch, u) + Extent(req, batch[u]) <= StartOf(req, batch, w)
  BY <1>4, <1>5, <1>6, Layout
<1>8. /\ StartOf(req, batch, i) = b /\ StartOf(req, batch, j) = d
      /\ Extent(req, batch[i]) = F - P /\ Extent(req, batch[j]) = H - Q
  BY <1>1, <1>2, <1>3, StartIs DEF Extent, ExtendLen, Protected
<1>9. ~(i < j)
  <2> SUFFICES ASSUME i < j PROVE FALSE
    OBVIOUS
  <2>1. b + (F - P) <= d
    BY <1>1, <1>2, <1>5, <1>7, <1>8
  <2> QED
    BY <1>1, <1>2, <2>1
<1>10. ~(j < i)
  <2> SUFFICES ASSUME j < i PROVE FALSE
    OBVIOUS
  <2>1. d + (H - Q) <= b
    BY <1>1, <1>2, <1>5, <1>7, <1>8
  <2> QED
    BY <1>1, <1>2, <2>1
<1>11. i \in Int /\ j \in Int
  BY <1>1, <1>2, <1>5
<1> QED
  BY <1>9, <1>10, <1>11

\* Every new slot is somebody's.
LEMMA PlacesCover ==
    ASSUME IInv, NEW x \in 1 .. Needed
    PROVE  \E i, r, P, F, b : Place(i, r, P, F, b) /\ x \in b + 1 .. b + (F - P)
<1>1. batch \in Seq(Reqs) /\ Once(batch)
  BY DEF IInv, Types, BatchOK
<1>2. PICK n \in Nat : n = Len(batch) /\ DOMAIN batch = 1 .. n
  BY <1>1, LenProperties
<1>3. \A h \in ToSet(batch) : Extent(req, h) \in Nat
  <2> SUFFICES ASSUME NEW h \in ToSet(batch) PROVE Extent(req, h) \in Nat
    OBVIOUS
  <2>1. req[h] \in Req /\ HolderAt(req[h], tree, kv)
    BY Basics
  <2> QED
    BY <2>1, HolderExtent
<1>4. x \in 1 .. Extents(req, ToSet(batch))
  BY NeededIs
<1>5. PICK i \in 1 .. n : x \in StartOf(req, batch, i) + 1 .. StartOf(req, batch, i) + Extent(req, batch[i])
  BY <1>1, <1>2, <1>3, <1>4, Layout
<1>6. PICK r, P, F, b : Place(i, r, P, F, b)
  BY <1>2 DEF Place
<1>7. ExtendLen(r) = F - P
  BY <1>6, PlaceFacts
<1>8. StartOf(req, batch, i) = b /\ Extent(req, batch[i]) = F - P
  BY <1>6, <1>7, StartIs DEF Place, Extent, ExtendLen, Protected
<1> QED
  BY <1>5, <1>6, <1>8

\* The forward writes the request's own text.
LEMMA WrittenIs ==
    ASSUME IInv, NEW i, NEW r, NEW P, NEW F, NEW b, Place(i, r, P, F, b), NEW k \in P + 1 .. F
    PROVE  Written(b + (k - P)) = TextOf(req[r].job, k)
<1> DEFINE x == b + (k - P)
<1>1. /\ r \in Reqs /\ req[r] \in Req /\ HolderAt(req[r], tree, kv) /\ P \in Nat /\ F \in Nat /\ b \in Nat /\ P < F
      /\ Protected(r) = P /\ ExtendLen(r) = F - P
  BY PlaceFacts
<1>2. i \in DOMAIN batch /\ r = batch[i] /\ P = Len(req[r].node) /\ F = req[r].fill /\ b = Start(i)
  BY DEF Place
<1>3. x \in b + 1 .. b + (F - P) /\ k \in Int
  BY <1>1
<1>4. x \in Start(i) + 1 .. Start(i) + ExtendLen(batch[i])
  BY <1>1, <1>2, <1>3
<1>5. ASSUME NEW m \in DOMAIN batch, x \in Start(m) + 1 .. Start(m) + ExtendLen(batch[m]) PROVE m = i
  <2>1. PICK c, Q, H, d : Place(m, c, Q, H, d)
    BY DEF Place
  <2>2. ExtendLen(c) = H - Q /\ c = batch[m] /\ d = Start(m)
    BY <2>1, PlaceFacts DEF Place
  <2>3. x \in d + 1 .. d + (H - Q)
    BY <1>5, <2>2
  <2> HIDE DEF x
  <2> QED
    BY <1>3, <2>1, <2>3, PlacesApart
<1>6. (CHOOSE m \in DOMAIN batch : x \in Start(m) + 1 .. Start(m) + ExtendLen(batch[m])) = i
  <2> HIDE DEF x
  <2> QED
    BY <1>2, <1>4, <1>5
<1>7. Written(x) = Content(batch[i], Protected(batch[i]) + x - Start(i))
  <2> HIDE DEF x
  <2> QED
    BY <1>6 DEF Written
<1>8. Protected(batch[i]) + x - Start(i) = k
  <2>1. P + (b + (k - P)) - b = k
    BY <1>1, <1>3
  <2> QED
    BY <1>1, <1>2, <2>1
<1>9. Written(x) = Content(r, k)
  BY <1>2, <1>7, <1>8
<1>10. k \in Len(req[r].node) + 1 .. Len(req[r].job.ids)
  <2>1. F <= Len(req[r].job.ids) /\ Len(req[r].job.ids) \in Nat
    BY <1>1, <1>2, ReqFacts, JobFacts DEF HolderAt
  <2> QED
    BY <1>1, <1>2, <2>1
<1>11. Shape(tree) /\ CacheHonest
  BY DEF IInv
<1>12. Content(r, k) = TextOf(req[r].job, k)
  BY <1>1, <1>10, <1>11, ContentIs
<1> QED
  BY <1>9, <1>12

\* A row: the cached prefix, then the new slots.
LEMMA NewRowIs ==
    ASSUME IInv, NEW i, NEW r, NEW P, NEW F, NEW b, Place(i, r, P, F, b),
           NEW out, out \in Seq(Slots), Len(out) = Needed
    PROVE  /\ NewRow(i, out) \in Seq(Slots) /\ Len(NewRow(i, out)) = F /\ NewRow(i, out) # <<>>
           /\ \A k \in 1 .. P : NewRow(i, out)[k] = req[r].prefix[k]
           /\ \A k \in P + 1 .. F : NewRow(i, out)[k] = out[b + (k - P)] /\ b + (k - P) \in 1 .. Needed
<1> DEFINE p == req[r].prefix
           s == SubSeq(out, b + 1, b + (F - P))
<1>1. /\ r \in Reqs /\ req[r] \in Req /\ P \in Nat /\ F \in Nat /\ b \in Nat /\ P < F
      /\ Len(p) = P /\ ExtendLen(r) = F - P /\ b + (F - P) <= Needed /\ Needed \in Nat
  BY PlaceFacts
<1>2. r = batch[i] /\ b = Start(i)
  BY DEF Place
<1>3. p \in Seq(Slots)
  BY <1>1, ReqFacts
<1>4. NewRow(i, out) = p \o s
  BY <1>1, <1>2 DEF NewRow
<1>5. PICK n \in Nat : n = Needed
  BY <1>1
<1>6. s \in Seq(Slots) /\ Len(s) = F - P /\ \A k \in 1 .. F - P : s[k] = out[b + k]
  <2>1. \A k \in b + 1 .. b + (F - P) : out[k] \in Slots
    <3>1. \A k \in b + 1 .. b + (F - P) : k \in 1 .. Len(out)
      BY <1>1, <1>5
    <3> QED
      BY <3>1, ElementOfSeq
  <2>2. b + 1 \in Int /\ b + (F - P) \in Int
    BY <1>1
  <2>a. PICK u \in Int, w \in Int : u = b + 1 /\ w = b + (F - P)
    BY <2>2
  <2>b. /\ SubSeq(out, u, w) \in Seq(Slots)
        /\ Len(SubSeq(out, u, w)) = IF u <= w THEN w - u + 1 ELSE 0
        /\ \A k \in 1 .. w - u + 1 : SubSeq(out, u, w)[k] = out[u + k - 1]
    <3>1. \A k \in u .. w : out[k] \in Slots
      BY <2>1, <2>a
    <3> QED
      BY <3>1, SubSeqProperties
  <2>3. s = SubSeq(out, u, w)
    BY <2>a
  <2>4. w - u + 1 = F - P /\ u <= w /\ \A k \in 1 .. F - P : u + k - 1 = b + k
    BY <1>1, <2>a
  <2> HIDE DEF s
  <2> QED
    BY <2>b, <2>3, <2>4
<1> HIDE DEF p, s
<1>7. /\ p \o s \in Seq(Slots) /\ Len(p \o s) = P + (F - P)
      /\ \A k \in 1 .. P + (F - P) : (p \o s)[k] = IF k <= P THEN p[k] ELSE s[k - P]
  <2>1. /\ p \o s \in Seq(Slots) /\ Len(p \o s) = Len(p) + Len(s)
        /\ \A k \in 1 .. Len(p) + Len(s) : (p \o s)[k] = IF k <= Len(p) THEN p[k] ELSE s[k - Len(p)]
    BY <1>3, <1>6, ConcatProperties
  <2>2. Len(p) = P /\ Len(s) = F - P
    BY <1>1, <1>6 DEF p
  <2> QED
    BY <2>1, <2>2
<1>8. P + (F - P) = F
  BY <1>1
<1>9. Len(p \o s) = F /\ \A k \in 1 .. F : (p \o s)[k] = IF k <= P THEN p[k] ELSE s[k - P]
  BY <1>7, <1>8
<1>10. p \o s # <<>>
  BY <1>1, <1>9, EmptySeq
<1>11. \A k \in 1 .. P : (p \o s)[k] = p[k]
  <2>1. \A k \in 1 .. P : k \in 1 .. F /\ k <= P
    BY <1>1
  <2> QED
    BY <1>9, <2>1
<1>12. ASSUME NEW k \in P + 1 .. F PROVE (p \o s)[k] = out[b + (k - P)] /\ b + (k - P) \in 1 .. Needed
  <2>1. k \in 1 .. F /\ ~(k <= P) /\ k - P \in 1 .. F - P
    BY <1>1
  <2>2. (p \o s)[k] = s[k - P]
    BY <1>9, <2>1
  <2>3. b + (k - P) \in 1 .. Needed
    BY <1>1, <1>5, <2>1
  <2> QED
    BY <1>6, <2>1, <2>2, <2>3
<1> QED
  BY <1>4, <1>7, <1>9, <1>10, <1>11, <1>12 DEF p

\* Eviction, allocation of the slots out, and the forward.
Launches(E, G, gone, V, out) ==
    /\ Evicts(E, G, gone, V)
    /\ out = Lowest(free \cup gone, Needed) /\ Cardinality(free \cup gone) >= Needed
    /\ tree' = V /\ free' = (free \cup gone) \ ToSet(out)
    /\ kv' = [s \in Slots |-> IF s \in ToSet(out) THEN Written(Index(out, s))
                              ELSE IF s \in gone THEN <<>> ELSE kv[s]]
    /\ req' = [r \in Reqs |-> IF r \in ToSet(batch) THEN Launched(Index(batch, r), out) ELSE req[r]]

\* As many slots as needed, no slot twice.
LEMMA OutIs ==
    ASSUME IInv, NEW E, NEW G, NEW gone, NEW V, NEW out, Launches(E, G, gone, V, out)
    PROVE  /\ Needed \in Nat /\ out \in Seq(Slots) /\ Len(out) = Needed
           /\ \A x, y \in 1 .. Needed : out[x] = out[y] => x = y
           /\ ToSet(out) = {out[x] : x \in 1 .. Needed} /\ ToSet(out) \subseteq free \cup gone
           /\ \A x \in 1 .. Needed : Index(out, out[x]) = x /\ out[x] \in ToSet(out) /\ out[x] \in Slots
           /\ IsFiniteSet(ToSet(out)) /\ Cardinality(ToSet(out)) = Needed
<1>1. Evicts(E, G, gone, V) /\ out = Lowest(free \cup gone, Needed) /\ Cardinality(free \cup gone) >= Needed
  BY DEF Launches
<1>2. gone \subseteq Slots /\ IsFiniteSet(free \cup gone) /\ Cardinality(free \cup gone) \in Nat
  BY <1>1, EvictRoom
<1>3. free \cup gone \in SUBSET Slots /\ Slots \subseteq Nat
  BY <1>2, Sizes DEF IInv, Types, Slots
<1>4. Needed \in Nat
  <2>1. batch \in Seq(Reqs) /\ Once(batch)
    BY DEF IInv, Types, BatchOK
  <2>2. PICK n \in Nat : n = Len(batch)
    BY <2>1, LenProperties
  <2>3. \A h \in ToSet(batch) : Extent(req, h) \in Nat
    <3> SUFFICES ASSUME NEW h \in ToSet(batch) PROVE Extent(req, h) \in Nat
      OBVIOUS
    <3>1. req[h] \in Req /\ HolderAt(req[h], tree, kv)
      BY Basics
    <3> QED
      BY <3>1, HolderExtent
  <2> QED
    BY <2>1, <2>2, <2>3, Layout, NeededIs
<1>5. PICK S \in SUBSET Nat : S = free \cup gone
  BY <1>3
<1>6. PICK n \in Nat : n = Needed
  BY <1>4
<1>7. IsFiniteSet(S) /\ n <= Cardinality(S) /\ out = Lowest(S, n)
  BY <1>1, <1>2, <1>5, <1>6
<1>8. /\ out \in [1 .. n -> S] /\ out \in Seq(S) /\ Len(out) = n
      /\ \A x, y \in 1 .. n : out[x] = out[y] => x = y
  BY <1>7, LowestPicks
<1>9. DOMAIN out = 1 .. n /\ \A x \in 1 .. n : out[x] \in S
  BY <1>8
<1>10. ToSet(out) = {out[x] : x \in 1 .. n} /\ ToSet(out) \subseteq S
  BY <1>9 DEF ToSet
<1>11. out \in Seq(Slots)
  <2>1. out \in [1 .. n -> Slots]
    BY <1>3, <1>5, <1>8
  <2> QED
    BY <2>1, SeqDef
<1>12. ASSUME NEW x \in 1 .. n PROVE Index(out, out[x]) = x
  <2>1. \A y \in DOMAIN out : out[y] = out[x] => y = x
    BY <1>8, <1>9
  <2> QED
    BY <1>9, <2>1 DEF Index
<1>13. IsFiniteSet(ToSet(out)) /\ Cardinality(ToSet(out)) = n
  <2>1. out \in [1 .. n -> ToSet(out)] /\ \A s \in ToSet(out) : \E x \in 1 .. n : out[x] = s
    BY <1>8, <1>10
  <2>2. IsFiniteSet(1 .. n) /\ Cardinality(1 .. n) = n
    <3>1. IsFiniteSet(1 .. n) /\ Cardinality(1 .. n) = IF 1 > n THEN 0 ELSE n - 1 + 1
      BY FS_Interval
    <3> QED
      BY <3>1
  <2>3. PICK I : I = 1 .. n
    OBVIOUS
  <2>4. /\ out \in [I -> ToSet(out)] /\ (\A s \in ToSet(out) : \E x \in I : out[x] = s)
        /\ (\A x, y \in I : out[x] = out[y] => x = y) /\ IsFiniteSet(I) /\ Cardinality(I) = n
    BY <1>8, <2>1, <2>2, <2>3
  <2> QED
    BY <2>4, PairedOff
<1> QED
  BY <1>3, <1>4, <1>5, <1>6, <1>8, <1>9, <1>10, <1>11, <1>12, <1>13

\* What slots hold after the forward.
LEMMA LaunchedKV ==
    ASSUME IInv, NEW E, NEW G, NEW gone, NEW V, NEW out, Launches(E, G, gone, V, out)
    PROVE  /\ kv' \in [Slots -> Seq(Token)]
           /\ \A s \in Slots : s \notin free \cup gone => kv'[s] = kv[s]
           /\ \A i, r, P, F, b : Place(i, r, P, F, b) =>
                \A k \in P + 1 .. F : kv'[out[b + (k - P)]] = TextOf(req[r].job, k)
<1>1. /\ Needed \in Nat /\ ToSet(out) = {out[x] : x \in 1 .. Needed} /\ ToSet(out) \subseteq free \cup gone
      /\ \A x \in 1 .. Needed : Index(out, out[x]) = x /\ out[x] \in ToSet(out) /\ out[x] \in Slots
  BY OutIs
<1>2. kv' = [s \in Slots |-> IF s \in ToSet(out) THEN Written(Index(out, s))
                             ELSE IF s \in gone THEN <<>> ELSE kv[s]]
  BY DEF Launches
<1>3. \A s \in Slots : s \notin free \cup gone => kv'[s] = kv[s]
  BY <1>1, <1>2
<1>4. \A x \in 1 .. Needed : kv'[out[x]] = Written(x)
  BY <1>1, <1>2
<1>5. ASSUME NEW i, NEW r, NEW P, NEW F, NEW b, Place(i, r, P, F, b), NEW k \in P + 1 .. F
      PROVE  kv'[out[b + (k - P)]] = TextOf(req[r].job, k)
  <2>1. P \in Nat /\ F \in Nat /\ b \in Nat /\ b + (F - P) <= Needed
    BY <1>5, PlaceFacts
  <2>2. PICK n \in Nat : n = Needed
    BY <1>1
  <2>3. b + (k - P) \in 1 .. Needed
    BY <2>1, <2>2
  <2>4. Written(b + (k - P)) = TextOf(req[r].job, k)
    BY <1>5, WrittenIs
  <2> QED
    BY <1>4, <2>3, <2>4
<1>6. ASSUME NEW s \in Slots PROVE kv'[s] \in Seq(Token)
  <2>1. CASE s \in ToSet(out)
    <3>1. PICK x \in 1 .. Needed : s = out[x]
      BY <1>1, <2>1
    <3>2. PICK i, r, P, F, b : Place(i, r, P, F, b) /\ x \in b + 1 .. b + (F - P)
      BY PlacesCover
    <3>3. /\ P \in Nat /\ F \in Nat /\ b \in Nat /\ req[r] \in Req /\ HolderAt(req[r], tree, kv)
      BY <3>2, PlaceFacts
    <3>4. PICK k \in P + 1 .. F : x = b + (k - P)
      <4>1. x - b + P \in P + 1 .. F /\ x = b + ((x - b + P) - P)
        BY <3>2, <3>3
      <4> QED
        BY <4>1
    <3>5. kv'[s] = TextOf(req[r].job, k)
      BY <1>5, <3>1, <3>2, <3>4
    <3>6. k \in 1 .. Len(req[r].job.ids) /\ req[r].job \in JobChoices
      <4>1. F <= Len(req[r].job.ids) /\ req[r].job \in JobChoices
        BY <3>2, <3>3, ReqFacts DEF Place, HolderAt
      <4>2. Len(req[r].job.ids) \in Nat
        BY <4>1, JobFacts
      <4> QED
        BY <3>3, <4>1, <4>2
    <3> QED
      BY <3>5, <3>6, Texts
  <2>2. CASE s \notin ToSet(out)
    <3>1. <<>> \in Seq(Token)
      BY EmptySeq
    <3>2. kv[s] \in Seq(Token)
      BY DEF IInv, Types
    <3> QED
      BY <1>2, <2>2, <3>1, <3>2
  <2> QED
    BY <2>1, <2>2
<1>7. kv' \in [Slots -> Seq(Token)]
  <2>1. DOMAIN kv' = Slots /\ kv' = [s \in Slots |-> kv'[s]]
    BY <1>2
  <2> QED
    BY <1>6, <2>1
<1> QED
  BY <1>3, <1>5, <1>7

\* A value is computed from the request's own texts.
LEMMA ValueIs ==
    ASSUME IInv, NEW i, NEW r, NEW P, NEW F, NEW b, Place(i, r, P, F, b), F = Len(req[r].job.ids)
    PROVE  {Content(r, n) : n \in Valued(req[r].job)} = Expected(req[r].job)
<1> DEFINE j == req[r].job
<1>1. req[r] \in Req /\ HolderAt(req[r], tree, kv) /\ P \in Nat /\ F \in Nat /\ P < F
  BY PlaceFacts
<1>2. j \in JobChoices /\ P = Len(req[r].node)
  BY <1>1, ReqFacts DEF Place
<1>3. /\ Expected(j) = {TextOf(j, n) : n \in Valued(j)} /\ Valued(j) \subseteq 1 .. Len(j.ids)
      /\ \A n \in Valued(j) : n > j.prefix_len /\ (j.prefix_len = 0 => n = Len(j.ids))
  BY <1>2, Texts
<1>4. Shape(tree) /\ CacheHonest
  BY DEF IInv
<1>5. ASSUME NEW n \in Valued(j) PROVE Content(r, n) = TextOf(j, n)
  <2>1. PICK q \in Nat : q = j.prefix_len
    BY <1>2, JobFacts
  <2>2. q > 0 => P < q
    BY <1>1, <1>2, <2>1 DEF HolderAt
  <2>3. n \in 1 .. F /\ n > q /\ (q = 0 => n = F)
    BY <1>3, <2>1
  <2>4. n \in P + 1 .. F
    BY <1>1, <2>2, <2>3
  <2>5. n \in Len(req[r].node) + 1 .. Len(req[r].job.ids)
    BY <1>2, <2>4
  <2> QED
    BY <1>1, <1>4, <2>5, ContentIs
<1> QED
  BY <1>3, <1>5

\* A request of the batch after the launch.
LEMMA LaunchedFields ==
    ASSUME IInv, NEW E, NEW G, NEW gone, NEW V, NEW out, Launches(E, G, gone, V, out),
           NEW i, NEW r, NEW P, NEW F, NEW b, Place(i, r, P, F, b)
    PROVE  /\ req'[r] \in Req /\ req'[r].job = req[r].job /\ req'[r].state = "running"
           /\ req'[r].prefix = req[r].prefix /\ req'[r].node = req[r].node /\ req'[r].fill = req[r].fill
           /\ req'[r].row = NewRow(i, out)
           /\ req'[r].is_chunked = req[r].is_chunked + (IF r = chunked THEN 1 ELSE 0)
           /\ F = Len(req[r].job.ids) => req'[r].value = Expected(req[r].job)
<1> DEFINE x == req[r]
           y == req'[r]
           d == IF r = chunked THEN x.is_chunked + 1 ELSE x.is_chunked
           v == IF x.fill = Len(x.job.ids) THEN {Content(r, n) : n \in Valued(x.job)} ELSE {}
<1>1. r \in Reqs /\ r \in ToSet(batch) /\ x \in Req /\ Index(batch, r) = i
  BY PlaceFacts
<1>2. r = batch[i] /\ F = x.fill
  BY DEF Place
<1>3. req' = [h \in Reqs |-> IF h \in ToSet(batch) THEN Launched(Index(batch, h), out) ELSE req[h]]
  BY DEF Launches
<1>4. y = Launched(i, out)
  BY <1>1, <1>3
<1>5. y = [x EXCEPT !.state = "running", !.row = NewRow(i, out), !.is_chunked = d, !.value = v]
  BY <1>1, <1>2, <1>4 DEF Launched, Ids, Req
<1>6. d \in Nat /\ d = x.is_chunked + (IF r = chunked THEN 1 ELSE 0)
  <2>1. x.is_chunked \in Nat
    BY <1>1, ReqFacts
  <2> QED
    BY <2>1
<1>7. v \in SUBSET Seq(Token) /\ (F = Len(x.job.ids) => v = Expected(x.job))
  <2>1. CASE F = Len(x.job.ids)
    <3>1. v = Expected(x.job)
      BY <1>2, <2>1, ValueIs
    <3>2. x.job \in JobChoices
      BY <1>1, ReqFacts
    <3>3. Expected(x.job) \in SUBSET Seq(Token)
      BY <3>2, Texts
    <3> QED
      BY <3>1, <3>3
  <2>2. CASE F # Len(x.job.ids)
    BY <1>2, <2>2
  <2> QED
    BY <2>1, <2>2
<1>8. NewRow(i, out) \in Seq(Slots)
  <2>1. out \in Seq(Slots) /\ Len(out) = Needed
    BY OutIs
  <2> QED
    BY <2>1, NewRowIs
<1> HIDE DEF x, y, d, v
<1>9. /\ y \in Req /\ y.job = x.job /\ y.state = "running" /\ y.prefix = x.prefix /\ y.node = x.node
      /\ y.fill = x.fill /\ y.row = NewRow(i, out) /\ y.is_chunked = d /\ y.value = v
  BY <1>1, <1>5, <1>6, <1>7, <1>8 DEF Req, States
<1> QED
  BY <1>6, <1>7, <1>9 DEF x, y

\* It holds its text, on the way to its node and after it.
LEMMA LaunchedHolder ==
    ASSUME IInv, NEW E, NEW G, NEW gone, NEW V, NEW out, Launches(E, G, gone, V, out),
           NEW i, NEW r, NEW P, NEW F, NEW b, Place(i, r, P, F, b)
    PROVE  HolderAt(req'[r], V, kv') /\ req'[r].row # <<>>
<1> DEFINE x == req[r]
           y == req'[r]
<1>1. /\ r \in Reqs /\ r \in Holders /\ x \in Req /\ HolderAt(x, tree, kv) /\ P \in Nat /\ F \in Nat /\ P < F
  BY PlaceFacts
<1>2. P = Len(x.node) /\ F = x.fill
  BY DEF Place
<1>3. /\ y \in Req /\ y.job = x.job /\ y.prefix = x.prefix /\ y.node = x.node /\ y.fill = F
      /\ y.row = NewRow(i, out) /\ (F = Len(x.job.ids) => y.value = Expected(x.job))
  BY <1>2, LaunchedFields
<1>4. /\ Evicts(E, G, gone, V) /\ out \in Seq(Slots) /\ Len(out) = Needed
  <2>1. Evicts(E, G, gone, V)
    BY DEF Launches
  <2>2. out \in Seq(Slots) /\ Len(out) = Needed
    BY OutIs
  <2> QED
    BY <2>1, <2>2
<1>5. /\ Len(NewRow(i, out)) = F /\ NewRow(i, out) # <<>>
      /\ \A k \in 1 .. P : NewRow(i, out)[k] = x.prefix[k]
      /\ \A k \in P + 1 .. F : NewRow(i, out)[k] = out[b + (k - P)]
  BY <1>4, NewRowIs
<1>6. /\ (x.node # <<>> => x.node \in Nodes(V)) /\ \A k \in 1 .. P : Take(x.node, k) \in DOMAIN V.slot
      /\ \A p \in DOMAIN V.slot : V.slot[p] = tree.slot[p]
  BY <1>1, <1>2, <1>4, EvictKeeps
<1>7. \A p \in DOMAIN V.slot : V.slot[p] \in Slots /\ V.slot[p] \notin free \cup gone
  BY <1>4, EvictRoom
<1>8. /\ \A s \in Slots : s \notin free \cup gone => kv'[s] = kv[s]
      /\ \A k \in P + 1 .. F : kv'[out[b + (k - P)]] = TextOf(x.job, k)
  BY LaunchedKV
<1>9. ASSUME NEW k \in 1 .. P
      PROVE  /\ x.prefix[k] = V.slot[Take(x.node, k)] /\ kv'[x.prefix[k]] = TextOf(x.job, k)
  <2>1. Shape(tree) /\ \A p \in DOMAIN tree.slot : kv[tree.slot[p]] = p
    BY DEF IInv, CacheHonest
  <2>2. /\ x.prefix[k] = tree.slot[Take(x.node, k)] /\ kv[x.prefix[k]] = Take(x.job.ids, k)
    BY <1>1, <1>2, <2>1, NodeTexts
  <2>3. x.prefix[k] = V.slot[Take(x.node, k)] /\ Take(x.node, k) \in DOMAIN V.slot
    BY <1>6, <2>2
  <2>4. kv'[x.prefix[k]] = kv[x.prefix[k]]
    BY <1>7, <1>8, <2>3
  <2>5. ~(x.job.prefix_len > 0 /\ k > x.job.prefix_len)
    <3>1. PICK q \in Nat : q = x.job.prefix_len
      BY <1>1, ReqFacts, JobFacts
    <3>2. q > 0 => P < q
      BY <1>1, <1>2, <3>1 DEF HolderAt
    <3> QED
      BY <1>1, <3>1, <3>2
  <2>6. TextOf(x.job, k) = Take(x.job.ids, k)
    BY <2>5 DEF TextOf
  <2> QED
    BY <2>2, <2>3, <2>4, <2>6
<1> HIDE DEF x, y
<1>10. RowAt(y, kv')
  <2>1. ASSUME NEW k \in 1 .. F PROVE kv'[y.row[k]] = TextOf(y.job, k)
    <3>1. CASE k \in 1 .. P
      BY <1>3, <1>5, <1>9, <3>1
    <3>2. CASE k \in P + 1 .. F
      BY <1>3, <1>5, <1>8, <3>2
    <3>3. k \in 1 .. P \/ k \in P + 1 .. F
      BY <1>1
    <3> QED
      BY <3>1, <3>2, <3>3
  <2> QED
    BY <1>2, <1>3, <1>5, <2>1 DEF RowAt
<1>11. y.prefix = [k \in 1 .. Len(y.node) |-> V.slot[Take(y.node, k)]]
  <2>1. x.prefix = [k \in 1 .. P |-> tree.slot[Take(x.node, k)]]
    BY <1>1, <1>2 DEF HolderAt
  <2> QED
    BY <1>2, <1>3, <1>9, <2>1
<1>12. HolderAt(y, V, kv')
  BY <1>1, <1>2, <1>3, <1>6, <1>10, <1>11 DEF HolderAt
<1> QED
  BY <1>3, <1>5, <1>12 DEF y

\* Every request of the batch has its place.
LEMMA HasPlace ==
    ASSUME IInv, NEW r \in ToSet(batch)
    PROVE  \E i, P, F, b : Place(i, r, P, F, b)
<1>1. PICK i \in DOMAIN batch : batch[i] = r
  BY DEF ToSet
<1> QED
  BY <1>1 DEF Place

\* What a request of the batch owns are its new slots.
LEMMA LaunchedOwns ==
    ASSUME IInv, NEW E, NEW G, NEW gone, NEW V, NEW out, Launches(E, G, gone, V, out),
           NEW i, NEW r, NEW P, NEW F, NEW b, Place(i, r, P, F, b)
    PROVE  /\ \A s : OwnsAt(req', r, s) <=> \E x \in b + 1 .. b + (F - P) : out[x] = s
           /\ \A x \in b + 1 .. b + (F - P) : x \in 1 .. Needed
           /\ \A k, l \in Len(req'[r].node) + 1 .. Len(req'[r].row) : req'[r].row[k] = req'[r].row[l] => k = l
<1>1. P \in Nat /\ F \in Nat /\ b \in Nat /\ P < F /\ b + (F - P) <= Needed
  BY PlaceFacts
<1>2. req'[r].node = req[r].node /\ req'[r].row = NewRow(i, out) /\ req'[r].state = "running"
  BY LaunchedFields
<1>3. out \in Seq(Slots) /\ Len(out) = Needed /\ Needed \in Nat /\ \A x, y \in 1 .. Needed : out[x] = out[y] => x = y
  BY OutIs
<1>4. /\ Len(NewRow(i, out)) = F
      /\ \A k \in P + 1 .. F : NewRow(i, out)[k] = out[b + (k - P)] /\ b + (k - P) \in 1 .. Needed
  BY <1>3, NewRowIs
<1>5. PICK w : w = req'[r].row
  OBVIOUS
<1>6. /\ P = Len(req'[r].node) /\ F = Len(w)
      /\ \A k \in P + 1 .. F : w[k] = out[b + (k - P)] /\ b + (k - P) \in 1 .. Needed
  BY <1>2, <1>4, <1>5 DEF Place
<1>7. PICK n \in Nat : n = Needed
  BY <1>3
<1>8. \A x \in b + 1 .. b + (F - P) : x \in 1 .. Needed
  BY <1>1, <1>7
<1>9. ASSUME NEW s PROVE OwnsAt(req', r, s) <=> \E x \in b + 1 .. b + (F - P) : out[x] = s
  <2>1. OwnsAt(req', r, s) <=> \E k \in P + 1 .. F : w[k] = s
    BY <1>2, <1>5, <1>6 DEF OwnsAt
  <2>2. ASSUME NEW k \in P + 1 .. F, w[k] = s PROVE \E x \in b + 1 .. b + (F - P) : out[x] = s
    <3>1. b + (k - P) \in b + 1 .. b + (F - P)
      BY <1>1
    <3> QED
      BY <1>6, <2>2, <3>1
  <2>3. ASSUME NEW x \in b + 1 .. b + (F - P), out[x] = s PROVE \E k \in P + 1 .. F : w[k] = s
    <3>1. PICK k \in P + 1 .. F : b + (k - P) = x
      <4>1. x - b + P \in P + 1 .. F /\ b + ((x - b + P) - P) = x
        BY <1>1
      <4> QED
        BY <4>1
    <3> QED
      BY <1>6, <2>3, <3>1
  <2> QED
    BY <2>1, <2>2, <2>3
<1>10. ASSUME NEW k \in P + 1 .. F, NEW l \in P + 1 .. F, w[k] = w[l] PROVE k = l
  <2>1. out[b + (k - P)] = out[b + (l - P)] /\ b + (k - P) \in 1 .. Needed /\ b + (l - P) \in 1 .. Needed
    BY <1>6, <1>10
  <2>2. b + (k - P) = b + (l - P)
    BY <1>3, <2>1
  <2> QED
    BY <1>1, <2>2
<1>11. \A k, l \in Len(req'[r].node) + 1 .. Len(req'[r].row) : req'[r].row[k] = req'[r].row[l] => k = l
  <2>1. \A k, l \in P + 1 .. F : w[k] = w[l] => k = l
    BY <1>10
  <2>2. P = Len(req'[r].node) /\ F = Len(req'[r].row)
    BY <1>5, <1>6
  <2> QED
    BY <1>5, <2>1, <2>2
<1> QED
  BY <1>8, <1>9, <1>11

\* Every slot has one use after the launch.
LEMMA LaunchSlots ==
    ASSUME IInv, NEW E, NEW G, NEW gone, NEW V, NEW out, Launches(E, G, gone, V, out)
    PROVE  SlotsOK'
<1>1. /\ Evicts(E, G, gone, V) /\ tree' = V /\ free' = (free \cup gone) \ ToSet(out)
      /\ req' = [r \in Reqs |-> IF r \in ToSet(batch) THEN Launched(Index(batch, r), out) ELSE req[r]]
  BY DEF Launches
<1>2. /\ G \subseteq DOMAIN tree.slot /\ DOMAIN V.slot = DOMAIN tree.slot \ G
      /\ \A p \in DOMAIN V.slot : V.slot[p] = tree.slot[p]
  BY <1>1, EvictKeeps
<1>3. gone = {tree.slot[p] : p \in G}
  BY <1>1 DEF Evicts
<1>4. /\ ToSet(out) = {out[x] : x \in 1 .. Needed} /\ ToSet(out) \subseteq free \cup gone
      /\ \A x, y \in 1 .. Needed : out[x] = out[y] => x = y
  BY OutIs
<1>5. PICK z : z = req'
  OBVIOUS
<1>6. \A r \in Reqs : r \notin ToSet(batch) => z[r] = req[r]
  BY <1>1, <1>5
<1>7. \A r \in ToSet(batch) : \A s \in Slots : ~OwnsAt(req, r, s)
  <2>1. ASSUME NEW r \in ToSet(batch) PROVE req[r] \in Req /\ req[r].row = <<>>
    BY Basics DEF IInv, RestOK
  <2> QED
    BY <2>1, NoRow
<1>8. ASSUME NEW r \in ToSet(batch), NEW s, OwnsAt(z, r, s) PROVE s \in ToSet(out)
  <2>1. PICK i, P, F, b : Place(i, r, P, F, b)
    BY HasPlace
  <2>2. PICK x \in 1 .. Needed : out[x] = s
    BY <1>5, <1>8, <2>1, LaunchedOwns
  <2> QED
    BY <1>4, <2>2
<1>9. ASSUME NEW s \in ToSet(out) PROVE \E r \in ToSet(batch) : r \in Reqs /\ OwnsAt(z, r, s)
  <2>1. PICK x \in 1 .. Needed : out[x] = s
    BY <1>4
  <2>2. PICK i, r, P, F, b : Place(i, r, P, F, b) /\ x \in b + 1 .. b + (F - P)
    BY PlacesCover
  <2>3. r \in ToSet(batch) /\ r \in Reqs
    BY <2>2, PlaceFacts
  <2>4. OwnsAt(z, r, s)
    BY <1>5, <2>1, <2>2, LaunchedOwns
  <2> QED
    BY <2>3, <2>4
<1>10. ASSUME NEW r \in ToSet(batch), NEW c \in ToSet(batch), NEW s, OwnsAt(z, r, s), OwnsAt(z, c, s)
       PROVE  r = c
  <2>1. PICK i, P, F, b : Place(i, r, P, F, b)
    BY HasPlace
  <2>2. PICK j, Q, H, d : Place(j, c, Q, H, d)
    BY HasPlace
  <2>3. PICK x \in b + 1 .. b + (F - P) : out[x] = s /\ x \in 1 .. Needed
    BY <1>5, <1>10, <2>1, LaunchedOwns
  <2>4. PICK y \in d + 1 .. d + (H - Q) : out[y] = s /\ y \in 1 .. Needed
    BY <1>5, <1>10, <2>2, LaunchedOwns
  <2>5. x = y
    BY <1>4, <2>3, <2>4
  <2>6. i = j
    BY <2>1, <2>2, <2>3, <2>4, <2>5, PlacesApart
  <2> QED
    BY <2>1, <2>2, <2>6 DEF Place
<1>11. ASSUME NEW r \in ToSet(batch),
              NEW k \in Len(z[r].node) + 1 .. Len(z[r].row), NEW l \in Len(z[r].node) + 1 .. Len(z[r].row),
              z[r].row[k] = z[r].row[l]
       PROVE  k = l
  <2>1. PICK i, P, F, b : Place(i, r, P, F, b)
    BY HasPlace
  <2>2. \A u, w \in Len(req'[r].node) + 1 .. Len(req'[r].row) : req'[r].row[u] = req'[r].row[w] => u = w
    BY <2>1, LaunchedOwns
  <2> QED
    BY <1>5, <1>11, <2>2
<1>12. SlotsAt(free, tree, req)
  BY DEF IInv, SlotsOK
<1>13. Alloc(free, tree, req, V, G, ToSet(out), (free \cup gone) \ ToSet(out), ToSet(batch), z)
  BY <1>2, <1>3, <1>4, <1>6, <1>7, <1>8, <1>9, <1>10, <1>11, <1>12 DEF Alloc
<1>14. SlotsAt((free \cup gone) \ ToSet(out), V, z)
  BY <1>13, SlotsAlloc
<1> QED
  BY <1>1, <1>5, <1>14 DEF SlotsOK

\* The requests after the launch.
LEMMA LaunchedReqs ==
    ASSUME IInv, NEW E, NEW G, NEW gone, NEW V, NEW out, Launches(E, G, gone, V, out)
    PROVE  /\ req' \in [Reqs -> Req \cup {Absent}]
           /\ \A h \in Reqs : h \notin ToSet(batch) => req'[h] = req[h]
           /\ \A h \in ToSet(batch) :
                /\ h \in Reqs /\ req[h] \in Req /\ req'[h] \in Req /\ req'[h].job = req[h].job
                /\ req'[h].state = "running" /\ req'[h].node = req[h].node /\ req'[h].fill = req[h].fill
                /\ req'[h].is_chunked = req[h].is_chunked + (IF h = chunked THEN 1 ELSE 0)
                /\ req[h].row = <<>> /\ req'[h].row # <<>> /\ HolderAt(req'[h], V, kv')
           /\ {h \in Reqs : req'[h].state = "running"} = Holders
<1>1. req' = [r \in Reqs |-> IF r \in ToSet(batch) THEN Launched(Index(batch, r), out) ELSE req[r]]
  BY DEF Launches
<1>2. \A h \in Reqs : h \notin ToSet(batch) => req'[h] = req[h]
  BY <1>1
<1>3. ASSUME NEW h \in ToSet(batch)
      PROVE  /\ h \in Reqs /\ req[h] \in Req /\ req'[h] \in Req /\ req'[h].job = req[h].job
             /\ req'[h].state = "running" /\ req'[h].node = req[h].node /\ req'[h].fill = req[h].fill
             /\ req'[h].is_chunked = req[h].is_chunked + (IF h = chunked THEN 1 ELSE 0)
             /\ req[h].row = <<>> /\ req'[h].row # <<>> /\ HolderAt(req'[h], V, kv')
  <2>1. PICK i, P, F, b : Place(i, h, P, F, b)
    BY HasPlace
  <2>2. h \in Reqs /\ req[h] \in Req
    BY <2>1, PlaceFacts
  <2>3. /\ req'[h] \in Req /\ req'[h].job = req[h].job
        /\ req'[h].state = "running" /\ req'[h].node = req[h].node /\ req'[h].fill = req[h].fill
        /\ req'[h].is_chunked = req[h].is_chunked + (IF h = chunked THEN 1 ELSE 0)
    BY <2>1, LaunchedFields
  <2>4. req'[h].row # <<>> /\ HolderAt(req'[h], V, kv')
    BY <2>1, LaunchedHolder
  <2>5. req[h].row = <<>>
    BY <2>2 DEF IInv, RestOK
  <2> QED
    BY <2>2, <2>3, <2>4, <2>5
<1>4. req \in [Reqs -> Req \cup {Absent}]
  BY DEF IInv, Types
<1>5. req' \in [Reqs -> Req \cup {Absent}]
  <2>1. DOMAIN req' = Reqs /\ req' = [r \in Reqs |-> req'[r]]
    BY <1>1
  <2>2. \A h \in Reqs : req'[h] \in Req \cup {Absent}
    BY <1>2, <1>3, <1>4
  <2> QED
    BY <2>1, <2>2
<1>6. {h \in Reqs : req'[h].state = "running"} = Holders
  BY <1>2, <1>3 DEF Holders
<1> QED
  BY <1>2, <1>3, <1>5, <1>6

\* The rest of the step.
LaunchEnds ==
    /\ pc = "launch" /\ batch # <<>> /\ rows' = rows - Len(batch)
    /\ results' = Append(results, batch) /\ last' = [reqs |-> batch, chunked |-> chunked]
    /\ batch' = <<>> /\ pc' = (IF Due THEN "process" ELSE "top")
    /\ UNCHANGED <<overlap, mode, offset, rem_chunk, full, chunked>>

\* The tree, the slots and the rows after the launch.
LEMMA LaunchedParts ==
    ASSUME IInv, NEW E, NEW G, NEW gone, NEW V, NEW out, Launches(E, G, gone, V, out), LaunchEnds
    PROVE  /\ Holders' = Holders /\ ToSet(batch') = {}
           /\ free' \subseteq Slots /\ kv' \in [Slots -> Seq(Token)] /\ rows' \in Nat
           /\ Available' = Available - Needed /\ Needed \in Nat
           /\ HoldersOK' /\ CacheHonest' /\ LocksOK' /\ RowsOK' /\ Shape(tree)' /\ Exact(tree)'
<1>1. Evicts(E, G, gone, V) /\ tree' = V /\ free' = (free \cup gone) \ ToSet(out)
  BY DEF Launches
<1>2. batch' = <<>> /\ rows' = rows - Len(batch)
  BY DEF LaunchEnds
<1>3. ToSet(batch') = {}
  BY <1>2 DEF ToSet
<1>4. /\ \A h \in Reqs : h \notin ToSet(batch) => req'[h] = req[h]
      /\ \A h \in ToSet(batch) : /\ h \in Reqs /\ req'[h] \in Req /\ req'[h].node = req[h].node
                                 /\ req[h].row = <<>> /\ req'[h].row # <<>> /\ HolderAt(req'[h], V, kv')
      /\ {h \in Reqs : req'[h].state = "running"} = Holders
  BY LaunchedReqs
<1>5. Holders' = Holders
  <2>1. Holders' = {h \in Reqs : req'[h].state = "running"} \cup ToSet(batch')
    BY DEF Holders
  <2> QED
    BY <1>3, <1>4, <2>1
<1>6. /\ Shape(V) /\ Exact(V) /\ LocksAt(V, Holders, NodeOf)
      /\ \A p \in DOMAIN V.slot : V.slot[p] = tree.slot[p] /\ p \in DOMAIN tree.slot
      /\ \A h \in Holders : /\ req[h].node # <<>> => req[h].node \in Nodes(V)
                            /\ \A i \in 1 .. Len(req[h].node) : Take(req[h].node, i) \in DOMAIN V.slot
  BY <1>1, EvictKeeps
<1>7. /\ gone \subseteq Slots /\ IsFiniteSet(free \cup gone)
      /\ Cardinality(free \cup gone) \in Nat /\ V.evictable \in Int
      /\ Cardinality(free \cup gone) + V.evictable = Available
      /\ \A p \in DOMAIN V.slot : V.slot[p] \in Slots /\ V.slot[p] \notin free \cup gone
  BY <1>1, EvictRoom
<1>8. kv' \in [Slots -> Seq(Token)] /\ \A s \in Slots : s \notin free \cup gone => kv'[s] = kv[s]
  BY LaunchedKV
<1>9. /\ Needed \in Nat /\ ToSet(out) \subseteq free \cup gone
      /\ IsFiniteSet(ToSet(out)) /\ Cardinality(ToSet(out)) = Needed
  BY OutIs
<1>10. /\ Holders \subseteq Reqs /\ IsFiniteSet(Reqs)
       /\ \A h \in Holders : req[h] \in Req /\ NodeOf[h] = req[h].node /\ HolderAt(req[h], tree, kv)
       /\ ToSet(batch) \subseteq Reqs
  BY Basics
<1>11. free' \subseteq Slots
  BY <1>1, <1>7 DEF IInv, Types
<1>12. Available' = Available - Needed
  <2>1. PICK S : S = free'
    OBVIOUS
  <2>2. S \cap ToSet(out) = {} /\ S \cup ToSet(out) = free \cup gone /\ S \subseteq free \cup gone
    BY <1>1, <1>9, <2>1
  <2>3. IsFiniteSet(S)
    BY <1>7, <2>2, FS_Subset
  <2>4. /\ Cardinality(S) \in Nat
        /\ Cardinality(S \cup ToSet(out)) = Cardinality(S) + Cardinality(ToSet(out))
    BY <1>9, <2>2, <2>3, TwoParts
  <2>5. PICK a \in Nat, n \in Nat, v \in Int, A \in Int :
           a = Cardinality(S) /\ n = Needed /\ v = V.evictable /\ A = Available
    <3>1. Available \in Nat
      BY Basics
    <3> QED
      BY <1>7, <1>9, <2>4, <3>1
  <2>6. (a + n) + v = A
    BY <1>7, <1>9, <2>2, <2>4, <2>5
  <2>7. Available' = a + v
    BY <1>1, <2>1, <2>5 DEF Available
  <2> QED
    BY <2>5, <2>6, <2>7
<1>13. HoldersOK'
  <2>1. ASSUME NEW h \in Holders PROVE HolderAt(req'[h], V, kv')
    <3>1. CASE h \in ToSet(batch)
      BY <1>4, <3>1
    <3>2. CASE h \notin ToSet(batch)
      <4>1. req'[h] = req[h] /\ req[h] \in Req /\ HolderAt(req[h], tree, kv)
        BY <1>4, <1>10, <3>2
      <4>2. \A i \in 1 .. Len(req[h].node) : V.slot[Take(req[h].node, i)] = tree.slot[Take(req[h].node, i)]
        BY <1>6
      <4>3. \A i \in 1 .. Len(req[h].row) : kv'[req[h].row[i]] = kv[req[h].row[i]]
        <5>1. req[h].row \in Seq(Slots)
          BY <4>1, ReqFacts
        <5>2. CASE req[h].row = <<>>
          BY <5>2
        <5>3. CASE req[h].row # <<>>
          <6>1. \A i \in 1 .. Len(req[h].row) : req[h].row[i] \notin free \cup gone
            BY <1>1, <5>3, RowOutside
          <6>2. \A i \in 1 .. Len(req[h].row) : req[h].row[i] \in Slots
            BY <5>1
          <6> QED
            BY <1>8, <6>1, <6>2
        <5> QED
          BY <5>2, <5>3
      <4>4. req[h].node # <<>> => req[h].node \in Nodes(V)
        BY <1>6
      <4>5. PICK g : g = kv'
        OBVIOUS
      <4>6. HolderAt(req[h], V, g)
        BY <4>1, <4>2, <4>3, <4>4, <4>5, HolderStays
      <4> QED
        BY <4>1, <4>5, <4>6
    <3> QED
      BY <3>1, <3>2
  <2> QED
    BY <1>1, <1>5, <2>1 DEF HoldersOK
<1>14. CacheHonest'
  <2>1. ASSUME NEW p \in DOMAIN V.slot PROVE kv'[V.slot[p]] = p
    <3>1. kv[tree.slot[p]] = p
      BY <1>6 DEF IInv, CacheHonest
    <3> QED
      BY <1>6, <1>7, <1>8, <3>1
  <2> QED
    BY <1>1, <2>1 DEF CacheHonest
<1>15. LocksOK'
  <2>1. PICK M : M = NodeOf'
    OBVIOUS
  <2>2. \A h \in Holders : M[h] = NodeOf[h]
    <3>1. NodeOf' = [h \in Holders |-> req'[h].node]
      BY <1>5 DEF NodeOf
    <3>2. \A h \in Holders : req'[h].node = req[h].node
      BY <1>4, <1>10
    <3> QED
      BY <1>10, <2>1, <3>1, <3>2
  <2>3. LocksAt(V, Holders, M)
    BY <1>6, <2>2, LocksSame
  <2> QED
    BY <1>1, <1>5, <2>1, <2>3 DEF LocksOK
<1>16. RowsOK' /\ rows' \in Nat
  <2> DEFINE A == {h \in Reqs : HasRow(req, h)}
             B == {h \in Reqs : HasRow(req', h)}
  <2>1. batch \in Seq(Reqs) /\ Once(batch) /\ Len(batch) <= rows /\ rows \in Nat
    BY DEF IInv, Types, BatchOK
  <2>2. IsFiniteSet(ToSet(batch)) /\ Cardinality(ToSet(batch)) = Len(batch)
    BY <2>1, OnceCount
  <2>3. A \cap ToSet(batch) = {}
    BY <1>4 DEF HasRow
  <2>4. \A h \in ToSet(batch) : req'[h].state # "absent"
    BY <1>4, ReqFacts
  <2>5. B = A \cup ToSet(batch)
    BY <1>4, <1>10, <2>4 DEF HasRow
  <2>6. IsFiniteSet(A)
    BY <1>10, FS_Subset
  <2>7. rows + Cardinality(A) = Rows
    BY DEF IInv, RowsOK
  <2> HIDE DEF A, B
  <2>8. Cardinality(A) \in Nat /\ Cardinality(B) = Cardinality(A) + Cardinality(ToSet(batch))
    BY <2>2, <2>3, <2>5, <2>6, TwoParts
  <2>9. PICK n \in Nat, a \in Nat, w \in Nat : n = Len(batch) /\ a = Cardinality(A) /\ w = rows
    BY <2>1, <2>8, LenProperties
  <2>10. n <= w /\ rows' = w - n /\ w + a = Rows /\ Cardinality(B) = a + n
    BY <1>2, <2>1, <2>2, <2>7, <2>8, <2>9
  <2>11. rows' + Cardinality(B) = Rows /\ rows' \in Nat
    BY <2>9, <2>10
  <2> QED
    BY <2>11 DEF RowsOK, B
<1> QED
  BY <1>1, <1>3, <1>5, <1>6, <1>8, <1>9, <1>11, <1>12, <1>13, <1>14, <1>15, <1>16

\* The new batch is open; its result is due at once, or after the next launch.
LEMMA LaunchResults ==
    ASSUME IInv, LaunchEnds
    PROVE  /\ ResultsOK' /\ results' \in Seq(Seq(Reqs)) /\ pc' \in {"top", "process"}
           /\ \A h \in Reqs : Open(results', h) = Open(results, h) + (IF h \in ToSet(batch) THEN 1 ELSE 0)
<1>1. /\ pc = "launch" /\ batch # <<>> /\ results' = Append(results, batch) /\ last'.reqs = batch
      /\ pc' = (IF Due THEN "process" ELSE "top") /\ overlap' = overlap
  BY DEF LaunchEnds
<1>2. batch \in Seq(Reqs) /\ Once(batch) /\ last.reqs \in Seq(Reqs) /\ overlap \in BOOLEAN
  BY DEF IInv, Types, BatchOK
<1>3. PICK b \in Seq(Reqs) : b = batch
  BY <1>2
<1>4. CASE overlap /\ last.reqs # <<>>
  <2>1. PICK l \in Seq(Reqs) : l = last.reqs
    BY <1>2
  <2>2. results = <<l>>
    BY <1>1, <1>4, <2>1 DEF IInv, ResultsOK
  <2>3. l # <<>> /\ Once(l)
    BY <2>2 DEF IInv, ResultsOK
  <2>4. <<l>> \in Seq(Seq(Reqs)) /\ Len(<<l>>) = 1 /\ <<l>>[1] = l /\ results' = Append(<<l>>, b)
    BY <1>1, <1>3, <2>2
  <2>5. pc' = "process"
    BY <1>1, <1>4 DEF Due
  <2>6. Len(results') = 2 /\ DOMAIN results' = {1, 2} /\ results'[1] = l /\ results'[2] = b
        /\ results' \in Seq(Seq(Reqs))
    <3>1. PICK s \in Seq(Seq(Reqs)) : s = <<l>> /\ Len(s) = 1 /\ s[1] = l
      BY <2>4
    <3>2. /\ Append(s, b) \in Seq(Seq(Reqs)) /\ Len(Append(s, b)) = 2
          /\ Append(s, b)[1] = l /\ Append(s, b)[2] = b
      BY <3>1, AppendProperties
    <3> QED
      BY <2>4, <3>1, <3>2
  <2>7. DOMAIN results = {1} /\ results[1] = l
    BY <2>2
  <2>8. ASSUME NEW h \in Reqs
        PROVE  Open(results', h) = Open(results, h) + (IF h \in ToSet(batch) THEN 1 ELSE 0)
    <3>1. In(results', h, 1) = In(results, h, 1) /\ In(results, h, 2) = 0 /\ In(results, h, 1) \in {0, 1}
      BY <2>6, <2>7 DEF In
    <3>2. In(results', h, 2) = IF h \in ToSet(batch) THEN 1 ELSE 0
      BY <1>3, <2>6 DEF In
    <3> QED
      BY <3>1, <3>2 DEF Open
  <2>9. ResultsOK'
    BY <1>1, <1>2, <1>3, <1>4, <2>3, <2>5, <2>6 DEF ResultsOK
  <2> QED
    BY <2>5, <2>6, <2>8, <2>9
<1>5. CASE ~overlap \/ last.reqs = <<>>
  <2>1. results = <<>>
    BY <1>1, <1>5 DEF IInv, ResultsOK
  <2>2. results' = <<b>>
    BY <1>1, <1>3, <2>1
  <2>3. Len(results') = 1 /\ DOMAIN results' = {1} /\ results'[1] = b /\ results' \in Seq(Seq(Reqs))
    BY <2>2
  <2>4. DOMAIN results = {}
    BY <2>1
  <2>5. ASSUME NEW h \in Reqs
        PROVE  Open(results', h) = Open(results, h) + (IF h \in ToSet(batch) THEN 1 ELSE 0)
    <3>1. In(results', h, 2) = 0 /\ In(results, h, 1) = 0 /\ In(results, h, 2) = 0
      BY <2>3, <2>4 DEF In
    <3>2. In(results', h, 1) = IF h \in ToSet(batch) THEN 1 ELSE 0
      BY <1>3, <2>3 DEF In
    <3> QED
      BY <3>1, <3>2 DEF Open
  <2>6. \A i \in DOMAIN results' : results'[i] # <<>> /\ Once(results'[i])
    BY <1>1, <1>2, <1>3, <2>3
  <2>7. CASE overlap
    <3>1. pc' = "top"
      BY <1>1, <1>5, <2>7 DEF Due
    <3> QED
      BY <1>1, <1>3, <2>2, <2>3, <2>5, <2>6, <2>7, <3>1 DEF ResultsOK
  <2>8. CASE ~overlap
    <3>1. pc' = "process"
      BY <1>1, <2>8 DEF Due
    <3> QED
      BY <1>1, <2>3, <2>5, <2>6, <2>8, <3>1 DEF ResultsOK
  <2> QED
    BY <2>7, <2>8
<1> QED
  BY <1>4, <1>5

\* A launch keeps the invariant.
LEMMA LaunchesKeep ==
    ASSUME IInv, NEW E, NEW G, NEW gone, NEW V, NEW out, Launches(E, G, gone, V, out), LaunchEnds
    PROVE  IInv'
<1>1. /\ pc = "launch" /\ batch # <<>> /\ last' = [reqs |-> batch, chunked |-> chunked]
      /\ batch' = <<>> /\ overlap' = overlap /\ mode' = mode /\ offset' = offset
      /\ rem_chunk' = rem_chunk /\ full' = full /\ chunked' = chunked
  BY DEF LaunchEnds
<1>2. /\ req' \in [Reqs -> Req \cup {Absent}]
      /\ \A h \in Reqs : h \notin ToSet(batch) => req'[h] = req[h]
      /\ \A h \in ToSet(batch) :
           /\ h \in Reqs /\ req[h] \in Req /\ req'[h] \in Req /\ req'[h].job = req[h].job
           /\ req'[h].state = "running" /\ req'[h].fill = req[h].fill
           /\ req'[h].is_chunked = req[h].is_chunked + (IF h = chunked THEN 1 ELSE 0)
           /\ req'[h].row # <<>>
  BY LaunchedReqs
<1>3. /\ Holders' = Holders /\ ToSet(batch') = {}
      /\ free' \subseteq Slots /\ kv' \in [Slots -> Seq(Token)] /\ rows' \in Nat
      /\ Available' = Available - Needed /\ Needed \in Nat
      /\ HoldersOK' /\ CacheHonest' /\ LocksOK' /\ RowsOK' /\ Shape(tree)' /\ Exact(tree)'
  BY LaunchedParts
<1>4. /\ ResultsOK' /\ results' \in Seq(Seq(Reqs)) /\ pc' \in {"top", "process"}
      /\ \A h \in Reqs : Open(results', h) = Open(results, h) + (IF h \in ToSet(batch) THEN 1 ELSE 0)
  BY LaunchResults
<1>5. SlotsOK'
  BY LaunchSlots
<1>6. Types'
  <2>1. batch \in Seq(Reqs) /\ chunked \in Reqs \cup {NONE}
    BY DEF IInv, Types
  <2>2. last' \in [reqs : Seq(Reqs), chunked : Reqs \cup {NONE}]
    BY <1>1, <2>1
  <2>3. batch' \in Seq(Reqs)
    BY <1>1
  <2> QED
    BY <1>1, <1>2, <1>3, <1>4, <2>2, <2>3 DEF IInv, Types
<1>7. BatchOK'
  <2>1. DOMAIN batch' = {} /\ Len(batch') = 0
    BY <1>1
  <2> QED
    BY <1>1, <1>3, <2>1 DEF BatchOK, Once
<1>8. ToSet(batch) \subseteq Holders /\ \A h \in Holders : h \in Reqs
  BY Basics
<1>9. chunked # NONE => chunked \in ToSet(batch)
  BY <1>1 DEF IInv, ChunkedOK
<1>10. Counted'
  <2> SUFFICES ASSUME NEW h \in Reqs
               PROVE  /\ req'[h].state = "running" =>
                            Open(results', h) = req'[h].is_chunked + (IF h = chunked \/ h \in ToSet(batch') THEN 0 ELSE 1)
                      /\ req'[h].state # "running" => Open(results', h) = 0
                      /\ req'[h].state \notin {"running", "absent"} => req'[h].is_chunked = 0
    BY <1>1 DEF Counted
  <2>1. CASE h \in ToSet(batch)
    <3>1. req[h].state \in {"waiting", "running"}
      BY <2>1 DEF IInv, BatchOK, ToSet
    <3>2. PICK n \in Nat : n = req[h].is_chunked
      BY <1>2, <2>1, ReqFacts
    <3>3. Open(results, h) = n
      BY <2>1, <3>1, <3>2 DEF IInv, Counted
    <3>4. Open(results', h) = n + 1
      BY <1>4, <2>1, <3>3
    <3>5. req'[h].is_chunked = n + (IF h = chunked THEN 1 ELSE 0)
      BY <1>2, <2>1, <3>2
    <3>6. Open(results', h) = req'[h].is_chunked + (IF h = chunked \/ h \in ToSet(batch') THEN 0 ELSE 1)
      BY <1>3, <3>4, <3>5
    <3> QED
      BY <1>2, <2>1, <3>6
  <2>2. CASE h \notin ToSet(batch)
    <3>1. h # chunked
      <4>1. h # NONE
        BY ReqNames
      <4> QED
        BY <1>9, <2>2, <4>1
    <3>2. req'[h] = req[h]
      BY <1>2, <2>2
    <3>3. /\ req[h].state = "running" => Open(results, h) = req[h].is_chunked + 1
          /\ req[h].state # "running" => Open(results, h) = 0
          /\ req[h].state \notin {"running", "absent"} => req[h].is_chunked = 0
      BY <2>2, <3>1 DEF IInv, Counted
    <3>4. Open(results', h) = Open(results, h)
      <4>1. Open(results, h) \in Int
        BY DEF Open, In
      <4> QED
        BY <1>4, <2>2, <4>1
    <3> QED
      BY <1>3, <3>1, <3>2, <3>3, <3>4
  <2> QED
    BY <2>1, <2>2
<1>11. \A h \in Reqs : /\ req'[h].state # "absent" <=> req[h].state # "absent"
                       /\ req[h].state # "absent" => req'[h].job = req[h].job /\ req'[h].fill = req[h].fill
  <2> SUFFICES ASSUME NEW h \in Reqs
               PROVE  /\ req'[h].state # "absent" <=> req[h].state # "absent"
                      /\ req[h].state # "absent" => req'[h].job = req[h].job /\ req'[h].fill = req[h].fill
    OBVIOUS
  <2>1. CASE h \in ToSet(batch)
    BY <1>2, <2>1, ReqFacts
  <2>2. CASE h \notin ToSet(batch)
    BY <1>2, <2>2
  <2> QED
    BY <2>1, <2>2
<1>12. ChunkedOK'
  <2>1. \A h \in Holders : req[h].state # "absent"
    BY Basics, ReqFacts
  <2>2. \A h \in Holders : h # chunked => req'[h].fill = Len(req'[h].job.ids)
    BY <1>8, <1>11, <2>1 DEF IInv, ChunkedOK, Ids
  <2>3. ASSUME chunked # NONE
        PROVE  /\ req'[chunked].state = "running" /\ req'[chunked].job.prefix_len = 0
               /\ req'[chunked].fill < Len(req'[chunked].job.ids)
    <3>1. chunked \in ToSet(batch) /\ req[chunked].job.prefix_len = 0
          /\ req[chunked].fill < Len(req[chunked].job.ids)
      BY <1>9, <2>3 DEF IInv, ChunkedOK, Ids
    <3> QED
      BY <1>2, <3>1
  <2>4. chunked' # NONE =>
          /\ req'[chunked'].state # "absent" /\ req'[chunked'].job.prefix_len = 0
          /\ req'[chunked'].fill < Len(req'[chunked'].job.ids)
          /\ req'[chunked'].state = "running"
    BY <1>1, <2>3
  <2>5. pc' \notin {"adding", "launch"}
    BY <1>4
  <2> QED
    BY <1>1, <1>3, <2>2, <2>4, <2>5 DEF ChunkedOK, Ids
<1>13. RestOK'
  <2> SUFFICES ASSUME NEW h \in Reqs
               PROVE /\ req'[h].state # "absent" /\ h \notin Holders =>
                            req'[h].row = <<>> /\ req'[h].prefix = <<>> /\ req'[h].node = <<>>
                     /\ req'[h].state = "running" => req'[h].row # <<>>
                     /\ req'[h].state = "done" => req'[h].value = Expected(req'[h].job)
    BY <1>3 DEF RestOK
  <2>1. CASE h \in ToSet(batch)
    BY <1>2, <1>8, <2>1
  <2>2. CASE h \notin ToSet(batch)
    BY <1>1, <1>2, <2>2 DEF IInv, RestOK
  <2> QED
    BY <2>1, <2>2
<1>14. Reserved'
  <2>1. pc' # "adding" /\ batch' = <<>>
    BY <1>1, <1>4
  <2>2. ASSUME chunked # NONE
        PROVE  0 + (Len(req'[chunked].job.ids) - req'[chunked].fill) < Available'
    <3>1. chunked \in Reqs /\ req[chunked] \in Req
      BY <1>2, <1>9, <2>2
    <3>2. PICK l \in Nat, f \in Nat, A \in Nat, n \in Nat :
             l = Len(req[chunked].job.ids) /\ f = req[chunked].fill /\ A = Available /\ n = Needed
      <4>1. Len(req[chunked].job.ids) \in Nat /\ req[chunked].fill \in Nat
        BY <3>1, ReqFacts, JobFacts
      <4>2. Available \in Nat
        BY Basics
      <4> QED
        BY <1>3, <4>1, <4>2
    <3>3. n + (l - f) < A
      BY <1>1, <2>2, <3>2 DEF IInv, Reserved, Ids
    <3>4. Available' = A - n
      BY <1>3, <3>2
    <3>5. req'[chunked].job = req[chunked].job /\ req'[chunked].fill = f
      BY <1>2, <1>9, <2>2, <3>2
    <3> QED
      BY <3>2, <3>3, <3>4, <3>5
  <2>3. chunked' # NONE => 0 + (Len(req'[chunked'].job.ids) - req'[chunked'].fill) < Available'
    BY <1>1, <2>2
  <2> QED
    BY <2>1, <2>3 DEF Reserved, Ids
<1> QED
  BY <1>3, <1>4, <1>5, <1>6, <1>7, <1>10, <1>12, <1>13, <1>14 DEF IInv

\* Eviction makes room, the slots are taken and the forward runs.
LEMMA LaunchKeeps == IInv /\ Launch => IInv'
<1> SUFFICES ASSUME IInv, Launch PROVE IInv'
  OBVIOUS
<1>1. LaunchEnds
  BY DEF Launch, LaunchEnds
<1>2. PICK E \in (IF Cardinality(free) < Needed THEN Evictions(tree, Needed) ELSE {{}}) :
         LET gone == {tree.slot[p] : p \in PathsOf(tree, E)}
             out == Lowest(free \cup gone, Needed)
         IN  /\ Cardinality(free \cup gone) >= Needed
             /\ tree' = Evicted(tree, E)
             /\ free' = (free \cup gone) \ ToSet(out)
             /\ kv' = [s \in Slots |-> IF s \in ToSet(out) THEN Written(Index(out, s))
                                       ELSE IF s \in gone THEN <<>> ELSE kv[s]]
             /\ req' = [r \in Reqs |-> IF r \in ToSet(batch) THEN Launched(Index(batch, r), out)
                                       ELSE req[r]]
  BY DEF Launch
<1>3. E \in SUBSET Nodes(tree) /\ Evictable(tree, E)
  <2>1. CASE E \in Evictions(tree, Needed)
    BY <2>1 DEF Evictions
  <2>2. CASE E = {}
    BY <2>2 DEF Evictable
  <2> QED
    BY <2>1, <2>2
<1> DEFINE G == PathsOf(tree, E)
           gone == {tree.slot[p] : p \in G}
           V == Evicted(tree, E)
           out == Lowest(free \cup gone, Needed)
<1>4. Evicts(E, G, gone, V)
  BY <1>3 DEF Evicts
<1>5. Launches(E, G, gone, V, out)
  BY <1>2, <1>4 DEF Launches
<1> HIDE DEF G, gone, V, out
<1> QED
  BY <1>1, <1>5, LaunchesKeep

----------------------------------------------------------------------------
(* The invariant holds.                                                    *)

\* A server that has just started.
LEMMA InitHolds == Init => IInv
<1> SUFFICES ASSUME Init PROVE IInv
  OBVIOUS
<1>1. /\ overlap \in Loops /\ pc = "top" /\ tree = EmptyTree /\ free = Slots
      /\ kv = [s \in Slots |-> <<>>] /\ rows = Rows /\ req = [r \in Reqs |-> Absent]
      /\ batch = <<>> /\ mode = FALSE /\ offset = 0 /\ rem_chunk = 0 /\ full = FALSE
      /\ chunked = NONE /\ last = NoBatch /\ results = <<>>
  BY DEF Init
<1>2. /\ DOMAIN tree.slot = {} /\ Nodes(tree) = {} /\ tree.slot = <<>> /\ tree.ref = <<>>
      /\ tree.evictable = 0 /\ tree.protected = 0
  BY <1>1 DEF EmptyTree, Nodes
<1>3. ToSet(batch) = {} /\ DOMAIN batch = {} /\ Len(batch) = 0 /\ DOMAIN results = {}
  BY <1>1 DEF ToSet
<1>4. \A r \in Reqs : req[r].state = "absent"
  BY <1>1 DEF Absent
<1>5. Holders = {}
  BY <1>3, <1>4 DEF Holders
<1>6. IsFiniteSet({}) /\ Cardinality({}) = 0
  BY FS_EmptySet
<1>7. Types
  <2>1. rows \in Nat /\ rem_chunk \in 0 .. ChunkSize /\ overlap \in BOOLEAN
    BY <1>1, Sizes
  <2>2. <<>> \in Seq(Token) /\ <<>> \in Seq(Reqs) /\ <<>> \in Seq(Seq(Reqs))
    BY EmptySeq
  <2>3. kv \in [Slots -> Seq(Token)] /\ req \in [Reqs -> Req \cup {Absent}]
    BY <1>1, <2>2
  <2>4. last \in [reqs : Seq(Reqs), chunked : Reqs \cup {NONE}]
    BY <1>1, <2>2 DEF NoBatch
  <2>5. mode \in BOOLEAN /\ full \in BOOLEAN
    BY <1>1
  <2>6. offset \in Int /\ free \subseteq Slots /\ chunked \in Reqs \cup {NONE}
    BY <1>1
  <2>7. pc \in {"top", "adding", "launch", "process", "crashed"}
    BY <1>1
  <2>8. batch \in Seq(Reqs) /\ results \in Seq(Seq(Reqs))
    BY <1>1, <2>2
  <2> QED
    BY <2>1, <2>3, <2>4, <2>5, <2>6, <2>7, <2>8 DEF Types
<1>8. Shape(tree)
  <2>1. <<>> = [x \in {} |-> <<>>[x]]
    OBVIOUS
  <2>2. tree.slot = [p \in DOMAIN tree.slot |-> tree.slot[p]] /\ tree.ref = [e \in DOMAIN tree.ref |-> tree.ref[e]]
    BY <1>2, <2>1 DEF Nodes
  <2>3. tree = [slot |-> tree.slot, ref |-> tree.ref, evictable |-> tree.evictable, protected |-> tree.protected]
    BY <1>1 DEF EmptyTree
  <2> QED
    BY <1>2, <1>6, <2>2, <2>3 DEF Shape
<1>9. Exact(tree)
  <2>1. Unlocked(tree) = {} /\ DOMAIN tree.slot \ Unlocked(tree) = {}
    BY <1>2 DEF Unlocked
  <2> QED
    BY <1>2, <1>6, <2>1 DEF Exact
<1>10. BatchOK
  <2>1. rows \in Nat
    BY <1>1, Sizes
  <2> QED
    BY <1>1, <1>3, <2>1 DEF BatchOK, Once
<1>11. ResultsOK
  BY <1>1, <1>3 DEF ResultsOK, NoBatch
<1>12. Counted
  <2>1. \A r \in Reqs : Open(results, r) = 0
    BY <1>3 DEF Open, In
  <2> QED
    BY <1>4, <2>1 DEF Counted
<1>13. ChunkedOK
  BY <1>1, <1>5 DEF ChunkedOK
<1>14. HoldersOK
  BY <1>5 DEF HoldersOK
<1>15. RestOK
  BY <1>3, <1>4 DEF RestOK
<1>16. SlotsOK
  <2>1. \A r \in Reqs : \A s : ~OwnsAt(req, r, s)
    BY <1>4 DEF OwnsAt
  <2> QED
    BY <1>1, <1>2, <1>4, <2>1 DEF SlotsOK, SlotsAt
<1>17. CacheHonest /\ LocksOK
  BY <1>2 DEF CacheHonest, LocksOK, LocksAt
<1>18. Reserved
  BY <1>1 DEF Reserved
<1>19. RowsOK
  <2>1. {r \in Reqs : HasRow(req, r)} = {}
    BY <1>4 DEF HasRow
  <2>2. Rows \in Nat
    BY Sizes
  <2>3. Cardinality({r \in Reqs : HasRow(req, r)}) = 0
    BY <1>6, <2>1
  <2>4. rows + 0 = Rows
    BY <1>1, <2>2
  <2> QED
    BY <2>3, <2>4 DEF RowsOK
<1> QED
  BY <1>7, <1>8, <1>9, <1>10, <1>11, <1>12, <1>13, <1>14, <1>15, <1>16, <1>17, <1>18, <1>19 DEF IInv

\* A step that changes nothing keeps everything.
LEMMA StutterKeeps == IInv /\ UNCHANGED vars => IInv'
<1> SUFFICES ASSUME IInv, UNCHANGED vars PROVE IInv'
  OBVIOUS
<1>1. /\ overlap' = overlap /\ pc' = pc /\ tree' = tree /\ free' = free /\ kv' = kv /\ rows' = rows
      /\ req' = req /\ batch' = batch /\ mode' = mode /\ offset' = offset /\ rem_chunk' = rem_chunk
      /\ full' = full /\ chunked' = chunked /\ last' = last /\ results' = results
  BY DEF vars, adder
<1>2. /\ Holders' = Holders /\ Needed' = Needed /\ Available' = Available
      /\ Shape(tree)' /\ Exact(tree)' /\ HoldersOK' /\ SlotsOK' /\ CacheHonest' /\ LocksOK' /\ RowsOK'
  BY <1>1, QuietKeeps
<1>3. Types' /\ BatchOK' /\ ResultsOK' /\ Counted'
  BY <1>1 DEF IInv, Types, BatchOK, ResultsOK, Counted
<1>4. ChunkedOK'
  BY <1>1, <1>2 DEF IInv, ChunkedOK, Ids
<1>5. RestOK'
  BY <1>1, <1>2 DEF IInv, RestOK
<1>6. Reserved'
  BY <1>1, <1>2 DEF IInv, Reserved, Ids
<1> QED
  BY <1>2, <1>3, <1>4, <1>5, <1>6 DEF IInv

\* Every action of the server keeps the invariant.
LEMMA NextKeeps == IInv /\ [Next]_vars => IInv'
<1> SUFFICES ASSUME IInv, [Next]_vars PROVE IInv'
  OBVIOUS
<1>1. ASSUME NEW r \in Reqs, NEW j \in JobChoices, Arrive(r, j) PROVE IInv'
  BY <1>1, ArriveKeeps
<1>2. ASSUME NEW r \in Reqs, Abort(r) PROVE IInv'
  BY <1>2, AbortKeeps
<1>3. CASE BeginNone
  BY <1>3, BeginNoneKeeps
<1>4. CASE BeginNew
  BY <1>4, BeginNewKeeps
<1>5. CASE BeginChunked
  BY <1>5, BeginChunkedKeeps
<1>6. ASSUME NEW r \in Reqs, AddOne(r) PROVE IInv'
  BY <1>6, AddOneKeeps
<1>7. CASE StopAdding
  <2>1. /\ pc = "adding" /\ pc' = "launch" /\ full' = full
        /\ UNCHANGED <<overlap, tree, free, kv, rows, req, adder, chunked, last, results, crashed>>
    BY <1>7 DEF StopAdding
  <2>2. full' \in BOOLEAN
    BY <2>1 DEF IInv, Types
  <2> QED
    BY <2>1, <2>2, StopAddingKeeps
<1>8. CASE LaunchNone
  BY <1>8, LaunchNoneKeeps
<1>9. CASE Launch
  BY <1>9, LaunchKeeps
<1>10. CASE Process
  BY <1>10, ProcessKeeps
<1>11. CASE UNCHANGED vars
  BY <1>11, StutterKeeps
<1> QED
  BY <1>1, <1>2, <1>3, <1>4, <1>5, <1>6, <1>7, <1>8, <1>9, <1>10, <1>11 DEF Next, Scheduler

\* The invariant of the server, in every state of every run.
THEOREM Inductive == Spec => []IInv
<1>1. Init => IInv
  BY InitHolds
<1>2. IInv /\ [Next]_vars => IInv'
  BY NextKeeps
<1> QED
  BY <1>1, <1>2, PTL DEF Spec

----------------------------------------------------------------------------
(* The properties.                                                         *)

\* The cached tokens and the counters fit the pool.
LEMMA CountersFit ==
    ASSUME IInv
    PROVE  tree.evictable \in 0 .. PoolSize /\ tree.protected \in 0 .. PoolSize
<1> DEFINE D == DOMAIN tree.slot
           S == {tree.slot[p] : p \in D}
           f == [p \in D |-> tree.slot[p]]
<1>1. IsFiniteSet(D) /\ Unlocked(tree) \subseteq D
  BY DEF IInv, Shape, Unlocked
<1>2. /\ \A p \in D : tree.slot[p] \in Slots
      /\ \A p, o \in D : tree.slot[p] = tree.slot[o] => p = o
  BY DEF IInv, SlotsOK, SlotsAt
<1>3. f \in [D -> S] /\ (\A p, o \in D : f[p] = f[o] => p = o) /\ \A s \in S : \E p \in D : f[p] = s
  BY <1>2
<1>4. S \subseteq Slots
  BY <1>2
<1>5. tree.evictable = Cardinality(Unlocked(tree)) /\ tree.protected = Cardinality(D \ Unlocked(tree))
  BY DEF IInv, Exact
<1> HIDE DEF D, S, f
<1>6. Cardinality(S) = Cardinality(D)
  BY <1>1, <1>3, PairedOff
<1>7. IsFiniteSet(Slots) /\ Cardinality(Slots) = PoolSize
  <2>1. PICK n \in Nat : n = PoolSize
    BY Sizes
  <2>2. IsFiniteSet(1 .. n) /\ Cardinality(1 .. n) = IF 1 > n THEN 0 ELSE n - 1 + 1
    BY FS_Interval
  <2> QED
    BY <2>1, <2>2 DEF Slots
<1>8. Cardinality(S) <= PoolSize
  BY <1>4, <1>7, FS_Subset
<1>9. ASSUME NEW U \in SUBSET D PROVE Cardinality(U) \in 0 .. PoolSize
  <2>1. IsFiniteSet(U) /\ Cardinality(U) <= Cardinality(D)
    BY <1>1, FS_Subset
  <2>2. Cardinality(U) \in Nat /\ Cardinality(D) \in Nat
    BY <1>1, <2>1, FS_CardinalityType
  <2>3. PICK a \in Nat, b \in Nat, n \in Nat : a = Cardinality(U) /\ b = Cardinality(D) /\ n = PoolSize
    BY <2>2, Sizes
  <2> QED
    BY <1>6, <1>8, <2>1, <2>3
<1> QED
  BY <1>1, <1>5, <1>9

\* Types and ranges.
LEMMA TypeHolds ==
    ASSUME IInv, overlap \in Loops
    PROVE  TypeOK
<1>1. /\ mode \in BOOLEAN /\ full \in BOOLEAN /\ free \subseteq Slots /\ chunked \in Reqs \cup {NONE}
      /\ rem_chunk \in 0 .. ChunkSize
  BY DEF IInv, Types
<1>2. tree.evictable \in 0 .. PoolSize /\ tree.protected \in 0 .. PoolSize
  BY CountersFit
<1>3. rows \in 0 .. Rows
  <2>1. IsFiniteSet({r \in Reqs : HasRow(req, r)})
    BY ReqNames, FS_Subset
  <2>2. PICK a \in Nat, w \in Nat, n \in Nat :
           a = Cardinality({r \in Reqs : HasRow(req, r)}) /\ w = rows /\ n = Rows
    <3>1. Cardinality({r \in Reqs : HasRow(req, r)}) \in Nat
      BY <2>1, FS_CardinalityType
    <3>2. rows \in Nat /\ Rows \in Nat
      BY Sizes DEF IInv, Types
    <3> QED
      BY <3>1, <3>2
  <2>3. w + a = n
    BY <2>2 DEF IInv, RowsOK
  <2> QED
    BY <2>2, <2>3
<1>4. Len(results) <= 2
  <2>1. CASE pc = "process"
    <3>1. Len(results) = IF overlap /\ last.reqs # <<>> THEN 2 ELSE 1
      BY <2>1 DEF IInv, ResultsOK
    <3> QED
      BY <3>1
  <2>2. CASE pc # "process" /\ (~overlap \/ last.reqs = <<>>)
    <3>1. results = <<>>
      BY <2>2 DEF IInv, ResultsOK
    <3> QED
      BY <3>1
  <2>3. CASE pc # "process" /\ overlap /\ last.reqs # <<>>
    <3>1. results = <<last.reqs>>
      BY <2>3 DEF IInv, ResultsOK
    <3> QED
      BY <3>1
  <2> QED
    BY <2>1, <2>2, <2>3
<1>5. ASSUME NEW r \in Reqs, req[r].state # "absent" PROVE req[r].is_chunked \in 0 .. 2
  <2>1. req[r] \in Req
    BY <1>5, Basics
  <2>2. PICK n \in Nat : n = req[r].is_chunked
    BY <2>1, ReqFacts
  <2>3. Open(results, r) \in 0 .. 2
    <3>1. In(results, r, 1) \in {0, 1} /\ In(results, r, 2) \in {0, 1}
      BY DEF In
    <3> QED
      BY <3>1 DEF Open
  <2>4. req[r].state = "running" =>
           Open(results, r) = n + (IF r = chunked \/ r \in ToSet(batch) THEN 0 ELSE 1)
    BY <2>2 DEF IInv, Counted
  <2>5. req[r].state # "running" => n = 0
    BY <1>5, <2>2 DEF IInv, Counted
  <2> QED
    BY <2>2, <2>3, <2>4, <2>5
<1> QED
  BY <1>1, <1>2, <1>3, <1>4, <1>5 DEF TypeOK

\* A holder's prefix is as long as its node.
LEMMA PrefixLength ==
    ASSUME NEW x \in Req, NEW T, NEW k, HolderAt(x, T, k)
    PROVE  Len(x.prefix) = Len(x.node)
<1>1. x.prefix = [i \in 1 .. Len(x.node) |-> T.slot[Take(x.node, i)]] /\ Len(x.node) \in Nat
  BY ReqFacts DEF HolderAt
<1> QED
  BY <1>1

\* The slots a holder has for itself.
LEMMA PrivateIs ==
    ASSUME IInv, NEW r \in Holders, NEW s
    PROVE  s \in Private(r) <=> OwnsAt(req, r, s)
<1>1. req[r] \in Req /\ HolderAt(req[r], tree, kv)
  BY Basics
<1>2. Len(req[r].prefix) = Len(req[r].node) /\ req[r].state # "absent"
  BY <1>1, PrefixLength, ReqFacts
<1> QED
  BY <1>2 DEF Private, Protected, OwnsAt

\* Every slot has exactly one use.
LEMMA SlotsHold ==
    ASSUME IInv
    PROVE  SlotsAccounted
<1>1. SlotsAt(free, tree, req)
  BY DEF IInv, SlotsOK
<1>2. /\ \A p \in DOMAIN tree.slot : tree.slot[p] \notin free
      /\ \A p, o \in DOMAIN tree.slot : tree.slot[p] = tree.slot[o] => p = o
      /\ \A r \in Reqs : \A s \in Slots : OwnsAt(req, r, s) => s \notin free /\ ~CachedAt(tree, s)
      /\ \A r, c \in Reqs : \A s \in Slots : OwnsAt(req, r, s) /\ OwnsAt(req, c, s) => r = c
      /\ \A s \in Slots : s \in free \/ CachedAt(tree, s) \/ \E r \in Reqs : OwnsAt(req, r, s)
  BY <1>1 DEF SlotsAt
<1>3. \A r \in Holders : r \in Reqs
  BY Basics
<1>4. ASSUME NEW r \in Reqs, NEW s, OwnsAt(req, r, s) PROVE r \in Holders
  <2>1. SUFFICES ASSUME r \notin Holders PROVE FALSE
    OBVIOUS
  <2>2. req[r].state # "absent"
    BY <1>4 DEF OwnsAt
  <2>3. req[r] \in Req /\ req[r].row = <<>>
    BY <2>1, <2>2, Basics DEF IInv, RestOK
  <2> QED
    BY <1>4, <2>3, NoRow
<1>5. ASSUME NEW s \in Slots
      PROVE  Cardinality({x \in {"free"} : s \in free}
                         \cup {x \in {"tree"} : \E p \in DOMAIN tree.slot : tree.slot[p] = s}
                         \cup {r \in Holders : s \in Private(r)}) = 1
  <2> DEFINE A == {x \in {"free"} : s \in free}
             B == {x \in {"tree"} : \E p \in DOMAIN tree.slot : tree.slot[p] = s}
             C == {r \in Holders : s \in Private(r)}
  <2>1. C = {r \in Holders : OwnsAt(req, r, s)}
    BY PrivateIs
  <2>2. (\E p \in DOMAIN tree.slot : tree.slot[p] = s) <=> CachedAt(tree, s)
    BY DEF CachedAt
  <2>3. \E x : A \cup B \cup C = {x}
    <3>1. CASE s \in free
      <4>1. A = {"free"} /\ B = {} /\ C = {}
        BY <1>2, <1>3, <2>1, <3>1
      <4> QED
        BY <4>1
    <3>2. CASE CachedAt(tree, s)
      <4>1. A = {} /\ B = {"tree"}
        BY <1>2, <2>2, <3>2
      <4>2. C = {}
        BY <1>2, <1>3, <2>1, <3>2
      <4> QED
        BY <4>1, <4>2
    <3>3. ASSUME NEW r \in Reqs, OwnsAt(req, r, s) PROVE \E x : A \cup B \cup C = {x}
      <4>1. s \notin free /\ ~CachedAt(tree, s)
        BY <1>2, <3>3
      <4>2. A = {} /\ B = {}
        BY <2>2, <4>1
      <4>3. C = {r}
        BY <1>2, <1>3, <1>4, <2>1, <3>3
      <4> QED
        BY <4>2, <4>3
    <3> QED
      BY <1>2, <3>1, <3>2, <3>3
  <2> HIDE DEF A, B, C
  <2>4. Cardinality(A \cup B \cup C) = 1
    BY <2>3, FS_Singleton
  <2> QED
    BY <2>4 DEF A, B, C
<1> QED
  BY <1>2, <1>5 DEF SlotsAccounted

\* The tree is well formed and its counters count.
LEMMA TreeHolds ==
    ASSUME IInv
    PROVE  WellFormed(tree) /\ CountersExact(tree)
<1>1. Shape(tree) /\ Exact(tree) /\ LocksAt(tree, Holders, NodeOf)
  BY DEF IInv, LocksOK
<1>2. /\ IsFiniteSet(Holders) /\ \A e \in Nodes(tree) : tree.ref[e] >= 0
      /\ \A r \in Holders : NodeOf[r] \in Seq(Token)
  BY Basics
<1>3. /\ \A p \in DOMAIN tree.slot : p \in Seq(Token) /\ Len(p) \in Nat
      /\ \A e \in Nodes(tree) : e \in DOMAIN tree.slot
  BY <1>1, Paths
<1>4. ASSUME NEW p \in DOMAIN tree.slot, Len(p) > 1 PROVE Front(p) \in DOMAIN tree.slot
  <2>1. \A n \in 1 .. Len(p) : Take(p, n) \in DOMAIN tree.slot
    BY <1>1 DEF Shape
  <2>2. Len(p) - 1 \in 1 .. Len(p)
    BY <1>3, <1>4
  <2> QED
    BY <2>1, <2>2 DEF Front, Take
<1>5. \A p \in DOMAIN tree.slot : \E e \in Nodes(tree) : IsOwner(tree, p, e)
  BY <1>1 DEF Shape
<1>6. ASSUME NEW e \in Nodes(tree), NEW f \in Nodes(tree), IsPrefix(e, f)
      PROVE  tree.ref[e] >= tree.ref[f]
  <2> DEFINE A == {r \in Holders : IsPrefix(e, NodeOf[r])}
             B == {r \in Holders : IsPrefix(f, NodeOf[r])}
  <2>1. tree.ref[e] = Cardinality(A) /\ tree.ref[f] = Cardinality(B)
    BY <1>1 DEF LocksAt
  <2>2. e \in Seq(Token) /\ f \in Seq(Token)
    BY <1>3
  <2>3. B \subseteq A
    BY <1>2, <1>6, <2>2, PrefixOrder
  <2>4. IsFiniteSet(A)
    BY <1>2, FS_Subset
  <2> HIDE DEF A, B
  <2>5. IsFiniteSet(B) /\ Cardinality(B) <= Cardinality(A)
    BY <2>3, <2>4, FS_Subset
  <2>6. PICK a \in Nat, b \in Nat : a = Cardinality(A) /\ b = Cardinality(B)
    BY <2>4, <2>5, FS_CardinalityType
  <2> QED
    BY <2>1, <2>5, <2>6
<1>7. WellFormed(tree)
  <2>1. \A p \in DOMAIN tree.slot : \E e \in Nodes(tree) : IsPrefix(p, e)
    BY <1>5 DEF IsOwner
  <2>2. Nodes(tree) \subseteq DOMAIN tree.slot
    BY <1>3
  <2> QED
    BY <1>2, <1>4, <1>6, <2>1, <2>2 DEF WellFormed
<1>8. CountersExact(tree)
  <2> DEFINE Z == {e \in Nodes(tree) : tree.ref[e] = 0}
             P == {e \in Nodes(tree) : tree.ref[e] > 0}
  <2>1. Z \in SUBSET Nodes(tree) /\ P \in SUBSET Nodes(tree)
    OBVIOUS
  <2>2. \A e \in Nodes(tree) : tree.ref[e] > 0 <=> ~(tree.ref[e] = 0)
    <3>1. \A e \in Nodes(tree) : tree.ref[e] \in Int
      BY <1>1 DEF Shape
    <3> QED
      BY <1>2, <3>1
  <2>3. \A e \in Nodes(tree) : (e \in Z <=> tree.ref[e] = 0) /\ (e \in P <=> ~(tree.ref[e] = 0))
    BY <2>2
  <2> HIDE DEF Z, P
  <2>4. /\ Tokens(tree, Z) = Cardinality(PathsOf(tree, Z))
        /\ PathsOf(tree, Z) = {p \in DOMAIN tree.slot : \E e \in Z : IsOwner(tree, p, e)}
    BY <1>1, <2>1, TokensCount, PathsOfIs
  <2>5. /\ Tokens(tree, P) = Cardinality(PathsOf(tree, P))
        /\ PathsOf(tree, P) = {p \in DOMAIN tree.slot : \E e \in P : IsOwner(tree, p, e)}
    BY <1>1, <2>1, TokensCount, PathsOfIs
  <2>6. {p \in DOMAIN tree.slot : \E e \in Z : IsOwner(tree, p, e)} = Unlocked(tree)
    BY <2>1, <2>3 DEF Unlocked
  <2>7. \A p, e, f : IsOwner(tree, p, e) /\ IsOwner(tree, p, f) => e = f
    BY <1>1, OneOwner
  <2>8. {p \in DOMAIN tree.slot : \E e \in P : IsOwner(tree, p, e)} = DOMAIN tree.slot \ Unlocked(tree)
    BY <1>5, <2>1, <2>3, <2>7 DEF Unlocked
  <2>9. tree.evictable = Tokens(tree, Z) /\ tree.protected = Tokens(tree, P)
    BY <1>1, <2>4, <2>5, <2>6, <2>8 DEF Exact
  <2> QED
    BY <2>9 DEF CountersExact, Z, P
<1> QED
  BY <1>7, <1>8

\* The locks are those of the holders, whose prefixes are where they say.
LEMMA LocksHold ==
    ASSUME IInv
    PROVE  LocksExact
<1>1. LocksAt(tree, Holders, NodeOf)
  BY DEF IInv, LocksOK
<1>2. \A r \in Holders : req[r] \in Req /\ NodeOf[r] = req[r].node /\ HolderAt(req[r], tree, kv)
  BY Basics
<1>3. ASSUME NEW e \in Nodes(tree)
      PROVE  tree.ref[e] = Cardinality({r \in Holders : IsPrefix(e, req[r].node)})
  <2>1. {r \in Holders : IsPrefix(e, req[r].node)} = {r \in Holders : IsPrefix(e, NodeOf[r])}
    BY <1>2
  <2> QED
    BY <1>1, <2>1 DEF LocksAt
<1>4. ASSUME NEW r \in Holders
      PROVE  /\ req[r].node \in Nodes(tree) \cup {<<>>}
             /\ req[r].prefix = [i \in DOMAIN req[r].node |-> tree.slot[Take(req[r].node, i)]]
  <2>1. /\ req[r].node # <<>> => req[r].node \in Nodes(tree)
        /\ req[r].prefix = [i \in 1 .. Len(req[r].node) |-> tree.slot[Take(req[r].node, i)]]
    BY <1>2 DEF HolderAt
  <2>2. DOMAIN req[r].node = 1 .. Len(req[r].node)
    <3>1. req[r].node \in Seq(Token)
      BY <1>2, ReqFacts
    <3> QED
      BY <3>1, LenProperties
  <2> QED
    BY <2>1, <2>2
<1>5. WellFormed(tree) /\ CountersExact(tree)
  BY TreeHolds
<1> QED
  BY <1>3, <1>4, <1>5 DEF LocksExact

\* What the adder lets through can run.
LEMMA AdmittedHolds ==
    ASSUME IInv
    PROVE  AdmittedFits
<1> SUFFICES ASSUME pc = "launch"
             PROVE  /\ rows >= Len(batch)
                    /\ Cardinality(free) + tree.evictable >= Needed
                    /\ \A r \in ToSet(batch) : IsTreeValue(r) => Protected(r) <= req[r].job.prefix_len
                    /\ \A r, q \in ToSet(batch) :
                         r # q => req[r].fill = Len(Ids(r)) \/ req[q].fill = Len(Ids(q))
  BY DEF AdmittedFits
<1>1. rows >= Len(batch)
  <2>1. PICK w \in Nat, n \in Nat : w = rows /\ n = Len(batch)
    BY LenProperties DEF IInv, Types
  <2>2. n <= w
    BY <2>1 DEF IInv, BatchOK
  <2> QED
    BY <2>1, <2>2
<1>2. Cardinality(free) + tree.evictable >= Needed
  <2>1. PICK A \in Nat : A = Available
    BY Basics
  <2>2. CASE batch = <<>>
    <3>1. ToSet(batch) = {}
      BY <2>2 DEF ToSet
    <3>2. IsFiniteSet({})
      BY FS_EmptySet
    <3>3. Extents(req, {}) = 0
      BY <3>2, ExtentsSum
    <3>4. Needed = 0
      BY <3>1, <3>3, NeededIs
    <3> QED
      BY <2>1, <3>4 DEF Available
  <2>3. CASE batch # <<>>
    <3>1. offset = Needed /\ offset < Available /\ offset \in Int
      BY <2>3 DEF IInv, Reserved, Types
    <3>2. PICK n \in Int : n = Needed
      BY <3>1
    <3>3. n < A
      BY <2>1, <3>1, <3>2
    <3>4. A >= n
      BY <3>3
    <3> QED
      BY <2>1, <3>2, <3>4 DEF Available
  <2> QED
    BY <2>2, <2>3
<1>3. ASSUME NEW r \in ToSet(batch), IsTreeValue(r) PROVE Protected(r) <= req[r].job.prefix_len
  <2>1. req[r] \in Req /\ HolderAt(req[r], tree, kv)
    BY Basics
  <2>2. Len(req[r].prefix) = Len(req[r].node)
    BY <2>1, PrefixLength
  <2>3. PICK n \in Nat, q \in Nat : n = Len(req[r].node) /\ q = req[r].job.prefix_len
    BY <2>1, ReqFacts, JobFacts
  <2>4. n < q
    BY <1>3, <2>1, <2>3 DEF HolderAt, IsTreeValue
  <2> QED
    BY <2>2, <2>3, <2>4 DEF Protected
<1>4. \A r \in ToSet(batch) : r # chunked => req[r].fill = Len(Ids(r))
  <2>1. \A r \in ToSet(batch) : r \in Holders
    BY Basics
  <2> QED
    BY <2>1 DEF IInv, ChunkedOK
<1> QED
  BY <1>1, <1>2, <1>3, <1>4

\* The loop in use is one of those offered.
LoopOK == overlap \in Loops

\* The event loop in use never changes.
LEMMA LoopStays == LoopOK /\ [Next]_vars => LoopOK'
<1> SUFFICES ASSUME LoopOK, [Next]_vars PROVE LoopOK'
  OBVIOUS
<1>1. ASSUME NEW r, NEW j, Arrive(r, j) PROVE overlap' = overlap
  BY <1>1 DEF Arrive
<1>2. ASSUME NEW r, Abort(r) \/ AddOne(r) PROVE overlap' = overlap
  BY <1>2 DEF Abort, AddOne
<1>3. CASE BeginNone \/ BeginNew
  BY <1>3 DEF LoopOK, BeginNone, BeginNew
<1>4. CASE BeginChunked
  BY <1>4 DEF LoopOK, BeginChunked
<1>5. CASE StopAdding \/ LaunchNone
  BY <1>5 DEF LoopOK, StopAdding, LaunchNone
<1>6. CASE Launch
  BY <1>6 DEF LoopOK, Launch
<1>7. CASE Process
  BY <1>7 DEF LoopOK, Process
<1>8. CASE UNCHANGED vars
  BY <1>8 DEF LoopOK, vars
<1> QED
  BY <1>1, <1>2, <1>3, <1>4, <1>5, <1>6, <1>7, <1>8 DEF LoopOK, Next, Scheduler

\* The variables stay within their types and ranges: rows and counters within
\* the pools, no request in more than two open batches.
THEOREM TypeCorrect == Spec => []TypeOK
<1>1. Init => LoopOK
  BY DEF Init, LoopOK
<1>2. LoopOK /\ [Next]_vars => LoopOK'
  BY LoopStays
<1>3. IInv /\ LoopOK => TypeOK
  BY TypeHolds DEF LoopOK
<1>4. Spec => []IInv
  BY Inductive
<1> QED
  BY <1>1, <1>2, <1>3, <1>4, PTL DEF Spec

\* No KV slot leaks and none is used twice: each is free, cached once, or the
\* private slot of one running request, after any interleaving of arrivals,
\* aborts, chunks, evictions and results.
THEOREM NoSlotLost == Spec => []SlotsAccounted
<1>1. IInv => SlotsAccounted
  BY SlotsHold
<1>2. Spec => []IInv
  BY Inductive
<1> QED
  BY <1>1, <1>2, PTL

\* lock_ref counts exactly the requests that need the node, the size counters
\* count tokens, and no request loses the prefix it holds.
THEOREM LocksCount == Spec => []LocksExact
<1>1. IInv => LocksExact
  BY LocksHold
<1>2. Spec => []IInv
  BY Inductive
<1> QED
  BY <1>1, <1>2, PTL

\* A cached token was computed from exactly the text that leads to it; the
\* candidates of a tree_value request never enter the cache.
THEOREM CacheIsHonest == Spec => []CacheHonest
<1>1. IInv => CacheHonest
  BY DEF IInv
<1>2. Spec => []IInv
  BY Inductive
<1> QED
  BY <1>1, <1>2, PTL

\* A finished request is answered with the values of its own texts, whatever
\* was cached, chunked, split or evicted on the way.
THEOREM AnswersAreRight == Spec => []AnswersRight
<1>1. IInv => AnswersRight
  BY DEF IInv, RestOK, AnswersRight
<1>2. Spec => []IInv
  BY Inductive
<1> QED
  BY <1>1, <1>2, PTL

\* What PrefillAdder admits, prepare_for_extend can run: rows and, after
\* eviction, slots suffice, and only one request is cut short.
THEOREM AdmittedCanRun == Spec => []AdmittedFits
<1>1. IInv => AdmittedFits
  BY AdmittedHolds
<1>2. Spec => []IInv
  BY Inductive
<1> QED
  BY <1>1, <1>2, PTL
=============================================================================
