-------------------------- MODULE LvmKvPoolProofs --------------------------
(***************************************************************************)
(* LvmKvPool's invariants, for every set of requests, rows, slots and      *)
(* tokens and every bound on the lengths.                                  *)
(***************************************************************************)
EXTENDS LvmKvPool, FiniteSetTheorems, SequenceTheorems, TLAPS

\* Prefixes are kept only from the extend to the evaluation of one step.
AskedOnlyExtended == phase \in {"idle", "cleaned"} => asked = NoPrefixes

\* The inductive invariant: the properties need one another.  That a free puts
\* a slot on the list once needs NoSlotShared, that a new slot overwrites no
\* cached KV needs it too, and NoRowShared makes a column belong to one request.
IInv ==
    /\ TypeOK
    /\ NoSlotShared
    /\ NoRowShared
    /\ NoLeak
    /\ CachedKvValid
    /\ EvalSeesAskedLength
    /\ AskedOnlyExtended

----------------------------------------------------------------------------
(* Sequences.                                                              *)

\* A prefix of a concatenation that ends in its first part.
LEMMA PrefixOfConcat ==
    ASSUME NEW S, NEW s \in Seq(S), NEW t \in Seq(S), NEW i \in 1 .. Len(s)
    PROVE  SubSeq(s \o t, 1, i) = SubSeq(s, 1, i)
<1>1. /\ s \o t \in Seq(S)
      /\ Len(s \o t) = Len(s) + Len(t)
      /\ \A j \in 1 .. Len(s) : (s \o t)[j] = s[j]
  BY ConcatProperties, LenProperties
<1>2. /\ SubSeq(s, 1, i) \in Seq(S)
      /\ Len(SubSeq(s, 1, i)) = i
      /\ \A j \in 1 .. i : SubSeq(s, 1, i)[j] = s[j]
  BY SubSeqProperties, LenProperties, ElementOfSeq
<1>3. /\ SubSeq(s \o t, 1, i) \in Seq(S)
      /\ Len(SubSeq(s \o t, 1, i)) = i
      /\ \A j \in 1 .. i : SubSeq(s \o t, 1, i)[j] = (s \o t)[j]
  BY <1>1, SubSeqProperties, LenProperties, ElementOfSeq
<1> QED
  BY <1>1, <1>2, <1>3, SeqEqual, LenProperties

\* Cutting the second part of a concatenation.
LEMMA CutConcat ==
    ASSUME NEW S, NEW s \in Seq(S), NEW a \in Seq(S), NEW b \in Seq(S),
           Len(b) <= Len(a), \A j \in 1 .. Len(b) : a[j] = b[j]
    PROVE  SubSeq(s \o a, 1, Len(s) + Len(b)) = s \o b
<1> DEFINE i == Len(s) + Len(b)
<1>0. Len(s) \in Nat /\ Len(a) \in Nat /\ Len(b) \in Nat
  BY LenProperties
<1>1. /\ s \o a \in Seq(S) /\ Len(s \o a) = Len(s) + Len(a)
      /\ \A j \in 1 .. Len(s) + Len(a) :
           (s \o a)[j] = IF j <= Len(s) THEN s[j] ELSE a[j - Len(s)]
  BY ConcatProperties
<1>2. /\ s \o b \in Seq(S) /\ Len(s \o b) = i
      /\ \A j \in 1 .. i :
           (s \o b)[j] = IF j <= Len(s) THEN s[j] ELSE b[j - Len(s)]
  BY ConcatProperties
<1>3. \A j \in 1 .. i : (s \o a)[j] \in S
  BY <1>0, <1>1, ElementOfSeq
<1>4. /\ SubSeq(s \o a, 1, i) \in Seq(S)
      /\ Len(SubSeq(s \o a, 1, i)) = i
      /\ \A j \in 1 .. i : SubSeq(s \o a, 1, i)[j] = (s \o a)[j]
  BY <1>0, <1>3, SubSeqProperties
<1>5. ASSUME NEW j \in 1 .. i PROVE (s \o a)[j] = (s \o b)[j]
  <2>1. CASE j <= Len(s)
    BY <2>1, <1>0, <1>1, <1>2
  <2>2. CASE ~(j <= Len(s))
    <3>1. j - Len(s) \in 1 .. Len(b) /\ j \in 1 .. Len(s) + Len(a)
      BY <2>2, <1>0
    <3>2. (s \o a)[j] = a[j - Len(s)] /\ (s \o b)[j] = b[j - Len(s)]
      BY <2>2, <3>1, <1>1, <1>2
    <3> QED BY <3>1, <3>2
  <2> QED BY <2>1, <2>2
<1> QED
  BY <1>2, <1>4, <1>5, SeqEqual

\* A slice of a sequence.
LEMMA Slice ==
    ASSUME NEW S, NEW q \in Seq(S), NEW k \in Nat, NEW n \in Nat,
           k <= n, n <= Len(q)
    PROVE  /\ SubSeq(q, k + 1, n) \in Seq(S)
           /\ Len(SubSeq(q, k + 1, n)) = n - k
           /\ \A j \in 1 .. (n - k) : SubSeq(q, k + 1, n)[j] = q[k + j]
<1>1. \A j \in (k + 1) .. n : q[j] \in S
  BY ElementOfSeq, LenProperties
<1>2. /\ SubSeq(q, k + 1, n) \in Seq(S)
      /\ Len(SubSeq(q, k + 1, n)) = IF k + 1 <= n THEN n - (k + 1) + 1 ELSE 0
      /\ \A j \in 1 .. (n - (k + 1) + 1) :
            SubSeq(q, k + 1, n)[j] = q[(k + 1) + j - 1]
  BY <1>1, SubSeqProperties
<1> QED BY <1>2

\* A prefix of a concatenation that ends in its second part, a slice of q.
LEMMA PrefixOfExtension ==
    ASSUME NEW S, NEW s \in Seq(S), NEW q \in Seq(S), NEW n \in Nat,
           NEW i \in Nat, Len(s) < i, i <= n, n <= Len(q)
    PROVE  SubSeq(s \o SubSeq(q, Len(s) + 1, n), 1, i)
             = s \o SubSeq(q, Len(s) + 1, i)
<1>0. Len(s) \in Nat /\ Len(q) \in Nat
  BY LenProperties
<1>1. /\ SubSeq(q, Len(s) + 1, n) \in Seq(S)
      /\ Len(SubSeq(q, Len(s) + 1, n)) = n - Len(s)
      /\ \A j \in 1 .. (n - Len(s)) : SubSeq(q, Len(s) + 1, n)[j] = q[Len(s) + j]
  BY <1>0, Slice
<1>2. /\ SubSeq(q, Len(s) + 1, i) \in Seq(S)
      /\ Len(SubSeq(q, Len(s) + 1, i)) = i - Len(s)
      /\ \A j \in 1 .. (i - Len(s)) : SubSeq(q, Len(s) + 1, i)[j] = q[Len(s) + j]
  BY <1>0, Slice
<1>3. \A j \in 1 .. (i - Len(s)) :
         SubSeq(q, Len(s) + 1, n)[j] = SubSeq(q, Len(s) + 1, i)[j]
  BY <1>0, <1>1, <1>2
<1>4. SubSeq(s \o SubSeq(q, Len(s) + 1, n), 1,
             Len(s) + Len(SubSeq(q, Len(s) + 1, i)))
        = s \o SubSeq(q, Len(s) + 1, i)
  BY <1>0, <1>1, <1>2, <1>3, CutConcat
<1> QED
  BY <1>0, <1>2, <1>4

\* A prefix of a prefix.
LEMMA PrefixOfPrefix ==
    ASSUME NEW S, NEW s \in Seq(S), NEW n \in 1 .. Len(s), NEW i \in 1 .. n
    PROVE  /\ SubSeq(s, 1, n) \in Seq(S)
           /\ Len(SubSeq(s, 1, n)) = n
           /\ \A j \in 1 .. n : SubSeq(s, 1, n)[j] = s[j]
           /\ SubSeq(SubSeq(s, 1, n), 1, i) = SubSeq(s, 1, i)
<1>0. Len(s) \in Nat /\ \A j \in 1 .. Len(s) : s[j] \in S
  BY LenProperties, ElementOfSeq
<1>1. /\ SubSeq(s, 1, n) \in Seq(S)
      /\ Len(SubSeq(s, 1, n)) = n
      /\ \A j \in 1 .. n : SubSeq(s, 1, n)[j] = s[j]
  BY <1>0, SubSeqProperties
<1>2. /\ SubSeq(s, 1, i) \in Seq(S)
      /\ Len(SubSeq(s, 1, i)) = i
      /\ \A j \in 1 .. i : SubSeq(s, 1, i)[j] = s[j]
  BY <1>0, SubSeqProperties
<1>3. /\ SubSeq(SubSeq(s, 1, n), 1, i) \in Seq(S)
      /\ Len(SubSeq(SubSeq(s, 1, n), 1, i)) = i
      /\ \A j \in 1 .. i : SubSeq(SubSeq(s, 1, n), 1, i)[j] = SubSeq(s, 1, n)[j]
  <2>1. \A j \in 1 .. i : SubSeq(s, 1, n)[j] \in S
    BY <1>0, <1>1
  <2> QED BY <2>1, SubSeqProperties
<1> QED
  BY <1>1, <1>2, <1>3, SeqEqual

----------------------------------------------------------------------------
(* Tables.                                                                 *)

\* The initial pools satisfy the invariant.
LEMMA InitInv == Init => IInv
<1> SUFFICES ASSUME Init PROVE IInv
  OBVIOUS
<1>1. active_rids = {} /\ Held = {}
  BY DEF Init, active_rids, Held, Places
<1>2. TypeOK
  BY PoolAssumption, EmptySeq DEF Init, TypeOK, NoPrefixes
<1> QED
  BY <1>1, <1>2 DEF Init, IInv, NoSlotShared, NoRowShared, NoLeak,
     CachedKvValid, EvalSeesAskedLength, AskedOnlyExtended

\* The number of elements of a set with at most one.
LEMMA CountOne ==
    ASSUME NEW A, \A x, y \in A : x = y
    PROVE  Cardinality(A) = IF \E x : x \in A THEN 1 ELSE 0
<1>1. CASE \E x : x \in A
  <2>1. PICK x : x \in A
    BY <1>1
  <2>2. A = {x}
    BY <2>1
  <2> QED BY <1>1, <2>2, FS_Singleton
<1>2. CASE ~\E x : x \in A
  <2>1. A = {}
    BY <1>2
  <2> QED BY <1>2, <2>1, FS_EmptySet
<1> QED BY <1>1, <1>2

\* A held place is a tracked request and one of its cached columns.
LEMMA HeldPlace ==
    ASSUME TypeOK, NEW x
    PROVE  x \in Held <=>
             /\ x = <<x[1], x[2]>>
             /\ x[1] \in active_rids
             /\ x[2] \in Columns
             /\ x[2] <= kv_lens[x[1]]
BY PoolAssumption DEF TypeOK, Held, Places, active_rids, Columns

\* Freeing held places puts each of their slots on the free list, once.
LEMMA FreedHeld ==
    ASSUME TypeOK, NoSlotShared, NEW P \in SUBSET Held
    PROVE  /\ Freed(P) \in [KvSlots -> Nat]
           /\ \A s \in KvSlots : Freed(P)[s] =
                 IF \E x \in P : SlotAt(x) = s THEN 1 ELSE free_pages[s]
<1>1. ASSUME NEW s \in KvSlots
      PROVE  Cardinality({x \in P : SlotAt(x) = s})
               = IF \E x \in P : SlotAt(x) = s THEN 1 ELSE 0
  <2>1. \A x, y \in {z \in P : SlotAt(z) = s} : x = y
    BY DEF NoSlotShared
  <2>2. Cardinality({x \in P : SlotAt(x) = s})
          = IF \E x : x \in {z \in P : SlotAt(z) = s} THEN 1 ELSE 0
    BY <2>1, CountOne
  <2> QED BY <2>2
<1>2. ASSUME NEW s \in KvSlots, NEW x \in P, SlotAt(x) = s
      PROVE  free_pages[s] = 0
  BY <1>2 DEF NoSlotShared
<1>3. ASSUME NEW s \in KvSlots
      PROVE  Freed(P)[s] = IF \E x \in P : SlotAt(x) = s THEN 1 ELSE free_pages[s]
  <2>1. Freed(P)[s] = free_pages[s] + Cardinality({x \in P : SlotAt(x) = s})
    BY DEF Freed
  <2>2. free_pages[s] \in Nat
    BY DEF TypeOK
  <2>3. CASE \E x \in P : SlotAt(x) = s
    BY <2>1, <2>3, <1>1, <1>2
  <2>4. CASE ~\E x \in P : SlotAt(x) = s
    BY <2>1, <2>2, <2>4, <1>1
  <2> QED BY <2>3, <2>4
<1>4. Freed(P) = [s \in KvSlots |-> Freed(P)[s]]
  BY DEF Freed
<1> QED
  BY <1>3, <1>4 DEF TypeOK

\* What a write to req_to_token leaves in a row that one request has.
LEMMA WriteTableAt ==
    ASSUME TypeOK, NEW row, NEW N \in SUBSET (Rids \X Columns),
           NEW loc \in [N -> KvSlots], NEW r \in Rids, NEW c \in Columns,
           row[r] \in ReqSlots,
           \A x \in N : row[x[1]] = row[r] => x[1] = r
    PROVE  WriteTable(row, loc)[row[r]][c] =
             IF <<r, c>> \in N THEN loc[<<r, c>>] ELSE req_to_token[row[r]][c]
<1>1. \A x \in N : row[x[1]] = row[r] /\ x[2] = c <=> x = <<r, c>>
  OBVIOUS
<1>2. CASE <<r, c>> \in N
  <2>1. (CHOOSE x \in DOMAIN loc : row[x[1]] = row[r] /\ x[2] = c) = <<r, c>>
    BY <1>1, <1>2
  <2> QED BY <2>1, <1>1, <1>2 DEF WriteTable
<1>3. CASE <<r, c>> \notin N
  BY <1>1, <1>3 DEF WriteTable
<1> QED BY <1>2, <1>3

\* Writes to req_to_token store KV slots.
LEMMA WriteTableType ==
    ASSUME TypeOK, NEW row, NEW N, NEW loc \in [N -> KvSlots]
    PROVE  WriteTable(row, loc) \in [ReqSlots -> [Columns -> KvSlots \cup {NoSlot}]]
<1>1. ASSUME NEW b \in ReqSlots, NEW c \in Columns
      PROVE  (IF \E x \in DOMAIN loc : row[x[1]] = b /\ x[2] = c
              THEN loc[CHOOSE x \in DOMAIN loc : row[x[1]] = b /\ x[2] = c]
              ELSE req_to_token[b][c]) \in KvSlots \cup {NoSlot}
  <2>1. CASE \E x \in N : row[x[1]] = b /\ x[2] = c
    <3>1. (CHOOSE x \in DOMAIN loc : row[x[1]] = b /\ x[2] = c) \in N
      BY <2>1
    <3> QED BY <2>1, <3>1
  <2>2. CASE ~\E x \in N : row[x[1]] = b /\ x[2] = c
    BY <2>2 DEF TypeOK
  <2> QED BY <2>1, <2>2
<1> QED BY <1>1 DEF WriteTable

\* One KV slot for each place, and the token sequences stored there.
OneSlotEach(loc) ==
    /\ \A x \in DOMAIN loc : loc[x] \in KvSlots
    /\ \A x, y \in DOMAIN loc : loc[x] = loc[y] => x = y

Encodings(loc, enc) == \A x \in DOMAIN loc : enc[x] \in Seq(Tokens)

\* What a forward pass leaves in the KV pool, for distinct slots.
LEMMA WriteKvAt ==
    ASSUME TypeOK, NEW loc, NEW enc, OneSlotEach(loc), Encodings(loc, enc)
    PROVE  /\ \A x \in DOMAIN loc : WriteKv(loc, enc)[loc[x]] = enc[x]
           /\ \A s \in KvSlots : (\A x \in DOMAIN loc : loc[x] # s) => WriteKv(loc, enc)[s] = kv[s]
           /\ WriteKv(loc, enc) \in [KvSlots -> Seq(Tokens)]
<1> USE DEF OneSlotEach, Encodings
<1>1. ASSUME NEW x \in DOMAIN loc PROVE WriteKv(loc, enc)[loc[x]] = enc[x]
  <2>1. (CHOOSE y \in DOMAIN loc : loc[y] = loc[x]) = x
    OBVIOUS
  <2> QED BY <2>1 DEF WriteKv
<1>2. ASSUME NEW s \in KvSlots, \A x \in DOMAIN loc : loc[x] # s
      PROVE  WriteKv(loc, enc)[s] = kv[s]
  BY <1>2 DEF WriteKv
<1>3. ASSUME NEW s \in KvSlots PROVE WriteKv(loc, enc)[s] \in Seq(Tokens)
  <2>1. CASE \E x \in DOMAIN loc : loc[x] = s
    <3>1. PICK x \in DOMAIN loc : loc[x] = s
      BY <2>1
    <3>2. WriteKv(loc, enc)[s] = enc[x]
      BY <1>1, <3>1
    <3> QED BY <3>2
  <2>2. CASE ~\E x \in DOMAIN loc : loc[x] = s
    BY <1>2, <2>2 DEF TypeOK
  <2> QED BY <2>1, <2>2
<1>4. WriteKv(loc, enc) = [s \in KvSlots |-> WriteKv(loc, enc)[s]]
  BY DEF WriteKv
<1> QED BY <1>1, <1>2, <1>3, <1>4

\* The cached prefix of any request is a token sequence of the cached length.
LEMMA CachedPrefixType ==
    ASSUME TypeOK, NoSlotShared, CachedKvValid, NEW r \in Rids
    PROVE  CachedPrefix(r) \in Seq(Tokens) /\ Len(CachedPrefix(r)) = kv_lens[r]
<1>1. CASE kv_lens[r] = 0
  BY <1>1, EmptySeq DEF CachedPrefix
<1>2. CASE kv_lens[r] # 0
  <2>1. r \in active_rids /\ kv_lens[r] \in 1 .. MaxLen
    BY <1>2, PoolAssumption DEF TypeOK, active_rids
  <2>2. <<r, kv_lens[r]>> \in Held
    BY <2>1, HeldPlace, PoolAssumption DEF Columns
  <2>3. SlotAt(<<r, kv_lens[r]>>) \in KvSlots
    BY <2>2 DEF NoSlotShared
  <2> QED BY <1>2, <2>1, <2>3 DEF CachedPrefix, CachedKvValid, TypeOK
<1> QED BY <1>1, <1>2

----------------------------------------------------------------------------
(* Releasing the requests that left the batch.                             *)

\* cleanup_stale_rids preserves the invariant: what it frees was held by requests
\* it forgets, and by nobody else.
LEMMA CleanStaleInv ==
    ASSUME IInv, NEW rids \in SUBSET Rids, CleanStale(rids)
    PROVE  IInv'
<1> DEFINE stale == active_rids \ rids
           P == {x \in Held : x[1] \in stale}
<1> USE DEF IInv
<1>1. /\ phase = "idle" /\ phase' = "cleaned" /\ batch' = rids
      /\ free_pages' = Freed(P)
      /\ free_slots' = [b \in ReqSlots |-> free_slots[b]
                          + Cardinality({r \in stale : pool_indices[r] = b})]
      /\ pool_indices' = [r \in Rids |->
                            IF r \in stale THEN NoSlot ELSE pool_indices[r]]
      /\ kv_lens' = [r \in Rids |-> IF r \in stale THEN 0 ELSE kv_lens[r]]
      /\ req_to_token' = req_to_token /\ kv' = kv /\ asked' = asked
  BY DEF CleanStale
<1> HIDE DEF P
<1>2. /\ free_pages' \in [KvSlots -> Nat]
      /\ \A s \in KvSlots : free_pages'[s] =
            IF \E x \in P : SlotAt(x) = s THEN 1 ELSE free_pages[s]
  BY <1>1, FreedHeld DEF P
<1>3. ASSUME NEW b \in ReqSlots
      PROVE  free_slots'[b] =
               IF \E r \in stale : pool_indices[r] = b THEN 1 ELSE free_slots[b]
  <2>1. \A r, q \in {z \in stale : pool_indices[z] = b} : r = q
    BY DEF NoRowShared
  <2>2. Cardinality({z \in stale : pool_indices[z] = b})
          = IF \E r : r \in {z \in stale : pool_indices[z] = b} THEN 1 ELSE 0
    BY <2>1, CountOne
  <2>3. free_slots'[b] = free_slots[b]
                           + Cardinality({z \in stale : pool_indices[z] = b})
    BY <1>1
  <2>4. CASE \E r \in stale : pool_indices[r] = b
    <3>1. free_slots[b] = 0
      BY <2>4 DEF NoRowShared
    <3> QED BY <2>2, <2>3, <2>4, <3>1
  <2>5. CASE ~\E r \in stale : pool_indices[r] = b
    <3>1. free_slots[b] \in Nat
      BY DEF TypeOK
    <3> QED BY <2>2, <2>3, <2>5, <3>1
  <2> QED BY <2>4, <2>5
<1>4. TypeOK'
  <2>1. free_slots' \in [ReqSlots -> Nat]
    <3>1. \A b \in ReqSlots : free_slots'[b] \in Nat
      BY <1>3 DEF TypeOK
    <3>2. free_slots' = [b \in ReqSlots |-> free_slots'[b]]
      BY <1>1
    <3> QED BY <3>1, <3>2
  <2>2. pool_indices' \in [Rids -> ReqSlots \cup {NoSlot}]
    BY <1>1 DEF TypeOK
  <2>3. kv_lens' \in [Rids -> 0 .. MaxLen]
    BY <1>1, PoolAssumption DEF TypeOK
  <2>4. \A r \in Rids : pool_indices'[r] = NoSlot => kv_lens'[r] = 0
    BY <1>1 DEF TypeOK
  <2>5. asked = NoPrefixes
    BY <1>1 DEF AskedOnlyExtended
  <2>6. DOMAIN asked' \subseteq batch' /\ asked' \in [DOMAIN asked' -> Seq(Tokens)]
    BY <1>1, <2>5 DEF NoPrefixes
  <2> QED
    BY <1>1, <1>2, <2>1, <2>2, <2>3, <2>4, <2>6 DEF TypeOK, Columns
<1>5. active_rids' = active_rids \cap rids
  BY <1>1 DEF active_rids, TypeOK
<1>6. /\ Held' = {x \in Held : x[1] \in rids}
      /\ \A x \in Held' : SlotAt(x)' = SlotAt(x)
  <2>1. \A x : x \in Held' <=>
             /\ x = <<x[1], x[2]>>
             /\ x[1] \in active_rids'
             /\ x[2] \in Columns
             /\ x[2] <= kv_lens'[x[1]]
    BY <1>4, PoolAssumption DEF TypeOK, Held, Places, active_rids, Columns
  <2>2. \A r \in active_rids \cap rids :
           r \in Rids /\ pool_indices'[r] = pool_indices[r] /\ kv_lens'[r] = kv_lens[r]
    BY <1>1 DEF active_rids
  <2>3. \A x : x \in Held' <=> x \in Held /\ x[1] \in rids
    BY <2>1, <2>2, <1>5, HeldPlace
  <2>4. \A x \in Held' : SlotAt(x)' = SlotAt(x)
    BY <2>1, <2>2, <1>5, <1>1 DEF SlotAt
  <2> QED BY <2>3, <2>4
<1>7. \A x \in Held : x \in Held' \/ x \in P
  BY <1>6, HeldPlace DEF P
<1>8. NoSlotShared'
  <2>1. ASSUME NEW x \in Held'
        PROVE  /\ SlotAt(x)' \in KvSlots /\ free_pages'[SlotAt(x)'] = 0
    <3>1. x \in Held /\ x \notin P /\ SlotAt(x)' = SlotAt(x)
      BY <1>6 DEF P
    <3>2. ~\E y \in P : SlotAt(y) = SlotAt(x)
      BY <3>1 DEF P, NoSlotShared
    <3> QED BY <3>1, <3>2, <1>2 DEF NoSlotShared
  <2>2. \A x, y \in Held' : SlotAt(x)' = SlotAt(y)' => x = y
    BY <1>6 DEF NoSlotShared
  <2>3. \A s \in KvSlots : free_pages'[s] <= 1
    BY <1>2 DEF NoSlotShared
  <2> QED BY <2>1, <2>2, <2>3 DEF NoSlotShared
<1>9. NoRowShared'
  <2>1. \A r \in active_rids' :
           r \in active_rids /\ r \notin stale /\ r \in Rids
             /\ pool_indices'[r] = pool_indices[r]
             /\ pool_indices[r] \in ReqSlots
    BY <1>1, <1>5 DEF active_rids, TypeOK
  <2>2. \A r \in active_rids' : free_slots'[pool_indices'[r]] = 0
    BY <2>1, <1>3 DEF NoRowShared
  <2>3. \A r, q \in active_rids' : pool_indices'[r] = pool_indices'[q] => r = q
    BY <2>1 DEF NoRowShared
  <2>4. \A b \in ReqSlots : free_slots'[b] <= 1
    BY <1>3 DEF NoRowShared
  <2> QED BY <2>2, <2>3, <2>4 DEF NoRowShared
<1>10. NoLeak'
  <2>1. ASSUME NEW s \in KvSlots, free_pages'[s] = 0
        PROVE  \E x \in Held' : SlotAt(x)' = s
    <3>1. free_pages[s] = 0 /\ ~\E x \in P : SlotAt(x) = s
      BY <2>1, <1>2
    <3>2. PICK x \in Held : SlotAt(x) = s
      BY <3>1 DEF NoLeak
    <3> QED BY <3>1, <3>2, <1>6, <1>7
  <2>2. ASSUME NEW b \in ReqSlots, free_slots'[b] = 0
        PROVE  \E r \in active_rids' : pool_indices'[r] = b
    <3>1. free_slots[b] = 0 /\ ~\E r \in stale : pool_indices[r] = b
      BY <2>2, <1>3
    <3>2. PICK r \in active_rids : pool_indices[r] = b
      BY <3>1 DEF NoLeak
    <3>3. r \in active_rids' /\ pool_indices'[r] = b
      BY <3>1, <3>2, <1>1, <1>5 DEF active_rids
    <3> QED BY <3>3
  <2> QED BY <2>1, <2>2 DEF NoLeak
<1>11. CachedKvValid'
  <2> SUFFICES ASSUME NEW r \in active_rids'
               PROVE  /\ Len(CachedPrefix(r)') = kv_lens'[r]
                      /\ \A i \in 1 .. kv_lens'[r] :
                           kv'[SlotAt(<<r, i>>)'] = SubSeq(CachedPrefix(r)', 1, i)
    BY DEF CachedKvValid
  <2>1. r \in active_rids /\ r \in Rids /\ kv_lens'[r] = kv_lens[r]
          /\ pool_indices'[r] = pool_indices[r]
    BY <1>1, <1>5 DEF active_rids
  <2>2. \A i : SlotAt(<<r, i>>)' = SlotAt(<<r, i>>)
    BY <2>1, <1>1 DEF SlotAt
  <2>3. CachedPrefix(r)' = CachedPrefix(r)
    BY <2>1, <2>2, <1>1 DEF CachedPrefix
  <2> QED BY <2>1, <2>2, <2>3, <1>1 DEF CachedKvValid
<1> QED
  BY <1>1, <1>4, <1>8, <1>9, <1>10, <1>11 DEF EvalSeesAskedLength, AskedOnlyExtended

----------------------------------------------------------------------------
(* Evaluating candidates.                                                  *)

\* eval_candidates_batch_gpu preserves the invariant: its slots come from the free
\* list and go back to it, and it writes only behind the cached columns.
LEMMA EvalCandidatesInv ==
    ASSUME IInv, NEW n \in [DOMAIN asked -> 1 .. MaxCands], EvalCandidates(n)
    PROVE  /\ IInv'
           /\ \A r \in Rids : CachedPrefix(r)' = CachedPrefix(r)
           /\ free_pages' = free_pages
<1> DEFINE T == CandPlaces(n)
<1> USE DEF IInv
<1>0. PICK loc \in Allocations(T, free_pages), t \in Tokens :
        /\ req_to_token' = WriteTable(pool_indices, loc)
        /\ kv' = WriteKv(loc, [x \in T |-> Append(CachedPrefix(x[1]), t)])
        /\ free_pages' = Returned(loc, Taken(loc, free_pages))
  BY DEF EvalCandidates
<1>1. /\ phase = "extended" /\ phase' \in {"idle", "dead"} /\ asked' = NoPrefixes
      /\ pool_indices' = pool_indices /\ kv_lens' = kv_lens
      /\ free_slots' = free_slots /\ free_pages' = free_pages /\ batch' = batch
  <2>1. /\ phase = "extended" /\ phase' \in {"idle", "dead"} /\ asked' = NoPrefixes
        /\ pool_indices' = pool_indices /\ kv_lens' = kv_lens
        /\ free_slots' = free_slots /\ batch' = batch
    BY DEF EvalCandidates
  <2>2. free_pages \in [KvSlots -> Nat]
    BY DEF TypeOK
  <2>3. Returned(loc, Taken(loc, free_pages)) = free_pages
    BY <2>2 DEF Returned, Taken
  <2> QED
    BY <1>0, <2>1, <2>3
<1>3. /\ loc \in [T -> KvSlots]
      /\ \A x \in T : free_pages[loc[x]] > 0
      /\ \A x, y \in T : loc[x] = loc[y] => x = y
  BY DEF Allocations
<1>4. \A r \in DOMAIN asked : r \in active_rids /\ r \in Rids
  BY <1>1 DEF EvalSeesAskedLength, active_rids
<1>5. /\ T \subseteq Rids \X Columns
      /\ \A x \in T : x[1] \in active_rids /\ x[2] > kv_lens[x[1]]
  BY <1>4 DEF CandPlaces, Places, TypeOK
<1>6. /\ \A s \in KvSlots : free_pages[s] = 0 => kv'[s] = kv[s]
      /\ kv' \in [KvSlots -> Seq(Tokens)]
  <2>0. PICK enc : enc = [x \in T |-> Append(CachedPrefix(x[1]), t)]
    OBVIOUS
  <2>1. DOMAIN loc = T /\ OneSlotEach(loc)
    BY <1>3 DEF OneSlotEach
  <2>2. Encodings(loc, enc)
    <3>1. \A x \in T : x[1] \in Rids
      BY <1>5
    <3>2. \A x \in T : Append(CachedPrefix(x[1]), t) \in Seq(Tokens)
      BY <3>1, CachedPrefixType
    <3> QED BY <2>0, <2>1, <3>2 DEF Encodings
  <2>3. /\ \A s \in KvSlots : (\A x \in T : loc[x] # s) => kv'[s] = kv[s]
        /\ kv' \in [KvSlots -> Seq(Tokens)]
    <3>1. /\ \A s \in KvSlots : (\A x \in DOMAIN loc : loc[x] # s)
                                  => WriteKv(loc, enc)[s] = kv[s]
          /\ WriteKv(loc, enc) \in [KvSlots -> Seq(Tokens)]
      BY <2>1, <2>2, WriteKvAt
    <3>2. kv' = WriteKv(loc, enc)
      BY <2>0, <1>0
    <3> QED BY <3>1, <3>2, <2>1
  <2>4. \A s \in KvSlots : free_pages[s] = 0 => \A x \in T : loc[x] # s
    BY <1>3
  <2> QED BY <2>2, <2>3, <2>4
<1>7. TypeOK'
  <2>1. req_to_token' \in [ReqSlots -> [Columns -> KvSlots \cup {NoSlot}]]
    BY <1>0, <1>3, WriteTableType
  <2>2. DOMAIN asked' = {} /\ asked' \in [DOMAIN asked' -> Seq(Tokens)]
    BY <1>1 DEF NoPrefixes
  <2> QED BY <1>1, <1>6, <2>1, <2>2 DEF TypeOK, Columns
<1>8. active_rids' = active_rids /\ Held' = Held
  BY <1>1 DEF active_rids, Held, Places, Columns
<1>9. ASSUME NEW x \in Held PROVE SlotAt(x)' = SlotAt(x)
  <2>1. /\ x = <<x[1], x[2]>> /\ x[1] \in active_rids /\ x[1] \in Rids
        /\ x[2] \in Columns /\ x[2] <= kv_lens[x[1]]
        /\ pool_indices[x[1]] \in ReqSlots
    BY HeldPlace DEF active_rids, TypeOK
  <2>2. x \notin T
    BY <2>1, <1>5, PoolAssumption DEF Columns, TypeOK
  <2>3. \A y \in T : pool_indices[y[1]] = pool_indices[x[1]] => y[1] = x[1]
    BY <2>1, <1>5 DEF NoRowShared
  <2>4. WriteTable(pool_indices, loc)[pool_indices[x[1]]][x[2]]
          = req_to_token[pool_indices[x[1]]][x[2]]
    BY <2>1, <2>2, <2>3, <1>3, <1>5, WriteTableAt
  <2> QED BY <2>4, <1>1, <1>0 DEF SlotAt
<1>10. \A x \in Held : kv'[SlotAt(x)'] = kv[SlotAt(x)]
  BY <1>6, <1>9 DEF NoSlotShared
<1>11. ASSUME NEW r \in Rids, NEW i \in 1 .. kv_lens[r]
       PROVE  <<r, i>> \in Held
  <2>1. kv_lens[r] \in 0 .. MaxLen /\ kv_lens[r] # 0
    BY DEF TypeOK
  <2>2. r \in active_rids
    BY <2>1 DEF active_rids, TypeOK
  <2>3. i \in Columns /\ i <= kv_lens[r]
    BY <2>1, PoolAssumption DEF Columns
  <2> QED BY <2>2, <2>3, HeldPlace
<1>12. ASSUME NEW r \in Rids PROVE CachedPrefix(r)' = CachedPrefix(r)
  <2>1. CASE kv_lens[r] = 0
    BY <2>1, <1>1 DEF CachedPrefix
  <2>2. CASE kv_lens[r] # 0
    <3>1. kv_lens[r] \in 1 .. kv_lens[r]
      BY <2>2 DEF TypeOK
    <3> QED BY <2>2, <3>1, <1>1, <1>10, <1>11 DEF CachedPrefix
  <2> QED BY <2>1, <2>2
<1>13. NoSlotShared'
  BY <1>1, <1>8, <1>9 DEF NoSlotShared
<1>14. NoRowShared'
  BY <1>1, <1>8 DEF NoRowShared
<1>15. NoLeak'
  BY <1>1, <1>8, <1>9 DEF NoLeak
<1>16. CachedKvValid'
  <2> SUFFICES ASSUME NEW r \in active_rids
               PROVE  /\ Len(CachedPrefix(r)') = kv_lens'[r]
                      /\ \A i \in 1 .. kv_lens'[r] :
                           kv'[SlotAt(<<r, i>>)'] = SubSeq(CachedPrefix(r)', 1, i)
    BY <1>8 DEF CachedKvValid
  <2>1. r \in Rids
    BY DEF active_rids
  <2> QED BY <2>1, <1>1, <1>10, <1>11, <1>12 DEF CachedKvValid
<1> QED
  BY <1>1, <1>7, <1>12, <1>13, <1>14, <1>15, <1>16
     DEF EvalSeesAskedLength, AskedOnlyExtended

----------------------------------------------------------------------------
(* Extending and rolling back prefixes.                                    *)

\* The arguments of tree_value_extend: one non-empty prefix per request.
PrefixArg(p) ==
    /\ DOMAIN p \subseteq batch
    /\ p \in [DOMAIN p -> Seq(Tokens)]
    /\ \A r \in DOMAIN p : Len(p[r]) \in 1 .. MaxLen

\* The places tree_value_extend fills: the columns behind what is cached, up to
\* the length of the prefix.
LEMMA ExtendPlaces ==
    ASSUME TypeOK, NEW p, PrefixArg(p), NEW x
    PROVE  /\ x \in NewPlaces(p) <=>
                 /\ x = <<x[1], x[2]>> /\ x[1] \in valid_rids(p) /\ x[2] \in Columns
                 /\ kv_lens[x[1]] < x[2] /\ x[2] <= Len(p[x[1]])
           /\ x \in Places(retracted(p), target_len(p), kv_lens) <=>
                 /\ x = <<x[1], x[2]>> /\ x[1] \in retracted(p) /\ x[2] \in Columns
                 /\ Len(p[x[1]]) < x[2] /\ x[2] <= kv_lens[x[1]]
<1>1. \A r \in DOMAIN p : target_len(p)[r] = Len(p[r])
  BY DEF target_len, PrefixArg, TypeOK
<1>2. valid_rids(p) \subseteq DOMAIN p /\ retracted(p) \subseteq DOMAIN p
  BY DEF valid_rids, retracted
<1> QED
  BY <1>1, <1>2 DEF NewPlaces, Places

\* What the extend does to the tables, column by column.
LEMMA ExtendTables ==
    ASSUME IInv, NEW p, PrefixArg(p), TreeValueExtend(p),
           NEW O, O = Places(retracted(p), target_len(p), kv_lens)
    PROVE  /\ TypeOK'
           /\ NoRowShared'
           /\ \A b \in ReqSlots : free_slots'[b] = 0
                                   => \E r \in active_rids' : pool_indices'[r] = b
           /\ \A x : x \in Held' <=> x \in NewPlaces(p) \/ (x \in Held /\ x \notin O)
           /\ \A x \in Held : x \notin O => SlotAt(x)' = SlotAt(x)
           /\ O \subseteq Held
           /\ \E loc :
                /\ DOMAIN loc = NewPlaces(p)
                /\ OneSlotEach(loc)
                /\ \A x \in NewPlaces(p) : SlotAt(x)' = loc[x]
                /\ \A x \in NewPlaces(p) : Freed(O)[loc[x]] > 0
                /\ free_pages' = Taken(loc, Freed(O))
                /\ kv' = WriteKv(loc, NewKv(p))
<1> USE DEF IInv
<1>1. /\ phase = "cleaned" /\ phase' = "extended" /\ asked' = p /\ batch' = batch
      /\ kv_lens' = [r \in Rids |-> IF r \in valid_rids(p) \cup retracted(p)
                                    THEN Len(p[r]) ELSE kv_lens[r]]
  BY DEF TreeValueExtend
<1>2. PICK row \in get_or_alloc(valid_rids(p)), loc \in Allocations(NewPlaces(p), Freed(O)) :
        /\ pool_indices' = row
        /\ free_slots' = [b \in ReqSlots |->
              IF \E r \in valid_rids(p) : pool_indices[r] = NoSlot /\ row[r] = b
              THEN free_slots[b] - 1 ELSE free_slots[b]]
        /\ free_pages' = Taken(loc, Freed(O))
        /\ req_to_token' = WriteTable(row, loc)
        /\ kv' = WriteKv(loc, NewKv(p))
  BY DEF TreeValueExtend
<1>3. /\ loc \in [NewPlaces(p) -> KvSlots]
      /\ \A x \in NewPlaces(p) : Freed(O)[loc[x]] > 0
      /\ \A x, y \in NewPlaces(p) : loc[x] = loc[y] => x = y
  BY DEF Allocations
<1>4. PICK F : F = {r \in valid_rids(p) : pool_indices[r] = NoSlot}
  OBVIOUS
<1>5. /\ row \in [Rids -> ReqSlots \cup {NoSlot}]
      /\ \A r \in Rids : r \notin F => row[r] = pool_indices[r]
      /\ \A r \in F : row[r] \in ReqSlots /\ free_slots[row[r]] > 0
      /\ \A r, q \in F : row[r] = row[q] => r = q
  BY <1>4 DEF get_or_alloc
<1>6. /\ valid_rids(p) \subseteq Rids /\ retracted(p) \subseteq active_rids
      /\ valid_rids(p) \subseteq DOMAIN p /\ retracted(p) \subseteq DOMAIN p
      /\ valid_rids(p) \cap retracted(p) = {}
  <2>1. DOMAIN p \subseteq Rids /\ \A r \in DOMAIN p : Len(p[r]) \in 1 .. MaxLen
    BY DEF PrefixArg, TypeOK
  <2>2. \A r \in Rids : kv_lens[r] \in 0 .. MaxLen
    BY DEF TypeOK
  <2> QED BY <2>1, <2>2, PoolAssumption DEF valid_rids, retracted, active_rids, TypeOK
<1>7. \A r \in Rids : row[r] # NoSlot <=> r \in active_rids \/ r \in valid_rids(p)
  BY <1>4, <1>5, <1>6, PoolAssumption DEF active_rids
<1>8. active_rids' = active_rids \cup valid_rids(p)
  BY <1>2, <1>6, <1>7 DEF active_rids
<1>9. \A r \in active_rids' : row[r] \in ReqSlots /\ r \in Rids
  BY <1>5, <1>6, <1>7, <1>8 DEF active_rids
<1>10. ASSUME NEW r \in active_rids', NEW q \in active_rids', row[r] = row[q]
       PROVE  r = q
  <2>1. r \in F \/ (r \in active_rids /\ row[r] = pool_indices[r] /\ free_slots[row[r]] = 0)
    BY <1>4, <1>5, <1>8, <1>9 DEF NoRowShared, active_rids
  <2>2. q \in F \/ (q \in active_rids /\ row[q] = pool_indices[q] /\ free_slots[row[q]] = 0)
    BY <1>4, <1>5, <1>8, <1>9 DEF NoRowShared, active_rids
  <2> QED BY <2>1, <2>2, <1>10, <1>5 DEF NoRowShared
<1>11. \A b \in ReqSlots : /\ free_slots[b] \in {0, 1}
                            /\ free_slots'[b] = IF \E r \in F : row[r] = b
                                                THEN 0 ELSE free_slots[b]
  <2>1. \A b \in ReqSlots : free_slots[b] \in {0, 1}
    BY DEF TypeOK, NoRowShared
  <2>2. \A b \in ReqSlots : free_slots'[b] = IF \E r \in F : row[r] = b
                                              THEN free_slots[b] - 1 ELSE free_slots[b]
    BY <1>2, <1>4
  <2> QED BY <2>1, <2>2, <1>5
<1>12. NoRowShared'
  <2>1. ASSUME NEW r \in active_rids' PROVE free_slots'[pool_indices'[r]] = 0
    <3>1. r \in F \/ (r \in active_rids /\ row[r] = pool_indices[r] /\ free_slots[row[r]] = 0)
      BY <1>4, <1>5, <1>8, <1>9 DEF NoRowShared, active_rids
    <3> QED BY <3>1, <1>2, <1>9, <1>11
  <2> QED BY <2>1, <1>2, <1>10, <1>11 DEF NoRowShared
<1>13. ASSUME NEW b \in ReqSlots, free_slots'[b] = 0
       PROVE  \E r \in active_rids' : pool_indices'[r] = b
  <2>1. CASE \E r \in F : row[r] = b
    BY <2>1, <1>2, <1>4, <1>8
  <2>2. CASE ~\E r \in F : row[r] = b
    <3>1. free_slots[b] = 0
      BY <2>2, <1>11, <1>13
    <3>2. PICK r \in active_rids : pool_indices[r] = b
      BY <3>1 DEF NoLeak
    <3>3. r \notin F /\ r \in Rids
      BY <1>4 DEF active_rids
    <3> QED BY <3>2, <3>3, <1>2, <1>5, <1>8
  <2> QED BY <2>1, <2>2
<1>14. \A x : x \in Held <=>
             /\ x = <<x[1], x[2]>> /\ x[1] \in active_rids
             /\ x[2] \in Columns /\ x[2] <= kv_lens[x[1]]
  BY HeldPlace
<1>15. \A x : x \in O <=> /\ x = <<x[1], x[2]>> /\ x[1] \in retracted(p)
                          /\ x[2] \in Columns
                          /\ Len(p[x[1]]) < x[2] /\ x[2] <= kv_lens[x[1]]
  BY ExtendPlaces
<1>16. \A x : x \in NewPlaces(p) <=>
                 /\ x = <<x[1], x[2]>> /\ x[1] \in valid_rids(p) /\ x[2] \in Columns
                 /\ kv_lens[x[1]] < x[2] /\ x[2] <= Len(p[x[1]])
  BY ExtendPlaces
<1>17. O \subseteq Held
  BY <1>6, <1>14, <1>15
<1>18. NewPlaces(p) \subseteq Rids \X Columns
  BY <1>6, <1>16
<1>19. /\ Freed(O) \in [KvSlots -> Nat]
       /\ \A s \in KvSlots : Freed(O)[s] =
             IF \E x \in O : SlotAt(x) = s THEN 1 ELSE free_pages[s]
  BY <1>17, FreedHeld
<1>20. OneSlotEach(loc) /\ DOMAIN loc = NewPlaces(p)
  BY <1>3 DEF OneSlotEach
<1>21. TypeOK'
  <2>1. pool_indices' \in [Rids -> ReqSlots \cup {NoSlot}]
    BY <1>2, <1>5
  <2>2. \A r \in DOMAIN p : Len(p[r]) \in 0 .. MaxLen
    BY PoolAssumption DEF PrefixArg
  <2>3. kv_lens' \in [Rids -> 0 .. MaxLen]
    BY <1>1, <1>6, <2>2 DEF TypeOK
  <2>4. \A r \in Rids : pool_indices'[r] = NoSlot => kv_lens'[r] = 0
    BY <1>1, <1>2, <1>5, <1>6, <1>7 DEF TypeOK, active_rids
  <2>5. req_to_token' \in [ReqSlots -> [Columns -> KvSlots \cup {NoSlot}]]
    BY <1>2, <1>3, WriteTableType
  <2>6. free_slots' \in [ReqSlots -> Nat]
    <3>1. \A b \in ReqSlots : free_slots'[b] \in Nat
      BY <1>11
    <3>2. free_slots' = [b \in ReqSlots |-> free_slots'[b]]
      BY <1>2
    <3> QED BY <3>1, <3>2
  <2>7. free_pages' \in [KvSlots -> Nat]
    <3>1. ASSUME NEW s \in KvSlots PROVE free_pages'[s] \in Nat
      <4>1. Freed(O)[s] \in Nat
        BY <1>19
      <4>2. free_pages'[s] = IF \E x \in DOMAIN loc : loc[x] = s
                             THEN Freed(O)[s] - 1 ELSE Freed(O)[s]
        BY <1>2 DEF Taken
      <4>3. (\E x \in DOMAIN loc : loc[x] = s) => Freed(O)[s] > 0
        BY <1>3, <1>20
      <4> QED BY <4>1, <4>2, <4>3
    <3>2. free_pages' = [s \in KvSlots |-> free_pages'[s]]
      BY <1>2 DEF Taken
    <3> QED BY <3>1, <3>2
  <2>8. kv' \in [KvSlots -> Seq(Tokens)]
    <3>1. ASSUME NEW x \in NewPlaces(p) PROVE NewKv(p)[x] \in Seq(Tokens)
      <4>1. /\ x[1] \in Rids /\ x[1] \in DOMAIN p /\ x[2] \in Nat
            /\ kv_lens[x[1]] \in Nat /\ kv_lens[x[1]] < x[2] /\ x[2] <= Len(p[x[1]])
        BY <1>6, <1>16 DEF TypeOK, Columns
      <4>2. p[x[1]] \in Seq(Tokens)
        BY <4>1 DEF PrefixArg
      <4>3. SubSeq(p[x[1]], kv_lens[x[1]] + 1, x[2]) \in Seq(Tokens)
        BY <4>1, <4>2, Slice
      <4>4. CachedPrefix(x[1]) \in Seq(Tokens)
        BY <4>1, CachedPrefixType
      <4> QED BY <4>3, <4>4, ConcatProperties DEF NewKv
    <3>2. Encodings(loc, NewKv(p))
      BY <3>1, <1>20 DEF Encodings
    <3> QED BY <3>2, <1>2, <1>20, WriteKvAt
  <2>9. DOMAIN asked' \subseteq batch' /\ asked' \in [DOMAIN asked' -> Seq(Tokens)]
    BY <1>1 DEF PrefixArg
  <2> QED
    BY <1>1, <2>1, <2>3, <2>4, <2>5, <2>6, <2>7, <2>8, <2>9 DEF TypeOK, Columns
<1>22. \A x : x \in Held' <=>
             /\ x = <<x[1], x[2]>> /\ x[1] \in active_rids'
             /\ x[2] \in Columns /\ x[2] <= kv_lens'[x[1]]
  BY <1>21, PoolAssumption DEF TypeOK, Held, Places, active_rids, Columns
<1>23. ASSUME NEW x
       PROVE  x \in Held' <=> x \in NewPlaces(p) \/ (x \in Held /\ x \notin O)
  <2>1. CASE x[1] \in valid_rids(p)
    <3>1. kv_lens'[x[1]] = Len(p[x[1]]) /\ x[1] \in Rids /\ x[1] \notin retracted(p)
      BY <2>1, <1>1, <1>6
    <3>2. kv_lens[x[1]] \in Nat /\ Len(p[x[1]]) \in Nat /\ kv_lens[x[1]] < Len(p[x[1]])
      BY <2>1, <3>1, <1>6 DEF valid_rids, TypeOK, PrefixArg
    <3>3. x[1] \notin active_rids => kv_lens[x[1]] = 0
      BY <3>1 DEF active_rids, TypeOK
    <3>4. x[2] \in Columns => x[2] \in Nat /\ x[2] > 0
      BY PoolAssumption DEF Columns
    <3> QED BY <2>1, <3>1, <3>2, <3>3, <3>4, <1>8, <1>14, <1>15, <1>16, <1>22
  <2>2. CASE x[1] \in retracted(p)
    <3>1. kv_lens'[x[1]] = Len(p[x[1]]) /\ x[1] \in Rids /\ x[1] \notin valid_rids(p)
            /\ x[1] \in active_rids
      BY <2>2, <1>1, <1>6 DEF active_rids
    <3>2. kv_lens[x[1]] \in Nat /\ Len(p[x[1]]) \in Nat /\ Len(p[x[1]]) < kv_lens[x[1]]
      BY <2>2, <3>1, <1>6 DEF retracted, TypeOK, PrefixArg
    <3>3. x[2] \in Columns => x[2] \in Nat
      BY PoolAssumption DEF Columns
    <3> QED BY <2>2, <3>1, <3>2, <3>3, <1>8, <1>14, <1>15, <1>16, <1>22
  <2>3. CASE x[1] \notin valid_rids(p) /\ x[1] \notin retracted(p)
    <3>1. x[1] \in active_rids => kv_lens'[x[1]] = kv_lens[x[1]]
      BY <2>3, <1>1 DEF active_rids
    <3> QED BY <2>3, <3>1, <1>8, <1>14, <1>15, <1>16, <1>22
  <2> QED BY <2>1, <2>2, <2>3
<1>24. ASSUME NEW r \in active_rids', NEW c \in Columns
       PROVE  SlotAt(<<r, c>>)' = IF <<r, c>> \in NewPlaces(p) THEN loc[<<r, c>>]
                                  ELSE req_to_token[row[r]][c]
  <2>1. \A x \in NewPlaces(p) : row[x[1]] = row[r] => x[1] = r
    <3>1. \A x \in NewPlaces(p) : x[1] \in active_rids'
      BY <1>8, <1>16
    <3> QED BY <3>1, <1>10
  <2>2. WriteTable(row, loc)[row[r]][c] =
          IF <<r, c>> \in NewPlaces(p) THEN loc[<<r, c>>] ELSE req_to_token[row[r]][c]
    BY <2>1, <1>3, <1>9, <1>18, WriteTableAt
  <2> QED BY <2>2, <1>2 DEF SlotAt
<1>25. ASSUME NEW x \in NewPlaces(p) PROVE SlotAt(x)' = loc[x]
  <2>1. x = <<x[1], x[2]>> /\ x[1] \in active_rids' /\ x[2] \in Columns
    BY <1>8, <1>16
  <2>2. SlotAt(<<x[1], x[2]>>)' = loc[<<x[1], x[2]>>]
    BY <2>1, <1>24
  <2> QED BY <2>1, <2>2
<1>26. ASSUME NEW x \in Held, x \notin O PROVE SlotAt(x)' = SlotAt(x)
  <2>1. x = <<x[1], x[2]>> /\ x[1] \in active_rids /\ x[2] \in Columns
          /\ x[2] <= kv_lens[x[1]] /\ x[1] \in Rids
    BY <1>14 DEF active_rids
  <2>2. x \notin NewPlaces(p)
    BY <2>1, <1>16, PoolAssumption DEF Columns, TypeOK
  <2>3. row[x[1]] = pool_indices[x[1]]
    BY <2>1, <1>4, <1>5 DEF active_rids
  <2>4. SlotAt(<<x[1], x[2]>>)' = req_to_token[pool_indices[x[1]]][x[2]]
    BY <2>1, <2>2, <2>3, <1>8, <1>24
  <2> QED BY <2>1, <2>4 DEF SlotAt
<1> QED
  BY <1>2, <1>3, <1>12, <1>13, <1>17, <1>20, <1>21, <1>23, <1>25, <1>26

\* tree_value_extend preserves the invariant, for prefixes that grow, shrink or
\* appear for the first time in the same call.
LEMMA ExtendInv ==
    ASSUME IInv, NEW p, PrefixArg(p), TreeValueExtend(p)
    PROVE  /\ IInv'
           /\ \A r \in DOMAIN p : Continues(r, p[r]) => CachedPrefix(r)' = p[r]
           /\ \A r \in Rids : CachedPrefix(r)' =
                 IF r \in valid_rids(p)
                 THEN CachedPrefix(r) \o SubSeq(p[r], kv_lens[r] + 1, Len(p[r]))
                 ELSE IF r \in retracted(p) THEN SubSeq(CachedPrefix(r), 1, Len(p[r]))
                 ELSE CachedPrefix(r)
<1> USE DEF IInv
<1>1. /\ phase = "cleaned" /\ phase' = "extended" /\ asked' = p
      /\ kv_lens' = [r \in Rids |-> IF r \in valid_rids(p) \cup retracted(p)
                                    THEN Len(p[r]) ELSE kv_lens[r]]
  BY DEF TreeValueExtend
<1>2. PICK O : O = Places(retracted(p), target_len(p), kv_lens)
  OBVIOUS
<1>3. /\ TypeOK' /\ NoRowShared' /\ O \subseteq Held
      /\ \A b \in ReqSlots : free_slots'[b] = 0
                              => \E r \in active_rids' : pool_indices'[r] = b
      /\ \A x : x \in Held' <=> x \in NewPlaces(p) \/ (x \in Held /\ x \notin O)
      /\ \A x \in Held : x \notin O => SlotAt(x)' = SlotAt(x)
  BY <1>2, ExtendTables
<1>4. PICK loc :
        /\ DOMAIN loc = NewPlaces(p)
        /\ OneSlotEach(loc)
        /\ \A x \in NewPlaces(p) : SlotAt(x)' = loc[x]
        /\ \A x \in NewPlaces(p) : Freed(O)[loc[x]] > 0
        /\ free_pages' = Taken(loc, Freed(O))
        /\ kv' = WriteKv(loc, NewKv(p))
  BY <1>2, ExtendTables
<1>5. \A s \in KvSlots : Freed(O)[s] =
         IF \E x \in O : SlotAt(x) = s THEN 1 ELSE free_pages[s]
  BY <1>3, FreedHeld
<1>6. ASSUME NEW s \in KvSlots
      PROVE  free_pages'[s] = IF \E x \in NewPlaces(p) : loc[x] = s
                              THEN 0 ELSE Freed(O)[s]
  <2>1. Freed(O)[s] \in {0, 1}
    BY <1>5 DEF NoSlotShared, TypeOK
  <2>2. free_pages'[s] = IF \E x \in NewPlaces(p) : loc[x] = s
                         THEN Freed(O)[s] - 1 ELSE Freed(O)[s]
    BY <1>4 DEF Taken
  <2> QED BY <2>1, <2>2, <1>4
<1>7. ASSUME NEW x \in Held, x \notin O
      PROVE  /\ SlotAt(x) \in KvSlots
             /\ Freed(O)[SlotAt(x)] = 0
             /\ \A y \in NewPlaces(p) : loc[y] # SlotAt(x)
  <2>1. SlotAt(x) \in KvSlots /\ free_pages[SlotAt(x)] = 0
    BY DEF NoSlotShared
  <2>2. ~\E y \in O : SlotAt(y) = SlotAt(x)
    BY <1>3, <1>7 DEF NoSlotShared
  <2>3. Freed(O)[SlotAt(x)] = 0
    BY <2>1, <2>2, <1>5
  <2> QED BY <2>1, <2>3, <1>4
<1>8. NoSlotShared'
  <2>1. ASSUME NEW x \in Held'
        PROVE  SlotAt(x)' \in KvSlots /\ free_pages'[SlotAt(x)'] = 0
    <3>1. CASE x \in NewPlaces(p)
      BY <3>1, <1>4, <1>6 DEF OneSlotEach
    <3>2. CASE x \in Held /\ x \notin O
      BY <3>2, <1>3, <1>6, <1>7
    <3> QED BY <3>1, <3>2, <1>3
  <2>2. ASSUME NEW x \in Held', NEW y \in Held', SlotAt(x)' = SlotAt(y)'
        PROVE  x = y
    <3>1. CASE x \in NewPlaces(p) /\ y \in NewPlaces(p)
      BY <3>1, <2>2, <1>4 DEF OneSlotEach
    <3>2. CASE x \in NewPlaces(p) /\ y \in Held /\ y \notin O
      BY <3>2, <2>2, <1>3, <1>4, <1>7
    <3>3. CASE y \in NewPlaces(p) /\ x \in Held /\ x \notin O
      BY <3>3, <2>2, <1>3, <1>4, <1>7
    <3>4. CASE x \in Held /\ x \notin O /\ y \in Held /\ y \notin O
      BY <3>4, <2>2, <1>3 DEF NoSlotShared
    <3> QED BY <3>1, <3>2, <3>3, <3>4, <1>3
  <2>3. ASSUME NEW s \in KvSlots PROVE free_pages'[s] <= 1
    <3>1. Freed(O)[s] \in {0, 1}
      BY <1>5 DEF NoSlotShared, TypeOK
    <3> QED BY <3>1, <1>6
  <2> QED BY <2>1, <2>2, <2>3 DEF NoSlotShared
<1>9. NoLeak'
  <2>1. ASSUME NEW s \in KvSlots, free_pages'[s] = 0
        PROVE  \E x \in Held' : SlotAt(x)' = s
    <3>1. CASE \E x \in NewPlaces(p) : loc[x] = s
      BY <3>1, <1>3, <1>4
    <3>2. CASE ~\E x \in NewPlaces(p) : loc[x] = s
      <4>1. Freed(O)[s] = 0
        BY <2>1, <3>2, <1>6
      <4>2. free_pages[s] = 0 /\ ~\E x \in O : SlotAt(x) = s
        BY <4>1, <1>5
      <4>3. PICK x \in Held : SlotAt(x) = s
        BY <4>2 DEF NoLeak
      <4> QED BY <4>2, <4>3, <1>3
    <3> QED BY <3>1, <3>2
  <2> QED BY <2>1, <1>3 DEF NoLeak
<1>10. /\ \A x \in NewPlaces(p) : kv'[SlotAt(x)'] = NewKv(p)[x]
       /\ \A x \in Held : x \notin O => kv'[SlotAt(x)'] = kv[SlotAt(x)]
  <2>1. Encodings(loc, NewKv(p))
    <3>1. ASSUME NEW x \in NewPlaces(p) PROVE NewKv(p)[x] \in Seq(Tokens)
      <4>1. /\ x[1] \in valid_rids(p) /\ x[2] \in Columns
            /\ kv_lens[x[1]] < x[2] /\ x[2] <= Len(p[x[1]])
        BY ExtendPlaces
      <4>2. /\ x[1] \in Rids /\ x[1] \in DOMAIN p /\ x[2] \in Nat
            /\ kv_lens[x[1]] \in Nat
        BY <4>1 DEF TypeOK, Columns, valid_rids, PrefixArg
      <4>3. p[x[1]] \in Seq(Tokens)
        BY <4>2 DEF PrefixArg
      <4>4. SubSeq(p[x[1]], kv_lens[x[1]] + 1, x[2]) \in Seq(Tokens)
        BY <4>1, <4>2, <4>3, Slice
      <4>5. CachedPrefix(x[1]) \in Seq(Tokens)
        BY <4>2, CachedPrefixType
      <4> QED BY <4>4, <4>5, ConcatProperties DEF NewKv
    <3> QED BY <3>1, <1>4 DEF Encodings
  <2>2. /\ \A x \in DOMAIN loc : WriteKv(loc, NewKv(p))[loc[x]] = NewKv(p)[x]
        /\ \A s \in KvSlots : (\A x \in DOMAIN loc : loc[x] # s)
                               => WriteKv(loc, NewKv(p))[s] = kv[s]
    BY <2>1, <1>4, WriteKvAt
  <2>3. \A x \in NewPlaces(p) : kv'[SlotAt(x)'] = NewKv(p)[x]
    BY <2>2, <1>4
  <2>4. ASSUME NEW x \in Held, x \notin O PROVE kv'[SlotAt(x)'] = kv[SlotAt(x)]
    <3>1. SlotAt(x) \in KvSlots /\ \A y \in NewPlaces(p) : loc[y] # SlotAt(x)
      BY <2>4, <1>7
    <3>2. kv'[SlotAt(x)] = kv[SlotAt(x)]
      BY <3>1, <2>2, <1>4
    <3> QED BY <2>4, <3>2, <1>3
  <2> QED BY <2>3, <2>4
<1>11. ASSUME NEW r \in DOMAIN p
       PROVE  /\ r \in Rids /\ p[r] \in Seq(Tokens) /\ Len(p[r]) \in Nat
              /\ Len(p[r]) >= 1 /\ Len(p[r]) <= MaxLen
              /\ kv_lens[r] \in Nat /\ kv_lens[r] <= MaxLen
              /\ CachedPrefix(r) \in Seq(Tokens) /\ Len(CachedPrefix(r)) = kv_lens[r]
              /\ \A i \in 1 .. kv_lens[r] :
                    <<r, i>> \in Held /\ kv[SlotAt(<<r, i>>)] = SubSeq(CachedPrefix(r), 1, i)
              /\ 1 .. MaxLen \subseteq Columns
  <2>1. /\ r \in Rids /\ p[r] \in Seq(Tokens) /\ Len(p[r]) \in Nat
        /\ Len(p[r]) >= 1 /\ Len(p[r]) <= MaxLen
    BY PoolAssumption DEF PrefixArg, TypeOK
  <2>2. kv_lens[r] \in Nat /\ kv_lens[r] <= MaxLen
    BY <2>1, PoolAssumption DEF TypeOK
  <2>3. CachedPrefix(r) \in Seq(Tokens) /\ Len(CachedPrefix(r)) = kv_lens[r]
    BY <2>1, CachedPrefixType
  <2>4. 1 .. MaxLen \subseteq Columns
    BY PoolAssumption DEF Columns
  <2>5. ASSUME NEW i \in 1 .. kv_lens[r]
        PROVE  <<r, i>> \in Held /\ kv[SlotAt(<<r, i>>)] = SubSeq(CachedPrefix(r), 1, i)
    <3>1. r \in active_rids
      BY <2>1, <2>2 DEF TypeOK, active_rids
    <3>2. i \in Columns /\ i <= kv_lens[r]
      BY <2>2, <2>4, PoolAssumption
    <3> QED BY <3>1, <3>2, HeldPlace DEF CachedKvValid
  <2> QED BY <2>1, <2>2, <2>3, <2>4, <2>5
<1>12. ASSUME NEW r \in valid_rids(p)
       PROVE  /\ Len(CachedPrefix(r)') = kv_lens'[r]
              /\ \A i \in 1 .. kv_lens'[r] :
                    kv'[SlotAt(<<r, i>>)'] = SubSeq(CachedPrefix(r)', 1, i)
              /\ Continues(r, p[r]) => CachedPrefix(r)' = p[r]
              /\ CachedPrefix(r)' =
                    CachedPrefix(r) \o SubSeq(p[r], kv_lens[r] + 1, Len(p[r]))
  <2>1. r \in DOMAIN p /\ kv_lens[r] < Len(p[r])
    BY DEF valid_rids
  <2>2. PICK k \in Nat, n \in Nat, C \in Seq(Tokens), q \in Seq(Tokens) :
           k = kv_lens[r] /\ n = Len(p[r]) /\ C = CachedPrefix(r) /\ q = p[r]
    BY <1>11, <2>1
  <2>3. /\ k \in Nat /\ n \in Nat /\ k < n /\ n <= MaxLen
        /\ C \in Seq(Tokens) /\ q \in Seq(Tokens) /\ Len(C) = k /\ Len(q) = n
        /\ kv_lens'[r] = n
    BY <1>1, <1>11, <2>1, <2>2
  <2>4. ASSUME NEW i \in (k + 1) .. n PROVE <<r, i>> \in NewPlaces(p)
    <3>1. i \in Columns
      BY <2>3, PoolAssumption DEF Columns
    <3>2. kv_lens[r] < i /\ i <= Len(p[r])
      BY <2>2
    <3> QED BY <3>1, <3>2, ExtendPlaces
  <2>5. \A i \in 1 .. k : <<r, i>> \in Held /\ <<r, i>> \notin O
    <3>1. r \notin retracted(p)
      BY <2>1, <2>2, <2>3 DEF retracted
    <3>2. \A i \in 1 .. k : <<r, i>> \in Held
      BY <1>11, <2>1, <2>2
    <3>3. \A i : <<r, i>> \notin O
      BY <1>2, <3>1, ExtendPlaces
    <3> QED BY <3>2, <3>3
  <2>6. ASSUME NEW i \in (k + 1) .. n
        PROVE  kv'[SlotAt(<<r, i>>)'] = C \o SubSeq(q, k + 1, i)
    BY <1>10, <2>2, <2>4 DEF NewKv
  <2>7. ASSUME NEW i \in 1 .. k
        PROVE  kv'[SlotAt(<<r, i>>)'] = SubSeq(C, 1, i)
    BY <1>10, <1>11, <2>1, <2>2, <2>5
  <2>8. CachedPrefix(r)' = C \o SubSeq(q, k + 1, n)
    <3>1. n \in (k + 1) .. n /\ kv_lens'[r] # 0
      BY <2>3
    <3> QED BY <3>1, <2>3, <2>6 DEF CachedPrefix
  <2>9. /\ SubSeq(q, k + 1, n) \in Seq(Tokens)
        /\ Len(SubSeq(q, k + 1, n)) = n - k
        /\ \A j \in 1 .. (n - k) : SubSeq(q, k + 1, n)[j] = q[k + j]
    BY <2>3, Slice
  <2>10. /\ C \o SubSeq(q, k + 1, n) \in Seq(Tokens)
         /\ Len(C \o SubSeq(q, k + 1, n)) = n
         /\ \A j \in 1 .. n : (C \o SubSeq(q, k + 1, n))[j] =
                IF j <= k THEN C[j] ELSE SubSeq(q, k + 1, n)[j - k]
    <3>1. PICK t \in Seq(Tokens) : t = SubSeq(q, k + 1, n) /\ Len(t) = n - k
      BY <2>9
    <3>2. /\ C \o t \in Seq(Tokens) /\ Len(C \o t) = Len(C) + Len(t)
          /\ \A j \in 1 .. Len(C) + Len(t) :
                (C \o t)[j] = IF j <= Len(C) THEN C[j] ELSE t[j - Len(C)]
      BY ConcatProperties
    <3>3. Len(C) + Len(t) = n /\ Len(C) = k
      BY <2>3, <3>1
    <3> QED BY <3>1, <3>2, <3>3
  <2>11. ASSUME NEW i \in 1 .. n
         PROVE  kv'[SlotAt(<<r, i>>)'] = SubSeq(CachedPrefix(r)', 1, i)
    <3>1. CASE i <= k
      <4>1. SubSeq(C \o SubSeq(q, k + 1, n), 1, i) = SubSeq(C, 1, i)
        BY <3>1, <2>3, <2>9, PrefixOfConcat
      <4> QED BY <3>1, <4>1, <2>3, <2>7, <2>8
    <3>2. CASE i > k
      <4>0. i \in Nat /\ Len(C) < i /\ i <= n /\ n <= Len(q) /\ i \in (k + 1) .. n
        BY <3>2, <2>3
      <4>1. SubSeq(C \o SubSeq(q, Len(C) + 1, n), 1, i) = C \o SubSeq(q, Len(C) + 1, i)
        BY <4>0, PrefixOfExtension
      <4> QED BY <4>0, <4>1, <2>3, <2>6, <2>8
    <3>3. i <= k \/ i > k
      OBVIOUS
    <3> QED BY <3>1, <3>2, <3>3
  <2>12. ASSUME Continues(r, p[r]) PROVE CachedPrefix(r)' = p[r]
    <3>1. \A j \in 1 .. k : q[j] = C[j]
      BY <2>2, <2>3, <2>12 DEF Continues
    <3>2. ASSUME NEW j \in 1 .. n PROVE (C \o SubSeq(q, k + 1, n))[j] = q[j]
      <4>1. CASE j <= k
        BY <4>1, <3>1, <2>3, <2>10
      <4>2. CASE ~(j <= k)
        <5>1. j - k \in 1 .. (n - k) /\ k + (j - k) = j
          BY <4>2, <2>3
        <5>2. SubSeq(q, k + 1, n)[j - k] = q[k + (j - k)]
          BY <5>1, <2>9
        <5> QED BY <4>2, <5>1, <5>2, <2>10
      <4> QED BY <4>1, <4>2
    <3>3. C \o SubSeq(q, k + 1, n) = q
      BY <3>2, <2>3, <2>10, SeqEqual
    <3> QED BY <3>3, <2>2, <2>8
  <2>13. CachedPrefix(r)' = CachedPrefix(r) \o SubSeq(p[r], kv_lens[r] + 1, Len(p[r]))
    BY <2>2, <2>8
  <2> QED BY <2>3, <2>8, <2>10, <2>11, <2>12, <2>13
<1>13. ASSUME NEW r \in retracted(p)
       PROVE  /\ Len(CachedPrefix(r)') = kv_lens'[r]
              /\ \A i \in 1 .. kv_lens'[r] :
                    kv'[SlotAt(<<r, i>>)'] = SubSeq(CachedPrefix(r)', 1, i)
              /\ Continues(r, p[r]) => CachedPrefix(r)' = p[r]
              /\ CachedPrefix(r)' = SubSeq(CachedPrefix(r), 1, Len(p[r]))
  <2>1. r \in DOMAIN p /\ Len(p[r]) < kv_lens[r]
    BY DEF retracted
  <2>2. PICK n, C, q : n = Len(p[r]) /\ C = CachedPrefix(r) /\ q = p[r]
    OBVIOUS
  <2>3. /\ n \in Nat /\ n >= 1 /\ kv_lens[r] \in Nat /\ n < kv_lens[r]
        /\ C \in Seq(Tokens) /\ Len(C) = kv_lens[r]
        /\ q \in Seq(Tokens) /\ Len(q) = n /\ kv_lens'[r] = n
    BY <1>1, <1>11, <2>1, <2>2
  <2>4. ASSUME NEW i \in 1 .. n
        PROVE  kv'[SlotAt(<<r, i>>)'] = SubSeq(C, 1, i)
    <3>1. <<r, i>> \in Held /\ kv[SlotAt(<<r, i>>)] = SubSeq(C, 1, i)
      BY <1>11, <2>1, <2>2, <2>3
    <3>2. <<r, i>> \notin O
      BY <1>2, <2>2, <2>3, ExtendPlaces
    <3> QED BY <3>1, <3>2, <1>10
  <2>5. CachedPrefix(r)' = SubSeq(C, 1, n)
    BY <2>3, <2>4 DEF CachedPrefix
  <2>6. /\ Len(SubSeq(C, 1, n)) = n /\ SubSeq(C, 1, n) \in Seq(Tokens)
        /\ \A j \in 1 .. n : SubSeq(C, 1, n)[j] = C[j]
        /\ \A i \in 1 .. n : SubSeq(SubSeq(C, 1, n), 1, i) = SubSeq(C, 1, i)
    BY <2>3, PrefixOfPrefix
  <2>7. ASSUME Continues(r, p[r]) PROVE CachedPrefix(r)' = p[r]
    <3>1. \A j \in 1 .. n : q[j] = C[j]
      BY <2>2, <2>3, <2>7 DEF Continues
    <3>2. SubSeq(C, 1, n) = q
      BY <3>1, <2>3, <2>6, SeqEqual
    <3> QED BY <3>2, <2>2, <2>5
  <2>8. CachedPrefix(r)' = SubSeq(CachedPrefix(r), 1, Len(p[r]))
    BY <2>2, <2>5
  <2> QED BY <2>3, <2>4, <2>5, <2>6, <2>7, <2>8
<1>14. ASSUME NEW r \in Rids, r \notin valid_rids(p), r \notin retracted(p)
       PROVE  /\ kv_lens'[r] = kv_lens[r] /\ CachedPrefix(r)' = CachedPrefix(r)
              /\ \A i \in 1 .. kv_lens[r] :
                    kv'[SlotAt(<<r, i>>)'] = kv[SlotAt(<<r, i>>)]
  <2>1. kv_lens'[r] = kv_lens[r] /\ kv_lens[r] \in 0 .. MaxLen
    BY <1>1, <1>14 DEF TypeOK
  <2>2. ASSUME NEW i \in 1 .. kv_lens[r]
        PROVE  kv'[SlotAt(<<r, i>>)'] = kv[SlotAt(<<r, i>>)]
    <3>1. r \in active_rids
      BY <2>1 DEF TypeOK, active_rids
    <3>2. i \in Columns /\ i <= kv_lens[r]
      BY <2>1, PoolAssumption DEF Columns
    <3>3. <<r, i>> \in Held
      BY <3>1, <3>2, HeldPlace
    <3>4. <<r, i>> \notin O
      BY <1>2, <1>14, ExtendPlaces
    <3> QED BY <3>3, <3>4, <1>10
  <2>3. CachedPrefix(r)' = CachedPrefix(r)
    <3>1. CASE kv_lens[r] = 0
      BY <3>1, <2>1 DEF CachedPrefix
    <3>2. CASE kv_lens[r] # 0
      <4>1. kv_lens[r] \in 1 .. kv_lens[r]
        BY <3>2, <2>1
      <4> QED BY <3>2, <4>1, <2>1, <2>2 DEF CachedPrefix
    <3> QED BY <3>1, <3>2
  <2> QED BY <2>1, <2>2, <2>3
<1>15. CachedKvValid'
  <2> SUFFICES ASSUME NEW r \in active_rids'
               PROVE  /\ Len(CachedPrefix(r)') = kv_lens'[r]
                      /\ \A i \in 1 .. kv_lens'[r] :
                           kv'[SlotAt(<<r, i>>)'] = SubSeq(CachedPrefix(r)', 1, i)
    BY DEF CachedKvValid
  <2>1. r \in Rids
    BY DEF active_rids
  <2>2. CASE r \notin valid_rids(p) /\ r \notin retracted(p)
    <3>1. Len(CachedPrefix(r)) = kv_lens[r]
      BY <2>1, CachedPrefixType
    <3>2. ASSUME NEW i \in 1 .. kv_lens[r]
          PROVE  kv[SlotAt(<<r, i>>)] = SubSeq(CachedPrefix(r), 1, i)
      <4>1. r \in active_rids
        BY <2>1 DEF TypeOK, active_rids
      <4> QED BY <4>1 DEF CachedKvValid
    <3> QED BY <2>1, <2>2, <3>1, <3>2, <1>14
  <2> QED BY <2>2, <1>12, <1>13
<1>16. ASSUME NEW r \in DOMAIN p
       PROVE  r \in active_rids' /\ kv_lens'[r] = Len(p[r])
  <2>1. r \in Rids /\ kv_lens[r] \in Nat /\ Len(p[r]) \in Nat /\ Len(p[r]) >= 1
    BY <1>11
  <2>2. kv_lens'[r] = Len(p[r])
    BY <2>1, <1>1 DEF valid_rids, retracted
  <2> QED BY <2>1, <2>2, <1>3 DEF TypeOK, active_rids
<1>17. ASSUME NEW r \in DOMAIN p, Continues(r, p[r]) PROVE CachedPrefix(r)' = p[r]
  <2>1. CASE r \in valid_rids(p) \/ r \in retracted(p)
    BY <2>1, <1>12, <1>13, <1>17
  <2>2. CASE r \notin valid_rids(p) /\ r \notin retracted(p)
    <3>1. kv_lens[r] = Len(p[r])
      BY <2>2, <1>11 DEF valid_rids, retracted
    <3>2. \A j \in 1 .. Len(p[r]) : p[r][j] = CachedPrefix(r)[j]
      BY <3>1, <1>11, <1>17 DEF Continues
    <3>3. CachedPrefix(r) = p[r]
      BY <3>1, <3>2, <1>11, SeqEqual
    <3> QED BY <3>3, <2>2, <1>11, <1>14
  <2> QED BY <2>1, <2>2
<1>18. ASSUME NEW r \in Rids
       PROVE  CachedPrefix(r)' =
                 IF r \in valid_rids(p)
                 THEN CachedPrefix(r) \o SubSeq(p[r], kv_lens[r] + 1, Len(p[r]))
                 ELSE IF r \in retracted(p) THEN SubSeq(CachedPrefix(r), 1, Len(p[r]))
                 ELSE CachedPrefix(r)
  BY <1>12, <1>13, <1>14
<1> QED
  BY <1>1, <1>3, <1>8, <1>9, <1>15, <1>16, <1>17, <1>18
     DEF EvalSeesAskedLength, AskedOnlyExtended

----------------------------------------------------------------------------
(* The theorems.                                                           *)

\* The prefixes Next passes to tree_value_extend.
LEMMA PrefixArgs ==
    ASSUME NEW R \in SUBSET batch,
           NEW p \in [R -> UNION {[1 .. k -> Tokens] : k \in 1 .. MaxLen}]
    PROVE  PrefixArg(p)
<1>1. ASSUME NEW r \in R
      PROVE  p[r] \in Seq(Tokens) /\ Len(p[r]) \in 1 .. MaxLen
  <2>1. PICK k \in 1 .. MaxLen : p[r] \in [1 .. k -> Tokens]
    OBVIOUS
  <2>2. k \in Nat
    BY PoolAssumption
  <2>3. p[r] \in Seq(Tokens) /\ Len(p[r]) = k
    BY <2>1, <2>2
  <2> QED BY <2>1, <2>3
<1> QED BY <1>1 DEF PrefixArg

\* The steps that change no table.
LEMMA QuietInv ==
    ASSUME IInv,
           \/ NothingToSend \/ ExtendFails \/ UNCHANGED vars
           \/ \E n \in [DOMAIN asked -> 1 .. MaxCands] : EvalOom(n)
    PROVE  IInv' /\ UNCHANGED tables
<1>1. /\ UNCHANGED <<tables, batch, asked>>
      /\ \/ phase' = phase
         \/ phase = "cleaned" /\ phase' \in {"idle", "dead"}
         \/ phase = "extended" /\ phase' = "dead"
  BY DEF NothingToSend, ExtendFails, EvalOom, vars
<1>2. active_rids' = active_rids /\ Held' = Held /\ \A x : SlotAt(x)' = SlotAt(x)
  BY <1>1 DEF tables, active_rids, Held, Places, Columns, SlotAt
<1>3. \A r : CachedPrefix(r)' = CachedPrefix(r)
  BY <1>1, <1>2 DEF tables, CachedPrefix
<1>4. TypeOK'
  BY <1>1 DEF IInv, TypeOK, tables, Columns
<1>5. NoSlotShared' /\ NoRowShared' /\ NoLeak'
  BY <1>1, <1>2 DEF IInv, tables, NoSlotShared, NoRowShared, NoLeak
<1>6. CachedKvValid'
  BY <1>1, <1>2, <1>3 DEF IInv, tables, CachedKvValid
<1> QED
  BY <1>1, <1>2, <1>4, <1>5, <1>6
     DEF IInv, tables, EvalSeesAskedLength, AskedOnlyExtended

\* Every step preserves the inductive invariant, whatever the caller asks for.
LEMMA NextInv == IInv /\ [Next]_vars => IInv'
<1> SUFFICES ASSUME IInv, [Next]_vars PROVE IInv'
  OBVIOUS
<1>1. ASSUME NEW rids \in SUBSET Rids, CleanStale(rids) PROVE IInv'
  BY <1>1, CleanStaleInv
<1>2. ASSUME NEW R \in (SUBSET batch) \ {{}},
             NEW p \in [R -> UNION {[1 .. k -> Tokens] : k \in 1 .. MaxLen}],
             TreeValueExtend(p)
      PROVE  IInv'
  BY <1>2, PrefixArgs, ExtendInv
<1>3. ASSUME NEW n \in [DOMAIN asked -> 1 .. MaxCands], EvalCandidates(n)
      PROVE  IInv'
  BY <1>3, EvalCandidatesInv
<1> QED
  BY <1>1, <1>2, <1>3, QuietInv DEF Next

\* The inductive invariant holds in every reachable state.
THEOREM Inductive == Spec => []IInv
BY InitInv, NextInv, PTL DEF Spec

\* The tables always have the shape the code's dicts and tensors have.
THEOREM TypeCorrect == Spec => []TypeOK
<1>1. IInv => TypeOK
  BY DEF IInv
<1> QED BY <1>1, Inductive, PTL

\* No KV slot is cached by two places or on the free list while it is in use,
\* for any number of requests, rows and slots and any calls of the sampler.
THEOREM SlotsSafe == Spec => []NoSlotShared
<1>1. IInv => NoSlotShared
  BY DEF IInv
<1> QED BY <1>1, Inductive, PTL

\* No row of req_to_token belongs to two requests or is free while it is in use.
THEOREM RowsSafe == Spec => []NoRowShared
<1>1. IInv => NoRowShared
  BY DEF IInv
<1> QED BY <1>1, Inductive, PTL

\* Every slot and every row is free or in use: release, retract and
\* eval_candidates_batch give back all they took.
THEOREM NothingLeaks == Spec => []NoLeak
<1>1. IInv => NoLeak
  BY DEF IInv
<1> QED BY <1>1, Inductive, PTL

\* LvmKvManager's documented invariant: the first kv_lens[rid] columns of a
\* request's row hold the KV of one prefix of that length.
THEOREM KvValid == Spec => []CachedKvValid
<1>1. IInv => CachedKvValid
  BY DEF IInv
<1> QED BY <1>1, Inductive, PTL

\* eval_candidates_batch's documented assumption always holds when it runs.
THEOREM AskedLength == Spec => []EvalSeesAskedLength
<1>1. IInv => EvalSeesAskedLength
  BY DEF IInv
<1> QED BY <1>1, Inductive, PTL

\* A prefix that continues or rolls back what is cached is what the cache
\* holds when the candidates are evaluated.
THEOREM ReachesPrefix == Spec => ExtendReachesPrefix
<1> DEFINE A == phase = "cleaned" /\ phase' = "extended" =>
                  \A r \in DOMAIN asked' :
                     Continues(r, asked'[r]) => CachedPrefix(r)' = asked'[r]
<1>1. IInv /\ [Next]_vars => [A]_vars
  <2> SUFFICES ASSUME IInv, Next, phase = "cleaned", phase' = "extended"
               PROVE  A
    OBVIOUS
  <2>0. PICK R \in (SUBSET batch) \ {{}} :
           \E p \in [R -> UNION {[1 .. k -> Tokens] : k \in 1 .. MaxLen}] :
              TreeValueExtend(p)
    BY DEF Next, CleanStale, NothingToSend, EvalCandidates, ExtendFails, EvalOom
  <2>1. PICK p \in [R -> UNION {[1 .. k -> Tokens] : k \in 1 .. MaxLen}] :
           TreeValueExtend(p)
    BY <2>0
  <2>2. PrefixArg(p)
    BY PrefixArgs
  <2>3. asked' = p
    BY <2>1 DEF TreeValueExtend
  <2>4. \A r \in DOMAIN p : Continues(r, p[r]) => CachedPrefix(r)' = p[r]
    BY <2>1, <2>2, ExtendInv
  <2> QED BY <2>3, <2>4
<1> QED BY <1>1, Inductive, PTL DEF Spec, ExtendReachesPrefix

\* Evaluating candidates changes no cached prefix and no free list.
THEOREM EvalPure == Spec => EvalLeavesCacheAlone
<1> DEFINE A == phase = "extended" =>
                  /\ \A r \in Rids : CachedPrefix(r)' = CachedPrefix(r)
                  /\ free_pages' = free_pages /\ free_slots' = free_slots
<1>1. IInv /\ [Next]_vars => [A]_vars
  <2> SUFFICES ASSUME IInv, Next, phase = "extended"
               PROVE  A
    OBVIOUS
  <2>1. CASE \E n \in [DOMAIN asked -> 1 .. MaxCands] : EvalCandidates(n)
    BY <2>1, EvalCandidatesInv DEF EvalCandidates
  <2>2. CASE \E n \in [DOMAIN asked -> 1 .. MaxCands] : EvalOom(n)
    BY <2>2 DEF EvalOom, tables, CachedPrefix, SlotAt
  <2> QED
    BY <2>1, <2>2 DEF Next, CleanStale, NothingToSend, TreeValueExtend, ExtendFails
<1> QED BY <1>1, Inductive, PTL DEF Spec, EvalLeavesCacheAlone
=============================================================================
