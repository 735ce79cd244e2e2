--------------------------- MODULE LvmStoreProofs ---------------------------
(***************************************************************************)
(* LvmKvPool implements LvmPrefixStore, for any requests and tokens and    *)
(* pools of any finite size: a call succeeds exactly when the store has    *)
(* room, and does to the cached prefixes what the store says.              *)
(***************************************************************************)
EXTENDS LvmKvPoolProofs, FunctionTheorems

----------------------------------------------------------------------------
(* Counting.                                                               *)

Used == {s \in KvSlots : free_pages[s] = 0}
Free == {s \in KvSlots : free_pages[s] > 0}

\* The used slots are those of the cached tokens, one for each.
LEMMA HeldCount ==
    ASSUME IInv
    PROVE  /\ IsFiniteSet(Held)
           /\ Cardinality(Held) = Cardinality(Used)
<1> DEFINE f == [x \in Held |-> SlotAt(x)]
<1>1. f \in [Held -> Used]
  BY DEF IInv, NoSlotShared, Used
<1>2. \A x, y \in Held : f[x] = f[y] => x = y
  BY DEF IInv, NoSlotShared
<1>3. \A s \in Used : \E x \in Held : f[x] = s
  BY DEF IInv, NoLeak, Used
<1> HIDE DEF f
<1>4. f \in Bijection(Held, Used)
  BY <1>1, <1>2, <1>3, Fun_IsInj, Fun_IsSurj DEF Bijection
<1>5. IsFiniteSet(Used)
  BY PoolsFinite, FS_Subset DEF Used
<1>6. ExistsBijection(Held, Used)
  BY <1>4 DEF ExistsBijection
<1>7. ExistsBijection(Used, Held)
  BY <1>6, Fun_ExistsBijSymmetric
<1> QED
  BY <1>5, <1>7, FS_Bijection

\* A slot is used or free.
LEMMA FreeCount ==
    ASSUME IInv
    PROVE  /\ IsFiniteSet(Free)
           /\ Cardinality(KvSlots) = Cardinality(Held) + Cardinality(Free)
<1>1. IsFiniteSet(Used) /\ IsFiniteSet(Free)
  BY PoolsFinite, FS_Subset DEF Used, Free
<1>2. KvSlots = Used \cup Free /\ Used \cap Free = {}
  BY DEF Used, Free, IInv, TypeOK
<1>3. Cardinality(Used \cup Free) = Cardinality(Used) + Cardinality(Free) - Cardinality({})
  BY <1>1, <1>2, FS_Union
<1>4. Cardinality(Used) \in Nat /\ Cardinality(Free) \in Nat
  BY <1>1, FS_CardinalityType
<1> QED
  BY <1>1, <1>2, <1>3, <1>4, HeldCount, FS_EmptySet

\* A set no larger than another one can be mapped into it one to one.
LEMMA Embedding ==
    ASSUME NEW S, NEW T, IsFiniteSet(S), IsFiniteSet(T), Cardinality(S) <= Cardinality(T)
    PROVE  \E f \in [S -> T] : \A x, y \in S : f[x] = f[y] => x = y
<1> DEFINE m == Cardinality(S)
           n == Cardinality(T)
<1>1. /\ m \in Nat /\ n \in Nat
      /\ ExistsBijection(1 .. m, S) /\ ExistsBijection(1 .. n, T)
  BY FS_CardinalityType
<1>2. ExistsBijection(S, 1 .. m)
  BY <1>1, Fun_ExistsBijSymmetric
<1>0. m <= n
  OBVIOUS
<1> HIDE DEF m, n
<1>3. PICK f : f \in Bijection(S, 1 .. m)
  BY <1>2 DEF ExistsBijection
<1>4. PICK g : g \in Bijection(1 .. n, T)
  BY <1>1 DEF ExistsBijection
<1>5. f \in [S -> 1 .. m] /\ \A x, y \in S : f[x] = f[y] => x = y
  BY <1>3, Fun_BijectionProperties, Zenon
<1>6. g \in [1 .. n -> T] /\ \A i, j \in 1 .. n : g[i] = g[j] => i = j
  BY <1>4, Fun_BijectionProperties, Zenon
<1>7. 1 .. m \subseteq 1 .. n
  BY <1>0, <1>1
<1>8. \A x \in S : f[x] \in 1 .. n
  BY <1>5, <1>7
<1> DEFINE h == [x \in S |-> g[f[x]]]
<1>9. h \in [S -> T] /\ \A x, y \in S : h[x] = h[y] => x = y
  BY <1>5, <1>6, <1>8
<1> QED
  BY <1>9

\* Slots can be allocated for the places P just when there are enough of them.
LEMMA AllocationFits ==
    ASSUME IInv, NEW P, IsFiniteSet(P)
    PROVE  Allocations(P, free_pages) # {} <=> Cardinality(P) <= Cardinality(Free)
<1>1. IsFiniteSet(Free)
  BY FreeCount
<1>2. ASSUME NEW loc \in Allocations(P, free_pages)
      PROVE  Cardinality(P) <= Cardinality(Free)
  <2>1. loc \in [P -> Free] /\ \A x, y \in P : loc[x] = loc[y] => x = y
    BY DEF Allocations, Free
  <2>2. loc \in Injection(P, Free)
    BY <2>1, Fun_IsInj
  <2> QED
    BY <1>1, <2>2, FS_Injection
<1>3. ASSUME Cardinality(P) <= Cardinality(Free)
      PROVE  Allocations(P, free_pages) # {}
  <2>1. PICK f \in [P -> Free] : \A x, y \in P : f[x] = f[y] => x = y
    BY <1>1, <1>3, Embedding
  <2>2. f \in Allocations(P, free_pages)
    BY <2>1 DEF Allocations, Free
  <2> QED
    BY <2>2
<1> QED
  BY <1>2, <1>3

\* Every request with a cached prefix has a row of its own.
LEMMA RowsFit ==
    ASSUME IInv
    PROVE  /\ IsFiniteSet(active_rids)
           /\ Cardinality({r \in Rids : CachedPrefix(r) # <<>>}) <= Cardinality(ReqSlots)
<1> DEFINE f == [r \in active_rids |-> pool_indices[r]]
           C == {r \in Rids : CachedPrefix(r) # <<>>}
<1>1. f \in [active_rids -> ReqSlots]
  BY DEF IInv, TypeOK, active_rids
<1>2. \A r, q \in active_rids : f[r] = f[q] => r = q
  BY DEF IInv, NoRowShared
<1> HIDE DEF f
<1>3. f \in Injection(active_rids, ReqSlots)
  BY <1>1, <1>2, Fun_IsInj
<1>4. IsFiniteSet(active_rids) /\ Cardinality(active_rids) <= Cardinality(ReqSlots)
  BY <1>3, PoolsFinite, FS_Injection
<1>5. C \subseteq active_rids
  BY DEF C, CachedPrefix, active_rids, IInv, TypeOK
<1>6. Cardinality(C) <= Cardinality(active_rids) /\ IsFiniteSet(C)
  BY <1>4, <1>5, FS_Subset
<1>7. /\ Cardinality(C) \in Nat /\ Cardinality(active_rids) \in Nat
      /\ Cardinality(ReqSlots) \in Nat
  BY <1>4, <1>6, PoolsFinite, FS_CardinalityType
<1> QED
  BY <1>4, <1>6, <1>7

----------------------------------------------------------------------------
(* The store's entries.                                                    *)

Cached == [r \in Rids |-> CachedPrefix(r)]

\* The store's module counts as this one does.
LEMMA SameCount == \A S : Store!Cardinality(S) = Cardinality(S)
BY DEF Store!Cardinality, Cardinality

\* The entries of the cached prefixes are the held places.
LEMMA HeldEntries ==
    ASSUME IInv
    PROVE  Store!Entries(Cached, [r \in Rids |-> 0]) = Held
<1> SUFFICES ASSUME NEW x
             PROVE  x \in Store!Entries(Cached, [r \in Rids |-> 0]) <=> x \in Held
  OBVIOUS
<1>1. x \in Held <=> /\ x = <<x[1], x[2]>> /\ x[1] \in active_rids
                     /\ x[2] \in Columns /\ x[2] <= kv_lens[x[1]]
  BY HeldPlace DEF IInv
<1>2. \A r \in Rids : /\ Len(Cached[r]) = kv_lens[r] /\ kv_lens[r] \in Nat
                      /\ kv_lens[r] > 0 => r \in active_rids
  BY CachedPrefixType, PoolAssumption DEF IInv, TypeOK, active_rids, Cached
<1>3. x \in Store!Entries(Cached, [r \in Rids |-> 0]) <=>
         /\ x = <<x[1], x[2]>> /\ x[1] \in Rids /\ x[2] \in Columns
         /\ x[2] <= Len(Cached[x[1]]) + 0
  BY DEF Store!Entries, Columns
<1>4. Columns \subseteq Nat \ {0}
  BY PoolAssumption DEF Columns
<1> QED
  BY <1>1, <1>2, <1>3, <1>4 DEF active_rids

\* With room for candidates, they are those and the candidates' places.
LEMMA CandEntries ==
    ASSUME IInv, phase = "extended", NEW n \in [DOMAIN asked -> 1 .. MaxCands]
    PROVE  /\ Store!Entries(Cached, Store!Room(n)) = Held \cup CandPlaces(n)
           /\ Held \cap CandPlaces(n) = {}
           /\ IsFiniteSet(CandPlaces(n))
<1>1. \A r \in Rids : /\ Len(Cached[r]) = kv_lens[r] /\ kv_lens[r] \in Nat
                      /\ kv_lens[r] > 0 => r \in active_rids
  BY CachedPrefixType, PoolAssumption DEF IInv, TypeOK, active_rids, Cached
<1>2. DOMAIN asked \subseteq active_rids /\ active_rids \subseteq Rids
  BY DEF IInv, EvalSeesAskedLength, active_rids
<1>3. Columns \subseteq Nat \ {0}
  BY PoolAssumption DEF Columns
<1>4. ASSUME NEW x
      PROVE  /\ x \in Held <=> /\ x = <<x[1], x[2]>> /\ x[1] \in active_rids
                               /\ x[2] \in Columns /\ x[2] <= kv_lens[x[1]]
             /\ x \in CandPlaces(n) <=>
                  /\ x = <<x[1], x[2]>> /\ x[1] \in DOMAIN asked /\ x[2] \in Columns
                  /\ kv_lens[x[1]] < x[2] /\ x[2] <= kv_lens[x[1]] + n[x[1]]
             /\ x \in Store!Entries(Cached, Store!Room(n)) <=>
                  /\ x = <<x[1], x[2]>> /\ x[1] \in Rids /\ x[2] \in Columns
                  /\ x[2] <= Len(Cached[x[1]])
                             + (IF x[1] \in DOMAIN asked THEN n[x[1]] ELSE 0)
  <2>1. x \in Held <=> /\ x = <<x[1], x[2]>> /\ x[1] \in active_rids
                       /\ x[2] \in Columns /\ x[2] <= kv_lens[x[1]]
    BY HeldPlace DEF IInv
  <2>2. x \in CandPlaces(n) <=>
          /\ x = <<x[1], x[2]>> /\ x[1] \in DOMAIN asked /\ x[2] \in Columns
          /\ kv_lens[x[1]] < x[2] /\ x[2] <= kv_lens[x[1]] + n[x[1]]
    BY DEF CandPlaces, Places
  <2>3. x \in Store!Entries(Cached, Store!Room(n)) <=>
          /\ x = <<x[1], x[2]>> /\ x[1] \in Rids /\ x[2] \in Columns
          /\ x[2] <= Len(Cached[x[1]]) + (IF x[1] \in DOMAIN asked THEN n[x[1]] ELSE 0)
    BY DEF Store!Entries, Store!Room, Columns
  <2> QED
    BY <2>1, <2>2, <2>3
<1>5. \A r \in DOMAIN asked : n[r] \in Nat
  OBVIOUS
<1>6. ASSUME NEW x
      PROVE  x \in Store!Entries(Cached, Store!Room(n)) <=> x \in Held \cup CandPlaces(n)
  <2>1. CASE x = <<x[1], x[2]>> /\ x[1] \in Rids /\ x[2] \in Columns
    <3>1. /\ Len(Cached[x[1]]) = kv_lens[x[1]] /\ kv_lens[x[1]] \in Nat
          /\ kv_lens[x[1]] > 0 => x[1] \in active_rids
          /\ x[2] \in Nat /\ x[2] > 0
          /\ x[1] \in DOMAIN asked => n[x[1]] \in Nat
      BY <1>1, <1>3, <1>5, <2>1
    <3> QED
      BY <1>2, <1>4, <2>1, <3>1
  <2>2. CASE ~(x = <<x[1], x[2]>> /\ x[1] \in Rids /\ x[2] \in Columns)
    BY <1>2, <1>4, <2>2
  <2> QED
    BY <2>1, <2>2
<1>7. ASSUME NEW x \in Held, x \in CandPlaces(n) PROVE FALSE
  <2>1. /\ x[1] \in Rids /\ x[2] \in Columns /\ x[2] <= kv_lens[x[1]]
        /\ kv_lens[x[1]] < x[2]
    BY <1>2, <1>4, <1>7
  <2>2. kv_lens[x[1]] \in Nat /\ x[2] \in Nat
    BY <1>1, <1>3, <2>1
  <2> QED
    BY <2>1, <2>2
<1>8. IsFiniteSet(active_rids \X Columns)
  <2>1. IsFiniteSet(Columns)
    BY PoolAssumption, FS_Interval DEF Columns
  <2> QED
    BY <2>1, RowsFit, FS_Product
<1>9. CandPlaces(n) \subseteq active_rids \X Columns
  BY <1>2 DEF CandPlaces, Places
<1>10. IsFiniteSet(CandPlaces(n))
  BY <1>8, <1>9, FS_Subset
<1> QED
  BY <1>6, <1>7, <1>10

\* The prefixes that are cached always fit.
LEMMA CachedFits ==
    ASSUME IInv
    PROVE  Store!Fits(Cached, [r \in Rids |-> 0])
<1>1. {r \in Rids : Cached[r] # <<>>} = {r \in Rids : CachedPrefix(r) # <<>>}
  BY DEF Cached
<1>2. Cardinality(Held) <= Cardinality(KvSlots)
  <2>1. Cardinality(Held) \in Nat /\ Cardinality(Free) \in Nat
    BY HeldCount, FreeCount, FS_CardinalityType
  <2> QED
    BY <2>1, FreeCount
<1>3. Store!Fits(Cached, [r \in Rids |-> 0]) <=>
         /\ Cardinality({r \in Rids : Cached[r] # <<>>}) <= Cardinality(ReqSlots)
         /\ Cardinality(Store!Entries(Cached, [r \in Rids |-> 0])) <= Cardinality(KvSlots)
  BY SameCount DEF Store!Fits
<1>4. Store!Entries(Cached, [r \in Rids |-> 0]) = Held
  BY HeldEntries
<1>5. Cardinality({r \in Rids : CachedPrefix(r) # <<>>}) <= Cardinality(ReqSlots)
  BY RowsFit
<1> QED
  BY <1>1, <1>2, <1>3, <1>4, <1>5

\* Candidates get their slots just when the store has room for them.
LEMMA CandidatesFit ==
    ASSUME IInv, phase = "extended", NEW n \in [DOMAIN asked -> 1 .. MaxCands]
    PROVE  Allocations(CandPlaces(n), free_pages) # {} <=> Store!Fits(Cached, Store!Room(n))
<1>1. {r \in Rids : Cached[r] # <<>>} = {r \in Rids : CachedPrefix(r) # <<>>}
  BY DEF Cached
<1>2. /\ Cardinality(Held) \in Nat /\ Cardinality(Free) \in Nat
      /\ Cardinality(CandPlaces(n)) \in Nat
  BY HeldCount, FreeCount, CandEntries, FS_CardinalityType
<1>3. Cardinality(Held \cup CandPlaces(n)) = Cardinality(Held) + Cardinality(CandPlaces(n))
  BY <1>2, HeldCount, CandEntries, FS_Union, FS_EmptySet
<1>4. Store!Fits(Cached, Store!Room(n)) <=>
         Cardinality(Held) + Cardinality(CandPlaces(n)) <= Cardinality(KvSlots)
  <2>1. Store!Fits(Cached, Store!Room(n)) <=>
         /\ Cardinality({r \in Rids : Cached[r] # <<>>}) <= Cardinality(ReqSlots)
         /\ Cardinality(Store!Entries(Cached, Store!Room(n))) <= Cardinality(KvSlots)
    BY SameCount DEF Store!Fits
  <2>2. Store!Entries(Cached, Store!Room(n)) = Held \cup CandPlaces(n)
    BY CandEntries
  <2>3. Cardinality({r \in Rids : CachedPrefix(r) # <<>>}) <= Cardinality(ReqSlots)
    BY RowsFit
  <2> QED
    BY <1>1, <1>3, <2>1, <2>2, <2>3
<1>5. Allocations(CandPlaces(n), free_pages) # {} <=>
         Cardinality(CandPlaces(n)) <= Cardinality(Free)
  BY CandEntries, AllocationFits
<1> QED
  BY <1>2, <1>4, <1>5, FreeCount

----------------------------------------------------------------------------
(* The steps.                                                              *)

\* Empty pools are an empty store.
LEMMA InitStore == Init => Store!StoreInit
<1> SUFFICES ASSUME Init PROVE Store!StoreInit
  OBVIOUS
<1>1. \A r \in Rids : CachedPrefix(r) = <<>>
  BY DEF Init, CachedPrefix
<1> QED
  BY <1>1 DEF Init, NoPrefixes, Store!StoreInit

\* Releasing a request forgets its prefix, and no other one.
LEMMA CleanStore ==
    ASSUME IInv, NEW rids \in SUBSET Rids, CleanStale(rids)
    PROVE  Store!Clean(rids)
<1>1. /\ phase = "idle" /\ phase' = "cleaned" /\ batch' = rids /\ asked' = asked
      /\ pool_indices' = [r \in Rids |->
            IF r \in active_rids \ rids THEN NoSlot ELSE pool_indices[r]]
      /\ kv_lens' = [r \in Rids |-> IF r \in active_rids \ rids THEN 0 ELSE kv_lens[r]]
      /\ req_to_token' = req_to_token /\ kv' = kv
  BY DEF CleanStale
<1>2. ASSUME NEW r \in Rids
      PROVE  CachedPrefix(r)' = IF r \in rids THEN CachedPrefix(r) ELSE <<>>
  <2>1. CASE r \in active_rids \ rids
    <3>1. kv_lens'[r] = 0
      BY <1>1, <2>1
    <3> QED
      BY <2>1, <3>1 DEF CachedPrefix
  <2>2. CASE r \notin active_rids \ rids
    <3>1. kv_lens'[r] = kv_lens[r] /\ pool_indices'[r] = pool_indices[r]
      BY <1>1, <2>2
    <3>2. CachedPrefix(r)' = CachedPrefix(r)
      BY <1>1, <3>1 DEF CachedPrefix, SlotAt
    <3>3. r \notin rids => CachedPrefix(r) = <<>>
      BY <2>2 DEF CachedPrefix, active_rids, IInv, TypeOK
    <3> QED
      BY <3>2, <3>3
  <2> QED
    BY <2>1, <2>2
<1> QED
  BY <1>1, <1>2 DEF Store!Clean

\* What is cached after a step fits as well.
LEMMA NextFits == IInv' => Store!Fits(Cached', [r \in Rids |-> 0])
<1>1. IInv => Store!Fits(Cached, [r \in Rids |-> 0])
  BY CachedFits
<1>2. IInv' => Store!Fits(Cached, [r \in Rids |-> 0])'
  BY <1>1, PTL
<1> QED
  BY <1>2 DEF Store!Fits, Store!Entries

\* An extend resumes each prefix it was asked for, and what it leaves fits.
LEMMA ExtendStore ==
    ASSUME IInv, NEW p, PrefixArg(p), TreeValueExtend(p)
    PROVE  Store!Extend(p)
<1>1. /\ phase = "cleaned" /\ phase' = "extended" /\ asked' = p /\ batch' = batch
  BY DEF TreeValueExtend
<1>2. IInv'
  BY ExtendInv
<1>3. ASSUME NEW r \in Rids
      PROVE  CachedPrefix(r)' = IF r \in DOMAIN p THEN Store!Resume(CachedPrefix(r), p[r])
                                                  ELSE CachedPrefix(r)
  <2>0. CachedPrefix(r)' =
           IF r \in valid_rids(p)
           THEN CachedPrefix(r) \o SubSeq(p[r], kv_lens[r] + 1, Len(p[r]))
           ELSE IF r \in retracted(p) THEN SubSeq(CachedPrefix(r), 1, Len(p[r]))
           ELSE CachedPrefix(r)
    BY ExtendInv
  <2>1. /\ CachedPrefix(r) \in Seq(Tokens) /\ Len(CachedPrefix(r)) = kv_lens[r]
        /\ kv_lens[r] \in Nat
    BY CachedPrefixType, PoolAssumption DEF IInv, TypeOK
  <2>2. CASE r \notin DOMAIN p
    BY <2>0, <2>2 DEF valid_rids, retracted
  <2>3. CASE r \in DOMAIN p
    <3>1. Len(p[r]) \in Nat /\ Len(p[r]) >= 1
      BY <2>3, PoolAssumption DEF PrefixArg
    <3>2. CASE Len(p[r]) > kv_lens[r]
      BY <2>0, <2>1, <2>3, <3>2 DEF valid_rids, Store!Resume
    <3>3. CASE Len(p[r]) < kv_lens[r]
      BY <2>0, <2>1, <2>3, <3>1, <3>3 DEF valid_rids, retracted, Store!Resume
    <3>4. CASE Len(p[r]) = kv_lens[r]
      <4>1. CachedPrefix(r)' = CachedPrefix(r)
        BY <2>0, <2>1, <2>3, <3>4 DEF valid_rids, retracted
      <4>2. Store!Resume(CachedPrefix(r), p[r]) = SubSeq(CachedPrefix(r), 1, kv_lens[r])
        BY <2>1, <3>4 DEF Store!Resume
      <4>3. /\ SubSeq(CachedPrefix(r), 1, kv_lens[r]) \in Seq(Tokens)
            /\ Len(SubSeq(CachedPrefix(r), 1, kv_lens[r])) = kv_lens[r]
            /\ \A j \in 1 .. kv_lens[r] :
                  SubSeq(CachedPrefix(r), 1, kv_lens[r])[j] = CachedPrefix(r)[j]
        <5>1. kv_lens[r] \in 1 .. Len(CachedPrefix(r)) /\ kv_lens[r] \in 1 .. kv_lens[r]
          BY <2>1, <3>1, <3>4
        <5> QED
          BY <2>1, <5>1, PrefixOfPrefix
      <4>4. SubSeq(CachedPrefix(r), 1, kv_lens[r]) = CachedPrefix(r)
        BY <2>1, <4>3, SeqEqual
      <4> QED
        BY <2>3, <4>1, <4>2, <4>4
    <3> QED
      BY <2>1, <3>1, <3>2, <3>3, <3>4
  <2> QED
    BY <2>2, <2>3
<1>4. Store!Fits(Cached', [r \in Rids |-> 0])
  BY <1>2, NextFits
<1> QED
  BY <1>1, <1>3, <1>4 DEF Store!Extend, Cached

\* Candidates are evaluated when the store has room, and change nothing in it.
LEMMA EvalStore ==
    ASSUME IInv, NEW n \in [DOMAIN asked -> 1 .. MaxCands], EvalCandidates(n)
    PROVE  Store!Eval(n)
<1>1. /\ phase = "extended" /\ phase' \in {"idle", "dead"} /\ asked' = NoPrefixes
      /\ batch' = batch /\ Allocations(CandPlaces(n), free_pages) # {}
  BY DEF EvalCandidates
<1>2. Cached' = Cached
  BY EvalCandidatesInv DEF Cached
<1>3. Store!Fits(Cached, Store!Room(n))
  BY <1>1, CandidatesFit
<1> QED
  BY <1>1, <1>2, <1>3 DEF Store!Eval, Cached, NoPrefixes

\* eval_candidates runs out of slots only when the store has no room.
LEMMA OomStore ==
    ASSUME IInv, NEW n \in [DOMAIN asked -> 1 .. MaxCands], EvalOom(n)
    PROVE  Store!EvalRaises(n)
<1>1. /\ phase = "extended" /\ phase' = "dead"
      /\ batch' = batch /\ asked' = asked
      /\ Allocations(CandPlaces(n), free_pages) = {}
      /\ UNCHANGED tables
  BY DEF EvalOom
<1>2. ~Store!Fits(Cached, Store!Room(n))
  BY <1>1, CandidatesFit
<1>3. Cached' = Cached
  BY <1>1 DEF tables, Cached, CachedPrefix, SlotAt
<1> QED
  BY <1>1, <1>2, <1>3 DEF Store!EvalRaises, Cached

\* Every step is a step of the store or changes nothing in it.
LEMMA NextStore == IInv /\ [Next]_vars => [Store!StoreNext]_Store!storeVars
<1> SUFFICES ASSUME IInv, [Next]_vars PROVE [Store!StoreNext]_Store!storeVars
  OBVIOUS
<1>1. ASSUME NEW rids \in SUBSET Rids, CleanStale(rids) PROVE Store!StoreNext
  BY <1>1, CleanStore DEF Store!StoreNext
<1>2. ASSUME NEW R \in (SUBSET batch) \ {{}},
             NEW p \in [R -> UNION {[1 .. k -> Tokens] : k \in 1 .. MaxLen}],
             TreeValueExtend(p)
      PROVE  Store!StoreNext
  <2>1. Store!Extend(p)
    BY <1>2, PrefixArgs, ExtendStore
  <2>2. p \in Store!PrefixesOf(R)
    BY DEF Store!PrefixesOf
  <2> QED
    BY <2>1, <2>2 DEF Store!StoreNext
<1>3. ASSUME NEW n \in [DOMAIN asked -> 1 .. MaxCands], EvalCandidates(n)
      PROVE  Store!StoreNext
  <2>1. Store!Eval(n) /\ n \in Store!Counts
    BY <1>3, EvalStore DEF Store!Counts
  <2> QED
    BY <2>1 DEF Store!StoreNext
<1>4. ASSUME NEW n \in [DOMAIN asked -> 1 .. MaxCands], EvalOom(n)
      PROVE  Store!StoreNext
  <2>1. Store!EvalRaises(n) /\ n \in Store!Counts
    BY <1>4, OomStore DEF Store!Counts
  <2> QED
    BY <2>1 DEF Store!StoreNext
<1>5. ASSUME UNCHANGED tables PROVE Cached' = Cached
  BY <1>5 DEF tables, Cached, CachedPrefix, SlotAt
<1>6. CASE NothingToSend
  <2>1. Store!Skip
    BY <1>5, <1>6 DEF NothingToSend, Store!Skip, Cached
  <2> QED
    BY <2>1 DEF Store!StoreNext
<1>7. CASE ExtendFails
  <2>1. Store!ExtendRaises
    BY <1>5, <1>7 DEF ExtendFails, Store!ExtendRaises, Cached
  <2> QED
    BY <2>1 DEF Store!StoreNext
<1>8. CASE UNCHANGED vars
  <2>1. UNCHANGED <<Cached, phase, batch, asked>>
    BY <1>5, <1>8 DEF vars
  <2> QED
    BY <2>1 DEF Store!storeVars, Cached
<1> QED
  BY <1>1, <1>2, <1>3, <1>4, <1>6, <1>7, <1>8 DEF Next

\* The in-process runner and its KV manager implement the prefix store: to the
\* sampler, rows, slots and free lists are invisible, a call raises for lack of
\* slots only when the prefixes and candidates really exceed the pool, and the
\* pools never get smaller however many requests come and go.
THEOREM Implements == Spec => ImplementsStore
BY Inductive, InitStore, NextStore, PTL DEF Spec, ImplementsStore, Store!StoreSpec
=============================================================================
