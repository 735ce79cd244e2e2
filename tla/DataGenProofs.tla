---------------------------- MODULE DataGenProofs ----------------------------
(***************************************************************************)
(* The data generator, for any number of questions and answers, any        *)
(* buffer, batch and retry limits and any number of interrupted runs.      *)
(***************************************************************************)
EXTENDS DataGen, FiniteSetTheorems, SequenceTheorems,
        WellFoundedInduction, TLAPS

----------------------------------------------------------------------------
(* Counting.                                                               *)

\* The places of q in s.
Places(s, q) == {i \in 1 .. Len(s) : s[i] = q}

\* A count is a number.
LEMMA CountType ==
    ASSUME NEW S, NEW s \in Seq(S), NEW q
    PROVE  IsFiniteSet(Places(s, q)) /\ Count(s, q) \in Nat /\ Count(s, q) = Cardinality(Places(s, q))
<1>1. Len(s) \in Nat /\ IsFiniteSet(1 .. Len(s))
  BY LenProperties, FS_Interval
<1>2. IsFiniteSet(Places(s, q))
  BY <1>1, FS_Subset DEF Places
<1> QED
  BY <1>2, FS_CardinalityType DEF Count, Places

\* Sets that a function pairs off have as many members.
LEMMA PairedOff ==
    ASSUME NEW S, NEW T, IsFiniteSet(S), NEW f \in [S -> T],
           \A x, y \in S : f[x] = f[y] => x = y, \A y \in T : \E x \in S : f[x] = y
    PROVE  IsFiniteSet(T) /\ Cardinality(T) = Cardinality(S)
<1>1. f \in Bijection(S, T)
  BY DEF Bijection, Injection, Surjection, IsInjective
<1>2. ExistsBijection(S, T)
  BY <1>1 DEF ExistsBijection
<1> QED
  BY <1>2, FS_Bijection

\* The size of a set in two parts.
LEMMA TwoParts ==
    ASSUME NEW S, IsFiniteSet(S), NEW T, IsFiniteSet(T), S \cap T = {}
    PROVE  /\ IsFiniteSet(S \cup T) /\ Cardinality(S) \in Nat /\ Cardinality(T) \in Nat
           /\ Cardinality(S \cup T) = Cardinality(S) + Cardinality(T)
<1>1. Cardinality(S) \in Nat /\ Cardinality(T) \in Nat
  BY FS_CardinalityType
<1>2. Cardinality(S \cap T) = 0
  BY FS_EmptySet
<1>3. /\ IsFiniteSet(S \cup T)
      /\ Cardinality(S \cup T) = Cardinality(S) + Cardinality(T) - Cardinality(S \cap T)
  BY FS_Union
<1> QED
  BY <1>1, <1>2, <1>3

\* A concatenation has what its parts have.
LEMMA CountConcat ==
    ASSUME NEW S, NEW s \in Seq(S), NEW t \in Seq(S), NEW q
    PROVE  Count(s \o t, q) = Count(s, q) + Count(t, q)
<1>1. /\ s \o t \in Seq(S) /\ Len(s \o t) = Len(s) + Len(t)
      /\ \A i \in 1 .. Len(s) + Len(t) : (s \o t)[i] = IF i <= Len(s) THEN s[i] ELSE t[i - Len(s)]
  BY ConcatProperties
<1>2. PICK u \in Seq(S) : u = s \o t
  BY <1>1
<1>3. PICK m \in Nat, n \in Nat : m = Len(s) /\ n = Len(t)
  BY LenProperties
<1>4. Len(u) = m + n /\ \A i \in 1 .. m + n : u[i] = IF i <= m THEN s[i] ELSE t[i - m]
  BY <1>1, <1>2, <1>3
<1> DEFINE A == Places(s, q)
           B == Places(t, q)
           D == {i \in (m + 1) .. (m + n) : u[i] = q}
           f == [j \in B |-> j + m]
<1>5. Places(u, q) = A \cup D /\ A \cap D = {}
  BY <1>3, <1>4 DEF Places
<1>6. IsFiniteSet(A) /\ IsFiniteSet(B)
  BY CountType
<1>7. /\ f \in [B -> D] /\ \A x, y \in B : f[x] = f[y] => x = y
      /\ \A y \in D : \E x \in B : f[x] = y
  <2>1. B = {i \in 1 .. n : t[i] = q}
    BY <1>3 DEF Places
  <2>2. ASSUME NEW x \in B PROVE x + m \in D
    <3>1. x \in 1 .. n /\ t[x] = q
      BY <2>1
    <3>2. x + m \in (m + 1) .. (m + n) /\ x + m \in 1 .. m + n /\ ~(x + m <= m) /\ (x + m) - m = x
      BY <3>1
    <3>3. u[x + m] = t[x]
      BY <1>4, <3>2
    <3> QED
      BY <3>1, <3>2, <3>3
  <2>3. ASSUME NEW y \in D PROVE \E x \in B : f[x] = y
    <3>1. /\ y \in (m + 1) .. (m + n) /\ u[y] = q
      OBVIOUS
    <3>2. y \in 1 .. m + n /\ ~(y <= m) /\ y - m \in 1 .. n /\ (y - m) + m = y
      BY <3>1
    <3>3. t[y - m] = q
      BY <1>4, <3>1, <3>2
    <3>4. y - m \in B
      BY <2>1, <3>2, <3>3
    <3> QED
      BY <3>2, <3>4
  <2>4. \A x, y \in B : f[x] = f[y] => x = y
    BY <2>1
  <2> HIDE DEF B, D
  <2> QED
    BY <2>2, <2>3, <2>4
<1> HIDE DEF A, B, D, f
<1>8. IsFiniteSet(D) /\ Cardinality(D) = Cardinality(B)
  BY <1>6, <1>7, PairedOff
<1>9. Cardinality(A \cup D) = Cardinality(A) + Cardinality(D)
  BY <1>5, <1>6, <1>8, TwoParts
<1>10. /\ Count(s, q) = Cardinality(A) /\ Count(t, q) = Cardinality(B)
       /\ Count(u, q) = Cardinality(A \cup D)
  BY <1>5, CountType DEF A, B
<1> QED
  BY <1>2, <1>8, <1>9, <1>10

\* What one element is counted as.
LEMMA CountOne ==
    ASSUME NEW x, NEW q
    PROVE  Count(<<x>>, q) = IF x = q THEN 1 ELSE 0
<1>1. Len(<<x>>) = 1 /\ <<x>>[1] = x
  OBVIOUS
<1>2. {i \in 1 .. Len(<<x>>) : <<x>>[i] = q} = IF x = q THEN {1} ELSE {}
  BY <1>1
<1> QED
  BY <1>2, FS_Singleton, FS_EmptySet DEF Count

\* Nothing is counted in an empty sequence.
LEMMA CountNone ==
    ASSUME NEW q
    PROVE  Count(<<>>, q) = 0
<1>1. {i \in 1 .. Len(<<>>) : <<>>[i] = q} = {}
  OBVIOUS
<1> QED
  BY <1>1, FS_EmptySet DEF Count

\* One element more.
LEMMA CountAppend ==
    ASSUME NEW S, NEW s \in Seq(S), NEW x \in S, NEW q
    PROVE  Count(Append(s, x), q) = Count(s, q) + (IF x = q THEN 1 ELSE 0)
<1>1. <<x>> \in Seq(S) /\ Append(s, x) = s \o <<x>>
  BY AppendIsConcat
<1>2. Count(s \o <<x>>, q) = Count(s, q) + Count(<<x>>, q)
  BY <1>1, CountConcat
<1> QED
  BY <1>1, <1>2, CountOne

\* A sequence cut in two.
LEMMA CutInTwo ==
    ASSUME NEW S, NEW s \in Seq(S), NEW k \in 0 .. Len(s)
    PROVE  /\ SubSeq(s, 1, k) \in Seq(S) /\ Len(SubSeq(s, 1, k)) = k
           /\ SubSeq(s, k + 1, Len(s)) \in Seq(S)
           /\ SubSeq(s, 1, k) \o SubSeq(s, k + 1, Len(s)) = s
<1>1. Len(s) \in Nat /\ \A i \in 1 .. Len(s) : s[i] \in S
  BY LenProperties, ElementOfSeq
<1>2. /\ SubSeq(s, 1, k) \in Seq(S)
      /\ Len(SubSeq(s, 1, k)) = IF 1 <= k THEN k - 1 + 1 ELSE 0
      /\ \A i \in 1 .. k - 1 + 1 : SubSeq(s, 1, k)[i] = s[1 + i - 1]
  BY <1>1, SubSeqProperties
<1>3. /\ SubSeq(s, k + 1, Len(s)) \in Seq(S)
      /\ Len(SubSeq(s, k + 1, Len(s))) = IF k + 1 <= Len(s) THEN Len(s) - (k + 1) + 1 ELSE 0
      /\ \A i \in 1 .. Len(s) - (k + 1) + 1 :
            SubSeq(s, k + 1, Len(s))[i] = s[(k + 1) + i - 1]
  BY <1>1, SubSeqProperties
<1>4. PICK a \in Seq(S), b \in Seq(S) : a = SubSeq(s, 1, k) /\ b = SubSeq(s, k + 1, Len(s))
  BY <1>2, <1>3
<1>5. /\ Len(a) = k /\ \A i \in 1 .. k : a[i] = s[i]
      /\ Len(b) = Len(s) - k /\ \A i \in 1 .. Len(s) - k : b[i] = s[k + i]
  BY <1>1, <1>2, <1>3, <1>4
<1>6. /\ a \o b \in Seq(S) /\ Len(a \o b) = Len(a) + Len(b)
      /\ \A i \in 1 .. Len(a) + Len(b) : (a \o b)[i] = IF i <= Len(a) THEN a[i] ELSE b[i - Len(a)]
  BY ConcatProperties
<1>7. Len(a \o b) = Len(s) /\ Len(a) + Len(b) = Len(s)
  BY <1>1, <1>5, <1>6
<1>8. ASSUME NEW i \in 1 .. Len(s) PROVE (a \o b)[i] = s[i]
  <2>1. CASE i <= k
    BY <1>5, <1>6, <1>7, <2>1
  <2>2. CASE ~(i <= k)
    <3>1. i - k \in 1 .. Len(s) - k /\ k + (i - k) = i
      BY <1>1, <2>2
    <3>2. b[i - k] = s[i]
      BY <1>5, <3>1
    <3> QED
      BY <1>5, <1>6, <1>7, <2>2, <3>2
  <2> QED
    BY <2>1, <2>2
<1>9. a \o b = s
  BY <1>6, <1>7, <1>8, SeqEqual
<1> QED
  BY <1>4, <1>5, <1>9

\* A beginning has no more than the whole.
LEMMA CountPrefix ==
    ASSUME NEW S, NEW s \in Seq(S), NEW k \in 0 .. Len(s), NEW q
    PROVE  Count(SubSeq(s, 1, k), q) <= Count(s, q)
<1> DEFINE a == SubSeq(s, 1, k)
           b == SubSeq(s, k + 1, Len(s))
<1>1. a \in Seq(S) /\ b \in Seq(S) /\ a \o b = s
  BY CutInTwo
<1> HIDE DEF a, b
<1>2. Count(a \o b, q) = Count(a, q) + Count(b, q)
  BY <1>1, CountConcat
<1>3. Count(a, q) \in Nat /\ Count(b, q) \in Nat
  BY <1>1, CountType
<1>4. Count(a, q) <= Count(s, q)
  BY <1>1, <1>2, <1>3
<1> QED
  BY <1>4 DEF a

\* What is in s.
LEMMA CountHead ==
    ASSUME NEW S, NEW s \in Seq(S), s # <<>>, NEW q
    PROVE  /\ Head(s) \in S /\ Tail(s) \in Seq(S) /\ s = <<Head(s)>> \o Tail(s)
           /\ Count(s, q) = Count(<<Head(s)>>, q) + Count(Tail(s), q)
<1>1. /\ Head(s) \in S /\ Tail(s) \in Seq(S) /\ Len(Tail(s)) = Len(s) - 1
      /\ \A i \in 1 .. Len(Tail(s)) : Tail(s)[i] = s[i + 1]
  BY HeadTailProperties
<1>2. PICK h \in S, t \in Seq(S) : h = Head(s) /\ t = Tail(s)
  BY <1>1
<1>3. Len(s) \in Nat /\ Len(s) # 0 /\ Head(s) = s[1]
  BY LenProperties, EmptySeq
<1>4. <<h>> \in Seq(S) /\ Len(<<h>>) = 1 /\ <<h>>[1] = h
  OBVIOUS
<1>5. /\ <<h>> \o t \in Seq(S) /\ Len(<<h>> \o t) = Len(<<h>>) + Len(t)
      /\ \A i \in 1 .. Len(<<h>>) + Len(t) :
           (<<h>> \o t)[i] = IF i <= Len(<<h>>) THEN <<h>>[i] ELSE t[i - Len(<<h>>)]
  BY <1>4, ConcatProperties
<1>6. Len(t) = Len(s) - 1 /\ \A i \in 1 .. Len(s) - 1 : t[i] = s[i + 1]
  BY <1>1, <1>2
<1>7. ASSUME NEW i \in 1 .. Len(s) PROVE (<<h>> \o t)[i] = s[i]
  <2>1. CASE i = 1
    BY <1>2, <1>3, <1>4, <1>5, <1>6, <2>1
  <2>2. CASE i # 1
    <3>1. i - 1 \in 1 .. Len(s) - 1 /\ (i - 1) + 1 = i /\ i \in 1 .. 1 + Len(t) /\ ~(i <= 1)
      BY <1>3, <1>6, <2>2
    <3>2. t[i - 1] = s[i]
      BY <1>6, <3>1
    <3> QED
      BY <1>4, <1>5, <3>1, <3>2
  <2> QED
    BY <2>1, <2>2
<1>8. <<h>> \o t = s
  BY <1>3, <1>4, <1>5, <1>6, <1>7, SeqEqual
<1>9. Count(<<h>> \o t, q) = Count(<<h>>, q) + Count(t, q)
  BY <1>4, CountConcat
<1> QED
  BY <1>1, <1>2, <1>8, <1>9

----------------------------------------------------------------------------
(* The file.                                                               *)

\* What a line can be.
Line == Questions \cup {Junk, Split}

\* Junk and Split answer no question.
LEMMA NotAnswers ==
    /\ Junk \notin Questions /\ Split \notin Questions /\ NoFile \notin Nat
    /\ Questions \subseteq Nat /\ Questions \subseteq Line /\ NumQuestions \in Nat
BY DataGenAssumption DEF Questions, Line

\* s holds no bytes that cannot be decoded.
Clean(s) == \A i \in 1 .. Len(s) : s[i] # Split

\* A sequence that is clean is clean in its parts, and the other way round.
LEMMA CleanConcat ==
    ASSUME NEW s \in Seq(Line), NEW t \in Seq(Line)
    PROVE  Clean(s \o t) <=> Clean(s) /\ Clean(t)
<1>1. /\ s \o t \in Seq(Line) /\ Len(s \o t) = Len(s) + Len(t)
      /\ \A i \in 1 .. Len(s) + Len(t) : (s \o t)[i] = IF i <= Len(s) THEN s[i] ELSE t[i - Len(s)]
  BY ConcatProperties
<1>2. PICK u : u = s \o t
  OBVIOUS
<1>3. PICK m \in Nat, n \in Nat : m = Len(s) /\ n = Len(t)
  BY LenProperties
<1>4. Len(u) = m + n /\ \A i \in 1 .. m + n : u[i] = IF i <= m THEN s[i] ELSE t[i - m]
  BY <1>1, <1>2, <1>3
<1>5. ASSUME Clean(u) PROVE Clean(s) /\ Clean(t)
  <2>1. ASSUME NEW i \in 1 .. m PROVE s[i] # Split
    <3>1. i \in 1 .. m + n /\ i <= m
      OBVIOUS
    <3> QED
      BY <1>4, <1>5, <3>1 DEF Clean
  <2>2. ASSUME NEW i \in 1 .. n PROVE t[i] # Split
    <3>1. i + m \in 1 .. m + n /\ ~(i + m <= m) /\ (i + m) - m = i
      OBVIOUS
    <3>2. u[i + m] = t[i]
      BY <1>4, <3>1
    <3> QED
      BY <1>4, <1>5, <3>1, <3>2 DEF Clean
  <2> QED
    BY <1>3, <2>1, <2>2 DEF Clean
<1>6. ASSUME Clean(s), Clean(t) PROVE Clean(u)
  <2>1. ASSUME NEW i \in 1 .. m + n PROVE u[i] # Split
    <3>1. CASE i <= m
      BY <1>3, <1>4, <1>6, <3>1 DEF Clean
    <3>2. CASE ~(i <= m)
      <4>1. i - m \in 1 .. n
        BY <3>2
      <4> QED
        BY <1>3, <1>4, <1>6, <3>2, <4>1 DEF Clean
    <3> QED
      BY <3>1, <3>2
  <2> QED
    BY <1>4, <2>1 DEF Clean
<1> QED
  BY <1>2, <1>5, <1>6

\* Writing s: no answer is counted that is not in the file or in s, and none
\* is lost unless the file ended in mid-line.
LEMMA WrittenEffect ==
    ASSUME TypeOK, NEW s \in Seq(Line)
    PROVE  /\ Written(s) \in Seq(Line)
           /\ s # <<>> => Written(s) # <<>>
           /\ Clean(lines) /\ Clean(s) => Clean(Written(s))
           /\ \A q \in Questions :
                /\ Count(lines, q) \in Nat /\ Count(s, q) \in Nat /\ Count(Written(s), q) \in Nat
                /\ Count(Written(s), q) <= Count(lines, q) + Count(s, q)
                /\ ~open => Count(Written(s), q) = Count(lines, q) + Count(s, q)
<1>0. lines \in Seq(Line) /\ open \in BOOLEAN /\ (open => lines # <<>>)
  BY DEF TypeOK, Line
<1>1. \A q \in Questions : Count(lines, q) \in Nat /\ Count(s, q) \in Nat
  BY <1>0, CountType
<1>2. CASE s = <<>>
  <2>1. Written(s) = lines
    BY <1>2 DEF Written
  <2>2. \A q \in Questions : Count(s, q) = 0
    BY <1>2, CountNone
  <2> QED
    BY <1>0, <1>1, <1>2, <2>1, <2>2
<1>3. CASE s # <<>> /\ ~open
  <2>1. Written(s) = lines \o s
    BY <1>3 DEF Written
  <2>2. lines \o s \in Seq(Line) /\ lines \o s # <<>>
    BY <1>0, <1>3, ConcatProperties, ConcatEqualIffEmpty
  <2>3. \A q \in Questions : Count(lines \o s, q) = Count(lines, q) + Count(s, q)
    BY <1>0, CountConcat
  <2> QED
    BY <1>0, <1>1, <1>3, <2>1, <2>2, <2>3, CleanConcat
<1>4. CASE s # <<>> /\ open
  <2> DEFINE l == Len(lines)
             a == SubSeq(lines, 1, l - 1)
             b == SubSeq(lines, l, l)
             x == Spoiled(lines[l], Head(s))
             t == Tail(s)
  <2>0. l \in Nat /\ l >= 1 /\ lines[l] \in Line
    BY <1>0, <1>4, LenProperties, EmptySeq, ElementOfSeq
  <2>1. Written(s) = a \o <<x>> \o t
    BY <1>4 DEF Written, Front, Last
  <2>2. a \in Seq(Line) /\ Len(a) = l - 1
    <3>1. l - 1 \in 0 .. Len(lines)
      BY <2>0
    <3> QED
      BY <1>0, <3>1, CutInTwo
  <2>3. \A q : Count(a, q) <= Count(lines, q)
    <3>1. l - 1 \in 0 .. Len(lines)
      BY <2>0
    <3> QED
      BY <1>0, <3>1, CountPrefix
  <2>4. Head(s) \in Line /\ t \in Seq(Line) /\ s = <<Head(s)>> \o t
    BY <1>4, CountHead
  <2>5. \A q : Count(s, q) = Count(<<Head(s)>>, q) + Count(t, q)
    BY <1>4, CountHead
  <2>6. x \in {Junk, Split} /\ <<x>> \in Seq(Line) /\ x \in Line
    BY DEF Spoiled, Line
  <2>7. Clean(lines) /\ Clean(s) => Clean(a) /\ Clean(t) /\ x = Junk
    <3> SUFFICES ASSUME Clean(lines), Clean(s) PROVE Clean(a) /\ Clean(t) /\ x = Junk
      OBVIOUS
    <3>1. Clean(<<Head(s)>>) /\ Clean(t)
      <4>0. \A y \in Line : <<y>> \in Seq(Line)
        OBVIOUS
      <4>1. PICK h \in Seq(Line) : h = <<Head(s)>>
        BY <2>4, <4>0
      <4>2. Clean(h \o t) <=> Clean(h) /\ Clean(t)
        BY <2>4, CleanConcat
      <4>3. h \o t = s
        BY <2>4, <4>1
      <4> QED
        BY <4>1, <4>2, <4>3
    <3>2. Head(s) # Split
      BY <3>1 DEF Clean
    <3>3. lines[l] # Split
      BY <2>0 DEF Clean
    <3>4. x = Junk
      BY <3>2, <3>3 DEF Spoiled
    <3>5. Clean(a)
      <4>1. l - 1 \in 0 .. Len(lines)
        BY <2>0
      <4>2. /\ a \in Seq(Line) /\ SubSeq(lines, (l - 1) + 1, l) \in Seq(Line)
            /\ a \o SubSeq(lines, (l - 1) + 1, l) = lines
        BY <1>0, <4>1, CutInTwo
      <4>3. PICK c \in Seq(Line) : a \o c = lines
        BY <4>2
      <4>4. Clean(a \o c) <=> Clean(a) /\ Clean(c)
        BY <4>2, CleanConcat
      <4> QED
        BY <4>3, <4>4
    <3> QED
      BY <3>1, <3>4, <3>5
  <2> HIDE DEF l, a, x, t
  <2>8. PICK u \in Seq(Line) : u = a \o <<x>>
    BY <2>2, <2>6, ConcatProperties
  <2>9. u \o t \in Seq(Line) /\ u # <<>> /\ u \o t # <<>>
    <3>1. u # <<>>
      BY <2>2, <2>6, <2>8, ConcatEqualIffEmpty
    <3> QED
      BY <2>4, <3>1, ConcatProperties, ConcatEqualIffEmpty
  <2>10. Written(s) = u \o t
    BY <2>1, <2>8
  <2>11. ASSUME NEW q \in Questions
         PROVE  Count(u \o t, q) \in Nat /\ Count(u \o t, q) <= Count(lines, q) + Count(s, q)
    <3>1. Count(u \o t, q) = Count(u, q) + Count(t, q)
      BY <2>4, CountConcat
    <3>2. Count(u, q) = Count(a, q) + Count(<<x>>, q)
      BY <2>2, <2>6, <2>8, CountConcat
    <3>3. Count(<<x>>, q) = 0
      BY <2>6, CountOne, NotAnswers
    <3>4. /\ Count(u, q) \in Nat /\ Count(t, q) \in Nat /\ Count(a, q) \in Nat
      BY <2>2, <2>4, CountType
    <3>5. Count(<<Head(s)>>, q) \in Nat
      BY CountOne
    <3>6. Count(s, q) = Count(<<Head(s)>>, q) + Count(t, q) /\ Count(a, q) <= Count(lines, q)
      BY <2>3, <2>5
    <3> QED
      BY <1>1, <3>1, <3>2, <3>3, <3>4, <3>5, <3>6
  <2>12. Clean(lines) /\ Clean(s) => Clean(u \o t)
    <3> SUFFICES ASSUME Clean(lines), Clean(s) PROVE Clean(u \o t)
      OBVIOUS
    <3>1. Clean(a) /\ Clean(t) /\ x = Junk
      BY <2>7
    <3>2. Clean(<<x>>)
      <4>1. Junk # Split
        BY DataGenAssumption
      <4> QED
        BY <3>1, <4>1 DEF Clean
    <3>3. Clean(u)
      BY <2>2, <2>6, <2>8, <3>1, <3>2, CleanConcat
    <3> QED
      BY <2>4, <3>1, <3>3, CleanConcat
  <2> QED
    BY <1>1, <1>4, <2>9, <2>10, <2>11, <2>12
<1> QED
  BY <1>0, <1>2, <1>3, <1>4

\* A write of the batch that ends early: nothing is counted that is not in the
\* file or in the batch.
LEMMA TornEffect ==
    ASSUME TypeOK, NEW w \in Torn
    PROVE  /\ w[1] \in Seq(Line) /\ w[2] \in BOOLEAN
           /\ w[2] => w[1] # <<>>
           /\ Clean(lines) /\ "split" \notin Tears => Clean(w[1])
           /\ \A q \in Questions : /\ Count(w[1], q) \in Nat
                                   /\ Count(w[1], q) <= Count(lines, q) + Count(batch, q)
<1>0. batch \in Seq(Questions) /\ Len(batch) \in Nat /\ batch \in Seq(Line) /\ open \in BOOLEAN
      /\ (open => lines # <<>>)
  <2>1. batch \in Seq(Questions) /\ Questions \subseteq Line
    BY NotAnswers DEF TypeOK
  <2>2. batch \in Seq(Line)
    BY <2>1, ElementOfSeq, LenProperties, SeqDef
  <2> QED
    BY <2>1, <2>2, LenProperties DEF TypeOK
<1>1. \A i \in 1 .. Len(batch) : batch[i] \in Questions /\ batch[i] # Split
  BY <1>0, ElementOfSeq, NotAnswers
<1> DEFINE First(k) == SubSeq(batch, 1, k)
           Rest(k) == {CASE c = "torn" -> Junk [] c = "split" -> Split
                         [] c = "bare" -> batch[k] : c \in Tears}
<1>2. \/ \E k \in 0 .. Len(batch) : w = <<Written(First(k)), open /\ k = 0>>
      \/ \E k \in 1 .. Len(batch) : \E x \in Rest(k) : w = <<Written(Append(First(k - 1), x)), TRUE>>
  BY Zenon DEF Torn
<1>3. ASSUME NEW k \in 0 .. Len(batch)
      PROVE  /\ First(k) \in Seq(Line) /\ Len(First(k)) = k /\ Clean(First(k))
             /\ \A q \in Questions : Count(First(k), q) <= Count(batch, q)
  <2>1. /\ First(k) \in Seq(Line) /\ Len(First(k)) = k /\ SubSeq(batch, k + 1, Len(batch)) \in Seq(Line)
        /\ First(k) \o SubSeq(batch, k + 1, Len(batch)) = batch
    BY <1>0, CutInTwo
  <2>2. \A q \in Questions : Count(First(k), q) <= Count(batch, q)
    BY <1>0, CountPrefix
  <2>3. Clean(batch)
    BY <1>1 DEF Clean
  <2>4. PICK a \in Seq(Line), b \in Seq(Line) : a = First(k) /\ a \o b = batch
    BY <2>1
  <2>5. Clean(a \o b) <=> Clean(a) /\ Clean(b)
    BY CleanConcat
  <2> QED
    BY <2>1, <2>2, <2>3, <2>4, <2>5
<1>6. \A f \in Seq(Line), y \in Line, q \in Questions :
         Count(Append(f, y), q) = Count(f, q) + (IF y = q THEN 1 ELSE 0)
  BY CountAppend
<1> HIDE DEF First
<1>4. CASE \E k \in 0 .. Len(batch) : w = <<Written(First(k)), open /\ k = 0>>
  <2>1. PICK k \in 0 .. Len(batch) : w = <<Written(First(k)), open /\ k = 0>>
    BY <1>4
  <2>2. PICK s \in Seq(Line) : s = First(k) /\ Clean(s) /\ Len(s) = k
                               /\ \A q \in Questions : Count(s, q) <= Count(batch, q)
    BY <1>3
  <2>3. w[1] = Written(s) /\ w[2] = (open /\ k = 0)
    BY <2>1, <2>2
  <2>4. /\ Written(s) \in Seq(Line)
        /\ Clean(lines) /\ Clean(s) => Clean(Written(s))
        /\ \A q \in Questions :
             /\ Count(lines, q) \in Nat /\ Count(s, q) \in Nat /\ Count(Written(s), q) \in Nat
             /\ Count(Written(s), q) <= Count(lines, q) + Count(s, q)
    BY WrittenEffect
  <2>5. \A q \in Questions : Count(batch, q) \in Nat
    BY <1>0, CountType
  <2>6. w[2] => w[1] # <<>>
    <3> SUFFICES ASSUME open, k = 0 PROVE Written(s) # <<>>
      BY <2>3
    <3>1. s = <<>>
      BY <2>2, EmptySeq
    <3> QED
      BY <1>0, <3>1 DEF Written
  <2>7. w[2] \in BOOLEAN
    BY <1>0, <2>3
  <2>8. \A q \in Questions : Count(Written(s), q) <= Count(lines, q) + Count(batch, q)
    BY <2>2, <2>4, <2>5
  <2> QED
    BY <2>2, <2>3, <2>4, <2>6, <2>7, <2>8
<1>5. CASE \E k \in 1 .. Len(batch) : \E x \in Rest(k) : w = <<Written(Append(First(k - 1), x)), TRUE>>
  <2>0. PICK k \in 1 .. Len(batch) : \E x \in Rest(k) : w = <<Written(Append(First(k - 1), x)), TRUE>>
    BY <1>5
  <2>1. PICK x \in Rest(k) : w = <<Written(Append(First(k - 1), x)), TRUE>>
    BY <2>0
  <2>2. x \in {Junk, Split, batch[k]} /\ ("split" \notin Tears => x \in {Junk, batch[k]})
    <3>1. PICK c \in Tears : x = CASE c = "torn" -> Junk [] c = "split" -> Split
                                   [] c = "bare" -> batch[k]
      BY <2>1
    <3>2. c \in {"torn", "split", "bare"}
      BY DataGenAssumption
    <3> QED
      BY <3>1, <3>2
  <2>3. k - 1 \in 0 .. Len(batch) /\ k \in 0 .. Len(batch)
    BY <1>0
  <2>4. PICK f \in Seq(Line) : f = First(k - 1) /\ Len(f) = k - 1 /\ Clean(f)
    BY <1>3, <2>3
  <2>5. x \in Line
    BY <1>1, <2>2 DEF Line
  <2>6. PICK s \in Seq(Line) : s = Append(f, x) /\ s # <<>>
    BY <2>4, <2>5, AppendProperties
  <2>7. w[1] = Written(s) /\ w[2] = TRUE
    BY <2>1, <2>4, <2>6
  <2>8. /\ Written(s) \in Seq(Line) /\ Written(s) # <<>>
        /\ Clean(lines) /\ Clean(s) => Clean(Written(s))
        /\ \A q \in Questions :
             /\ Count(lines, q) \in Nat /\ Count(s, q) \in Nat /\ Count(Written(s), q) \in Nat
             /\ Count(Written(s), q) <= Count(lines, q) + Count(s, q)
    BY <2>6, WrittenEffect
  <2>9. "split" \notin Tears => Clean(s)
    <3> SUFFICES ASSUME "split" \notin Tears PROVE Clean(s)
      OBVIOUS
    <3>1. x # Split
      BY <1>1, <2>2, DataGenAssumption
    <3>2. Clean(<<x>>) /\ <<x>> \in Seq(Line)
      BY <2>5, <3>1 DEF Clean
    <3>3. s = f \o <<x>>
      BY <2>4, <2>5, <2>6, AppendIsConcat
    <3> QED
      BY <2>4, <3>2, <3>3, CleanConcat
  <2>10. ASSUME NEW q \in Questions PROVE Count(s, q) <= Count(batch, q)
    <3>1. Count(s, q) = Count(f, q) + (IF x = q THEN 1 ELSE 0)
      <4> HIDE DEF Rest
      <4> QED
        BY <1>6, <2>5, <2>6
    <3>2. x = q => x = batch[k]
      BY <2>2, NotAnswers
    <3>3. First(k) = Append(f, batch[k])
      <4>1. /\ Len(First(k)) = k /\ First(k) \in Seq(Line)
        BY <1>3, <2>3
      <4>2. \A i \in 1 .. k : First(k)[i] = batch[i]
        <5>1. \A i \in 1 .. k : batch[i] \in Line
          BY <1>0, <1>1, <2>3 DEF Line
        <5>2. \A i \in 1 .. k - 1 + 1 : First(k)[i] = batch[1 + i - 1]
          BY <2>3, <5>1, SubSeqProperties DEF First
        <5> QED
          BY <5>2
      <4>3. \A i \in 1 .. k - 1 : f[i] = batch[i]
        <5>1. \A i \in 1 .. k - 1 : batch[i] \in Line
          BY <1>0, <1>1, <2>3 DEF Line
        <5>2. \A i \in 1 .. (k - 1) - 1 + 1 : First(k - 1)[i] = batch[1 + i - 1]
          BY <2>3, <5>1, SubSeqProperties DEF First
        <5> QED
          BY <2>4, <5>2
      <4>4. batch[k] \in Line
        BY <1>1 DEF Line
      <4>5. PICK g \in Seq(Line) : g = Append(f, batch[k])
        BY <2>4, <4>4, AppendProperties
      <4>6. /\ Len(g) = Len(f) + 1 /\ g[Len(f) + 1] = batch[k]
            /\ \A i \in 1 .. Len(f) : g[i] = f[i]
        BY <2>4, <4>4, <4>5, AppendProperties
      <4>9. Len(g) = k
        BY <2>3, <2>4, <4>6
      <4>10. ASSUME NEW i \in 1 .. k PROVE g[i] = batch[i]
        <5>1. CASE i = k
          BY <2>3, <2>4, <4>6, <5>1
        <5>2. CASE i # k
          <6>1. i \in 1 .. k - 1 /\ i \in 1 .. Len(f)
            BY <2>3, <2>4, <5>2
          <6> QED
            BY <4>3, <4>6, <6>1
        <5> QED
          BY <5>1, <5>2
      <4>7. Len(g) = k /\ \A i \in 1 .. k : g[i] = batch[i]
        BY <4>9, <4>10
      <4>8. First(k) = g
        BY <4>1, <4>2, <4>7, SeqEqual
      <4> QED
        BY <4>5, <4>8
    <3>4. Count(Append(f, batch[k]), q) = Count(f, q) + (IF batch[k] = q THEN 1 ELSE 0)
      <4>1. batch[k] \in Line
        BY <1>1 DEF Line
      <4> HIDE DEF Rest
      <4> QED
        BY <1>6, <4>1
    <3>5. Count(First(k), q) <= Count(batch, q)
      BY <1>3, <2>3
    <3>6. Count(f, q) \in Nat /\ Count(batch, q) \in Nat
      BY <1>0, <2>4, CountType
    <3>7. Count(f, q) + (IF batch[k] = q THEN 1 ELSE 0) <= Count(batch, q)
      BY <3>3, <3>4, <3>5
    <3>8. CASE x = q
      <4>1. batch[k] = q
        BY <3>2, <3>8
      <4> QED
        BY <3>1, <3>7, <3>8, <4>1
    <3>9. CASE x # q
      <4>1. Count(s, q) = Count(f, q)
        BY <3>1, <3>6, <3>9
      <4>2. Count(f, q) <= Count(f, q) + (IF batch[k] = q THEN 1 ELSE 0)
        BY <3>6
      <4>3. (IF batch[k] = q THEN 1 ELSE 0) \in {0, 1}
        OBVIOUS
      <4> HIDE DEF Rest
      <4> QED
        BY <3>6, <3>7, <4>1, <4>2, <4>3
    <3> QED
      BY <3>8, <3>9
  <2>11. \A q \in Questions : Count(batch, q) \in Nat
    BY <1>0, CountType
  <2>12. \A q \in Questions : Count(Written(s), q) <= Count(lines, q) + Count(batch, q)
    BY <2>8, <2>10, <2>11
  <2> QED
    BY <2>7, <2>8, <2>9, <2>12
<1> QED
  BY <1>2, <1>4, <1>5

----------------------------------------------------------------------------
(* task_generator.                                                         *)

\* Every set of numbers with a member has a least one.
LEMMA LeastNumber ==
    ASSUME NEW T \in SUBSET Nat, T # {}
    PROVE  \E x \in T : \A y \in T : x <= y
<1>1. IsWellFoundedOn(OpToRel(<, Nat), Nat)
  BY NatLessThanWellFounded, Zenon
<1>2. PICK x \in T : \A y \in T : ~(<<y, x>> \in OpToRel(<, Nat))
  BY <1>1, WFMin, Zenon
<1>3. ASSUME NEW y \in T PROVE x <= y
  <2>1. ~(<<y, x>> \in OpToRel(<, Nat))
    BY <1>2
  <2> QED
    BY <2>1 DEF OpToRel
<1> QED
  BY <1>3

\* There are finitely many tasks, and each is a question and a number.
LEMMA TaskFacts ==
    /\ IsFiniteSet(Tasks)
    /\ \A t \in Tasks : /\ t[1] \in Questions /\ t[2] \in 1 .. samples_per_question
                        /\ t = <<t[1], t[2]>>
    /\ \A q \in Questions, j \in 1 .. samples_per_question :
         <<q, j>> \in Tasks /\ <<q, j>>[1] = q /\ <<q, j>>[2] = j
    /\ samples_per_question \in Nat
<1>1. samples_per_question \in Nat /\ NumQuestions \in Nat
  BY DataGenAssumption
<1>2. IsFiniteSet(Questions) /\ IsFiniteSet(1 .. samples_per_question)
  BY <1>1, FS_Interval DEF Questions
<1>3. IsFiniteSet(Tasks)
  BY <1>2, FS_Product DEF Tasks
<1> QED
  BY <1>1, <1>3 DEF Tasks

\* The part of a row of tasks from a to b.
Row(q, a, b) == {<<q, j>> : j \in a .. b}

\* ... and its size.
LEMMA RowSize ==
    ASSUME NEW q, NEW a \in Nat, NEW b \in Nat, a <= b + 1
    PROVE  IsFiniteSet(Row(q, a, b)) /\ Cardinality(Row(q, a, b)) = b - a + 1
<1>1. IsFiniteSet(a .. b) /\ Cardinality(a .. b) = b - a + 1
  <2>1. /\ IsFiniteSet(a .. b)
        /\ Cardinality(a .. b) = IF a > b THEN 0 ELSE b - a + 1
    BY FS_Interval
  <2>2. (a > b) => b - a + 1 = 0
    OBVIOUS
  <2> QED
    BY <2>1, <2>2
<1> DEFINE f == [j \in a .. b |-> <<q, j>>]
<1>2. /\ f \in [a .. b -> Row(q, a, b)] /\ \A x, y \in a .. b : f[x] = f[y] => x = y
      /\ \A y \in Row(q, a, b) : \E x \in a .. b : f[x] = y
  BY DEF Row
<1> HIDE DEF f
<1>3. /\ IsFiniteSet(Row(q, a, b)) /\ Cardinality(Row(q, a, b)) = Cardinality(a .. b)
  BY <1>1, <1>2, PairedOff
<1> QED
  BY <1>1, <1>3

\* A function from questions to what is to be done.
Todos == [Questions -> 0 .. samples_per_question]

\* The tasks yielded are ordered.
LEMMA YieldOrder ==
    ASSUME NEW todo \in Todos
    PROVE  /\ IsFiniteSet(Yields(todo)) /\ Yields(todo) \subseteq Tasks
           /\ \A t \in Tasks : ~Before(t, t)
           /\ \A t, u \in Tasks : t = u \/ Before(t, u) \/ Before(u, t)
           /\ \A t, u, v \in Tasks : Before(t, u) /\ Before(u, v) => Before(t, v)
<1>1. Yields(todo) \subseteq Tasks
  BY DEF Yields
<1>2. IsFiniteSet(Yields(todo))
  BY <1>1, TaskFacts, FS_Subset
<1>3. \A t \in Tasks : t[1] \in Nat /\ t[2] \in Nat /\ t = <<t[1], t[2]>>
  BY TaskFacts, NotAnswers
<1>4. \A t \in Tasks : ~Before(t, t)
  BY <1>3 DEF Before
<1>5. ASSUME NEW t \in Tasks, NEW u \in Tasks PROVE t = u \/ Before(t, u) \/ Before(u, t)
  <2>1. PICK a \in Nat, b \in Nat, c \in Nat, d \in Nat :
          t[1] = a /\ t[2] = b /\ u[1] = c /\ u[2] = d /\ t = <<a, b>> /\ u = <<c, d>>
    BY <1>3
  <2> QED
    BY <2>1 DEF Before
<1>6. ASSUME NEW t \in Tasks, NEW u \in Tasks, NEW v \in Tasks, Before(t, u), Before(u, v)
      PROVE  Before(t, v)
  BY <1>3, <1>6 DEF Before
<1> QED
  BY <1>1, <1>2, <1>4, <1>5, <1>6

\* What is yielded before t.
Earlier(todo, t) == {u \in Yields(todo) : Before(u, t)}

\* Rank grows with the order.
LEMMA RankGrows ==
    ASSUME NEW todo \in Todos, NEW t \in Yields(todo), NEW u \in Yields(todo), Before(u, t)
    PROVE  /\ Earlier(todo, u) \subseteq Earlier(todo, t)
           /\ Cardinality(Earlier(todo, u)) \in Nat /\ Cardinality(Earlier(todo, t)) \in Nat
           /\ Cardinality(Earlier(todo, u)) < Cardinality(Earlier(todo, t))
<1>1. IsFiniteSet(Yields(todo)) /\ Yields(todo) \subseteq Tasks
  BY YieldOrder
<1>2. /\ Earlier(todo, u) \subseteq Earlier(todo, t)
      /\ u \in Earlier(todo, t) /\ u \notin Earlier(todo, u)
  BY <1>1, YieldOrder DEF Earlier
<1>3. IsFiniteSet(Earlier(todo, t))
  BY <1>1, FS_Subset DEF Earlier
<1>4. /\ IsFiniteSet(Earlier(todo, u)) /\ Cardinality(Earlier(todo, u)) <= Cardinality(Earlier(todo, t))
      /\ (Cardinality(Earlier(todo, t)) = Cardinality(Earlier(todo, u))
              => Earlier(todo, t) = Earlier(todo, u))
  BY <1>2, <1>3, FS_Subset
<1>5. Cardinality(Earlier(todo, u)) \in Nat /\ Cardinality(Earlier(todo, t)) \in Nat
  BY <1>3, <1>4, FS_CardinalityType
<1>6. Cardinality(Earlier(todo, u)) # Cardinality(Earlier(todo, t))
  BY <1>2, <1>4
<1>7. \A x, y \in Nat : x <= y /\ x # y => x < y
  OBVIOUS
<1> QED
  BY <1>2, <1>4, <1>5, <1>6, <1>7

\* n calls of next(task_gen) give n tasks, or all there are, the first ones.
LEMMA FirstOnes ==
    ASSUME NEW todo \in Todos, NEW n \in Nat
    PROVE  /\ FirstTasks(todo, n) \subseteq Yields(todo)
           /\ IsFiniteSet(FirstTasks(todo, n)) /\ Cardinality(FirstTasks(todo, n)) \in Nat
           /\ Cardinality(FirstTasks(todo, n)) <= n
           /\ FirstTasks(todo, n) # Yields(todo) => Cardinality(FirstTasks(todo, n)) >= n
           /\ \A t \in FirstTasks(todo, n), u \in Yields(todo) :
                Before(u, t) => u \in FirstTasks(todo, n)
<1> DEFINE Y == Yields(todo)
           F == FirstTasks(todo, n)
           rank == [t \in Y |-> Cardinality(Earlier(todo, t))]
<1>0. F = {t \in Y : rank[t] < n}
  BY DEF FirstTasks, Earlier
<1>1. IsFiniteSet(Y) /\ Y \subseteq Tasks
  BY YieldOrder
<1>2. rank \in [Y -> Nat]
  <2>1. ASSUME NEW t \in Y PROVE Cardinality(Earlier(todo, t)) \in Nat
    <3>1. IsFiniteSet(Earlier(todo, t))
      BY <1>1, FS_Subset DEF Earlier
    <3> QED
      BY <3>1, FS_CardinalityType
  <2> QED
    BY <2>1
<1>3. \A t, u \in Y : Before(u, t) => rank[u] < rank[t]
  BY RankGrows
<1>4. \A t, u \in Y : t = u \/ Before(t, u) \/ Before(u, t)
  BY <1>1, YieldOrder
<1>10. \A t \in Y : Earlier(todo, t) = {u \in Y : Before(u, t)} /\ rank[t] = Cardinality(Earlier(todo, t))
  BY DEF Earlier
<1> HIDE DEF Y, F, rank
<1>5. F \subseteq Y /\ IsFiniteSet(F) /\ Cardinality(F) \in Nat
  BY <1>0, <1>1, FS_Subset, FS_CardinalityType
<1>6. \A t \in F, u \in Y : Before(u, t) => u \in F
  BY <1>0, <1>2, <1>3
<1>7. Cardinality(F) <= n
  <2> DEFINE f == [t \in F |-> rank[t]]
  <2>1. IsFiniteSet(0 .. n - 1) /\ Cardinality(0 .. n - 1) = n
    <3>1. n - 1 \in Int /\ 0 \in Int
      OBVIOUS
    <3>2. /\ IsFiniteSet(0 .. n - 1)
          /\ Cardinality(0 .. n - 1) = IF 0 > n - 1 THEN 0 ELSE (n - 1) - 0 + 1
      BY <3>1, FS_Interval
    <3> QED
      BY <3>2
  <2>2. f \in [F -> 0 .. n - 1]
    BY <1>0, <1>2
  <2>3. \A t, u \in F : f[t] = f[u] => t = u
    BY <1>2, <1>3, <1>4, <1>5
  <2>4. f \in Injection(F, 0 .. n - 1)
    BY <2>2, <2>3 DEF Injection, IsInjective
  <2>5. Cardinality(F) <= Cardinality(0 .. n - 1)
    BY <2>1, <2>4, FS_Injection
  <2> QED
    BY <2>1, <2>5
<1>8. ASSUME F # Y PROVE Cardinality(F) >= n
  <2> DEFINE T == {rank[t] : t \in Y \ F}
  <2>1. T \in SUBSET Nat /\ T # {}
    BY <1>2, <1>5, <1>8
  <2>2. PICK m \in T : \A y \in T : m <= y
    BY <2>1, LeastNumber
  <2>3. PICK t \in Y \ F : m = rank[t]
    BY <2>2
  <2>4. ASSUME NEW u \in Earlier(todo, t) PROVE u \in F
    <3>1. u \in Y /\ Before(u, t)
      BY <1>10, <2>3, <2>4
    <3>2. rank[u] < rank[t] /\ rank[u] \in Nat /\ rank[t] \in Nat
      BY <1>2, <1>3, <2>3, <3>1
    <3>3. ~(rank[t] <= rank[u])
      BY <3>2
    <3> QED
      BY <2>2, <2>3, <3>1, <3>3
  <2>5. Cardinality(Earlier(todo, t)) <= Cardinality(F)
    BY <1>5, <2>4, FS_Subset
  <2>6. rank[t] \in Nat /\ ~(rank[t] < n) /\ rank[t] = Cardinality(Earlier(todo, t))
    BY <1>0, <1>2, <1>10, <2>3
  <2> QED
    BY <1>5, <2>5, <2>6
<1> QED
  BY <1>5, <1>6, <1>7, <1>8 DEF F, Y

\* The tasks of q in T.
Of(T, q) == {t \in T : t[1] = q}

\* What the first tasks take of a question's row: its upper end.
LEMMA FirstOfRow ==
    ASSUME NEW todo \in Todos, NEW n \in Nat, NEW q \in Questions
    PROVE  LET G == Of(FirstTasks(todo, n), q)
           IN  /\ IsFiniteSet(G) /\ Cardinality(G) \in 0 .. todo[q]
               /\ \A t \in G : t[2] > todo[q] - Cardinality(G)
               /\ FirstTasks(todo, n) = Yields(todo) => Cardinality(G) = todo[q]
<1> DEFINE F == FirstTasks(todo, n)
           G == Of(F, q)
           d == todo[q]
<1>0. d \in 0 .. samples_per_question /\ samples_per_question \in Nat /\ d \in Nat
  BY TaskFacts DEF Todos
<1>1. /\ F \subseteq Yields(todo) /\ IsFiniteSet(F)
      /\ \A t \in F, u \in Yields(todo) : Before(u, t) => u \in F
  BY FirstOnes
<1>2. IsFiniteSet(G) /\ Cardinality(G) \in Nat
  BY <1>1, FS_Subset, FS_CardinalityType DEF Of
<1>3. ASSUME NEW t \in Yields(todo), t[1] = q
      PROVE  t[2] \in 1 .. d /\ t = <<q, t[2]>>
  BY <1>0, <1>3, TaskFacts DEF Yields
<1>4. ASSUME NEW j \in 1 .. d
      PROVE  <<q, j>> \in Yields(todo) /\ <<q, j>>[1] = q /\ <<q, j>>[2] = j
  <2>1. j \in 1 .. samples_per_question
    BY <1>0
  <2>2. <<q, j>> \in Tasks /\ <<q, j>>[1] = q /\ <<q, j>>[2] = j
    BY <2>1, TaskFacts
  <2>3. j <= d
    BY <1>0
  <2> QED
    BY <2>2, <2>3 DEF Yields
<1>5. IsFiniteSet(Row(q, 1, d)) /\ Cardinality(Row(q, 1, d)) = d
  <2>1. 1 \in Nat /\ 1 <= d + 1 /\ d - 1 + 1 = d
    BY <1>0
  <2> QED
    BY <1>0, <2>1, RowSize
<1> HIDE DEF d
<1>6. G \subseteq Row(q, 1, d)
  BY <1>1, <1>3 DEF Of, Row
<1>7. Cardinality(G) <= d
  BY <1>5, <1>6, FS_Subset
<1>8. ASSUME NEW t \in G PROVE t[2] > d - Cardinality(G)
  <2>1. t \in F /\ t[1] = q /\ t \in Yields(todo)
    BY <1>1, <1>8 DEF Of
  <2>2. PICK j \in 1 .. d : t[2] = j /\ t = <<q, j>>
    BY <1>3, <2>1
  <2>3. ASSUME NEW i \in j .. d PROVE <<q, i>> \in G
    <3>1. i \in 1 .. d /\ i >= j
      BY <1>0, <2>2
    <3>2. <<q, i>> \in Yields(todo) /\ <<q, i>>[1] = q /\ <<q, i>>[2] = i
      BY <1>4, <3>1
    <3>3. CASE i = j
      BY <2>1, <2>2, <3>3 DEF Of
    <3>4. CASE i > j
      <4>1. Before(<<q, i>>, t)
        BY <2>1, <2>2, <3>2, <3>4 DEF Before
      <4> QED
        BY <1>1, <2>1, <3>2, <4>1 DEF Of
    <3> QED
      BY <1>0, <2>2, <3>1, <3>3, <3>4
  <2>4. Row(q, j, d) \subseteq G
    BY <2>3 DEF Row
  <2>5. Cardinality(Row(q, j, d)) = d - j + 1
    <3>1. j \in Nat /\ j <= d + 1
      BY <1>0
    <3> QED
      BY <1>0, <3>1, RowSize
  <2>6. Cardinality(Row(q, j, d)) <= Cardinality(G)
    BY <1>2, <2>4, FS_Subset
  <2>7. j > d - Cardinality(G)
    BY <1>0, <1>2, <2>5, <2>6
  <2> QED
    BY <2>2, <2>7
<1>9. ASSUME F = Yields(todo) PROVE Cardinality(G) = d
  <2>1. Row(q, 1, d) \subseteq G
    BY <1>4, <1>9 DEF Row, Of
  <2>2. G = Row(q, 1, d)
    BY <1>6, <2>1
  <2> HIDE DEF G
  <2> QED
    BY <1>5, <2>2
<1>10. Cardinality(G) \in 0 .. d
  BY <1>0, <1>2, <1>7
<1> QED
  BY <1>2, <1>8, <1>9, <1>10 DEF d

\* What creating n tasks does: as many are created as there are, the ones
\* created are no longer to be yielded, and no question's sum changes.
LEMMA CreateEffect ==
    ASSUME NEW todo \in Todos, NEW n \in Nat, NEW live \in SUBSET Tasks, NEW st,
           \A t \in live : t[2] > todo[t[1]],
           st \in [Tasks -> {"none", "wait", "call", "sleep", "ok", "failed"}],
           attempt \in [Tasks -> 0 .. max_retries],
           CreateTasks(todo, live, st, n)
    PROVE  /\ needed' \in Todos /\ \A q \in Questions : needed'[q] <= todo[q]
           /\ live \subseteq pending' /\ pending' \subseteq Tasks
           /\ IsFiniteSet(live) /\ IsFiniteSet(pending')
           /\ \A t \in pending' \ live : t[2] <= todo[t[1]]
           /\ \A t \in pending' : t[2] > needed'[t[1]]
           /\ Cardinality(live) \in Nat /\ Cardinality(pending') \in Nat
           /\ Cardinality(pending') <= Cardinality(live) + n
           /\ Yields(needed') # {} => Cardinality(pending') >= Cardinality(live) + n
           /\ \A q \in Questions :
                /\ Cardinality(Of(live, q)) \in Nat /\ Cardinality(Of(pending', q)) \in Nat
                /\ needed'[q] + Cardinality(Of(pending', q)) = todo[q] + Cardinality(Of(live, q))
           /\ n >= 1 /\ pending' = {} => \A q \in Questions : needed'[q] = 0
           /\ status' = [t \in Tasks |-> IF t \in pending' \ live THEN "wait" ELSE st[t]]
           /\ attempt' = [t \in Tasks |-> IF t \in pending' \ live THEN 0 ELSE attempt[t]]
<1> DEFINE F == FirstTasks(todo, n)
           c == [q \in Questions |-> Cardinality(Of(F, q))]
<1>0. /\ samples_per_question \in Nat /\ max_retries \in Nat
      /\ \A q \in Questions : todo[q] \in 0 .. samples_per_question
  BY TaskFacts, DataGenAssumption DEF Todos
<1>1. /\ needed' = [q \in Questions |-> todo[q] - c[q]]
      /\ pending' = live \cup F
      /\ status' = [t \in Tasks |-> IF t \in F THEN "wait" ELSE st[t]]
      /\ attempt' = [t \in Tasks |-> IF t \in F THEN 0 ELSE attempt[t]]
  BY DEF CreateTasks, Of
<1>2. /\ F \subseteq Yields(todo) /\ IsFiniteSet(F) /\ Cardinality(F) \in Nat /\ Cardinality(F) <= n
      /\ (F # Yields(todo) => Cardinality(F) >= n)
  BY FirstOnes
<1>3. \A q \in Questions :
        /\ c[q] \in 0 .. todo[q] /\ IsFiniteSet(Of(F, q)) /\ c[q] = Cardinality(Of(F, q))
        /\ \A t \in Of(F, q) : t[2] > todo[q] - c[q]
        /\ (F = Yields(todo) => c[q] = todo[q])
  BY FirstOfRow
<1> HIDE DEF F, c
<1>4. F \subseteq Tasks /\ \A t \in F : t[2] <= todo[t[1]] /\ t[1] \in Questions /\ t[2] \in Nat
  BY <1>2, TaskFacts DEF Yields
<1>5. F \cap live = {}
  <2>1. ASSUME NEW t \in F, t \in live PROVE FALSE
    <3>1. t[2] <= todo[t[1]] /\ t[2] > todo[t[1]] /\ t[2] \in Nat /\ todo[t[1]] \in Nat
      BY <1>0, <1>4, <2>1
    <3> QED
      BY <3>1
  <2> QED
    BY <2>1
<1>6. pending' \ live = F
  BY <1>1, <1>5
<1>7. IsFiniteSet(live) /\ Cardinality(live) \in Nat
  BY TaskFacts, FS_Subset, FS_CardinalityType
<1>8. IsFiniteSet(pending') /\ Cardinality(pending') = Cardinality(live) + Cardinality(F)
  BY <1>1, <1>2, <1>5, <1>7, TwoParts
<1>9. /\ needed' \in Todos /\ \A q \in Questions : needed'[q] <= todo[q] /\ needed'[q] = todo[q] - c[q]
  <2>1. ASSUME NEW q \in Questions
        PROVE  /\ todo[q] - c[q] \in 0 .. samples_per_question /\ todo[q] - c[q] <= todo[q]
    <3>1. PICK x \in 0 .. samples_per_question, y \in Nat : x = todo[q] /\ y = c[q] /\ y <= x
      BY <1>0, <1>3
    <3> QED
      BY <1>0, <3>1
  <2> QED
    BY <1>1, <2>1 DEF Todos
<1>10. ASSUME NEW t \in pending' PROVE t[2] > needed'[t[1]]
  <2>1. CASE t \in F
    <3>1. t[1] \in Questions /\ t \in Of(F, t[1])
      BY <1>4, <2>1 DEF Of
    <3> QED
      BY <1>3, <1>9, <3>1
  <2>2. CASE t \in live
    <3>1. t[1] \in Questions /\ t[2] \in Nat /\ t[2] > todo[t[1]]
      BY <2>2, TaskFacts
    <3>2. PICK x \in Nat, y \in Nat, z \in Nat :
             x = t[2] /\ y = todo[t[1]] /\ z = needed'[t[1]] /\ z <= y /\ x > y
      BY <1>0, <1>9, <3>1 DEF Todos
    <3>3. x > z
      BY <3>2
    <3> QED
      BY <3>2, <3>3
  <2> QED
    BY <1>1, <2>1, <2>2
<1>11. F = Yields(todo) => \A q \in Questions : needed'[q] = 0
  <2>1. \A x \in Nat : x - x = 0
    OBVIOUS
  <2> QED
    BY <1>0, <1>3, <1>9, <2>1
<1>12. (\A q \in Questions : needed'[q] = 0) => Yields(needed') = {}
  BY TaskFacts DEF Yields
<1>13. Yields(needed') # {} => Cardinality(pending') >= Cardinality(live) + n
  BY <1>2, <1>7, <1>8, <1>11, <1>12
<1>14. Cardinality(pending') <= Cardinality(live) + n /\ Cardinality(pending') \in Nat
  BY <1>2, <1>7, <1>8
<1>15. ASSUME NEW q \in Questions
       PROVE  /\ Cardinality(Of(live, q)) \in Nat /\ Cardinality(Of(pending', q)) \in Nat
              /\ needed'[q] + Cardinality(Of(pending', q)) = todo[q] + Cardinality(Of(live, q))
  <2>1. /\ Of(pending', q) = Of(live, q) \cup Of(F, q) /\ Of(live, q) \cap Of(F, q) = {}
    BY <1>1, <1>5 DEF Of
  <2>2. IsFiniteSet(Of(live, q)) /\ Cardinality(Of(live, q)) \in Nat
    BY <1>7, FS_Subset, FS_CardinalityType DEF Of
  <2>3. Cardinality(Of(pending', q)) = Cardinality(Of(live, q)) + c[q]
    <3>1. IsFiniteSet(Of(F, q)) /\ c[q] = Cardinality(Of(F, q))
      BY <1>3
    <3>2. Cardinality(Of(live, q) \cup Of(F, q)) = Cardinality(Of(live, q)) + Cardinality(Of(F, q))
      BY <2>1, <2>2, <3>1, TwoParts
    <3> QED
      BY <2>1, <3>1, <3>2
  <2>4. PICK x \in Nat, y \in Nat, z \in Nat :
          x = todo[q] /\ y = c[q] /\ z = Cardinality(Of(live, q)) /\ needed'[q] = x - y
    BY <1>0, <1>3, <1>9, <2>2
  <2>5. (x - y) + (z + y) = x + z /\ z + y \in Nat
    BY <1>0
  <2> QED
    BY <2>2, <2>3, <2>4, <2>5
<1>16. n >= 1 /\ pending' = {} => \A q \in Questions : needed'[q] = 0
  <2> SUFFICES ASSUME n >= 1, pending' = {} PROVE F = Yields(todo)
    BY <1>11
  <2>1. Cardinality(F) = 0
    BY <1>6, FS_EmptySet
  <2> QED
    BY <1>2, <2>1
<1> QED
  BY <1>1, <1>4, <1>6, <1>7, <1>8, <1>9, <1>10, <1>13, <1>14, <1>15, <1>16

----------------------------------------------------------------------------
(* The inductive invariant.                                                *)

\* A task is in pending or in done, is yielded no more, and done holds only
\* what is over.
Tracked ==
    /\ pending \cap done = {}
    /\ \A t \in pending \cup done : t[2] > needed[t[1]]
    /\ \A t \in done : status[t] \in {"ok", "failed"}
    /\ \A t \in Tasks : status[t] = "failed" => lost
    /\ \A t \in Tasks : status[t] = "sleep" => attempt[t] < max_retries

\* What is left where process_dataset is.
Left ==
    /\ pc # "save" => Len(batch) < save_batch_size
    /\ pc \notin {"handle", "save"} => done = {}
    /\ pc \in {"start", "group", "done"} => batch = <<>>
    /\ pc \in {"start", "flush", "group", "done"} =>
           pending = {} /\ \A q \in Questions : needed[q] = 0

\* There is work for max_concurrency tasks, in pending or in done, as long as
\* there are tasks to create; after a save one is created for the task handled.
Supply ==
    /\ Cardinality(pending) <= max_buffer
    /\ Yields(needed) # {} =>
         /\ pc \in {"wait", "handle"} =>
              Cardinality(pending) + Cardinality(done) >= max_concurrency
         /\ pc = "save" => Cardinality(pending) + Cardinality(done) >= max_concurrency - 1

\* Unless something failed, every answer is somewhere.
Complete ==
    pc # "start" /\ ~lost =>
        \A q \in Questions : Saved(q) + Coming(q) >= samples_per_question

IInv == TypeOK /\ Tracked /\ Left /\ Supply /\ Complete

\* Without bytes that hide lines there is no answer too many, and what was
\* grouped is what was asked for.
Accounted ==
    /\ Clean(lines)
    /\ NeverTooMany
    /\ pc = "done" /\ ~lost /\ samples_per_question > 0 =>
         \A q \in Questions : grouped[q] = samples_per_question

----------------------------------------------------------------------------
(* Refilling the buffer.                                                   *)

\* What a task can be doing.
Statuses == {"none", "wait", "call", "sleep", "ok", "failed"}

\* The smaller and the larger of two numbers.
LEMMA MinMaxTwo ==
    ASSUME NEW a \in Int, NEW b \in Int
    PROVE  /\ Min({a, b}) = IF a <= b THEN a ELSE b
           /\ Max({a, b}) = IF a <= b THEN b ELSE a
<1>1. Min({a, b}) \in {a, b} /\ \A y \in {a, b} : Min({a, b}) <= y
  <2>1. \E x \in {a, b} : \A y \in {a, b} : x <= y
    OBVIOUS
  <2> QED
    BY <2>1 DEF Min
<1>2. Max({a, b}) \in {a, b} /\ \A y \in {a, b} : Max({a, b}) >= y
  <2>1. \E x \in {a, b} : \A y \in {a, b} : x >= y
    OBVIOUS
  <2> QED
    BY <2>1 DEF Max
<1> QED
  BY <1>1, <1>2

\* The refill fits into the buffer, and is not empty if there is room.
LEMMA RefillLimit ==
    ASSUME TypeOK, Supply
    PROVE  /\ IsFiniteSet(pending) /\ Cardinality(pending) \in Nat
           /\ max_concurrency \in Nat \ {0} /\ max_buffer \in Nat /\ max_buffer >= max_concurrency
           /\ refill_limit \in Nat /\ Cardinality(pending) + refill_limit <= max_buffer
           /\ Cardinality(pending) < max_buffer => refill_limit >= 1
<1>1. IsFiniteSet(pending) /\ Cardinality(pending) \in Nat
  BY TaskFacts, FS_Subset, FS_CardinalityType DEF TypeOK
<1>2. max_concurrency \in Nat \ {0}
  BY DataGenAssumption
<1>3. max_buffer \in Nat /\ max_buffer >= max_concurrency
  BY <1>2 DEF max_buffer
<1>4. Cardinality(pending) <= max_buffer
  BY DEF Supply
<1>5. PICK r \in Nat : r = max_buffer - Cardinality(pending)
  BY <1>1, <1>3, <1>4
<1>6. refill_limit = IF 100 <= r THEN 100 ELSE r
  BY <1>5, MinMaxTwo DEF refill_limit
<1> QED
  BY <1>1, <1>2, <1>3, <1>5, <1>6

\* The buffer is refilled when all but the tasks of D were handled.
LEMMA RefillEffect ==
    ASSUME TypeOK, Supply, NEW D \in SUBSET Tasks, NEW st \in [Tasks -> Statuses],
           pending \cap D = {},
           \A t \in pending \cup D : t[2] > needed[t[1]],
           pending \cup D = {t \in Tasks : st[t] # "none"},
           \A t \in D : st[t] \in {"ok", "failed"},
           \A t \in Tasks : st[t] = "failed" => lost,
           \A t \in Tasks : st[t] = "sleep" => attempt[t] < max_retries,
           Yields(needed) # {} => Cardinality(pending) + Cardinality(D) >= max_concurrency - 1,
           CreateTasks(needed, pending, st, refill_limit)
    PROVE  /\ needed' \in Todos /\ pending' \subseteq Tasks /\ pending' \cap D = {}
           /\ status' \in [Tasks -> Statuses] /\ attempt' \in [Tasks -> 0 .. max_retries]
           /\ pending' \cup D = {t \in Tasks : status'[t] # "none"}
           /\ \A t \in pending' \cup D : t[2] > needed'[t[1]]
           /\ \A t \in D : status'[t] \in {"ok", "failed"}
           /\ \A t \in Tasks : status'[t] = "failed" => lost
           /\ \A t \in Tasks : status'[t] = "sleep" => attempt'[t] < max_retries
           /\ Cardinality(pending') <= max_buffer
           /\ Yields(needed') # {} => Cardinality(pending') + Cardinality(D) >= max_concurrency
           /\ pending' = {} => \A q \in Questions : needed'[q] = 0
           /\ \A q \in Questions :
                /\ Cardinality(Of(pending \cup D, q)) \in Nat
                /\ Cardinality(Of(pending' \cup D, q)) \in Nat
                /\ needed'[q] + Cardinality(Of(pending' \cup D, q))
                     = needed[q] + Cardinality(Of(pending \cup D, q))
<1>0. /\ needed \in Todos /\ attempt \in [Tasks -> 0 .. max_retries] /\ pending \in SUBSET Tasks
      /\ max_retries \in Nat
  BY DataGenAssumption DEF TypeOK, Todos
<1>1. /\ Cardinality(pending) \in Nat
      /\ max_concurrency \in Nat \ {0} /\ max_buffer \in Nat /\ max_buffer >= max_concurrency
      /\ refill_limit \in Nat /\ Cardinality(pending) + refill_limit <= max_buffer
      /\ (Cardinality(pending) < max_buffer => refill_limit >= 1)
  BY RefillLimit
<1>2. /\ needed' \in Todos /\ \A q \in Questions : needed'[q] <= needed[q]
      /\ pending \subseteq pending' /\ pending' \subseteq Tasks
      /\ IsFiniteSet(pending) /\ IsFiniteSet(pending')
      /\ \A t \in pending' \ pending : t[2] <= needed[t[1]]
      /\ \A t \in pending' : t[2] > needed'[t[1]]
      /\ Cardinality(pending) \in Nat /\ Cardinality(pending') \in Nat
      /\ Cardinality(pending') <= Cardinality(pending) + refill_limit
      /\ (Yields(needed') # {} => Cardinality(pending') >= Cardinality(pending) + refill_limit)
      /\ \A q \in Questions :
           /\ Cardinality(Of(pending, q)) \in Nat /\ Cardinality(Of(pending', q)) \in Nat
           /\ needed'[q] + Cardinality(Of(pending', q)) = needed[q] + Cardinality(Of(pending, q))
      /\ (refill_limit >= 1 /\ pending' = {} => \A q \in Questions : needed'[q] = 0)
      /\ status' = [t \in Tasks |-> IF t \in pending' \ pending THEN "wait" ELSE st[t]]
      /\ attempt' = [t \in Tasks |-> IF t \in pending' \ pending THEN 0 ELSE attempt[t]]
  <2>1. refill_limit \in Nat
    BY <1>1
  <2>2. /\ \A t \in pending : t[2] > needed[t[1]]
        /\ st \in [Tasks -> {"none", "wait", "call", "sleep", "ok", "failed"}]
    BY DEF Statuses
  <2> HIDE DEF refill_limit
  <2> QED
    BY <1>0, <2>1, <2>2, CreateEffect
<1>3. pending' \cap D = {}
  <2>1. ASSUME NEW t \in pending', t \in D PROVE FALSE
    <3>1. t \notin pending /\ t[2] > needed[t[1]] /\ t[2] <= needed[t[1]] /\ t \in Tasks
      BY <1>2, <2>1
    <3>2. t[2] \in Nat /\ needed[t[1]] \in Nat
      BY <1>0, <3>1, TaskFacts DEF Todos
    <3> QED
      BY <3>1, <3>2
  <2> QED
    BY <2>1
<1>4. /\ status' \in [Tasks -> Statuses] /\ attempt' \in [Tasks -> 0 .. max_retries]
      /\ pending' \cup D = {t \in Tasks : status'[t] # "none"}
  <2>1. status' \in [Tasks -> Statuses] /\ attempt' \in [Tasks -> 0 .. max_retries]
    BY <1>0, <1>2 DEF Statuses
  <2>2. \A t \in Tasks : t \in pending' \cup D <=> status'[t] # "none"
    BY <1>2
  <2> QED
    BY <1>2, <2>1, <2>2
<1>5. \A t \in pending' \cup D : t[2] > needed'[t[1]]
  <2>1. ASSUME NEW t \in D PROVE t[2] > needed'[t[1]]
    <3>1. t[1] \in Questions /\ t[2] \in Nat /\ t[2] > needed[t[1]]
      BY TaskFacts
    <3>2. PICK x \in Nat, y \in Nat, z \in Nat :
             x = t[2] /\ y = needed[t[1]] /\ z = needed'[t[1]] /\ z <= y /\ x > y
      BY <1>0, <1>2, <3>1 DEF Todos
    <3>3. x > z
      BY <3>2
    <3> QED
      BY <3>2, <3>3
  <2> QED
    BY <1>2, <2>1
<1>6. /\ \A t \in D : status'[t] \in {"ok", "failed"}
      /\ \A t \in Tasks : status'[t] = "failed" => lost
      /\ \A t \in Tasks : status'[t] = "sleep" => attempt'[t] < max_retries
  BY <1>2, <1>3
<1>7. Cardinality(pending') <= max_buffer
  BY <1>1, <1>2
<1>8. Cardinality(D) \in Nat /\ IsFiniteSet(D)
  BY TaskFacts, FS_Subset, FS_CardinalityType
<1>9. Yields(needed') # {} => Cardinality(pending') + Cardinality(D) >= max_concurrency
  <2> SUFFICES ASSUME Yields(needed') # {}
               PROVE  Cardinality(pending') + Cardinality(D) >= max_concurrency
    OBVIOUS
  <2>1. Yields(needed) # {}
    <3>1. PICK t \in Yields(needed') : TRUE
      OBVIOUS
    <3>2. t \in Tasks /\ t[2] <= needed'[t[1]] /\ t[1] \in Questions /\ t[2] \in Nat
      BY TaskFacts DEF Yields
    <3>3. PICK x \in Nat, y \in Nat, z \in Nat :
             x = t[2] /\ y = needed[t[1]] /\ z = needed'[t[1]] /\ z <= y /\ x <= z
      BY <1>0, <1>2, <3>2 DEF Todos
    <3>4. x <= y
      BY <3>3
    <3> QED
      BY <3>2, <3>3, <3>4 DEF Yields
  <2>2. Cardinality(pending) + Cardinality(D) >= max_concurrency - 1
    BY <2>1
  <2>3. Cardinality(pending') >= Cardinality(pending) + refill_limit
    BY <1>2
  <2> HIDE DEF refill_limit, max_buffer
  <2>4. PICK r \in Nat, p \in Nat, pp \in Nat, d \in Nat, m \in Nat, b \in Nat :
          /\ r = refill_limit /\ p = Cardinality(pending) /\ pp = Cardinality(pending')
          /\ d = Cardinality(D) /\ m = max_concurrency /\ b = max_buffer
    BY <1>1, <1>2, <1>8
  <2>5. p + d >= m - 1 /\ pp >= p + r /\ b >= m /\ p + r <= b /\ (p < b => r >= 1)
    BY <1>1, <2>2, <2>3, <2>4
  <2>6. pp + d >= m
    BY <2>5
  <2> QED
    BY <2>4, <2>6
<1>10. pending' = {} => \A q \in Questions : needed'[q] = 0
  <2> SUFFICES ASSUME pending' = {} PROVE refill_limit >= 1
    BY <1>2
  <2>1. Cardinality(pending) = 0
    BY <1>2, FS_EmptySet
  <2> QED
    BY <1>1, <2>1
<1>11. ASSUME NEW q \in Questions
       PROVE  /\ Cardinality(Of(pending \cup D, q)) \in Nat
              /\ Cardinality(Of(pending' \cup D, q)) \in Nat
              /\ needed'[q] + Cardinality(Of(pending' \cup D, q))
                     = needed[q] + Cardinality(Of(pending \cup D, q))
  <2>1. /\ Of(pending \cup D, q) = Of(pending, q) \cup Of(D, q) /\ Of(pending, q) \cap Of(D, q) = {}
        /\ Of(pending' \cup D, q) = Of(pending', q) \cup Of(D, q) /\ Of(pending', q) \cap Of(D, q) = {}
    BY <1>3 DEF Of
  <2>2. IsFiniteSet(Of(pending, q)) /\ IsFiniteSet(Of(pending', q)) /\ IsFiniteSet(Of(D, q))
    BY <1>2, <1>8, FS_Subset DEF Of
  <2>3. /\ Cardinality(Of(pending, q)) \in Nat /\ Cardinality(Of(D, q)) \in Nat
        /\ Cardinality(Of(pending, q) \cup Of(D, q)) = Cardinality(Of(pending, q)) + Cardinality(Of(D, q))
    BY <2>1, <2>2, TwoParts
  <2>4. /\ Cardinality(Of(pending', q)) \in Nat
        /\ Cardinality(Of(pending', q) \cup Of(D, q)) = Cardinality(Of(pending', q)) + Cardinality(Of(D, q))
    BY <2>1, <2>2, TwoParts
  <2>7. needed[q] \in Nat /\ needed'[q] \in Nat
    BY <1>0, <1>2 DEF Todos
  <2>8. needed'[q] + Cardinality(Of(pending', q)) = needed[q] + Cardinality(Of(pending, q))
    BY <1>2
  <2>5. PICK x \in Nat, y \in Nat, z \in Nat, v \in Nat, w \in Nat :
          /\ x = Cardinality(Of(pending, q)) /\ y = Cardinality(Of(pending', q))
          /\ z = Cardinality(Of(D, q)) /\ v = needed[q] /\ w = needed'[q] /\ w + y = v + x
    BY <2>3, <2>4, <2>7, <2>8
  <2>6. w + (y + z) = v + (x + z) /\ x + z \in Nat /\ y + z \in Nat
    BY <2>5
  <2> QED
    BY <2>1, <2>3, <2>4, <2>5, <2>6
<1> QED
  BY <1>2, <1>3, <1>4, <1>5, <1>6, <1>7, <1>9, <1>10, <1>11

----------------------------------------------------------------------------
(* What the invariant says of the numbers.                                 *)

\* The answers to q in file, batch, generator and tasks.
Total(l, b, todo, T, q) == Count(l, q) + (Count(b, q) + todo[q] + Cardinality(Of(T, q)))

\* ... which are numbers.
LEMMA TotalType ==
    ASSUME NEW l \in Seq(Line), NEW b \in Seq(Questions), NEW todo \in Todos, NEW T \in SUBSET Tasks,
           NEW q \in Questions
    PROVE  /\ Count(l, q) \in Nat /\ Count(b, q) \in Nat /\ todo[q] \in Nat
           /\ IsFiniteSet(Of(T, q)) /\ Cardinality(Of(T, q)) \in Nat /\ Total(l, b, todo, T, q) \in Nat
<1>1. Count(l, q) \in Nat /\ Count(b, q) \in Nat
  BY CountType
<1>2. todo[q] \in Nat
  BY TaskFacts DEF Todos
<1>3. IsFiniteSet(Of(T, q)) /\ Cardinality(Of(T, q)) \in Nat
  BY TaskFacts, FS_Subset, FS_CardinalityType DEF Of
<1> QED
  BY <1>1, <1>2, <1>3 DEF Total

\* Complete and NeverTooMany, in these terms.
LEMMA TotalIs ==
    /\ \A q \in Questions : Saved(q) + Coming(q) = Total(lines, batch, needed, pending \cup done, q)
    /\ \A q \in Questions : (Saved(q) + Coming(q))' = Total(lines', batch', needed', pending' \cup done', q)
BY DEF Saved, Coming, Total, Of, Count

\* What TypeOK says, with the names used here.
LEMMA Types ==
    TypeOK => /\ lines \in Seq(Line) /\ open \in BOOLEAN /\ (open => lines # <<>>)
              /\ needed \in Todos /\ status \in [Tasks -> Statuses]
              /\ attempt \in [Tasks -> 0 .. max_retries]
              /\ pending \in SUBSET Tasks /\ done \in SUBSET Tasks
              /\ pending \cup done = {t \in Tasks : status[t] # "none"}
              /\ batch \in Seq(Questions) /\ Len(batch) \in Nat
              /\ samples_per_question \in Nat /\ save_batch_size \in Nat \ {0} /\ max_retries \in Nat
BY DataGenAssumption, LenProperties DEF TypeOK, Line, Todos, Statuses

\* What can be read is part of the file: all of it if every line can be decoded.
LEMMA ReadFacts ==
    ASSUME TypeOK
    PROVE  /\ Readable \in 0 .. Len(lines) /\ LinesSeen \subseteq 0 .. Len(lines)
           /\ Clean(lines) => Readable = Len(lines) /\ LinesSeen = {Len(lines)}
<1>1. Len(lines) \in Nat
  BY Types, LenProperties
<1>2. Readable \in 0 .. Len(lines)
  <2>1. CASE \E i \in 1 .. Len(lines) : lines[i] = Split
    <3> DEFINE T == {i \in 1 .. Len(lines) : lines[i] = Split}
    <3>1. T \in SUBSET Nat /\ T # {}
      BY <1>1, <2>1
    <3>2. \E x \in T : \A y \in T : x <= y
      BY <3>1, LeastNumber
    <3>3. Min(T) \in T
      BY <3>2 DEF Min
    <3>4. PICK m \in 1 .. Len(lines) : m = Min(T)
      BY <3>3
    <3>5. Readable = m - 1
      BY <2>1, <3>4 DEF Readable
    <3> QED
      BY <1>1, <3>5
  <2>2. CASE ~\E i \in 1 .. Len(lines) : lines[i] = Split
    BY <1>1, <2>2 DEF Readable
  <2> QED
    BY <2>1, <2>2
<1>3. LinesSeen \subseteq 0 .. Len(lines)
  BY <1>1, <1>2 DEF LinesSeen
<1>4. Clean(lines) => Readable = Len(lines) /\ LinesSeen = {Len(lines)}
  BY DEF Clean, Readable, LinesSeen
<1> QED
  BY <1>2, <1>3, <1>4

\* What is missing makes up for what was read.
LEMMA MissingFacts ==
    ASSUME TypeOK, NEW k \in 0 .. Len(lines)
    PROVE  /\ Missing(k) \in Todos
           /\ \A q \in Questions :
                /\ Count(lines, q) + Missing(k)[q] >= samples_per_question
                /\ k = Len(lines) /\ Count(lines, q) <= samples_per_question =>
                     Count(lines, q) + Missing(k)[q] = samples_per_question
<1>0. lines \in Seq(Line) /\ samples_per_question \in Nat /\ Len(lines) \in Nat
  BY Types, LenProperties
<1> DEFINE s == SubSeq(lines, 1, k)
<1>1. s \in Seq(Line) /\ s \o SubSeq(lines, k + 1, Len(lines)) = lines
  BY <1>0, CutInTwo
<1>2. k = Len(lines) => s = lines
  <2> SUFFICES ASSUME k = Len(lines) PROVE s = lines
    OBVIOUS
  <2>1. SubSeq(lines, k + 1, Len(lines)) = <<>>
    BY <1>0, SubSeqProperties, EmptySeq
  <2>2. s \o <<>> = s
    BY <1>1, ConcatEmptySeq
  <2> QED
    BY <1>1, <2>1, <2>2
<1>3. \A q \in Questions : Count(s, q) \in Nat /\ Count(lines, q) \in Nat /\ Count(s, q) <= Count(lines, q)
  BY <1>0, <1>1, CountType, CountPrefix
<1>4. Missing(k) = [q \in Questions |-> Max({0, samples_per_question - Count(s, q)})]
  BY DEF Missing
<1> HIDE DEF s
<1>5. ASSUME NEW q \in Questions
      PROVE  /\ Missing(k)[q] \in 0 .. samples_per_question
             /\ Count(lines, q) + Missing(k)[q] >= samples_per_question
             /\ k = Len(lines) /\ Count(lines, q) <= samples_per_question =>
                  Count(lines, q) + Missing(k)[q] = samples_per_question
  <2>1. PICK c \in Nat, l \in Nat, n \in Nat :
          c = Count(s, q) /\ l = Count(lines, q) /\ n = samples_per_question /\ c <= l
    BY <1>0, <1>3
  <2>2. k = Len(lines) => c = l
    BY <1>2, <2>1
  <2>3. 0 \in Int /\ n - c \in Int
    OBVIOUS
  <2>4. Max({0, n - c}) = IF 0 <= n - c THEN n - c ELSE 0
    BY <2>3, MinMaxTwo
  <2>5. Missing(k)[q] = IF 0 <= n - c THEN n - c ELSE 0
    BY <1>4, <2>1, <2>4
  <2> QED
    BY <2>1, <2>2, <2>5
<1>6. Missing(k) \in Todos
  BY <1>4, <1>5 DEF Todos
<1> QED
  BY <1>5, <1>6

----------------------------------------------------------------------------

(* The steps.                                                              *)

\* The first start.
LEMMA InitHolds == Init => IInv /\ Accounted
<1> SUFFICES ASSUME Init PROVE IInv /\ Accounted
  OBVIOUS
<1> USE DEF Init, Idle, NoTries
<1>1. /\ samples_per_question \in Nat /\ save_batch_size \in Nat \ {0} /\ max_retries \in Nat
      /\ MaxRuns \in Nat \ {0} /\ max_concurrency \in Nat \ {0}
  BY DataGenAssumption
<1>2. TypeOK
  <2>0. open \in BOOLEAN /\ lost \in BOOLEAN /\ ~open
    BY Zenon
  <2>1. /\ lines \in Seq(Questions \cup {Junk, Split}) /\ batch \in Seq(Questions)
        /\ grouped \in [Questions -> Nat] \cup {NoFile}
    OBVIOUS
  <2>2. /\ needed \in [Questions -> 0 .. samples_per_question]
        /\ attempt \in [Tasks -> 0 .. max_retries]
    BY <1>1
  <2>3. /\ status \in [Tasks -> {"none", "wait", "call", "sleep", "ok", "failed"}]
        /\ pending \subseteq Tasks /\ done \subseteq Tasks
        /\ pending \cup done = {t \in Tasks : status[t] # "none"}
    OBVIOUS
  <2>4. Len(batch) <= save_batch_size /\ runs \in 0 .. MaxRuns
    BY <1>1
  <2>5. pc \in {"start", "wait", "handle", "save", "flush", "group", "done"}
    OBVIOUS
  <2> QED
    BY <2>0, <2>1, <2>2, <2>3, <2>4, <2>5 DEF TypeOK
<1>3. Tracked
  BY DEF Tracked
<1>4. Len(batch) = 0
  OBVIOUS
<1>5. Left
  BY <1>1, <1>4 DEF Left
<1>6. Supply
  <2>1. Cardinality(pending) = 0
    BY FS_EmptySet
  <2>2. Yields(needed) = {}
    BY TaskFacts DEF Yields
  <2> QED
    BY <1>1, <2>1, <2>2 DEF Supply, max_buffer
<1>7. Complete
  BY DEF Complete
<1>8. Clean(lines)
  BY DEF Clean
<1>9. NeverTooMany
  <2>1. ASSUME NEW q \in Questions PROVE Total(lines, batch, needed, pending \cup done, q) = 0
    <3>1. Count(lines, q) = 0 /\ Count(batch, q) = 0
      BY CountNone
    <3>2. Cardinality(Of(pending \cup done, q)) = 0
      <4>1. Of(pending \cup done, q) = {}
        BY DEF Of
      <4> QED
        BY <4>1, FS_EmptySet
    <3> QED
      BY <3>1, <3>2 DEF Total
  <2> QED
    BY <1>1, <2>1, TotalIs DEF NeverTooMany
<1>10. Accounted
  BY <1>8, <1>9 DEF Accounted
<1> QED
  BY <1>2, <1>3, <1>5, <1>6, <1>7, <1>10 DEF IInv

\* Nothing is yielded when nothing is needed.
LEMMA NothingYielded ==
    ASSUME NEW todo, \A q \in Questions : todo[q] = 0
    PROVE  Yields(todo) = {}
BY TaskFacts DEF Yields

\* What a step does that leaves the file, the batch and the tasks as they are.
LEMMA SameTotals ==
    ASSUME TypeOK, lines' = lines, batch' = batch, needed' = needed,
           pending' \cup done' = pending \cup done,
           pc' # "start" /\ ~lost' => pc # "start" /\ ~lost
    PROVE  /\ Complete => Complete'
           /\ NeverTooMany => NeverTooMany'
<1>1. \A q \in Questions : (Saved(q) + Coming(q))' = Saved(q) + Coming(q)
  <2>1. \A q \in Questions : Total(lines', batch', needed', pending' \cup done', q)
                                = Total(lines, batch, needed, pending \cup done, q)
    BY Zenon
  <2> QED
    BY <2>1, TotalIs
<1> QED
  BY <1>1 DEF Complete, NeverTooMany

\* asyncio.wait returns.
LEMMA WaitKeeps == IInv /\ Wait => IInv' /\ (Accounted => Accounted')
<1> SUFFICES ASSUME IInv, Wait PROVE IInv' /\ (Accounted => Accounted')
  OBVIOUS
<1>0. TypeOK /\ Tracked /\ Left /\ Supply /\ Complete
  BY DEF IInv
<1> DEFINE over == {t \in pending : status[t] \in {"ok", "failed"}}
<1>1. /\ pc = "wait" /\ done' = over /\ pending' = pending \ over /\ pc' = "handle"
      /\ lines' = lines /\ open' = open /\ grouped' = grouped /\ status' = status
      /\ attempt' = attempt /\ needed' = needed /\ batch' = batch /\ lost' = lost /\ runs' = runs
  BY DEF Wait, file, taskVars
<1>2. done = {}
  BY <1>0, <1>1 DEF Left
<1>3. /\ pending' \cup done' = pending \cup done /\ pending' \cap done' = {}
      /\ pending' \subseteq Tasks /\ done' \subseteq Tasks
  BY <1>0, <1>1, <1>2 DEF TypeOK
<1>4. TypeOK'
  BY <1>0, <1>1, <1>3 DEF TypeOK
<1>5. Tracked'
  <2>1. \A t \in pending' \cup done' : t[2] > needed'[t[1]]
    BY <1>0, <1>1, <1>3 DEF Tracked
  <2>2. \A t \in done' : status'[t] \in {"ok", "failed"}
    BY <1>1
  <2> QED
    BY <1>0, <1>1, <1>3, <2>1, <2>2 DEF Tracked
<1>6. Left'
  BY <1>0, <1>1 DEF Left
<1>7. Supply'
  <2>1. IsFiniteSet(pending')
    BY <1>3, TaskFacts, FS_Subset
  <2>2. IsFiniteSet(done')
    BY <1>3, TaskFacts, FS_Subset
  <2>3. /\ Cardinality(pending') \in Nat /\ Cardinality(done') \in Nat
        /\ Cardinality(pending' \cup done') = Cardinality(pending') + Cardinality(done')
    BY <1>3, <2>1, <2>2, TwoParts
  <2>4. pending' \cup done' = pending /\ Cardinality(done) = 0
    BY <1>2, <1>3, FS_EmptySet
  <2>5. /\ Cardinality(pending) <= max_buffer
        /\ (Yields(needed) # {} => Cardinality(pending) + Cardinality(done) >= max_concurrency)
    BY <1>0, <1>1 DEF Supply
  <2>6. max_buffer \in Nat /\ max_concurrency \in Nat
    BY DataGenAssumption DEF max_buffer
  <2>7. /\ Cardinality(pending') <= max_buffer
        /\ (Yields(needed) # {} => Cardinality(pending') + Cardinality(done') >= max_concurrency)
    BY <2>3, <2>4, <2>5, <2>6
  <2>8. Yields(needed)' = Yields(needed)
    BY <1>1 DEF Yields
  <2> QED
    BY <1>1, <2>7, <2>8 DEF Supply, max_buffer
<1>8. Complete' /\ (NeverTooMany => NeverTooMany')
  BY <1>0, <1>1, <1>3, SameTotals
<1>9. Accounted => Accounted'
  BY <1>1, <1>8 DEF Accounted
<1> QED
  BY <1>4, <1>5, <1>6, <1>7, <1>8, <1>9 DEF IInv

\* group_shuffle_jsonl_by_index.
LEMMA GroupKeeps == IInv /\ Group => IInv' /\ (Accounted => Accounted')
<1> SUFFICES ASSUME IInv, Group PROVE IInv' /\ (Accounted => Accounted')
  OBVIOUS
<1>0. TypeOK /\ Tracked /\ Left /\ Supply /\ Complete
  BY DEF IInv
<1>1. /\ pc = "group" /\ pc' = "done" /\ done' = done /\ pending' = pending
      /\ lines' = lines /\ open' = open /\ status' = status
      /\ attempt' = attempt /\ needed' = needed /\ batch' = batch /\ lost' = lost /\ runs' = runs
      /\ grouped' = IF lines = <<>> \/ Readable < Len(lines) THEN grouped
                    ELSE [q \in Questions |-> Count(lines, q)]
  BY DEF Group, file, taskVars
<1>2. TypeOK'
  <2>1. \A q \in Questions : Count(lines, q) \in Nat
    BY <1>0, Types, CountType
  <2>2. grouped' \in [Questions -> Nat] \cup {NoFile}
    BY <1>0, <1>1, <2>1 DEF TypeOK
  <2> QED
    BY <1>0, <1>1, <2>2 DEF TypeOK
<1>3. Tracked'
  BY <1>0, <1>1 DEF Tracked
<1>4. Left'
  BY <1>0, <1>1 DEF Left
<1>5. Supply'
  <2>1. Yields(needed)' = Yields(needed)
    BY <1>1 DEF Yields
  <2> QED
    BY <1>0, <1>1, <2>1 DEF Supply, max_buffer
<1>6. Complete' /\ (NeverTooMany => NeverTooMany')
  BY <1>0, <1>1, SameTotals
<1>7. Accounted => Accounted'
  <2> SUFFICES ASSUME Accounted, ~lost, samples_per_question > 0, NEW q \in Questions
               PROVE  grouped'[q] = samples_per_question
    BY <1>1, <1>6 DEF Accounted
  <2>1. /\ Saved(q) + Coming(q) >= samples_per_question
        /\ Saved(q) + Coming(q) <= samples_per_question
    BY <1>0, <1>1 DEF Complete, Accounted, NeverTooMany
  <2>2. Coming(q) = 0
    <3>1. pending = {} /\ done = {} /\ needed[q] = 0 /\ batch = <<>>
      BY <1>0, <1>1 DEF Left
    <3>2. Count(batch, q) = 0
      BY <3>1, CountNone
    <3>3. Cardinality({t \in pending \cup done : t[1] = q}) = 0
      <4>1. {t \in pending \cup done : t[1] = q} = {}
        BY <3>1
      <4> QED
        BY <4>1, FS_EmptySet
    <3> QED
      BY <3>1, <3>2, <3>3 DEF Coming
  <2>3. Count(lines, q) \in Nat /\ samples_per_question \in Nat
    BY <1>0, Types, CountType
  <2>4. Count(lines, q) = samples_per_question
    BY <2>1, <2>2, <2>3 DEF Saved
  <2>5. lines # <<>>
    BY <2>3, <2>4, CountNone
  <2>6. Readable = Len(lines) /\ Len(lines) \in Nat
    BY <1>0, ReadFacts, Types, LenProperties DEF Accounted
  <2>7. ~(Readable < Len(lines))
    BY <2>6
  <2> QED
    BY <1>1, <2>4, <2>5, <2>7
<1> QED
  BY <1>2, <1>3, <1>4, <1>5, <1>6, <1>7 DEF IInv

\* A step of process_sample: the task goes on, is over, or waits for a retry.
LEMMA TaskKeeps ==
    ASSUME NEW t \in Tasks
    PROVE  IInv /\ TaskStep(t) => IInv' /\ (Accounted => Accounted')
<1> SUFFICES ASSUME IInv, TaskStep(t) PROVE IInv' /\ (Accounted => Accounted')
  OBVIOUS
<1>0. TypeOK /\ Tracked /\ Left /\ Supply /\ Complete
  BY DEF IInv
<1>1. /\ lines' = lines /\ open' = open /\ grouped' = grouped /\ needed' = needed
      /\ pending' = pending /\ done' = done /\ batch' = batch /\ pc' = pc /\ runs' = runs
  BY DEF TaskStep, Acquire, Answer, Fail, Retry, Step, file, mainVars
<1>2. PICK a \in Statuses, b \in Statuses :
        /\ status[t] = a /\ a \in {"wait", "call", "sleep"}
        /\ status' = [status EXCEPT ![t] = b] /\ b \in {"wait", "call", "sleep", "ok", "failed"}
        /\ b = "failed" => lost'
        /\ lost' \in BOOLEAN /\ (lost => lost') /\ (lost' => lost \/ b = "failed")
        /\ b = "sleep" => attempt[t] < max_retries /\ attempt' = attempt
        /\ \/ attempt' = attempt
           \/ a = "sleep" /\ b = "wait" /\ attempt' = [attempt EXCEPT ![t] = attempt[t] + 1]
  <2>0. status \in [Tasks -> Statuses] /\ lost \in BOOLEAN
    BY <1>0, Types DEF TypeOK
  <2>1. CASE Acquire(t)
    <3>1. /\ status[t] = "wait" /\ status' = [status EXCEPT ![t] = "call"] /\ lost' = lost /\ attempt' = attempt
      BY <2>1 DEF Acquire, Step
    <3> QED
      BY <2>0, <3>1 DEF Statuses
  <2>2. CASE Answer(t)
    <3>1. /\ status[t] = "call" /\ status' = [status EXCEPT ![t] = "ok"] /\ lost' = lost /\ attempt' = attempt
      BY <2>2 DEF Answer, Step
    <3> QED
      BY <2>0, <3>1 DEF Statuses
  <2>3. CASE Fail(t)
    <3>1. /\ status[t] = "call" /\ lost' = (lost \/ status'[t] = "failed") /\ attempt' = attempt
          /\ \/ status' = [status EXCEPT ![t] = "failed"]
             \/ attempt[t] < max_retries /\ status' = [status EXCEPT ![t] = "sleep"]
      BY <2>3 DEF Fail, MayRetry
    <3>2. CASE status' = [status EXCEPT ![t] = "failed"]
      BY <2>0, <3>1, <3>2 DEF Statuses
    <3>3. CASE attempt[t] < max_retries /\ status' = [status EXCEPT ![t] = "sleep"]
      BY <2>0, <3>1, <3>3 DEF Statuses
    <3> QED
      BY <3>1, <3>2, <3>3
  <2>4. CASE Retry(t)
    <3>1. /\ status[t] = "sleep" /\ status' = [status EXCEPT ![t] = "wait"] /\ lost' = lost
          /\ attempt' = [attempt EXCEPT ![t] = attempt[t] + 1]
      BY <2>4 DEF Retry, Step
    <3> QED
      BY <2>0, <3>1 DEF Statuses
  <2> QED
    BY <2>1, <2>2, <2>3, <2>4 DEF TaskStep
<1>3. /\ status \in [Tasks -> Statuses] /\ attempt \in [Tasks -> 0 .. max_retries] /\ max_retries \in Nat
      /\ pending \cup done = {u \in Tasks : status[u] # "none"}
  BY <1>0, Types
<1>4. status' \in [Tasks -> Statuses] /\ status'[t] = b /\ \A u \in Tasks \ {t} : status'[u] = status[u]
  BY <1>2, <1>3
<1>5. pending \cup done = {u \in Tasks : status'[u] # "none"}
  <2>1. \A u \in Tasks : status'[u] # "none" <=> status[u] # "none"
    BY <1>2, <1>4
  <2> QED
    BY <1>3, <2>1
<1>6. /\ attempt' \in [Tasks -> 0 .. max_retries] /\ \A u \in Tasks \ {t} : attempt'[u] = attempt[u]
  <2>1. CASE attempt' = attempt
    BY <1>3, <2>1
  <2>2. CASE a = "sleep" /\ b = "wait" /\ attempt' = [attempt EXCEPT ![t] = attempt[t] + 1]
    <3>1. attempt[t] \in Nat /\ attempt[t] < max_retries
      BY <1>0, <1>2, <1>3, <2>2 DEF Tracked
    <3>2. attempt[t] + 1 \in 0 .. max_retries
      BY <1>3, <3>1
    <3> QED
      BY <1>3, <2>2, <3>2
  <2> QED
    BY <1>2, <2>1, <2>2
<1>7. TypeOK'
  BY <1>0, <1>1, <1>2, <1>4, <1>5, <1>6 DEF TypeOK, Statuses
<1>8. Tracked'
  <2>1. t \notin done
    BY <1>0, <1>2 DEF Tracked
  <2>2. \A u \in done : status'[u] \in {"ok", "failed"}
    BY <1>0, <1>4, <2>1 DEF Tracked, TypeOK
  <2>3. \A u \in Tasks : status'[u] = "failed" => lost'
    BY <1>0, <1>2, <1>4 DEF Tracked
  <2>4. \A u \in Tasks : status'[u] = "sleep" => attempt'[u] < max_retries
    BY <1>0, <1>2, <1>4, <1>6 DEF Tracked
  <2> QED
    BY <1>0, <1>1, <2>2, <2>3, <2>4 DEF Tracked
<1>9. Left'
  BY <1>0, <1>1 DEF Left
<1>10. Supply'
  <2>1. Yields(needed)' = Yields(needed)
    BY <1>1 DEF Yields
  <2> QED
    BY <1>0, <1>1, <2>1 DEF Supply, max_buffer
<1>11. Complete' /\ (NeverTooMany => NeverTooMany')
  <2>1. pc' # "start" /\ ~lost' => pc # "start" /\ ~lost
    BY <1>1, <1>2
  <2> QED
    BY <1>0, <1>1, <2>1, SameTotals
<1>12. Accounted => Accounted'
  BY <1>1, <1>2, <1>11 DEF Accounted
<1> QED
  BY <1>7, <1>8, <1>9, <1>10, <1>11, <1>12 DEF IInv

\* The program is started, and makes up what the file lacks.
LEMMA LoadKeeps == IInv /\ Load => IInv' /\ (Accounted => Accounted')
<1> SUFFICES ASSUME IInv, Load PROVE IInv' /\ (Accounted => Accounted')
  OBVIOUS
<1>0. TypeOK /\ Tracked /\ Left /\ Supply /\ Complete
  BY DEF IInv
<1>1. /\ pc = "start" /\ pc' = Continue(pending', {}, <<>>) /\ lost' = FALSE
      /\ lines' = lines /\ open' = open /\ grouped' = grouped /\ done' = done /\ batch' = batch
      /\ runs' = runs
  BY DEF Load, file
<1>2. pending = {} /\ done = {} /\ batch = <<>>
  BY <1>0, <1>1 DEF Left
<1>3. PICK k \in LinesSeen :
        CreateTasks(Missing(k), {}, Idle, Min({max_buffer, max_concurrency}))
  BY DEF Load
<1>4. max_concurrency \in Nat /\ max_concurrency >= 1 /\ max_buffer \in Nat /\ max_concurrency <= max_buffer
      /\ save_batch_size \in Nat \ {0} /\ samples_per_question \in Nat /\ max_retries \in Nat
  BY DataGenAssumption DEF max_buffer
<1>5. Min({max_buffer, max_concurrency}) = max_concurrency
  <2>1. Min({max_buffer, max_concurrency})
          = IF max_buffer <= max_concurrency THEN max_buffer ELSE max_concurrency
    BY <1>4, MinMaxTwo
  <2> HIDE DEF max_buffer
  <2> QED
    BY <1>4, <2>1
<1>6. k \in 0 .. Len(lines)
  BY <1>0, <1>3, ReadFacts
<1>7. /\ Missing(k) \in Todos
      /\ \A q \in Questions :
           /\ Count(lines, q) + Missing(k)[q] >= samples_per_question
           /\ (k = Len(lines) /\ Count(lines, q) <= samples_per_question =>
                 Count(lines, q) + Missing(k)[q] = samples_per_question)
  BY <1>0, <1>6, MissingFacts
<1>8. PICK todo \in Todos : todo = Missing(k)
  BY <1>7
<1>9. /\ needed' \in Todos /\ \A q \in Questions : needed'[q] <= todo[q]
      /\ {} \subseteq pending' /\ pending' \subseteq Tasks
      /\ IsFiniteSet({}) /\ IsFiniteSet(pending')
      /\ \A t \in pending' \ {} : t[2] <= todo[t[1]]
      /\ \A t \in pending' : t[2] > needed'[t[1]]
      /\ Cardinality({}) \in Nat /\ Cardinality(pending') \in Nat
      /\ Cardinality(pending') <= Cardinality({}) + max_concurrency
      /\ (Yields(needed') # {} => Cardinality(pending') >= Cardinality({}) + max_concurrency)
      /\ \A q \in Questions :
           /\ Cardinality(Of({}, q)) \in Nat /\ Cardinality(Of(pending', q)) \in Nat
           /\ needed'[q] + Cardinality(Of(pending', q)) = todo[q] + Cardinality(Of({}, q))
      /\ (max_concurrency >= 1 /\ pending' = {} => \A q \in Questions : needed'[q] = 0)
      /\ status' = [t \in Tasks |-> IF t \in pending' \ {} THEN "wait" ELSE Idle[t]]
      /\ attempt' = [t \in Tasks |-> IF t \in pending' \ {} THEN 0 ELSE attempt[t]]
  <2>1. CreateTasks(todo, {}, Idle, max_concurrency)
    BY <1>3, <1>5, <1>8
  <2>2. Idle \in [Tasks -> {"none", "wait", "call", "sleep", "ok", "failed"}]
    BY DEF Idle
  <2>3. attempt \in [Tasks -> 0 .. max_retries] /\ {} \in SUBSET Tasks
    BY <1>0 DEF TypeOK
  <2>4. PICK live \in SUBSET Tasks : live = {}
    OBVIOUS
  <2>5. CreateTasks(todo, live, Idle, max_concurrency) /\ \A t \in live : t[2] > todo[t[1]]
    BY <2>1, <2>4
  <2>6. /\ needed' \in Todos /\ \A q \in Questions : needed'[q] <= todo[q]
        /\ live \subseteq pending' /\ pending' \subseteq Tasks
        /\ IsFiniteSet(live) /\ IsFiniteSet(pending')
        /\ \A t \in pending' \ live : t[2] <= todo[t[1]]
        /\ \A t \in pending' : t[2] > needed'[t[1]]
        /\ Cardinality(live) \in Nat /\ Cardinality(pending') \in Nat
        /\ Cardinality(pending') <= Cardinality(live) + max_concurrency
        /\ (Yields(needed') # {} => Cardinality(pending') >= Cardinality(live) + max_concurrency)
        /\ \A q \in Questions :
             /\ Cardinality(Of(live, q)) \in Nat /\ Cardinality(Of(pending', q)) \in Nat
             /\ needed'[q] + Cardinality(Of(pending', q)) = todo[q] + Cardinality(Of(live, q))
        /\ (max_concurrency >= 1 /\ pending' = {} => \A q \in Questions : needed'[q] = 0)
        /\ status' = [t \in Tasks |-> IF t \in pending' \ live THEN "wait" ELSE Idle[t]]
        /\ attempt' = [t \in Tasks |-> IF t \in pending' \ live THEN 0 ELSE attempt[t]]
    BY <1>4, <2>2, <2>3, <2>4, <2>5, CreateEffect
  <2> QED
    BY <2>4, <2>6
<1>10. Cardinality({}) = 0 /\ \A q \in Questions : Of({}, q) = {}
  BY FS_EmptySet DEF Of
<1>11. /\ status' \in [Tasks -> Statuses] /\ attempt' \in [Tasks -> 0 .. max_retries]
       /\ \A t \in Tasks : status'[t] \in {"none", "wait"}
       /\ pending' = {t \in Tasks : status'[t] # "none"}
  <2>1. status' = [t \in Tasks |-> IF t \in pending' THEN "wait" ELSE "none"]
    BY <1>9 DEF Idle
  <2>2. \A t \in Tasks : attempt[t] \in 0 .. max_retries
    BY <1>0 DEF TypeOK
  <2>3. attempt' \in [Tasks -> 0 .. max_retries]
    BY <1>4, <1>9, <2>2
  <2>4. \A t \in Tasks : t \in pending' <=> status'[t] # "none"
    BY <2>1
  <2> QED
    BY <1>9, <2>1, <2>3, <2>4 DEF Statuses
<1>12. /\ pc' \in {"wait", "group"} /\ (pc' = "group" <=> pending' = {})
  BY <1>1 DEF Continue
<1>13. TypeOK'
  BY <1>0, <1>1, <1>2, <1>9, <1>11, <1>12 DEF TypeOK, Statuses, Todos
<1>14. Tracked'
  BY <1>1, <1>2, <1>9, <1>11 DEF Tracked
<1>15. Left'
  <2>1. Len(batch') = 0
    BY <1>1, <1>2
  <2> QED
    BY <1>1, <1>2, <1>4, <1>9, <1>12, <2>1 DEF Left
<1>16. Supply'
  <2> HIDE DEF max_buffer
  <2>1. Cardinality(pending') <= max_buffer
    BY <1>4, <1>9, <1>10
  <2>2. Cardinality(done') = 0
    BY <1>1, <1>2, FS_EmptySet
  <2>3. Yields(needed') # {} => Cardinality(pending') + Cardinality(done') >= max_concurrency
    BY <1>4, <1>9, <1>10, <2>2
  <2>4. Yields(needed)' = Yields(needed')
    BY DEF Yields
  <2>5. max_buffer' = max_buffer
    BY DEF max_buffer
  <2> QED
    BY <1>12, <2>1, <2>3, <2>4, <2>5 DEF Supply
<1>17. ASSUME NEW q \in Questions
       PROVE  /\ Total(lines', batch', needed', pending' \cup done', q) = Count(lines, q) + todo[q]
  <2>1. pending' \cup done' = pending' /\ lines' = lines /\ Count(batch', q) = 0
    BY <1>1, <1>2, CountNone
  <2>2. needed'[q] + Cardinality(Of(pending', q)) = todo[q]
    <3>1. Cardinality(Of({}, q)) = 0
      BY <1>10
    <3>2. needed'[q] + Cardinality(Of(pending', q)) = todo[q] + Cardinality(Of({}, q))
      BY <1>9
    <3>3. todo[q] \in Nat
      BY <1>4, <1>8 DEF Todos
    <3> QED
      BY <3>1, <3>2, <3>3
  <2>3. PICK n \in Nat, c \in Nat : n = needed'[q] /\ c = Cardinality(Of(pending', q))
    BY <1>4, <1>9 DEF Todos
  <2>4. 0 + n + c = n + c
    OBVIOUS
  <2>5. Total(lines', batch', needed', pending' \cup done', q) = Count(lines, q) + (0 + n + c)
    BY <2>1, <2>3 DEF Total
  <2> QED
    BY <2>2, <2>3, <2>4, <2>5
<1>18. Complete'
  <2>1. \A q \in Questions : (Saved(q) + Coming(q))' >= samples_per_question
    BY <1>7, <1>8, <1>17, TotalIs
  <2> QED
    BY <2>1 DEF Complete
<1>19. Accounted => Accounted'
  <2> SUFFICES ASSUME Accounted PROVE Accounted'
    OBVIOUS
  <2>1. k = Len(lines)
    BY <1>0, <1>3, ReadFacts DEF Accounted
  <2>2. ASSUME NEW q \in Questions PROVE Count(lines, q) <= samples_per_question
    <3>1. Total(lines, batch, needed, pending \cup done, q) <= samples_per_question
      BY TotalIs DEF Accounted, NeverTooMany
    <3>2. PICK x \in Nat, y \in Nat, z \in Nat, w \in Nat :
            x = Count(lines, q) /\ y = Count(batch, q) /\ z = needed[q]
            /\ w = Cardinality(Of(pending \cup done, q))
      <4>1. pending \cup done \in SUBSET Tasks
        BY <1>0, Types
      <4> QED
        BY <1>0, <4>1, Types, TotalType
    <3>3. x + (y + z + w) <= samples_per_question
      BY <3>1, <3>2 DEF Total
    <3> QED
      BY <1>4, <3>2, <3>3
  <2>3. \A q \in Questions : (Saved(q) + Coming(q))' = samples_per_question
    BY <1>7, <1>8, <1>17, <2>1, <2>2, TotalIs
  <2>4. NeverTooMany'
    BY <1>4, <2>3 DEF NeverTooMany
  <2> QED
    BY <1>1, <1>12, <2>4 DEF Accounted
<1> QED
  BY <1>13, <1>14, <1>15, <1>16, <1>18, <1>19 DEF IInv

\* The process ends and is started again.
LEMMA CrashKeeps == IInv /\ Crash => IInv' /\ ("split" \notin Tears /\ Accounted => Accounted')
<1> SUFFICES ASSUME IInv, Crash PROVE IInv' /\ ("split" \notin Tears /\ Accounted => Accounted')
  OBVIOUS
<1>0. TypeOK /\ Tracked /\ Left /\ Supply /\ Complete
  BY DEF IInv
<1>1. /\ runs < MaxRuns /\ runs' = runs + 1 /\ pc' = "start" /\ grouped' = grouped /\ lost' = lost
      /\ needed' = [q \in Questions |-> 0] /\ status' = Idle /\ attempt' = NoTries
      /\ pending' = {} /\ done' = {} /\ batch' = <<>>
  BY DEF Crash
<1>2. /\ lines' \in Seq(Line) /\ open' \in BOOLEAN /\ (open' => lines' # <<>>)
      /\ ("split" \notin Tears /\ Clean(lines) => Clean(lines'))
      /\ \A q \in Questions : /\ Count(lines', q) \in Nat
                              /\ Count(lines', q) <= Count(lines, q) + Count(batch, q)
  <2>1. CASE pc \in {"save", "flush"}
    <3>1. PICK w \in Torn : lines' = w[1] /\ open' = w[2]
      BY <2>1 DEF Crash
    <3>2. /\ w[1] \in Seq(Line) /\ w[2] \in BOOLEAN /\ (w[2] => w[1] # <<>>)
          /\ (Clean(lines) /\ "split" \notin Tears => Clean(w[1]))
          /\ \A q \in Questions : /\ Count(w[1], q) \in Nat
                                  /\ Count(w[1], q) <= Count(lines, q) + Count(batch, q)
      BY <1>0, TornEffect
    <3> QED
      BY <3>1, <3>2, Zenon
  <2>2. CASE pc \notin {"save", "flush"}
    <3>1. lines' = lines /\ open' = open
      BY <2>2 DEF Crash, file
    <3>2. \A q \in Questions : Count(lines, q) \in Nat /\ Count(batch, q) \in Nat
      BY <1>0, Types, CountType
    <3>3. \A x, y \in Nat : x <= x + y
      OBVIOUS
    <3>4. \A q \in Questions : Count(lines, q) <= Count(lines, q) + Count(batch, q)
      BY <3>2, <3>3
    <3> QED
      BY <1>0, <3>1, <3>2, <3>4, Types
  <2> QED
    BY <2>1, <2>2
<1>3. /\ samples_per_question \in Nat /\ save_batch_size \in Nat \ {0} /\ max_retries \in Nat
      /\ MaxRuns \in Nat \ {0} /\ max_concurrency \in Nat \ {0}
  BY DataGenAssumption
<1>4. TypeOK'
  <2>1. /\ needed' \in [Questions -> 0 .. samples_per_question]
        /\ attempt' \in [Tasks -> 0 .. max_retries]
    BY <1>1, <1>3 DEF NoTries
  <2>2. /\ status' \in [Tasks -> {"none", "wait", "call", "sleep", "ok", "failed"}]
        /\ pending' \subseteq Tasks /\ done' \subseteq Tasks
        /\ pending' \cup done' = {t \in Tasks : status'[t] # "none"}
    BY <1>1 DEF Idle
  <2>3. batch' \in Seq(Questions) /\ Len(batch') <= save_batch_size
    BY <1>1, <1>3
  <2>4. runs' \in 0 .. MaxRuns
    <3>1. runs \in 0 .. MaxRuns
      BY <1>0 DEF TypeOK
    <3> QED
      BY <1>1, <1>3, <3>1
  <2>5. pc' \in {"start", "wait", "handle", "save", "flush", "group", "done"}
    BY <1>1
  <2>6. grouped' \in [Questions -> Nat] \cup {NoFile} /\ lost' \in BOOLEAN
    BY <1>0, <1>1 DEF TypeOK
  <2>7. lines' \in Seq(Questions \cup {Junk, Split})
    BY <1>2 DEF Line
  <2> QED
    BY <1>2, <2>1, <2>2, <2>3, <2>4, <2>5, <2>6, <2>7 DEF TypeOK
<1>5. Tracked'
  BY <1>1 DEF Tracked, Idle
<1>6. Left'
  <2>1. Len(batch') = 0
    BY <1>1
  <2> QED
    BY <1>1, <1>3, <2>1 DEF Left
<1>7. Supply'
  <2>1. Cardinality(pending') = 0
    BY <1>1, FS_EmptySet
  <2> QED
    BY <1>1, <1>3, <2>1 DEF Supply, max_buffer
<1>8. Complete'
  BY <1>1 DEF Complete
<1>9. ASSUME "split" \notin Tears, Accounted PROVE Accounted'
  <2>1. ASSUME NEW q \in Questions
        PROVE  Total(lines', batch', needed', pending' \cup done', q) <= samples_per_question
    <3>1. Count(batch', q) = 0 /\ needed'[q] = 0
      BY <1>1, CountNone
    <3>2. Cardinality(Of(pending' \cup done', q)) = 0
      <4>1. Of(pending' \cup done', q) = {}
        BY <1>1 DEF Of
      <4> QED
        BY <4>1, FS_EmptySet
    <3>3. Total(lines', batch', needed', pending' \cup done', q) = Count(lines', q)
      BY <1>2, <3>1, <3>2 DEF Total
    <3>4. Total(lines, batch, needed, pending \cup done, q) <= samples_per_question
      BY <1>9, TotalIs DEF Accounted, NeverTooMany
    <3>5. PICK x \in Nat, y \in Nat, z \in Nat, w \in Nat :
            /\ x = Count(lines, q) /\ y = Count(batch, q) /\ z = needed[q]
            /\ w = Cardinality(Of(pending \cup done, q))
      <4>1. pending \cup done \in SUBSET Tasks
        BY <1>0, Types
      <4> QED
        BY <1>0, <4>1, Types, TotalType
    <3>6. x + (y + z + w) <= samples_per_question
      BY <3>4, <3>5 DEF Total
    <3>7. Count(lines', q) \in Nat /\ Count(lines', q) <= x + y
      BY <1>2, <3>5
    <3> QED
      BY <1>3, <3>3, <3>6, <3>7
  <2>2. NeverTooMany'
    <3>1. \A q \in Questions : (Saved(q) + Coming(q))' <= samples_per_question
      BY <2>1, TotalIs
    <3> QED
      BY <3>1 DEF NeverTooMany
  <2>3. Clean(lines')
    BY <1>2, <1>9 DEF Accounted
  <2>4. Clean(lines)'
    BY <2>3 DEF Clean
  <2> QED
    BY <1>1, <2>2, <2>4 DEF Accounted
<1> QED
  BY <1>4, <1>5, <1>6, <1>7, <1>8, <1>9 DEF IInv

\* The loop goes on after a save.
LEMMA ResumeKeeps ==
    ASSUME IInv, pc \in {"save", "flush"}, Resume,
           lines' \in Seq(Line), open' \in BOOLEAN, open' => lines' # <<>>,
           lost' \in BOOLEAN, lost => lost',
           \A q \in Questions : /\ Count(lines', q) \in Nat
                                /\ Count(lines', q) <= Count(lines, q) + Count(batch, q),
           ~lost' => \A q \in Questions : Count(lines', q) = Count(lines, q) + Count(batch, q)
    PROVE  IInv' /\ (Clean(lines') /\ Accounted => Accounted')
<1>0. TypeOK /\ Tracked /\ Left /\ Supply /\ Complete
  BY DEF IInv
<1>1. batch' = <<>> /\ grouped' = grouped /\ done' = done /\ runs' = runs
  BY DEF Resume
<1>2. /\ samples_per_question \in Nat /\ save_batch_size \in Nat \ {0} /\ max_retries \in Nat
      /\ max_concurrency \in Nat \ {0} /\ max_buffer \in Nat
  BY DataGenAssumption DEF max_buffer
<1>3. /\ needed' \in Todos /\ pending' \subseteq Tasks /\ pending' \cap done = {}
      /\ status' \in [Tasks -> Statuses] /\ attempt' \in [Tasks -> 0 .. max_retries]
      /\ pending' \cup done = {t \in Tasks : status'[t] # "none"}
      /\ \A t \in pending' \cup done : t[2] > needed'[t[1]]
      /\ \A t \in done : status'[t] \in {"ok", "failed"}
      /\ \A t \in Tasks : status'[t] = "failed" => lost
      /\ \A t \in Tasks : status'[t] = "sleep" => attempt'[t] < max_retries
      /\ Cardinality(pending') <= max_buffer
      /\ (pc = "save" /\ Yields(needed') # {} => Cardinality(pending') + Cardinality(done) >= max_concurrency)
      /\ (pending' = {} => \A q \in Questions : needed'[q] = 0)
      /\ \A q \in Questions :
           /\ Cardinality(Of(pending \cup done, q)) \in Nat
           /\ Cardinality(Of(pending' \cup done, q)) \in Nat
           /\ needed'[q] + Cardinality(Of(pending' \cup done, q))
                = needed[q] + Cardinality(Of(pending \cup done, q))
      /\ pc' \in {"handle", "wait", "group"} /\ (pc' = "group" => pending' = {})
      /\ (pc' # "handle" => done = {})
  <2>0. /\ needed \in Todos /\ status \in [Tasks -> Statuses] /\ attempt \in [Tasks -> 0 .. max_retries]
        /\ pending \in SUBSET Tasks /\ done \in SUBSET Tasks
        /\ pending \cup done = {t \in Tasks : status[t] # "none"}
    BY <1>0, Types
  <2>1. /\ pending \cap done = {} /\ \A t \in pending \cup done : t[2] > needed[t[1]]
        /\ \A t \in done : status[t] \in {"ok", "failed"}
        /\ \A t \in Tasks : status[t] = "failed" => lost
        /\ \A t \in Tasks : status[t] = "sleep" => attempt[t] < max_retries
    BY <1>0 DEF Tracked
  <2>2. CASE pc = "save"
    <3>1. CreateTasks(needed, pending, status, refill_limit) /\ pc' = Continue(pending', done, <<>>)
      BY <2>2 DEF Resume
    <3>2. Yields(needed) # {} => Cardinality(pending) + Cardinality(done) >= max_concurrency - 1
      BY <1>0, <2>2 DEF Supply
    <3>3. pc' \in {"handle", "wait", "group"} /\ (pc' = "group" => pending' = {}) /\ (pc' # "handle" => done = {})
      BY <3>1 DEF Continue
    <3>4. /\ needed' \in Todos /\ pending' \subseteq Tasks /\ pending' \cap done = {}
          /\ status' \in [Tasks -> Statuses] /\ attempt' \in [Tasks -> 0 .. max_retries]
          /\ pending' \cup done = {t \in Tasks : status'[t] # "none"}
          /\ \A t \in pending' \cup done : t[2] > needed'[t[1]]
          /\ \A t \in done : status'[t] \in {"ok", "failed"}
          /\ \A t \in Tasks : status'[t] = "failed" => lost
          /\ \A t \in Tasks : status'[t] = "sleep" => attempt'[t] < max_retries
          /\ Cardinality(pending') <= max_buffer
          /\ (Yields(needed') # {} => Cardinality(pending') + Cardinality(done) >= max_concurrency)
          /\ (pending' = {} => \A q \in Questions : needed'[q] = 0)
          /\ \A q \in Questions :
               /\ Cardinality(Of(pending \cup done, q)) \in Nat
               /\ Cardinality(Of(pending' \cup done, q)) \in Nat
               /\ needed'[q] + Cardinality(Of(pending' \cup done, q))
                    = needed[q] + Cardinality(Of(pending \cup done, q))
      BY <1>0, <2>0, <2>1, <3>1, <3>2, RefillEffect
    <3> QED
      BY <3>3, <3>4
  <2>3. CASE pc = "flush"
    <3>1. pc' = "group" /\ needed' = needed /\ pending' = pending /\ status' = status /\ attempt' = attempt
      BY <2>3 DEF Resume, taskVars
    <3>2. pending = {} /\ done = {} /\ \A q \in Questions : needed[q] = 0
      BY <1>0, <2>3 DEF Left
    <3>3. \A q \in Questions : Cardinality(Of(pending \cup done, q)) \in Nat
      <4>1. pending \cup done \in SUBSET Tasks
        BY <2>0
      <4> QED
        BY <1>0, <2>0, <4>1, Types, TotalType
    <3>4. Cardinality(pending) <= max_buffer
      BY <1>0 DEF Supply
    <3> QED
      BY <2>0, <2>1, <2>3, <3>1, <3>2, <3>3, <3>4
  <2> QED
    BY <2>2, <2>3
<1>4. TypeOK'
  <2>1. batch' \in Seq(Questions) /\ Len(batch') = 0 /\ Len(batch') <= save_batch_size
    BY <1>1, <1>2
  <2>2. lines' \in Seq(Questions \cup {Junk, Split})
    BY DEF Line
  <2>3. grouped' \in [Questions -> Nat] \cup {NoFile} /\ runs' \in 0 .. MaxRuns /\ done' \subseteq Tasks
    BY <1>0, <1>1 DEF TypeOK
  <2> QED
    BY <1>1, <1>3, <2>1, <2>2, <2>3 DEF TypeOK, Todos, Statuses
<1>5. Tracked'
  BY <1>1, <1>3 DEF Tracked
<1>6. Left'
  <2>1. Len(batch') = 0
    BY <1>1
  <2>2. Len(batch') < save_batch_size
    BY <1>2, <2>1
  <2> QED
    BY <1>1, <1>3, <2>2 DEF Left
<1>7. Supply'
  <2>1. Yields(needed)' = Yields(needed') /\ max_buffer' = max_buffer
    BY DEF Yields, max_buffer
  <2>2. pc = "flush" => pc' = "group"
    BY DEF Resume
  <2> HIDE DEF max_buffer
  <2> QED
    BY <1>1, <1>3, <2>1, <2>2 DEF Supply
<1>8. ASSUME NEW q \in Questions
      PROVE  /\ Total(lines, batch, needed, pending \cup done, q) \in Nat
             /\ Total(lines', batch', needed', pending' \cup done', q) \in Nat
             /\ Total(lines', batch', needed', pending' \cup done', q)
                  <= Total(lines, batch, needed, pending \cup done, q)
             /\ (~lost' => Total(lines', batch', needed', pending' \cup done', q)
                             = Total(lines, batch, needed, pending \cup done, q))
  <2>1. PICK n \in Nat, m \in Nat, a \in Nat, b \in Nat, x \in Nat, y \in Nat, z \in Nat :
          /\ n = needed[q] /\ m = needed'[q] /\ a = Cardinality(Of(pending \cup done, q))
          /\ b = Cardinality(Of(pending' \cup done, q)) /\ x = Count(lines, q) /\ y = Count(batch, q)
          /\ z = Count(lines', q)
    <3>1. Count(lines, q) \in Nat /\ Count(batch, q) \in Nat
      BY <1>0, Types, CountType
    <3>2. needed[q] \in Nat /\ needed'[q] \in Nat
      BY <1>0, <1>2, <1>3, Types DEF Todos
    <3> QED
      BY <1>3, <3>1, <3>2
  <2>2. m + b = n + a
    BY <1>3, <2>1
  <2>3. z <= x + y /\ (~lost' => z = x + y)
    BY <2>1
  <2>4. Count(batch', q) = 0
    BY <1>1, CountNone
  <2>5. /\ Total(lines, batch, needed, pending \cup done, q) = x + (y + n + a)
        /\ Total(lines', batch', needed', pending' \cup done', q) = z + (0 + m + b)
    BY <1>1, <2>1, <2>4 DEF Total
  <2>6. /\ x + (y + n + a) \in Nat /\ z + (0 + m + b) \in Nat
        /\ z + (0 + m + b) <= x + (y + n + a) /\ (z = x + y => z + (0 + m + b) = x + (y + n + a))
    BY <2>2, <2>3
  <2> QED
    BY <2>3, <2>5, <2>6
<1>9. Complete'
  <2> SUFFICES ASSUME ~lost', NEW q \in Questions
               PROVE  Total(lines', batch', needed', pending' \cup done', q) >= samples_per_question
    BY TotalIs DEF Complete
  <2>1. Total(lines, batch, needed, pending \cup done, q) >= samples_per_question
    BY <1>0, TotalIs DEF Complete
  <2> QED
    BY <1>8, <2>1
<1>10. ASSUME Clean(lines'), Accounted PROVE Accounted'
  <2>1. ASSUME NEW q \in Questions
        PROVE  Total(lines', batch', needed', pending' \cup done', q) <= samples_per_question
    <3>1. Total(lines, batch, needed, pending \cup done, q) <= samples_per_question
      BY <1>10, TotalIs DEF Accounted, NeverTooMany
    <3> QED
      BY <1>2, <1>8, <3>1
  <2>2. NeverTooMany'
    <3>1. \A q \in Questions : (Saved(q) + Coming(q))' <= samples_per_question
      BY <2>1, TotalIs
    <3> QED
      BY <3>1 DEF NeverTooMany
  <2>3. Clean(lines)'
    BY <1>10 DEF Clean
  <2> QED
    BY <1>3, <2>2, <2>3 DEF Accounted
<1> QED
  BY <1>4, <1>5, <1>6, <1>7, <1>9, <1>10 DEF IInv

\* save_batch returns ...
LEMMA SaveKeeps == IInv /\ Save => IInv' /\ (Accounted => Accounted')
<1> SUFFICES ASSUME IInv, Save PROVE IInv' /\ (Accounted => Accounted')
  OBVIOUS
<1>1. pc \in {"save", "flush"} /\ lines' = Written(batch) /\ open' = FALSE /\ lost' = (lost \/ open) /\ Resume
  BY DEF Save
<1>2. TypeOK /\ open \in BOOLEAN /\ lost \in BOOLEAN
  BY DEF IInv, TypeOK
<1>3. batch \in Seq(Line) /\ Clean(batch)
  <2>1. batch \in Seq(Questions) /\ Questions \subseteq Line
    BY <1>2, Types, NotAnswers
  <2>2. batch \in Seq(Line)
    BY <2>1, ElementOfSeq, LenProperties, SeqDef
  <2> QED
    BY <2>1, <2>2, ElementOfSeq, NotAnswers DEF Clean
<1>4. /\ lines' \in Seq(Line) /\ (Clean(lines) => Clean(lines'))
      /\ \A q \in Questions :
           /\ Count(lines', q) \in Nat /\ Count(lines', q) <= Count(lines, q) + Count(batch, q)
           /\ (~open => Count(lines', q) = Count(lines, q) + Count(batch, q))
  BY <1>1, <1>2, <1>3, WrittenEffect
<1>5. /\ open' \in BOOLEAN /\ (open' => lines' # <<>>) /\ lost' \in BOOLEAN /\ (lost => lost')
      /\ (~lost' => ~open)
  BY <1>1, <1>2, Zenon
<1>6. Accounted => Clean(lines)
  BY DEF Accounted
<1> QED
  BY <1>1, <1>4, <1>5, <1>6, ResumeKeeps

\* ... or raises.
LEMMA SaveFailsKeeps == IInv /\ SaveFails => IInv' /\ ("split" \notin Tears /\ Accounted => Accounted')
<1> SUFFICES ASSUME IInv, SaveFails PROVE IInv' /\ ("split" \notin Tears /\ Accounted => Accounted')
  OBVIOUS
<1>1. pc \in {"save", "flush"} /\ lost' = TRUE /\ Resume
  BY DEF SaveFails
<1>2. PICK w \in Torn : lines' = w[1] /\ open' = w[2]
  BY DEF SaveFails
<1>3. /\ w[1] \in Seq(Line) /\ w[2] \in BOOLEAN /\ (w[2] => w[1] # <<>>)
      /\ (Clean(lines) /\ "split" \notin Tears => Clean(w[1]))
      /\ \A q \in Questions : /\ Count(w[1], q) \in Nat
                              /\ Count(w[1], q) <= Count(lines, q) + Count(batch, q)
  BY TornEffect DEF IInv
<1>4. /\ lines' \in Seq(Line) /\ open' \in BOOLEAN /\ (open' => lines' # <<>>)
      /\ (Clean(lines) /\ "split" \notin Tears => Clean(lines'))
      /\ \A q \in Questions : /\ Count(lines', q) \in Nat
                              /\ Count(lines', q) <= Count(lines, q) + Count(batch, q)
  BY <1>2, <1>3, Zenon
<1>5. lost' \in BOOLEAN /\ lost'
  BY <1>1, Zenon
<1>6. Accounted => Clean(lines)
  BY DEF Accounted
<1> QED
  BY <1>1, <1>4, <1>5, <1>6, ResumeKeeps

\* A result is taken out of done: what is left, and what it adds to the batch.
LEMMA HandledEffect ==
    ASSUME IInv, NEW t \in done, pc = "handle"
    PROVE  LET results == IF status[t] = "ok" THEN Append(batch, t[1]) ELSE batch
               st == [status EXCEPT ![t] = "none"]
               D == done \ {t}
           IN  /\ t \in Tasks /\ D \in SUBSET Tasks /\ pending \cap D = {} /\ t \notin pending
               /\ st \in [Tasks -> Statuses] /\ \A u \in Tasks \ {t} : st[u] = status[u]
               /\ pending \cup D = {u \in Tasks : st[u] # "none"}
               /\ \A u \in pending \cup D : u[2] > needed[u[1]]
               /\ \A u \in D : st[u] \in {"ok", "failed"}
               /\ \A u \in Tasks : st[u] = "failed" => lost
               /\ \A u \in Tasks : st[u] = "sleep" => attempt[u] < max_retries
               /\ Yields(needed) # {} => Cardinality(pending) + Cardinality(D) >= max_concurrency - 1
               /\ results \in Seq(Questions) /\ Len(results) \in Nat
               /\ Len(results) <= save_batch_size
               /\ status[t] # "ok" => results = batch /\ Len(results) < save_batch_size /\ lost
               /\ \A q \in Questions :
                    /\ Total(lines, batch, needed, pending \cup done, q) \in Nat
                    /\ Total(lines, results, needed, pending \cup D, q) \in Nat
                    /\ Total(lines, results, needed, pending \cup D, q)
                          <= Total(lines, batch, needed, pending \cup done, q)
                    /\ status[t] = "ok" =>
                         Total(lines, results, needed, pending \cup D, q)
                           = Total(lines, batch, needed, pending \cup done, q)
<1> DEFINE results == IF status[t] = "ok" THEN Append(batch, t[1]) ELSE batch
           st == [status EXCEPT ![t] = "none"]
           D == done \ {t}
<1>0. TypeOK /\ Tracked /\ Left /\ Supply
  BY DEF IInv
<1>1. /\ lines \in Seq(Line) /\ needed \in Todos /\ status \in [Tasks -> Statuses]
      /\ pending \in SUBSET Tasks /\ done \in SUBSET Tasks
      /\ pending \cup done = {u \in Tasks : status[u] # "none"}
      /\ batch \in Seq(Questions) /\ Len(batch) \in Nat /\ save_batch_size \in Nat \ {0}
  BY <1>0, Types
<1>2. /\ pending \cap done = {} /\ \A u \in pending \cup done : u[2] > needed[u[1]]
      /\ \A u \in done : status[u] \in {"ok", "failed"}
      /\ \A u \in Tasks : status[u] = "failed" => lost
      /\ \A u \in Tasks : status[u] = "sleep" => attempt[u] < max_retries
  BY <1>0 DEF Tracked
<1>3. t \in Tasks /\ D \in SUBSET Tasks /\ pending \cap D = {} /\ t \notin pending /\ t[1] \in Questions
  BY <1>1, <1>2, TaskFacts
<1>4. st \in [Tasks -> Statuses] /\ st[t] = "none" /\ \A u \in Tasks \ {t} : st[u] = status[u]
  BY <1>1, <1>3 DEF Statuses
<1> HIDE DEF st
<1>5. pending \cup D = {u \in Tasks : st[u] # "none"}
  <2>1. \A u \in Tasks : u \in pending \cup D <=> st[u] # "none"
    <3>1. ASSUME NEW u \in Tasks, u # t PROVE u \in pending \cup D <=> st[u] # "none"
      <4>1. st[u] = status[u]
        BY <1>4, <3>1
      <4>2. u \in pending \cup done <=> status[u] # "none"
        BY <1>1
      <4> QED
        BY <3>1, <4>1, <4>2
    <3> QED
      BY <1>3, <1>4, <3>1
  <2> QED
    BY <1>1, <1>3, <2>1
<1>6. /\ \A u \in pending \cup D : u[2] > needed[u[1]]
      /\ \A u \in D : st[u] \in {"ok", "failed"}
      /\ \A u \in Tasks : st[u] = "failed" => lost
      /\ \A u \in Tasks : st[u] = "sleep" => attempt[u] < max_retries
  BY <1>1, <1>2, <1>4
<1>7. Yields(needed) # {} => Cardinality(pending) + Cardinality(D) >= max_concurrency - 1
  <2>1. IsFiniteSet(done) /\ IsFiniteSet(pending) /\ Cardinality(pending) \in Nat /\ Cardinality(done) \in Nat
    BY <1>1, TaskFacts, FS_Subset, FS_CardinalityType
  <2>2. Cardinality(D) = Cardinality(done) - 1
    BY <2>1, FS_RemoveElement
  <2>3. Yields(needed) # {} => Cardinality(pending) + Cardinality(done) >= max_concurrency
    BY <1>0 DEF Supply
  <2>4. max_concurrency \in Nat
    BY DataGenAssumption
  <2> QED
    BY <2>1, <2>2, <2>3, <2>4
<1>8. Len(batch) < save_batch_size
  BY <1>0 DEF Left
<1>9. /\ results \in Seq(Questions) /\ Len(results) \in Nat /\ Len(results) <= save_batch_size
      /\ (status[t] # "ok" => results = batch /\ Len(results) < save_batch_size)
  <2>1. CASE status[t] = "ok"
    <3>1. Append(batch, t[1]) \in Seq(Questions) /\ Len(Append(batch, t[1])) = Len(batch) + 1
      BY <1>1, <1>3, AppendProperties
    <3>2. Len(batch) + 1 \in Nat /\ Len(batch) + 1 <= save_batch_size
      BY <1>1, <1>8
    <3> QED
      BY <2>1, <3>1, <3>2
  <2>2. CASE status[t] # "ok"
    BY <1>1, <1>8, <2>2
  <2> QED
    BY <2>1, <2>2
<1>10. status[t] # "ok" => lost
  BY <1>2, <1>3
<1>11. ASSUME NEW q \in Questions
       PROVE  /\ Total(lines, batch, needed, pending \cup done, q) \in Nat
              /\ Total(lines, results, needed, pending \cup D, q) \in Nat
              /\ Total(lines, results, needed, pending \cup D, q)
                    <= Total(lines, batch, needed, pending \cup done, q)
              /\ (status[t] = "ok" =>
                   Total(lines, results, needed, pending \cup D, q)
                     = Total(lines, batch, needed, pending \cup done, q))
  <2> DEFINE e == IF t[1] = q THEN 1 ELSE 0
  <2>1. pending \cup done \in SUBSET Tasks /\ pending \cup D \in SUBSET Tasks
    BY <1>1
  <2>2. /\ Count(lines, q) \in Nat /\ Count(batch, q) \in Nat /\ needed[q] \in Nat
        /\ IsFiniteSet(Of(pending \cup done, q)) /\ Cardinality(Of(pending \cup done, q)) \in Nat
    BY <1>1, <2>1, TotalType
  <2>3. Cardinality(Of(pending \cup D, q)) = Cardinality(Of(pending \cup done, q)) - e
                /\ Cardinality(Of(pending \cup D, q)) \in Nat
    <3>1. Of(pending \cup D, q) = Of(pending \cup done, q) \ {t}
      BY <1>3 DEF Of
    <3>2. t \in Of(pending \cup done, q) <=> t[1] = q
      BY DEF Of
    <3>3. /\ IsFiniteSet(Of(pending \cup done, q) \ {t})
          /\ Cardinality(Of(pending \cup done, q) \ {t})
               = IF t \in Of(pending \cup done, q) THEN Cardinality(Of(pending \cup done, q)) - 1
                 ELSE Cardinality(Of(pending \cup done, q))
      BY <2>2, FS_RemoveElement
    <3>4. Cardinality(Of(pending \cup done, q) \ {t}) \in Nat
      BY <3>3, FS_CardinalityType
    <3>5. Cardinality(Of(pending \cup done, q)) - 0 = Cardinality(Of(pending \cup done, q))
      BY <2>2
    <3>6. CASE t[1] = q
      BY <3>1, <3>2, <3>3, <3>4, <3>6
    <3>7. CASE t[1] # q
      BY <3>1, <3>2, <3>3, <3>4, <3>5, <3>7
    <3> QED
      BY <3>6, <3>7
  <2>4. Count(results, q) = IF status[t] = "ok" THEN Count(batch, q) + e ELSE Count(batch, q)
    <3>1. Count(Append(batch, t[1]), q) = Count(batch, q) + (IF t[1] = q THEN 1 ELSE 0)
      BY <1>1, <1>3, CountAppend
    <3> QED
      BY <3>1
  <2>5. e \in {0, 1}
    OBVIOUS
  <2> HIDE DEF e, D, results
  <2>6. PICK x \in Nat, y \in Nat, n \in Nat, a \in Nat, b \in Nat, f \in {0, 1} :
          /\ x = Count(lines, q) /\ y = Count(batch, q) /\ n = needed[q] /\ f = e
          /\ a = Cardinality(Of(pending \cup done, q)) /\ b = Cardinality(Of(pending \cup D, q))
    BY <2>2, <2>3, <2>5
  <2>7. b = a - f
    BY <2>3, <2>6
  <2>8. /\ Total(lines, batch, needed, pending \cup done, q) = x + (y + n + a)
        /\ Total(lines, results, needed, pending \cup D, q)
              = x + ((IF status[t] = "ok" THEN y + f ELSE y) + n + b)
    BY <2>4, <2>6 DEF Total
  <2>9. /\ x + (y + n + a) \in Nat /\ x + ((y + f) + n + b) = x + (y + n + a)
        /\ x + (y + n + b) \in Nat /\ x + (y + n + b) <= x + (y + n + a)
    BY <2>7
  <2>10. CASE status[t] = "ok"
    BY <2>8, <2>9, <2>10
  <2>11. CASE status[t] # "ok"
    BY <2>8, <2>9, <2>11
  <2> QED
    BY <2>10, <2>11
<1> QED
  BY <1>3, <1>4, <1>5, <1>6, <1>7, <1>9, <1>10, <1>11 DEF st

\* The result of a task is handled.
LEMMA HandleKeeps ==
    ASSUME NEW t \in Tasks
    PROVE  IInv /\ Handle(t) => IInv' /\ (Accounted => Accounted')
<1> SUFFICES ASSUME IInv, Handle(t) PROVE IInv' /\ (Accounted => Accounted')
  OBVIOUS
<1>0. TypeOK /\ Tracked /\ Left /\ Supply /\ Complete
  BY DEF IInv
<1> DEFINE results == IF status[t] = "ok" THEN Append(batch, t[1]) ELSE batch
           st == [status EXCEPT ![t] = "none"]
           D == done \ {t}
           Full == status[t] = "ok" /\ Len(results) >= save_batch_size
<1>1. /\ pc = "handle" /\ t \in done /\ batch' = results /\ done' = D
      /\ lines' = lines /\ open' = open /\ grouped' = grouped /\ lost' = lost /\ runs' = runs
      /\ (Full => /\ pc' = "save" /\ status' = st /\ needed' = needed /\ pending' = pending
                  /\ attempt' = attempt)
      /\ (~Full => /\ CreateTasks(needed, pending, st, refill_limit)
                   /\ pc' = Continue(pending', done', results))
  BY DEF Handle, file
<1>2. /\ t \in Tasks /\ D \in SUBSET Tasks /\ pending \cap D = {} /\ t \notin pending
      /\ st \in [Tasks -> Statuses] /\ \A u \in Tasks \ {t} : st[u] = status[u]
      /\ pending \cup D = {u \in Tasks : st[u] # "none"}
      /\ \A u \in pending \cup D : u[2] > needed[u[1]]
      /\ \A u \in D : st[u] \in {"ok", "failed"}
      /\ \A u \in Tasks : st[u] = "failed" => lost
      /\ \A u \in Tasks : st[u] = "sleep" => attempt[u] < max_retries
      /\ (Yields(needed) # {} => Cardinality(pending) + Cardinality(D) >= max_concurrency - 1)
      /\ results \in Seq(Questions) /\ Len(results) \in Nat
      /\ Len(results) <= save_batch_size
      /\ (status[t] # "ok" => results = batch /\ Len(results) < save_batch_size /\ lost)
      /\ \A q \in Questions :
           /\ Total(lines, batch, needed, pending \cup done, q) \in Nat
           /\ Total(lines, results, needed, pending \cup D, q) \in Nat
           /\ Total(lines, results, needed, pending \cup D, q)
                 <= Total(lines, batch, needed, pending \cup done, q)
           /\ (status[t] = "ok" =>
                Total(lines, results, needed, pending \cup D, q)
                  = Total(lines, batch, needed, pending \cup done, q))
  BY <1>1, HandledEffect
<1>3. ~Full => Len(results) < save_batch_size
  <2>1. save_batch_size \in Nat
    BY DataGenAssumption
  <2> HIDE DEF results
  <2> QED
    BY <1>2, <2>1
<1> HIDE DEF results, st, D, Full
<1>4. /\ needed' \in Todos /\ pending' \subseteq Tasks /\ pending' \cap D = {}
      /\ status' \in [Tasks -> Statuses] /\ attempt' \in [Tasks -> 0 .. max_retries]
      /\ pending' \cup D = {u \in Tasks : status'[u] # "none"}
      /\ \A u \in pending' \cup D : u[2] > needed'[u[1]]
      /\ \A u \in D : status'[u] \in {"ok", "failed"}
      /\ \A u \in Tasks : status'[u] = "failed" => lost
      /\ \A u \in Tasks : status'[u] = "sleep" => attempt'[u] < max_retries
      /\ Cardinality(pending') <= max_buffer
      /\ (Yields(needed') # {} => /\ Full => Cardinality(pending') + Cardinality(D) >= max_concurrency - 1
                                  /\ ~Full => Cardinality(pending') + Cardinality(D) >= max_concurrency)
      /\ (~Full /\ pending' = {} => \A q \in Questions : needed'[q] = 0)
      /\ \A q \in Questions :
           /\ Cardinality(Of(pending \cup D, q)) \in Nat
           /\ Cardinality(Of(pending' \cup D, q)) \in Nat
           /\ needed'[q] + Cardinality(Of(pending' \cup D, q))
                = needed[q] + Cardinality(Of(pending \cup D, q))
  <2>0. /\ needed \in Todos /\ attempt \in [Tasks -> 0 .. max_retries] /\ pending \in SUBSET Tasks
    BY <1>0, Types
  <2>1. CASE Full
    <3>1. status' = st /\ needed' = needed /\ pending' = pending /\ attempt' = attempt
      BY <1>1, <2>1
    <3>2. \A q \in Questions : Cardinality(Of(pending \cup D, q)) \in Nat
      <4>1. pending \cup D \in SUBSET Tasks
        BY <1>2, <2>0
      <4> QED
        BY <1>0, <2>0, <4>1, Types, TotalType
    <3>3. Cardinality(pending) <= max_buffer
      BY <1>0 DEF Supply
    <3> QED
      BY <1>2, <2>0, <2>1, <3>1, <3>2, <3>3
  <2>2. CASE ~Full
    <3>1. CreateTasks(needed, pending, st, refill_limit)
      BY <1>1, <2>2
    <3>2. /\ needed' \in Todos /\ pending' \subseteq Tasks /\ pending' \cap D = {}
          /\ status' \in [Tasks -> Statuses] /\ attempt' \in [Tasks -> 0 .. max_retries]
          /\ pending' \cup D = {u \in Tasks : status'[u] # "none"}
          /\ \A u \in pending' \cup D : u[2] > needed'[u[1]]
          /\ \A u \in D : status'[u] \in {"ok", "failed"}
          /\ \A u \in Tasks : status'[u] = "failed" => lost
          /\ \A u \in Tasks : status'[u] = "sleep" => attempt'[u] < max_retries
          /\ Cardinality(pending') <= max_buffer
          /\ (Yields(needed') # {} => Cardinality(pending') + Cardinality(D) >= max_concurrency)
          /\ (pending' = {} => \A q \in Questions : needed'[q] = 0)
          /\ \A q \in Questions :
               /\ Cardinality(Of(pending \cup D, q)) \in Nat
               /\ Cardinality(Of(pending' \cup D, q)) \in Nat
               /\ needed'[q] + Cardinality(Of(pending' \cup D, q))
                    = needed[q] + Cardinality(Of(pending \cup D, q))
      BY <1>0, <1>2, <3>1, RefillEffect
    <3> QED
      BY <2>2, <3>2
  <2> QED
    BY <2>1, <2>2
<1>5. /\ pc' \in {"save", "handle", "wait", "flush", "group"} /\ (pc' = "save" <=> Full)
      /\ (pc' \in {"wait", "flush", "group"} => D = {})
      /\ (pc' \in {"flush", "group"} => pending' = {} /\ ~Full)
      /\ (pc' = "group" => results = <<>>)
  <2>1. CASE Full
    BY <1>1, <2>1
  <2>2. CASE ~Full
    BY <1>1, <2>2 DEF Continue
  <2> QED
    BY <2>1, <2>2
<1>6. TypeOK'
  <2>1. grouped' \in [Questions -> Nat] \cup {NoFile} /\ runs' \in 0 .. MaxRuns /\ lost' \in BOOLEAN
        /\ lines' \in Seq(Questions \cup {Junk, Split}) /\ open' \in BOOLEAN /\ (open' => lines' # <<>>)
    BY <1>0, <1>1 DEF TypeOK
  <2> QED
    BY <1>1, <1>2, <1>4, <1>5, <2>1 DEF TypeOK, Todos, Statuses
<1>7. Tracked'
  BY <1>1, <1>4 DEF Tracked
<1>8. Left'
  <2>1. pc' # "save" => Len(batch') < save_batch_size
    BY <1>1, <1>3, <1>5
  <2>2. pc' \notin {"handle", "save"} => done' = {}
    BY <1>1, <1>5
  <2>3. pc' \in {"start", "group", "done"} => batch' = <<>>
    BY <1>1, <1>5
  <2>4. pc' \in {"start", "flush", "group", "done"} =>
           pending' = {} /\ \A q \in Questions : needed'[q] = 0
    BY <1>4, <1>5
  <2> QED
    BY <2>1, <2>2, <2>3, <2>4 DEF Left
<1>9. Supply'
  <2>1. Yields(needed)' = Yields(needed') /\ max_buffer' = max_buffer
    BY DEF Yields, max_buffer
  <2> HIDE DEF max_buffer
  <2> QED
    BY <1>1, <1>4, <1>5, <2>1 DEF Supply
<1>10. ASSUME NEW q \in Questions
       PROVE  Total(lines', batch', needed', pending' \cup done', q)
                = Total(lines, results, needed, pending \cup D, q)
  <2>1. PICK y \in Nat, n \in Nat, m \in Nat, a \in Nat, b \in Nat :
          /\ y = Count(results, q) /\ n = needed[q] /\ m = needed'[q]
          /\ a = Cardinality(Of(pending \cup D, q)) /\ b = Cardinality(Of(pending' \cup D, q))
    <3>1. Count(results, q) \in Nat
      BY <1>2, CountType
    <3>2. needed[q] \in Nat /\ needed'[q] \in Nat
      BY <1>0, <1>4, Types DEF Todos
    <3> QED
      BY <1>4, <3>1, <3>2
  <2>2. m + b = n + a
    BY <1>4, <2>1
  <2>3. y + m + b = y + n + a
    BY <2>2
  <2> QED
    BY <1>1, <2>1, <2>3 DEF Total
<1>11. Complete'
  <2> SUFFICES ASSUME ~lost, NEW q \in Questions
               PROVE  Total(lines', batch', needed', pending' \cup done', q) >= samples_per_question
    BY <1>1, TotalIs DEF Complete
  <2>1. Total(lines, batch, needed, pending \cup done, q) >= samples_per_question
    BY <1>0, <1>1, TotalIs DEF Complete
  <2>2. status[t] = "ok"
    BY <1>2
  <2> QED
    BY <1>2, <1>10, <2>1, <2>2
<1>12. ASSUME Accounted PROVE Accounted'
  <2>1. ASSUME NEW q \in Questions
        PROVE  Total(lines', batch', needed', pending' \cup done', q) <= samples_per_question
    <3>1. Total(lines, batch, needed, pending \cup done, q) <= samples_per_question
      BY <1>12, TotalIs DEF Accounted, NeverTooMany
    <3>2. PICK x \in Nat, y \in Nat : x = Total(lines, batch, needed, pending \cup done, q)
                                      /\ y = Total(lines, results, needed, pending \cup D, q) /\ y <= x
      BY <1>2
    <3>3. samples_per_question \in Nat
      BY DataGenAssumption
    <3>4. y <= samples_per_question
      BY <3>1, <3>2, <3>3
    <3> QED
      BY <1>10, <3>2, <3>4
  <2>2. NeverTooMany'
    <3>1. \A q \in Questions : (Saved(q) + Coming(q))' <= samples_per_question
      BY <2>1, TotalIs
    <3> QED
      BY <3>1 DEF NeverTooMany
  <2>3. Clean(lines)'
    BY <1>1, <1>12 DEF Accounted, Clean
  <2> QED
    BY <1>5, <2>2, <2>3 DEF Accounted
<1> QED
  BY <1>6, <1>7, <1>8, <1>9, <1>11, <1>12 DEF IInv

----------------------------------------------------------------------------
(* The theorems.                                                           *)

\* Every step keeps the invariant, and the accounts unless it hides lines.
LEMMA StepKeeps == IInv /\ [Next]_vars => IInv' /\ ("split" \notin Tears /\ Accounted => Accounted')
<1> SUFFICES ASSUME IInv, [Next]_vars
             PROVE  IInv' /\ ("split" \notin Tears /\ Accounted => Accounted')
  OBVIOUS
<1>1. CASE Load
  BY <1>1, LoadKeeps
<1>2. CASE Wait
  BY <1>2, WaitKeeps
<1>3. CASE \E t \in Tasks : Handle(t)
  BY <1>3, HandleKeeps
<1>4. CASE Save
  BY <1>4, SaveKeeps
<1>5. CASE SaveFails
  BY <1>5, SaveFailsKeeps
<1>6. CASE Group
  BY <1>6, GroupKeeps
<1>7. CASE \E t \in Tasks : TaskStep(t)
  BY <1>7, TaskKeeps
<1>8. CASE Crash
  BY <1>8, CrashKeeps
<1>9. CASE UNCHANGED vars
  <2>1. /\ lines' = lines /\ open' = open /\ grouped' = grouped /\ needed' = needed /\ status' = status
        /\ attempt' = attempt /\ pending' = pending /\ done' = done /\ batch' = batch /\ pc' = pc
        /\ lost' = lost /\ runs' = runs
    BY <1>9 DEF vars, file, taskVars, mainVars
  <2>2. TypeOK' /\ Tracked' /\ Left'
    BY <2>1 DEF IInv, TypeOK, Tracked, Left
  <2>3. Supply'
    <3>1. Yields(needed)' = Yields(needed)
      BY <2>1 DEF Yields
    <3> QED
      BY <2>1, <3>1 DEF IInv, Supply, max_buffer
  <2>4. Complete' /\ (NeverTooMany => NeverTooMany')
    BY <2>1, SameTotals DEF IInv
  <2>5. Accounted => Accounted'
    BY <2>1, <2>4 DEF Accounted
  <2> QED
    BY <2>2, <2>3, <2>4, <2>5 DEF IInv
<1> QED
  BY <1>1, <1>2, <1>3, <1>4, <1>5, <1>6, <1>7, <1>8, <1>9 DEF Next, Main

\* The invariant of the data generator: tasks are in one place and yielded
\* once, retries and batches stay within their limits, and without failures
\* every answer asked for is saved, in the batch, running or to be created.
THEOREM Inductive == Spec => []IInv
<1>1. Init => IInv
  BY InitHolds
<1>2. IInv /\ [Next]_vars => IInv'
  BY StepKeeps
<1> QED
  BY <1>1, <1>2, PTL DEF Spec

\* The variables of process_dataset and process_sample have their types.
THEOREM TypeCorrect == Spec => []TypeOK
<1>1. IInv => TypeOK
  BY DEF IInv
<1> QED
  BY <1>1, Inductive, PTL

\* process_dataset never waits with fewer than max_concurrency tasks while
\* there are tasks to create, and never has more than max_buffer pending.
THEOREM BufferStaysFull == Spec => []Saturated
<1>1. IInv => Saturated
  <2> SUFFICES ASSUME IInv PROVE Saturated
    OBVIOUS
  <2>1. Supply /\ Left /\ TypeOK
    BY DEF IInv
  <2>2. pc = "wait" => Cardinality(done) = 0
    BY <2>1, FS_EmptySet DEF Left
  <2>3. Cardinality(pending) \in Nat
    BY <2>1, RefillLimit
  <2>4. pc = "wait" /\ Yields(needed) # {} => Cardinality(pending) >= max_concurrency
    BY <2>1, <2>2, <2>3 DEF Supply
  <2> QED
    BY <2>1, <2>4 DEF Supply, Saturated
<1> QED
  BY <1>1, Inductive, PTL

\* Unless a write was cut inside a character, every answer is accounted for:
\* the steps keep what was saved, what is on its way and what was grouped.
LEMMA AccountsKept ==
    ASSUME "split" \notin Tears
    PROVE  Spec => [](IInv /\ Accounted)
<1>1. Init => IInv /\ Accounted
  BY InitHolds
<1>2. (IInv /\ Accounted) /\ [Next]_vars => (IInv /\ Accounted)'
  <2>1. "split" \notin Tears
    OBVIOUS
  <2> QED
    BY <2>1, StepKeeps
<1> QED
  BY <1>1, <1>2, PTL DEF Spec

\* However often the program is interrupted, with writes cut between or within
\* records but not inside a character, and started again, load_existing_data
\* and task_generator never ask for an answer too many.
THEOREM NoAnswerTooMany ==
    ASSUME "split" \notin Tears
    PROVE  Spec => []NeverTooMany
<1>1. IInv /\ Accounted => NeverTooMany
  BY DEF Accounted
<1>2. Spec => [](IInv /\ Accounted)
  BY AccountsKept
<1> QED
  BY <1>1, <1>2, PTL

\* A run in which no request and no save failed, and which was not given a file
\* that ended in mid-line, leaves every answer in the file and in its grouped copy.
THEOREM EveryAnswerSaved ==
    ASSUME "split" \notin Tears
    PROVE  Spec => []NothingLost
<1>1. IInv /\ Accounted => NothingLost
  <2> SUFFICES ASSUME IInv, Accounted, pc = "done", ~lost, NEW q \in Questions
               PROVE  /\ Saved(q) = samples_per_question
                      /\ samples_per_question > 0 => grouped[q] = samples_per_question
    BY DEF NothingLost
  <2>1. /\ Saved(q) + Coming(q) >= samples_per_question
        /\ Saved(q) + Coming(q) <= samples_per_question
    BY DEF IInv, Complete, Accounted, NeverTooMany
  <2>2. Coming(q) = 0
    <3>1. pending = {} /\ done = {} /\ needed[q] = 0 /\ batch = <<>>
      BY DEF IInv, Left
    <3>2. Count(batch, q) = 0
      BY <3>1, CountNone
    <3>3. Cardinality({t \in pending \cup done : t[1] = q}) = 0
      <4>1. {t \in pending \cup done : t[1] = q} = {}
        BY <3>1
      <4> QED
        BY <4>1, FS_EmptySet
    <3> QED
      BY <3>1, <3>2, <3>3 DEF Coming
  <2>3. Count(lines, q) \in Nat /\ samples_per_question \in Nat
    BY Types, CountType DEF IInv
  <2>4. Saved(q) = samples_per_question
    BY <2>1, <2>2, <2>3 DEF Saved
  <2>5. samples_per_question > 0 => grouped[q] = samples_per_question
    BY DEF Accounted
  <2> QED
    BY <2>4, <2>5
<1>2. Spec => [](IInv /\ Accounted)
  BY AccountsKept
<1> QED
  BY <1>1, <1>2, PTL

\* load_existing_data "scans existing output file to count processed samples":
\* unless a write was cut inside a character, no more is generated than the
\* records in the file leave to do.
THEOREM CountsAll ==
    ASSUME "split" \notin Tears
    PROVE  Spec => CountsProcessed
<1> DEFINE A == pc = "start" /\ pc' # "start" =>
                  \A q \in Questions :
                     needed'[q] + Cardinality({t \in pending' : t[1] = q})
                       <= Max({0, samples_per_question - Saved(q)})
<1>1. ASSUME IInv, Accounted, IInv', Accounted', Next, pc = "start", pc' # "start",
             NEW q \in Questions
      PROVE  needed'[q] + Cardinality({t \in pending' : t[1] = q})
               <= Max({0, samples_per_question - Saved(q)})
  <2>1. Load
    <3>1. \A t \in Tasks : TaskStep(t) => pc' = pc
      BY DEF TaskStep, Acquire, Answer, Fail, Retry, Step, mainVars
    <3>2. ~Wait /\ ~(\E t \in Tasks : Handle(t)) /\ ~Save /\ ~SaveFails /\ ~Group /\ ~Crash
      BY <1>1 DEF Wait, Handle, Save, SaveFails, Group, Crash
    <3> QED
      BY <1>1, <3>1, <3>2 DEF Next, Main
  <2>2. lines' = lines /\ done' = done /\ batch' = batch
    BY <2>1 DEF Load, file
  <2>3. done = {} /\ batch = <<>>
    BY <1>1 DEF IInv, Left
  <2>4. Total(lines', batch', needed', pending' \cup done', q) <= samples_per_question
    <3>1. (Saved(q) + Coming(q))' <= samples_per_question
      BY <1>1 DEF Accounted, NeverTooMany
    <3> QED
      BY <3>1, TotalIs
  <2>5. pending' \cup done' = pending' /\ Count(batch', q) = 0 /\ Count(lines', q) = Saved(q)
    BY <2>2, <2>3, CountNone DEF Saved
  <2>6. {t \in pending' : t[1] = q} = Of(pending', q)
    BY DEF Of
  <2>7. /\ Count(lines', q) \in Nat /\ needed'[q] \in Nat /\ Cardinality(Of(pending', q)) \in Nat
        /\ samples_per_question \in Nat
    <3>1. /\ lines' \in Seq(Line) /\ needed' \in Todos /\ pending' \in SUBSET Tasks
      BY <1>1 DEF IInv, TypeOK, Line, Todos
    <3>2. samples_per_question \in Nat
      BY DataGenAssumption
    <3>3. needed'[q] \in Nat
      BY <3>1, <3>2 DEF Todos
    <3>4. Cardinality(Of(pending', q)) \in Nat
      BY <3>1, TaskFacts, FS_Subset, FS_CardinalityType DEF Of
    <3> QED
      BY <3>1, <3>2, <3>3, <3>4, CountType
  <2>8. PICK x \in Nat, n \in Nat, c \in Nat, m \in Nat :
          /\ x = Saved(q) /\ n = needed'[q] /\ c = Cardinality(Of(pending', q))
          /\ m = samples_per_question
    BY <2>5, <2>7
  <2>9. x + (0 + n + c) <= m
    BY <2>4, <2>5, <2>8 DEF Total
  <2>10. Max({0, m - x}) = IF 0 <= m - x THEN m - x ELSE 0
    <3>1. 0 \in Int /\ m - x \in Int
      OBVIOUS
    <3> QED
      BY <3>1, MinMaxTwo
  <2>11. n + c <= Max({0, m - x})
    BY <2>9, <2>10
  <2> QED
    BY <2>6, <2>8, <2>11
<1>2. (IInv /\ Accounted) /\ (IInv /\ Accounted)' /\ [Next]_vars => [A]_vars
  BY <1>1
<1>3. Spec => [](IInv /\ Accounted)
  BY AccountsKept
<1> QED
  BY <1>2, <1>3, PTL DEF Spec, CountsProcessed
=============================================================================
