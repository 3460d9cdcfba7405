---------------------------- MODULE DecisionProofs ----------------------------
(***************************************************************************)
(* Proofs about what the product decides, as it stands in MCPlatform: the  *)
(* dossiers and admissions of the procurement rehearsals.                  *)
(***************************************************************************)
EXTENDS MCPlatform, FiniteSetTheorems, SequenceTheorems, WellFoundedInduction, TLAPS

-----------------------------------------------------------------------------
(* Sequences of sequences, one after the other. *)

\* A set of numbers has a least one.
LEMMA LeastNumber ==
  ASSUME NEW T, T \subseteq Nat, T # {}
  PROVE  \E x \in T : \A y \in T : x =< y
<1>1. IsWellFoundedOn(OpToRel(<, Nat), Nat)
  BY NatLessThanWellFounded
<1>2. PICK x \in T : \A y \in T : ~ (<<y, x>> \in OpToRel(<, Nat))
  BY <1>1, WFMin
<1>3. ASSUME NEW y \in T PROVE x =< y
  <2>1. ~(y < x)
    BY <1>2 DEF OpToRel
  <2>2. QED
    BY <2>1
<1>4. QED
  BY <1>3

\* A bounded set of numbers has a greatest one.
LEMMA GreatestNumber ==
  ASSUME NEW n \in Nat, NEW T, T \subseteq 1..n, T # {}
  PROVE  Notices!Max(T) \in T /\ \A y \in T : Notices!Max(T) >= y
<1> DEFINE U == {k \in Nat : n - k \in T}
<1>1. \E k \in U : TRUE
  <2>1. PICK x \in T : TRUE
    OBVIOUS
  <2>2. n - x \in Nat /\ n - (n - x) = x
    OBVIOUS
  <2>3. QED
    BY <2>1, <2>2
<1>2. PICK k \in U : \A l \in U : k =< l
  <2>1. U \subseteq Nat /\ U # {}
    BY <1>1
  <2> HIDE DEF U
  <2>2. QED
    BY <2>1, LeastNumber
<1>3. ASSUME NEW y \in T PROVE n - k >= y
  <2>1. n - y \in U /\ y \in Nat
    OBVIOUS
  <2>2. QED
    BY <1>2, <2>1
<1>4. \E x \in T : \A y \in T : x >= y
  BY <1>3
<1>5. QED
  BY <1>4 DEF Notices!Max

\* What FlattenSeq has put together after each of the first m sequences.
Running(g, ss, m) == g = [i \in 1..m |-> IF i = 1 THEN ss[i] ELSE g[i - 1] \o ss[i]]

LEMMA RunningExists ==
  ASSUME NEW ss, NEW n \in Nat \ {0}
  PROVE  \E g : Running(g, ss, n)
<1> DEFINE Bad == {m \in Nat \ {0} : ~\E g : Running(g, ss, m)}
<1>1. ASSUME Bad # {} PROVE FALSE
  <2>1. PICK m \in Bad : \A k \in Bad : m =< k
    BY <1>1, LeastNumber
  <2>2. CASE m = 1
    <3>1. Running([i \in 1..1 |-> ss[i]], ss, 1)
      BY DEF Running
    <3>2. QED
      BY <2>1, <2>2, <3>1
  <2>3. CASE m # 1
    <3>1. m - 1 \in Nat \ {0} /\ m \in Nat /\ ~(m <= m - 1)
      BY <2>3
    <3>2. m - 1 \notin Bad
      BY <2>1, <3>1
    <3>3. PICK g : Running(g, ss, m - 1)
      BY <3>1, <3>2
    <3> DEFINE h == [i \in 1..m |-> IF i = m THEN g[m - 1] \o ss[m] ELSE g[i]]
               h2 == [i \in 1..m |-> IF i = 1 THEN ss[i] ELSE h[i - 1] \o ss[i]]
    <3>4. ASSUME NEW i \in 1..m PROVE h[i] = h2[i]
      <4>1. CASE i = m
        <5>1. m - 1 \in 1..m /\ m - 1 # m /\ m \in 1..m
          BY <2>3, <3>1
        <5>2. h[m - 1] = g[m - 1]
          BY <5>1
        <5>3. QED
          BY <2>3, <4>1, <5>1, <5>2
      <4>2. CASE i # m
        <5>1. i \in 1..(m - 1)
          BY <3>1, <4>2
        <5>2. g[i] = IF i = 1 THEN ss[i] ELSE g[i - 1] \o ss[i]
          BY <3>3, <5>1 DEF Running
        <5>3. i # 1 => i - 1 \in 1..m /\ i - 1 # m
          BY <3>1, <5>1
        <5>4. i # 1 => h[i - 1] = g[i - 1]
          BY <5>3
        <5>5. QED
          BY <4>2, <5>2, <5>4
      <4>3. QED
        BY <4>1, <4>2
    <3>5. h = h2
      <4> HIDE DEF h
      <4>1. h = [i \in 1..m |-> h[i]]
        BY DEF h
      <4>2. QED
        BY <3>4, <4>1
    <3>6. Running(h, ss, m)
      <4> HIDE DEF h
      <4>1. QED
        BY <3>5 DEF Running
    <3>7. QED
      BY <2>1, <3>6
  <2>4. QED
    BY <2>2, <2>3
<1>2. QED
  BY <1>1

\* FlattenSeq is where that ends.
LEMMA FlattenRuns ==
  ASSUME NEW ss, Len(ss) \in Nat \ {0}
  PROVE  \E g : Running(g, ss, Len(ss)) /\ Notices!FlattenSeq(ss) = g[Len(ss)]
<1> DEFINE n == Len(ss)
           Body(f) == [i \in 1..n |-> IF i = 1 THEN ss[i] ELSE f[i - 1] \o ss[i]]
           flatten == CHOOSE f : f = Body(f)
<1>1. PICK g : g = Body(g)
  BY RunningExists DEF Running
<1>2. flatten = Body(flatten)
  <2> HIDE DEF Body
  <2> QED BY <1>1
<1>3. Notices!FlattenSeq(ss) = flatten[n]
  <2>1. Len(ss) # 0
    OBVIOUS
  <2>2. QED
    BY <2>1 DEF Notices!FlattenSeq
<1> HIDE DEF flatten
<1>4. QED
  BY <1>2, <1>3 DEF Running

\* Element for element, a and b are what the first m sequences of ss and of tt have at the
\* same places, and a leaves none out.
Aligned(a, b, ss, tt, m) ==
  /\ Notices!IsSeq(a) /\ Notices!IsSeq(b) /\ Len(a) = Len(b)
  /\ \A j \in DOMAIN a : \E i \in 1..m : \E k \in DOMAIN ss[i] : a[j] = ss[i][k] /\ b[j] = tt[i][k]
  /\ \A i \in 1..m : \A k \in DOMAIN ss[i] : \E j \in DOMAIN a : a[j] = ss[i][k]

LEMMA SequencesJoin ==
  ASSUME NEW a, NEW b, Notices!IsSeq(a), Notices!IsSeq(b)
  PROVE  /\ Notices!IsSeq(a \o b)
         /\ Len(a \o b) = Len(a) + Len(b) /\ Len(a) \in Nat /\ Len(b) \in Nat
         /\ DOMAIN (a \o b) = 1..(Len(a) + Len(b)) /\ DOMAIN a = 1..Len(a) /\ DOMAIN b = 1..Len(b)
         /\ \A i \in 1..Len(a) : (a \o b)[i] = a[i]
         /\ \A i \in 1..Len(b) : (a \o b)[Len(a) + i] = b[i]
<1> DEFINE V == Notices!Range(a) \cup Notices!Range(b)
           c == a \o b
<1>1. a \in Seq(V) /\ b \in Seq(V)
  <2>1. a \in Seq(Notices!Range(a)) /\ b \in Seq(Notices!Range(b))
    BY DEF Notices!IsSeq
  <2>2. Notices!Range(a) \subseteq V /\ Notices!Range(b) \subseteq V
    OBVIOUS
  <2> HIDE DEF V
  <2>3. QED
    BY <2>1, <2>2
<1> HIDE DEF V
<1>2. /\ c \in Seq(V) /\ Len(c) = Len(a) + Len(b)
      /\ Len(a) \in Nat /\ Len(b) \in Nat
      /\ DOMAIN c = 1..Len(c) /\ DOMAIN a = 1..Len(a) /\ DOMAIN b = 1..Len(b)
      /\ \A i \in 1..(Len(a) + Len(b)) : c[i] = IF i <= Len(a) THEN a[i] ELSE b[i - Len(a)]
  BY <1>1
<1> HIDE DEF c
<1>3. Notices!IsSeq(c)
  <2>1. c = [i \in 1..Len(c) |-> c[i]] /\ Len(c) \in Nat
    BY <1>2
  <2>2. \A i \in 1..Len(c) : c[i] \in Notices!Range(c)
    BY <1>2 DEF Notices!Range
  <2>3. QED
    BY <2>1, <2>2 DEF Notices!IsSeq
<1>4. \A i \in 1..Len(a) : c[i] = a[i]
  BY <1>2
<1>5. ASSUME NEW i \in 1..Len(b) PROVE c[Len(a) + i] = b[i]
  <2>1. Len(a) + i \in 1..(Len(a) + Len(b)) /\ ~(Len(a) + i <= Len(a)) /\ (Len(a) + i) - Len(a) = i
    BY <1>2
  <2>2. QED
    BY <1>2, <2>1
<1>6. QED
  BY <1>2, <1>3, <1>4, <1>5 DEF c

LEMMA AlignedJoin ==
  ASSUME NEW a, NEW b, NEW ss, NEW tt, NEW m \in Nat, Aligned(a, b, ss, tt, m),
         Notices!IsSeq(ss[m + 1]), Notices!IsSeq(tt[m + 1]), Len(ss[m + 1]) = Len(tt[m + 1])
  PROVE  Aligned(a \o ss[m + 1], b \o tt[m + 1], ss, tt, m + 1)
<1> DEFINE s == ss[m + 1]
           t == tt[m + 1]
           c == a \o s
           d == b \o t
<1>0. m \in Nat /\ m + 1 \in 1..(m + 1) /\ \A i \in 1..m : i \in 1..(m + 1)
  OBVIOUS
<1>1. /\ Notices!IsSeq(a) /\ Notices!IsSeq(b) /\ Notices!IsSeq(s) /\ Notices!IsSeq(t)
      /\ Len(a) = Len(b) /\ Len(s) = Len(t)
  BY DEF Aligned
<1> HIDE DEF s, t
<1>2. /\ Notices!IsSeq(c) /\ Len(a) \in Nat /\ Len(s) \in Nat /\ Len(c) = Len(a) + Len(s)
      /\ DOMAIN c = 1..(Len(a) + Len(s)) /\ DOMAIN a = 1..Len(a) /\ DOMAIN s = 1..Len(s)
      /\ \A i \in 1..Len(a) : c[i] = a[i]
      /\ \A i \in 1..Len(s) : c[Len(a) + i] = s[i]
  BY SMTT(30), <1>1, SequencesJoin
<1>3. /\ Notices!IsSeq(d) /\ Len(d) = Len(b) + Len(t)
      /\ \A i \in 1..Len(b) : d[i] = b[i]
      /\ \A i \in 1..Len(t) : d[Len(b) + i] = t[i]
  BY <1>1, SequencesJoin
<1>4. \A i \in 1..Len(a) : c[i] = a[i] /\ d[i] = b[i]
  BY <1>1, <1>2, <1>3
<1>5. \A i \in 1..Len(s) : c[Len(a) + i] = s[i] /\ d[Len(a) + i] = t[i]
  BY <1>1, <1>2, <1>3
<1> HIDE DEF c, d
<1>6. ASSUME NEW j \in DOMAIN c
      PROVE  \E i \in 1..(m + 1) : \E k \in DOMAIN ss[i] : c[j] = ss[i][k] /\ d[j] = tt[i][k]
  <2>1. j \in 1..Len(a) \/ \E k \in 1..Len(s) : j = Len(a) + k
    <3>1. j \in 1..(Len(a) + Len(s)) /\ Len(a) \in Nat /\ Len(s) \in Nat
      BY <1>2
    <3>2. j \notin 1..Len(a) => j - Len(a) \in 1..Len(s) /\ j = Len(a) + (j - Len(a))
      BY <3>1
    <3>3. QED
      BY <3>2
  <2>2. CASE j \in 1..Len(a)
    <3>1. j \in DOMAIN a /\ c[j] = a[j] /\ d[j] = b[j]
      BY <1>2, <1>4, <2>2
    <3>2. QED
      BY <1>0, <3>1 DEF Aligned
  <2>3. ASSUME NEW k \in 1..Len(s), j = Len(a) + k
        PROVE  \E i \in 1..(m + 1) : \E l \in DOMAIN ss[i] : c[j] = ss[i][l] /\ d[j] = tt[i][l]
    <3>1. k \in DOMAIN ss[m + 1] /\ c[j] = ss[m + 1][k] /\ d[j] = tt[m + 1][k]
      BY <1>2, <1>5, <2>3 DEF s, t
    <3>2. QED
      BY <1>0, <3>1
  <2>4. QED
    BY <2>1, <2>2, <2>3
<1>7. ASSUME NEW i \in 1..(m + 1), NEW k \in DOMAIN ss[i] PROVE \E j \in DOMAIN c : c[j] = ss[i][k]
  <2>1. i \in 1..m \/ i = m + 1
    OBVIOUS
  <2>2. CASE i \in 1..m
    <3>1. PICK j \in DOMAIN a : a[j] = ss[i][k]
      BY <2>2 DEF Aligned
    <3>2. j \in DOMAIN c /\ c[j] = a[j]
      BY <1>2, <3>1
    <3>3. QED
      BY <3>1, <3>2
  <2>3. CASE i = m + 1
    <3>1. k \in 1..Len(s) /\ s[k] = ss[i][k]
      BY <1>2, <2>3 DEF s
    <3>2. Len(a) + k \in DOMAIN c /\ c[Len(a) + k] = s[k]
      BY <1>2, <3>1
    <3>3. QED
      BY <3>1, <3>2
  <2>4. QED
    BY <2>1, <2>2, <2>3
<1>8. Aligned(c, d, ss, tt, m + 1)
  BY <1>1, <1>2, <1>3, <1>6, <1>7 DEF Aligned
<1>9. QED
  BY <1>8 DEF c, d, s, t

\* n sequences.
Parts(ss, n) == ss = [i \in 1..n |-> ss[i]] /\ \A i \in 1..n : Notices!IsSeq(ss[i])

SameLengths(ss, tt, n) == \A i \in 1..n : Len(ss[i]) = Len(tt[i])

LEMMA RunningAligned ==
  ASSUME NEW n \in Nat \ {0}, NEW ss, NEW tt, NEW f, NEW g, Running(f, ss, n), Running(g, tt, n),
         Parts(ss, n), Parts(tt, n), SameLengths(ss, tt, n)
  PROVE  Aligned(f[n], g[n], ss, tt, n)
<1> DEFINE Bad == {m \in 1..n : ~Aligned(f[m], g[m], ss, tt, m)}
<1>1. ASSUME Bad # {} PROVE FALSE
  <2>1. PICK m \in Bad : \A k \in Bad : m =< k
    <3>1. Bad \subseteq Nat
      OBVIOUS
    <3> HIDE DEF Bad
    <3>2. QED
      BY <1>1, <3>1, LeastNumber
  <2>2. /\ Notices!IsSeq(ss[m]) /\ Notices!IsSeq(tt[m]) /\ Len(ss[m]) = Len(tt[m])
        /\ m \in 1..n /\ ~Aligned(f[m], g[m], ss, tt, m)
    BY <2>1 DEF Parts, SameLengths
  <2>3. CASE m = 1
    <3>1. f[1] = ss[1] /\ g[1] = tt[1]
      BY <2>2, <2>3 DEF Running
    <3>2. DOMAIN ss[1] = 1..Len(ss[1]) /\ \A i \in 1..1 : i = 1
      BY <2>2, <2>3 DEF Notices!IsSeq
    <3>3. \A j \in DOMAIN ss[1] : \E i \in 1..1 : \E k \in DOMAIN ss[i] : ss[1][j] = ss[i][k] /\ tt[1][j] = tt[i][k]
      OBVIOUS
    <3>4. Aligned(ss[1], tt[1], ss, tt, 1)
      BY <2>2, <2>3, <3>2, <3>3 DEF Aligned
    <3>5. QED
      BY <2>2, <2>3, <3>1, <3>4
  <2>4. CASE m # 1
    <3>1. m - 1 \in 1..n /\ m - 1 \in Nat /\ ~(m =< m - 1) /\ (m - 1) + 1 = m
      BY <2>2, <2>4
    <3>2. Aligned(f[m - 1], g[m - 1], ss, tt, m - 1)
      BY SMTT(30), <2>1, <3>1
    <3>3. f[m] = f[m - 1] \o ss[m] /\ g[m] = g[m - 1] \o tt[m]
      BY <2>2, <2>4 DEF Running
    <3> DEFINE l == m - 1
    <3>4. Aligned(f[l] \o ss[l + 1], g[l] \o tt[l + 1], ss, tt, l + 1)
      <4>1. l \in Nat /\ l + 1 = m /\ Aligned(f[l], g[l], ss, tt, l)
        BY <3>1, <3>2
      <4> HIDE DEF l
      <4>2. QED
        BY <2>2, <4>1, AlignedJoin
    <3>5. QED
      BY <2>2, <3>1, <3>3, <3>4
  <2>5. QED
    BY <2>3, <2>4
<1>2. QED
  BY <1>1

\* Flattening keeps what stands at the same places at the same place.
LEMMA FlattenAligns ==
  ASSUME NEW n \in Nat, NEW ss, NEW tt, Parts(ss, n), Parts(tt, n), SameLengths(ss, tt, n)
  PROVE  Aligned(Notices!FlattenSeq(ss), Notices!FlattenSeq(tt), ss, tt, n)
<1>1. Len(ss) = n /\ Len(tt) = n
  BY DEF Parts
<1>2. CASE n = 0
  <2>1. Notices!FlattenSeq(ss) = ss /\ Notices!FlattenSeq(tt) = tt
    BY <1>1, <1>2 DEF Notices!FlattenSeq
  <2>2. ss = <<>> /\ tt = <<>>
    BY <1>2 DEF Parts
  <2>3. Notices!IsSeq(<<>>) /\ Len(<<>>) = 0 /\ DOMAIN <<>> = {} /\ 1..0 = {}
    BY DEF Notices!IsSeq
  <2>4. QED
    BY <1>2, <2>1, <2>2, <2>3 DEF Aligned
<1>3. CASE n # 0
  <2>1. PICK f : Running(f, ss, n) /\ Notices!FlattenSeq(ss) = f[n]
    BY <1>1, <1>3, FlattenRuns
  <2>2. PICK g : Running(g, tt, n) /\ Notices!FlattenSeq(tt) = g[n]
    BY <1>1, <1>3, FlattenRuns
  <2>3. QED
    BY <1>3, <2>1, <2>2, RunningAligned
<1>4. QED
  BY <1>2, <1>3

\* So the result is a sequence of just the elements of its parts.
LEMMA Flattening ==
  ASSUME NEW n \in Nat, NEW ss, Parts(ss, n)
  PROVE  /\ Notices!IsSeq(Notices!FlattenSeq(ss))
         /\ \A j \in DOMAIN Notices!FlattenSeq(ss) : \E i \in 1..n : \E k \in DOMAIN ss[i] :
              Notices!FlattenSeq(ss)[j] = ss[i][k]
         /\ \A i \in 1..n : \A k \in DOMAIN ss[i] : \E j \in DOMAIN Notices!FlattenSeq(ss) :
              Notices!FlattenSeq(ss)[j] = ss[i][k]
<1>1. Aligned(Notices!FlattenSeq(ss), Notices!FlattenSeq(ss), ss, ss, n)
  BY FlattenAligns DEF SameLengths
<1>2. QED
  BY <1>1 DEF Aligned

-----------------------------------------------------------------------------
(* The store. *)

\* The events of a batch are a sequence, and each of them is the batch's.
LEMMA BatchShape ==
  ASSUME NEW key, NEW ds, Notices!IsSeq(ds)
  PROVE  /\ Notices!IsSeq(Notices!BatchEvents(key, ds))
         /\ \A i \in DOMAIN Notices!BatchEvents(key, ds) : Notices!BatchEvents(key, ds)[i][2] = key
<1> DEFINE V == {<<"BATCH_STARTED", key>>, <<"DECISION_RECORDED", key>>, <<"BATCH_COMMITTED", key>>}
           middle == [i \in DOMAIN ds |-> <<"DECISION_RECORDED", key>>]
           whole == Notices!BatchEvents(key, ds)
<1>1. middle \in Seq(V)
  <2>1. DOMAIN ds = 1..Len(ds) /\ Len(ds) \in Nat
    BY DEF Notices!IsSeq
  <2>2. middle = [i \in 1..Len(ds) |-> <<"DECISION_RECORDED", key>>]
    BY <2>1
  <2>3. QED
    BY <2>1, <2>2
<1>2. \A e \in V : e[2] = key
  OBVIOUS
<1>3. <<<<"BATCH_STARTED", key>>>> \in Seq(V) /\ <<<<"BATCH_COMMITTED", key>>>> \in Seq(V)
  OBVIOUS
<1>4. whole = <<<<"BATCH_STARTED", key>>>> \o middle \o <<<<"BATCH_COMMITTED", key>>>>
  BY DEF Notices!BatchEvents
<1> HIDE DEF V, middle, whole
<1>5. whole \in Seq(V)
  BY <1>1, <1>3, <1>4
<1>6. \A i \in DOMAIN whole : whole[i] \in V
  BY <1>5
<1>7. Notices!IsSeq(whole)
  <2>1. whole = [i \in 1..Len(whole) |-> whole[i]] /\ Len(whole) \in Nat /\ DOMAIN whole = 1..Len(whole)
    BY <1>5
  <2>2. \A i \in 1..Len(whole) : whole[i] \in Notices!Range(whole)
    BY <2>1 DEF Notices!Range
  <2>3. QED
    BY <2>1, <2>2 DEF Notices!IsSeq
<1>8. QED
  BY <1>2, <1>6, <1>7 DEF whole

\* The store is a map from keys to sequences of decisions, beside the sequence of events.
StoreInv ==
  /\ results = [k \in DOMAIN results |-> results[k]]
  /\ \A k \in DOMAIN results : Notices!IsSeq(results[k])
  /\ Notices!IsSeq(noticeEvents)
  /\ \A k \in DOMAIN results : \E n \in 0..Len(noticeEvents) : Notices!Fills(k, n)
  /\ \A i \in DOMAIN noticeEvents : noticeEvents[i][2] \in DOMAIN results

LEMMA CommitKeepsWhole ==
  ASSUME NEW key, NEW ds, NEW fail, Notices!IsSeq(ds), StoreInv, Notices!Commit(key, ds, fail)
  PROVE  StoreInv'
<1>1. CASE UNCHANGED <<results, noticeEvents>>
  BY <1>1 DEF StoreInv, Notices!Fills
<1>2. CASE ~UNCHANGED <<results, noticeEvents>>
  <2> DEFINE B == Notices!BatchEvents(key, ds)
  <2>l. PICK L : L = Len(noticeEvents)
    OBVIOUS
  <2>1. /\ key \notin DOMAIN results
        /\ results' = [k \in DOMAIN results \cup {key} |-> IF k = key THEN ds ELSE results[k]]
        /\ noticeEvents' = noticeEvents \o B
    BY <1>2 DEF Notices!Commit, Notices!Keys
  <2>2. Notices!IsSeq(B) /\ \A i \in DOMAIN B : B[i][2] = key
    BY BatchShape
  <2>3. /\ DOMAIN results' = DOMAIN results \cup {key} /\ results'[key] = ds
        /\ \A k \in DOMAIN results : results'[k] = results[k]
        /\ results' = [k \in DOMAIN results' |-> results'[k]]
    BY <2>1
  <2>b. B = Notices!BatchEvents(key, results'[key])
    BY <2>3
  <2> HIDE DEF B
  <2>4. Notices!IsSeq(noticeEvents)
    BY DEF StoreInv
  <2>5. /\ Notices!IsSeq(noticeEvents') /\ L \in Nat /\ Len(B) \in Nat /\ Len(noticeEvents') = L + Len(B)
        /\ DOMAIN noticeEvents' = 1..(L + Len(B)) /\ DOMAIN noticeEvents = 1..L /\ DOMAIN B = 1..Len(B)
        /\ \A i \in 1..L : noticeEvents'[i] = noticeEvents[i]
        /\ \A i \in 1..Len(B) : noticeEvents'[L + i] = B[i]
    BY <2>l, <2>1, <2>2, <2>4, SequencesJoin
  <2>6. \A i \in 1..(L + Len(B)) : i \in 1..L \/ \E j \in 1..Len(B) : i = L + j
    <3>1. ASSUME NEW i \in 1..(L + Len(B)), i \notin 1..L PROVE i - L \in 1..Len(B) /\ i = L + (i - L)
      BY <2>5, <3>1
    <3>2. QED
      BY <3>1
  <2> DEFINE E == noticeEvents'
  <2>s. E = noticeEvents'
    OBVIOUS
  <2> HIDE DEF E
  <2>7. \A i \in 1..L : E[i][2] \in DOMAIN results /\ E[i][2] = noticeEvents[i][2]
    BY <2>5, <2>s DEF StoreInv
  <2>8. \A j \in 1..Len(B) : E[L + j][2] = key
    BY <2>2, <2>5, <2>s
  <2>9. \A i \in DOMAIN E : E[i][2] \in DOMAIN results'
    BY <2>3, <2>5, <2>6, <2>7, <2>8, <2>s
  <2>10. Notices!Fills(key, L)'
    <3>1. ASSUME NEW i \in DOMAIN E PROVE E[i][2] = key <=> i \in (L + 1)..(L + Len(B))
      <4>1. CASE i \in 1..L
        BY <2>1, <2>5, <2>7, <4>1
      <4>2. ASSUME NEW j \in 1..Len(B), i = L + j PROVE E[i][2] = key <=> i \in (L + 1)..(L + Len(B))
        BY <2>5, <2>8, <4>2
      <4>3. QED
        BY <2>5, <2>6, <2>s, <4>1, <4>2
    <3>2. L + Len(B) <= Len(E)
      BY <2>5, <2>s
    <3>3. \A j \in DOMAIN B : E[L + j] = B[j]
      BY <2>5, <2>s
    <3>4. QED
      BY <2>b, <2>s, <3>1, <3>2, <3>3 DEF Notices!Fills
  <2>11. ASSUME NEW k \in DOMAIN results PROVE \E n \in 0..L : Notices!Fills(k, n)'
    <3>1. PICK n \in 0..L : Notices!Fills(k, n)
      BY <2>l DEF StoreInv
    <3> DEFINE W == Notices!BatchEvents(k, results[k])
    <3>2. /\ n + Len(W) <= L
          /\ \A i \in DOMAIN noticeEvents : noticeEvents[i][2] = k <=> i \in (n + 1)..(n + Len(W))
          /\ \A j \in DOMAIN W : noticeEvents[n + j] = W[j]
      BY <2>l, <3>1 DEF Notices!Fills
    <3>3. W = Notices!BatchEvents(k, results'[k])
      BY <2>3
    <3>4. DOMAIN W = 1..Len(W) /\ Len(W) \in Nat
      <4>1. Notices!IsSeq(W)
        BY BatchShape DEF StoreInv
      <4> HIDE DEF W
      <4>2. QED
        BY <4>1 DEF Notices!IsSeq
    <3> HIDE DEF W
    <3>5. ASSUME NEW i \in DOMAIN E PROVE E[i][2] = k <=> i \in (n + 1)..(n + Len(W))
      <4>1. CASE i \in 1..L
        BY <2>5, <2>7, <3>2, <4>1
      <4>2. ASSUME NEW j \in 1..Len(B), i = L + j PROVE E[i][2] = k <=> i \in (n + 1)..(n + Len(W))
        <5>1. E[i][2] # k
          BY <2>1, <2>8, <4>2
        <5>2. i \notin (n + 1)..(n + Len(W))
          BY <2>5, <3>2, <3>4, <4>2
        <5>3. QED
          BY <5>1, <5>2
      <4>3. QED
        BY <2>5, <2>6, <2>s, <4>1, <4>2
    <3>6. n + Len(W) <= Len(E)
      BY <2>5, <2>s, <3>2, <3>4
    <3>7. \A j \in DOMAIN W : n + j \in 1..L
      BY <2>5, <3>2, <3>4
    <3>8. \A j \in DOMAIN W : E[n + j] = W[j]
      BY <2>5, <2>s, <3>2, <3>7
    <3>9. QED
      BY <2>s, <3>3, <3>5, <3>6, <3>8 DEF Notices!Fills
  <2>12. ASSUME NEW k \in DOMAIN results' PROVE \E n \in 0..Len(E) : Notices!Fills(k, n)'
    <3>1. L \in 0..Len(E) /\ \A n \in 0..L : n \in 0..Len(E)
      BY <2>5, <2>s
    <3>2. QED
      BY <2>3, <2>10, <2>11, <3>1
  <2>13. \A k \in DOMAIN results' : Notices!IsSeq(results'[k])
    BY <2>3 DEF StoreInv
  <2>14. QED
    BY <2>3, <2>5, <2>9, <2>12, <2>13, <2>s DEF StoreInv
<1>3. QED
  BY <1>1, <1>2

-----------------------------------------------------------------------------
(* The order of the notices. *)

\* The rank of an identifier is its place in the order of the identifiers' text.
LEMMA RankIsPlace ==
  ASSUME NEW id \in Notices!Range(NoticeIds)
  PROVE  Notices!IdRank(id) \in Nat /\ NoticeIds[Notices!IdRank(id)] = id
<1> DEFINE I == {i \in 1..Len(NoticeIds) : NoticeIds[i] = id}
<1>1. Notices!IdRank(id) = IF I # {} THEN Notices!Min(I) ELSE 0
  BY DEF Notices!IdRank, Notices!SelectInSeq
<1>2. PICK i \in DOMAIN NoticeIds : NoticeIds[i] = id
  BY DEF Notices!Range
<1>3. DOMAIN NoticeIds = 1..Len(NoticeIds) /\ Len(NoticeIds) \in Nat
  BY NoticesAssumption DEF Notices!IsSeq
<1>4. I # {} /\ I \subseteq Nat
  BY <1>2, <1>3
<1>5. \A j \in I : NoticeIds[j] = id
  OBVIOUS
<1> HIDE DEF I
<1>6. \E x \in I : \A y \in I : x =< y
  BY <1>4, LeastNumber
<1>7. Notices!Min(I) \in I
  BY <1>6 DEF Notices!Min
<1>8. QED
  BY <1>1, <1>4, <1>5, <1>7

\* A notice that can be put in order, and what decides its place.
Sortable(n) ==
  /\ n.date \in Nat /\ n.reference[1] \in Notices!Range(NoticeIds) /\ n.reference[2] \in Int
  /\ n.reference = <<n.reference[1], n.reference[2]>>

Sorting(n) == <<n.date, Notices!IdRank(n.reference[1]), n.reference[2]>>

Lexical(a, b) == a[1] < b[1] \/ (a[1] = b[1] /\ (a[2] < b[2] \/ (a[2] = b[2] /\ a[3] < b[3])))

LEMMA BeforeIsLexical ==
  ASSUME NEW m, NEW n, Sortable(m), Sortable(n)
  PROVE  /\ Notices!NoticeBefore(m, n) <=> Lexical(Sorting(m), Sorting(n))
         /\ Sorting(m) \in Int \X Int \X Int
         /\ Sorting(m) = Sorting(n) => m.reference = n.reference
<1>1. /\ Notices!IdRank(m.reference[1]) \in Nat /\ Notices!IdRank(n.reference[1]) \in Nat
      /\ Notices!IdRank(m.reference[1]) = Notices!IdRank(n.reference[1]) => m.reference[1] = n.reference[1]
  BY RankIsPlace DEF Sortable
<1>2. QED
  BY <1>1 DEF Sortable, Sorting, Lexical, Notices!NoticeBefore, Notices!ReferenceBefore

LEMMA LexicalIsTotal ==
  ASSUME NEW x \in Int \X Int \X Int, NEW y \in Int \X Int \X Int, NEW z \in Int \X Int \X Int
  PROVE  /\ ~Lexical(x, x)
         /\ Lexical(x, y) => ~Lexical(y, x)
         /\ Lexical(x, y) /\ Lexical(y, z) => Lexical(x, z)
         /\ ~Lexical(x, y) /\ ~Lexical(y, x) => x = y
  BY DEF Lexical

\* Notice j of p comes before notice i, by its sorting or, where that does not decide, by
\* its place.
Precedes(p, j, i) == Notices!NoticeBefore(p[j], p[i]) \/ (j < i /\ ~Notices!NoticeBefore(p[i], p[j]))

LEMMA PrecedesIsTotal ==
  ASSUME NEW n \in Nat, NEW p, \A i \in 1..n : Sortable(p[i]), NEW i \in 1..n, NEW j \in 1..n, NEW k \in 1..n
  PROVE  /\ ~Precedes(p, i, i)
         /\ i # j => Precedes(p, i, j) \/ Precedes(p, j, i)
         /\ Precedes(p, i, j) /\ Precedes(p, j, k) => Precedes(p, i, k)
<1> DEFINE a == Sorting(p[i])
           b == Sorting(p[j])
           c == Sorting(p[k])
<1>1. /\ a \in Int \X Int \X Int /\ b \in Int \X Int \X Int /\ c \in Int \X Int \X Int
      /\ Precedes(p, i, i) <=> (Lexical(a, a) \/ (i < i /\ ~Lexical(a, a)))
      /\ Precedes(p, i, j) <=> (Lexical(a, b) \/ (i < j /\ ~Lexical(b, a)))
      /\ Precedes(p, j, i) <=> (Lexical(b, a) \/ (j < i /\ ~Lexical(a, b)))
      /\ Precedes(p, j, k) <=> (Lexical(b, c) \/ (j < k /\ ~Lexical(c, b)))
      /\ Precedes(p, i, k) <=> (Lexical(a, c) \/ (i < k /\ ~Lexical(c, a)))
  BY BeforeIsLexical DEF Precedes
<1> HIDE DEF a, b, c
<1>2. ASSUME NEW x \in Int \X Int \X Int, NEW y \in Int \X Int \X Int, NEW z \in Int \X Int \X Int
      PROVE  /\ ~Lexical(x, x)
             /\ Lexical(x, y) => ~Lexical(y, x)
             /\ Lexical(x, y) /\ Lexical(y, z) => Lexical(x, z)
             /\ ~Lexical(x, y) /\ ~Lexical(y, x) => x = y
  BY LexicalIsTotal
<1>3. i \in Int /\ j \in Int /\ k \in Int
  OBVIOUS
<1>4. ~Precedes(p, i, i)
  BY <1>1, <1>2, <1>3
<1>5. i # j => Precedes(p, i, j) \/ Precedes(p, j, i)
  <2>1. i # j => i < j \/ j < i
    BY <1>3
  <2>2. QED
    BY <1>1, <2>1
<1>6. ASSUME Precedes(p, i, j), Precedes(p, j, k) PROVE Precedes(p, i, k)
  <2>1. i < j /\ j < k => i < k
    BY <1>3
  <2>2. Lexical(a, b) \/ (a = b /\ i < j)
    BY <1>1, <1>2, <1>6
  <2>3. Lexical(b, c) \/ (b = c /\ j < k)
    BY <1>1, <1>2, <1>6
  <2>4. Lexical(a, c) \/ (a = c /\ i < k)
    BY <1>1, <1>2, <2>1, <2>2, <2>3
  <2>5. a = c => ~Lexical(c, a)
    BY <1>1, <1>2
  <2>6. QED
    BY <1>1, <2>4, <2>5
<1>7. QED
  BY <1>4, <1>5, <1>6

Ahead(p, n, i) == {j \in 1..n : Precedes(p, j, i)}

\* The place of each of the first n notices of p in the order.
Placing(p, n) == [i \in 1..n |-> 1 + Notices!Cardinality(Ahead(p, n, i))]

\* No place is taken twice, so none is left over.
LEMMA PlacesAreTakenOnce ==
  ASSUME NEW n \in Nat, NEW p, \A i \in 1..n : Sortable(p[i])
  PROVE  /\ Placing(p, n) \in Injection(1..n, 1..n)
         /\ Placing(p, n) \in Surjection(1..n, 1..n)
<1>1. \A S : Notices!Cardinality(S) = Cardinality(S)
  BY Zenon DEF Notices!Cardinality, Cardinality
<1>2. IsFiniteSet(1..n) /\ Cardinality(1..n) = n
  BY FS_Interval
<1>3. ASSUME NEW i \in 1..n
      PROVE  IsFiniteSet(Ahead(p, n, i)) /\ Cardinality(Ahead(p, n, i)) \in Nat /\ Cardinality(Ahead(p, n, i)) < n
  <2>1. Ahead(p, n, i) \in SUBSET (1..n) /\ i \notin Ahead(p, n, i)
    BY PrecedesIsTotal DEF Ahead
  <2>2. /\ IsFiniteSet(Ahead(p, n, i)) /\ Cardinality(Ahead(p, n, i)) \in Nat
        /\ Cardinality(Ahead(p, n, i)) <= n /\ Cardinality(Ahead(p, n, i)) # n
    BY <1>2, <2>1, FS_Subset, FS_CardinalityType
  <2>3. QED
    BY <2>2
<1>4. ASSUME NEW i \in 1..n, NEW j \in 1..n, Precedes(p, i, j)
      PROVE  Cardinality(Ahead(p, n, i)) # Cardinality(Ahead(p, n, j))
  <2>1. Ahead(p, n, i) \in SUBSET Ahead(p, n, j)
    BY <1>4, PrecedesIsTotal DEF Ahead
  <2>2. i \in Ahead(p, n, j) /\ i \notin Ahead(p, n, i)
    BY <1>4, PrecedesIsTotal DEF Ahead
  <2>3. QED
    BY <1>3, <2>1, <2>2, FS_Subset
<1>5. ASSUME NEW i \in 1..n
      PROVE  Placing(p, n)[i] = 1 + Cardinality(Ahead(p, n, i)) /\ Placing(p, n)[i] \in 1..n
  BY <1>1, <1>3 DEF Placing
<1>6. ASSUME NEW i \in 1..n, NEW j \in 1..n, Placing(p, n)[i] = Placing(p, n)[j] PROVE i = j
  <2>1. Cardinality(Ahead(p, n, i)) = Cardinality(Ahead(p, n, j))
    BY <1>3, <1>5, <1>6
  <2>2. i # j => Precedes(p, i, j) \/ Precedes(p, j, i)
    BY PrecedesIsTotal
  <2>3. QED
    BY <1>4, <2>1, <2>2
<1>7. Placing(p, n) \in [1..n -> 1..n]
  BY <1>5 DEF Placing
<1>8. Placing(p, n) \in Injection(1..n, 1..n)
  BY <1>6, <1>7 DEF Injection, IsInjective
<1>9. QED
  BY <1>2, <1>8, FS_Injection

\* The notice that takes place k.
At(p, n, k) == CHOOSE i \in 1..n : Placing(p, n)[i] = k

\* n notices that can be put in order, and that they are put at their places.
Listed(p, n) == n \in Nat /\ p = [i \in 1..n |-> p[i]] /\ \A i \in 1..n : Sortable(p[i])

Placed(p, n) ==
  /\ Notices!Ordered(p) = [k \in 1..n |-> p[At(p, n, k)]]
  /\ \A k \in 1..n : At(p, n, k) \in 1..n /\ Placing(p, n)[At(p, n, k)] = k
  /\ \A i \in 1..n : Placing(p, n)[i] \in 1..n /\ At(p, n, Placing(p, n)[i]) = i
  /\ \A i, j \in 1..n : Placing(p, n)[i] = Placing(p, n)[j] => i = j

LEMMA OrderedByPlace ==
  ASSUME NEW n, NEW p, Listed(p, n)
  PROVE  Placed(p, n)
<1>1. Len(p) = n
  BY DEF Listed
<1>2. Notices!Ordered(p) = [k \in 1..n |-> p[At(p, n, k)]]
  BY <1>1 DEF Notices!Ordered, At, Placing, Ahead, Precedes
<1> DEFINE f == Placing(p, n)
<1>a. f \in Injection(1..n, 1..n) /\ f \in Surjection(1..n, 1..n)
  BY PlacesAreTakenOnce DEF Listed
<1> HIDE DEF f
<1>b. /\ f \in [1..n -> 1..n] /\ \A k \in 1..n : \E i \in 1..n : f[i] = k
      /\ \A i, j \in 1..n : f[i] = f[j] => i = j
  BY <1>a DEF Injection, Surjection, IsInjective
<1>3. /\ Placing(p, n) \in [1..n -> 1..n] /\ \A k \in 1..n : \E i \in 1..n : Placing(p, n)[i] = k
      /\ \A i, j \in 1..n : Placing(p, n)[i] = Placing(p, n)[j] => i = j
  BY <1>b DEF f
<1>4. \A k \in 1..n : At(p, n, k) \in 1..n /\ Placing(p, n)[At(p, n, k)] = k
  BY <1>3 DEF At
<1>5. \A i \in 1..n : Placing(p, n)[i] \in 1..n
  BY <1>3
<1> HIDE DEF At, Placing
<1>6. \A i \in 1..n : At(p, n, Placing(p, n)[i]) = i
  BY <1>3, <1>4, <1>5
<1>7. QED
  BY <1>2, <1>3, <1>4, <1>5, <1>6 DEF Placed

\* No two of the first n notices of p have the same reference.
Unrepeated(p, n) == \A i, j \in 1..n : p[i].reference = p[j].reference => i = j

\* A repeated reference is refused wherever the order puts it.
LEMMA RepeatedIsRefused ==
  ASSUME NEW n, NEW p, Listed(p, n), ~Unrepeated(p, n)
  PROVE  ~Notices!ValidateLineage(Notices!Ordered(p))
<1> DEFINE seq == Notices!Ordered(p)
<1>1. PICK i \in 1..n, j \in 1..n : i # j /\ p[i].reference = p[j].reference
  BY DEF Unrepeated
<1> DEFINE a == Placing(p, n)[i]
           b == Placing(p, n)[j]
<1>2. /\ seq = [k \in 1..n |-> p[At(p, n, k)]]
      /\ a \in 1..n /\ b \in 1..n /\ At(p, n, a) = i /\ At(p, n, b) = j
  BY OrderedByPlace DEF Placed
<1>3. seq[a] = p[i] /\ seq[b] = p[j] /\ DOMAIN seq = 1..n /\ a # b
  BY <1>1, <1>2
<1> HIDE DEF seq, a, b
<1>4. a < b \/ b < a
  BY <1>2, <1>3
<1>5. \A x, y \in 1..n : x < y => x \in 1..(y - 1)
  OBVIOUS
<1>6. ASSUME Notices!ValidateLineage(seq) PROVE FALSE
  <2>1. \A y \in 1..n : \A x \in 1..(y - 1) : seq[x].reference # seq[y].reference
    BY <1>3, <1>6 DEF Notices!ValidateLineage, Notices!LineageStep
  <2>2. QED
    BY <1>1, <1>2, <1>3, <1>4, <1>5, <2>1
<1>7. QED
  BY <1>6 DEF seq

\* Places s and s + 1 exchanged.
Exchange(s, i) == IF i = s THEN s + 1 ELSE IF i = s + 1 THEN s ELSE i

\* Where no reference is repeated, exchanging two neighbours changes nothing.
LEMMA ExchangeKeepsOrder ==
  ASSUME NEW n \in Nat, NEW p, Listed(p, n), Unrepeated(p, n),
         NEW s \in 1..(n - 1), NEW q, q = [i \in 1..n |-> p[Exchange(s, i)]]
  PROVE  Notices!Ordered(q) = Notices!Ordered(p)
<1>1. /\ s \in 1..n /\ s + 1 \in 1..n
      /\ \A i \in 1..n : Exchange(s, i) \in 1..n /\ Exchange(s, Exchange(s, i)) = i /\ q[i] = p[Exchange(s, i)]
  BY DEF Exchange
<1>0. \A i \in 1..n : Sortable(p[i])
  BY DEF Listed
<1>2. (\A i \in 1..n : Sortable(q[i])) /\ q = [i \in 1..n |-> q[i]]
  BY <1>0, <1>1
<1>p. Placed(p, n) /\ Placed(q, n)
  <2>1. Listed(q, n)
    BY <1>2 DEF Listed
  <2>2. QED
    BY <2>1, OrderedByPlace
<1>3. ASSUME NEW i \in 1..n, NEW j \in 1..n
      PROVE  Precedes(q, i, j) <=> Precedes(p, Exchange(s, i), Exchange(s, j))
  <2> DEFINE a == Exchange(s, i)
             b == Exchange(s, j)
  <2>1. a \in 1..n /\ b \in 1..n /\ (i # j => a # b) /\ q[i] = p[a] /\ q[j] = p[b]
    BY <1>1
  <2> HIDE DEF a, b
  <2>2. CASE i = j
    <3>1. ~Precedes(q, i, i)
      BY <1>2, PrecedesIsTotal
    <3>2. ~Precedes(p, a, a)
      BY <1>0, <2>1, PrecedesIsTotal
    <3>3. QED
      BY <2>2, <3>1, <3>2 DEF a, b
  <2>3. CASE i # j
    <3>1. p[a].reference # p[b].reference
      BY <2>1, <2>3 DEF Unrepeated
    <3>2. Notices!NoticeBefore(p[a], p[b]) <=> ~Notices!NoticeBefore(p[b], p[a])
      <4> DEFINE x == Sorting(p[a])
                 y == Sorting(p[b])
      <4>1. /\ Notices!NoticeBefore(p[a], p[b]) <=> Lexical(x, y)
            /\ Notices!NoticeBefore(p[b], p[a]) <=> Lexical(y, x)
            /\ x \in Int \X Int \X Int /\ y \in Int \X Int \X Int /\ x # y
        BY <1>0, <2>1, <3>1, BeforeIsLexical
      <4> HIDE DEF x, y
      <4>2. QED
        BY <4>1, LexicalIsTotal
    <3>3. Precedes(q, i, j) <=> Notices!NoticeBefore(p[a], p[b])
      BY <2>1, <3>2 DEF Precedes
    <3>4. Precedes(p, a, b) <=> Notices!NoticeBefore(p[a], p[b])
      BY <3>2 DEF Precedes
    <3>5. QED
      BY <3>3, <3>4 DEF a, b
  <2>4. QED
    BY <2>2, <2>3
<1>4. ASSUME NEW i \in 1..n PROVE Placing(q, n)[i] = Placing(p, n)[Exchange(s, i)]
  <2> DEFINE S == Ahead(q, n, i)
             T == Ahead(p, n, Exchange(s, i))
             f == [j \in S |-> Exchange(s, j)]
  <2>1. \A j \in S : j \in 1..n /\ f[j] \in T /\ f[j] = Exchange(s, j)
    BY <1>1, <1>3 DEF Ahead
  <2>2. \A k \in T : Exchange(s, k) \in S /\ f[Exchange(s, k)] = k
    BY <1>1, <1>3 DEF Ahead
  <2>3. \A j, k \in S : f[j] = f[k] => j = k
    BY <1>1, <2>1
  <2>4. f = [j \in S |-> f[j]]
    OBVIOUS
  <2>5. S \in SUBSET (1..n) /\ IsFiniteSet(S)
    <3>1. S \in SUBSET (1..n) /\ IsFiniteSet(1..n)
      BY FS_Interval DEF Ahead
    <3> HIDE DEF S
    <3>2. QED
      BY <3>1, FS_Subset
  <2> HIDE DEF S, T, f
  <2>6. f \in Injection(S, T) /\ f \in Surjection(S, T)
    BY <2>1, <2>2, <2>3, <2>4 DEF Injection, Surjection, IsInjective
  <2>7. ExistsBijection(S, T)
    BY <2>6 DEF ExistsBijection, Bijection
  <2>8. Cardinality(S) = Cardinality(T)
    BY <2>5, <2>7, FS_Bijection
  <2>9. \A U : Notices!Cardinality(U) = Cardinality(U)
    BY Zenon DEF Notices!Cardinality, Cardinality
  <2>10. Notices!Cardinality(S) = Notices!Cardinality(T)
    BY <2>8, <2>9
  <2>11. QED
    BY <1>1, <2>10 DEF Placing, S, T
<1>5. ASSUME NEW k \in 1..n PROVE q[At(q, n, k)] = p[At(p, n, k)]
  <2>1. At(q, n, k) \in 1..n /\ Placing(q, n)[At(q, n, k)] = k
    BY <1>p DEF Placed
  <2>2. Placing(p, n)[Exchange(s, At(q, n, k))] = k /\ Exchange(s, At(q, n, k)) \in 1..n
    BY <1>1, <1>4, <2>1
  <2>3. At(p, n, k) = Exchange(s, At(q, n, k))
    BY <1>p, <2>2 DEF Placed
  <2>4. QED
    BY <1>1, <2>1, <2>3
<1>6. /\ Notices!Ordered(q) = [k \in 1..n |-> q[At(q, n, k)]]
      /\ Notices!Ordered(p) = [k \in 1..n |-> p[At(p, n, k)]]
  BY <1>p DEF Placed
<1>7. [k \in 1..n |-> q[At(q, n, k)]] = [k \in 1..n |-> p[At(p, n, k)]]
  BY <1>5, Zenon
<1>8. QED
  BY <1>6, <1>7

\* A document that parses gives a notice that can be put in order.
LEMMA ParsedIsSortable ==
  ASSUME NEW d \in Documents, Notices!Parses(d)
  PROVE  Sortable(Notices!Notice(d))
<1>1. d.version \in Int /\ d.date \in Nat /\ d.id \in Notices!Range(NoticeIds) \cup {Notices!None}
  BY NoticesAssumption DEF Notices!IsDocument
<1>2. d.id # Notices!None
  BY DEF Notices!Parses, Notices!ParseContractNotice, Notices!TEDEFormsCN16Parser, Notices!ParseResultNotice
<1>3. Notices!Notice(d).date = d.date /\ Notices!Notice(d).reference = <<d.id, d.version>>
  BY DEF Notices!Notice, Notices!Reference
<1>4. QED
  BY <1>1, <1>2, <1>3 DEF Sortable

\* What is sorted when the caller has handed over raw.
Gathered(raw) == [i \in DOMAIN raw |-> Notices!Notice(raw[i])]

AllParse(raw) == \A i \in DOMAIN raw : Notices!Parses(raw[i])

LEMMA GatheredIsListed ==
  ASSUME NEW raw \in Seq(Documents), AllParse(raw)
  PROVE  /\ Listed(Gathered(raw), Len(raw))
         /\ Notices!Assembled(raw) = Notices!Ordered(Gathered(raw))
<1>1. DOMAIN raw = 1..Len(raw) /\ Len(raw) \in Nat /\ \A i \in 1..Len(raw) : raw[i] \in Documents
  OBVIOUS
<1>2. \A i \in 1..Len(raw) : Sortable(Gathered(raw)[i])
  BY <1>1, ParsedIsSortable DEF Gathered, AllParse
<1>3. QED
  BY <1>1, <1>2 DEF Listed, Gathered, Notices!Assembled

\* Nothing depends on the order in which the notices are handed over.
LEMMA OrderDoesNotMatter ==
  ASSUME notices \in Seq(Documents)
  PROVE  Notices!OrderIsImmaterial
<1>1. SUFFICES ASSUME AllParse(notices), NEW s \in 1..(Len(notices) - 1)
               PROVE  /\ Notices!Assemblable(notices) <=> Notices!Assemblable(Notices!Swapped(notices, s))
                      /\ Notices!Assemblable(notices) =>
                            Notices!Assembled(notices) = Notices!Assembled(Notices!Swapped(notices, s))
  BY DEF Notices!OrderIsImmaterial, AllParse
<1> DEFINE n == Len(notices)
           other == Notices!Swapped(notices, s)
           p == Gathered(notices)
           q == Gathered(other)
<1>2. DOMAIN notices = 1..n /\ n \in Nat /\ s \in 1..n /\ s + 1 \in 1..n /\ \A i \in 1..n : Exchange(s, i) \in 1..n
  BY DEF Exchange
<1>3. other = [i \in 1..n |-> notices[Exchange(s, i)]]
  BY <1>2 DEF Notices!Swapped, Exchange
<1>4. \A i \in 1..n : notices[i] \in Documents
  BY <1>2
<1>5. other \in Seq(Documents) /\ Len(other) = n /\ DOMAIN other = 1..n
  BY <1>2, <1>3, <1>4
<1>6. AllParse(other)
  BY <1>1, <1>2, <1>3 DEF AllParse
<1>7. /\ Listed(p, n) /\ Listed(q, n)
      /\ Notices!Assembled(notices) = Notices!Ordered(p) /\ Notices!Assembled(other) = Notices!Ordered(q)
  BY <1>1, <1>5, <1>6, GatheredIsListed
<1>8. q = [i \in 1..n |-> p[Exchange(s, i)]]
  BY <1>2, <1>3, <1>5 DEF Gathered
<1>9. notices # <<>> /\ other # <<>>
  BY <1>2, <1>5
<1> HIDE DEF other, p, q, n
<1>10. CASE Unrepeated(p, n)
  <2>1. Notices!Ordered(q) = Notices!Ordered(p)
    BY <1>2, <1>7, <1>8, <1>10, ExchangeKeepsOrder DEF n
  <2>2. Notices!Assembled(notices) = Notices!Assembled(other)
    BY <1>7, <2>1
  <2>3. QED
    BY <1>1, <1>6, <1>9, <2>2 DEF Notices!Assemblable, AllParse, other
<1>11. CASE ~Unrepeated(p, n)
  <2>1. ~Unrepeated(q, n)
    <3>1. PICK i \in 1..n, j \in 1..n : i # j /\ p[i].reference = p[j].reference
      BY <1>11 DEF Unrepeated
    <3>2. \A k \in 1..n : Exchange(s, k) \in 1..n /\ q[Exchange(s, k)] = p[k]
      BY <1>2, <1>8 DEF Exchange
    <3>3. Exchange(s, i) # Exchange(s, j)
      BY <1>2, <3>1 DEF Exchange
    <3>4. QED
      BY <3>1, <3>2, <3>3 DEF Unrepeated
  <2>2. ~Notices!ValidateLineage(Notices!Assembled(notices)) /\ ~Notices!ValidateLineage(Notices!Assembled(other))
    BY <1>7, <1>11, <2>1, RepeatedIsRefused
  <2>3. QED
    BY <2>2 DEF Notices!Assemblable, other
<1>12. QED
  BY <1>10, <1>11

-----------------------------------------------------------------------------
(* The claims of a notice are a sequence. *)

LEMMA ShortSequences ==
  /\ Notices!IsSeq(<<>>)
  /\ \A a : Notices!IsSeq(<<a>>)
  /\ \A a, b : Notices!IsSeq(<<a, b>>)
  /\ \A a, b, c : Notices!IsSeq(<<a, b, c>>)
<1>1. Notices!IsSeq(<<>>)
  BY DEF Notices!IsSeq
<1>2. ASSUME NEW a PROVE Notices!IsSeq(<<a>>)
  <2>1. a \in Notices!Range(<<a>>)
    BY DEF Notices!Range
  <2>2. QED
    BY <2>1 DEF Notices!IsSeq
<1>3. ASSUME NEW a, NEW b PROVE Notices!IsSeq(<<a, b>>)
  <2>1. a \in Notices!Range(<<a, b>>) /\ b \in Notices!Range(<<a, b>>)
    BY DEF Notices!Range
  <2>2. QED
    BY <2>1 DEF Notices!IsSeq
<1>4. ASSUME NEW a, NEW b, NEW c PROVE Notices!IsSeq(<<a, b, c>>)
  <2>1. a \in Notices!Range(<<a, b, c>>) /\ b \in Notices!Range(<<a, b, c>>) /\ c \in Notices!Range(<<a, b, c>>)
    BY DEF Notices!Range
  <2>2. QED
    BY <2>1 DEF Notices!IsSeq
<1>5. QED
  BY <1>1, <1>2, <1>3, <1>4

\* Joining sequences gives sequences, and so does leaving one out.
Joins ==
  /\ \A a, b : Notices!IsSeq(a) /\ Notices!IsSeq(b) => Notices!IsSeq(a \o b)
  /\ \A v, a : Notices!IsSeq(a) => Notices!IsSeq(Notices!Optional(v, a))
  /\ \A s, parts :
       Notices!IsSeq(s) /\ parts = [i \in DOMAIN s |-> parts[i]] /\ (\A i \in DOMAIN s : Notices!IsSeq(parts[i]))
         => Notices!IsSeq(Notices!FlattenSeq(parts))

LEMMA SequencesStaySequences == Joins
<1>1. ASSUME NEW a, NEW b, Notices!IsSeq(a), Notices!IsSeq(b) PROVE Notices!IsSeq(a \o b)
  BY <1>1, SequencesJoin
<1>2. ASSUME NEW v, NEW a, Notices!IsSeq(a) PROVE Notices!IsSeq(Notices!Optional(v, a))
  BY <1>2, ShortSequences DEF Notices!Optional
<1>3. ASSUME NEW s, NEW parts, Notices!IsSeq(s), parts = [i \in DOMAIN s |-> parts[i]],
             \A i \in DOMAIN s : Notices!IsSeq(parts[i])
      PROVE  Notices!IsSeq(Notices!FlattenSeq(parts))
  <2>1. DOMAIN s = 1..Len(s) /\ Len(s) \in Nat
    BY <1>3 DEF Notices!IsSeq
  <2>2. Parts(parts, Len(s))
    BY <1>3, <2>1 DEF Parts
  <2>3. QED
    BY <2>1, <2>2, Flattening
<1>4. QED
  BY <1>1, <1>2, <1>3 DEF Joins

LEMMA ElementsAreInRange == \A s : \A i \in DOMAIN s : s[i] \in Notices!Range(s)
  BY DEF Notices!Range

LEMMA ProjectClaimsAreASequence ==
  ASSUME NEW subject, NEW project, Notices!IsSeq(project),
         \A p \in Notices!Range(project) : Notices!IsProject(p)
  PROVE  Notices!IsSeq(Notices!ProjectClaims(subject, project))
<1> DEFINE Part(p) ==
             Notices!EachOf(p.cpv, LAMBDA c : <<Notices!Claim("procurement_cpv_code", subject, <<c>>)>>)
             \o Notices!EachOf(p.nuts, LAMBDA c : <<Notices!Claim("procurement_place_of_performance_nuts", subject, <<c>>)>>)
             \o Notices!Optional(p.nature, <<Notices!Claim("procurement_contract_nature", subject, <<p.nature>>)>>)
             \o Notices!Optional(p.value, <<Notices!Claim("procurement_estimated_value", subject, <<p.value, p.currency>>)>>)
           parts == [i \in DOMAIN project |-> Part(project[i])]
<1>1. Notices!ProjectClaims(subject, project) = Notices!FlattenSeq(parts)
  BY DEF Notices!ProjectClaims, Notices!EachOf
<1>2. ASSUME NEW p, Notices!IsProject(p) PROVE Notices!IsSeq(Part(p))
  <2> DEFINE f == [i \in DOMAIN p.cpv |-> <<Notices!Claim("procurement_cpv_code", subject, <<p.cpv[i]>>)>>]
             g == [i \in DOMAIN p.nuts |-> <<Notices!Claim("procurement_place_of_performance_nuts", subject, <<p.nuts[i]>>)>>]
             h == Notices!Optional(p.nature, <<Notices!Claim("procurement_contract_nature", subject, <<p.nature>>)>>)
             e == Notices!Optional(p.value, <<Notices!Claim("procurement_estimated_value", subject, <<p.value, p.currency>>)>>)
  <2>1. Part(p) = Notices!FlattenSeq(f) \o Notices!FlattenSeq(g) \o h \o e
    BY DEF Notices!EachOf
  <2>2. Notices!IsSeq(Notices!FlattenSeq(f))
    <3>1. f = [i \in DOMAIN p.cpv |-> f[i]] /\ \A i \in DOMAIN p.cpv : Notices!IsSeq(f[i])
      BY ShortSequences
    <3> HIDE DEF f
    <3>2. QED
      BY <1>2, <3>1, SequencesStaySequences DEF Notices!IsProject, Joins
  <2>3. Notices!IsSeq(Notices!FlattenSeq(g))
    <3>1. g = [i \in DOMAIN p.nuts |-> g[i]] /\ \A i \in DOMAIN p.nuts : Notices!IsSeq(g[i])
      BY ShortSequences
    <3> HIDE DEF g
    <3>2. QED
      BY <1>2, <3>1, SequencesStaySequences DEF Notices!IsProject, Joins
  <2>4. Notices!IsSeq(h) /\ Notices!IsSeq(e)
    BY ShortSequences, SequencesStaySequences DEF Joins
  <2> HIDE DEF Part, f, g, h, e
  <2>5. QED
    BY <2>1, <2>2, <2>3, <2>4, SequencesStaySequences DEF Joins
<1> HIDE DEF Part
<1>3. parts = [i \in DOMAIN project |-> parts[i]] /\ \A i \in DOMAIN project : Notices!IsSeq(parts[i])
  BY <1>2, ElementsAreInRange
<1> HIDE DEF parts
<1>4. QED
  BY <1>1, <1>3, SequencesStaySequences DEF Joins

\* A row of a table is found under its identifier, and only there.
LEMMA RowIsFound ==
  ASSUME NEW table, Notices!IsSeq(table), NEW key
  PROVE  \/ Notices!Row(table, key) = Notices!NoRow /\ \A i \in DOMAIN table : table[i].id # key
         \/ \E i \in DOMAIN table : table[i].id = key /\ Notices!Row(table, key) = table[i]
<1> DEFINE I == {i \in 1..Len(table) : table[i].id = key}
<1>1. Notices!Row(table, key) =
        IF (IF I # {} THEN Notices!Max(I) ELSE 0) = 0 THEN Notices!NoRow ELSE table[IF I # {} THEN Notices!Max(I) ELSE 0]
  BY DEF Notices!Row, Notices!SelectLastInSeq
<1>2. DOMAIN table = 1..Len(table) /\ Len(table) \in Nat
  BY DEF Notices!IsSeq
<1>3. I \subseteq 1..Len(table) /\ (\A i \in I : table[i].id = key) /\ (I = {} => \A i \in 1..Len(table) : table[i].id # key)
  OBVIOUS
<1> HIDE DEF I
<1>4. CASE I = {}
  BY <1>1, <1>2, <1>3, <1>4
<1>5. CASE I # {}
  <2>1. Notices!Max(I) \in I
    BY <1>2, <1>3, <1>5, GreatestNumber
  <2>2. Notices!Max(I) # 0
    BY <1>2, <1>3, <2>1
  <2>3. QED
    BY <1>1, <1>2, <1>3, <1>5, <2>1, <2>2
<1>6. QED
  BY <1>4, <1>5

LEMMA BuyerClaimsAreASequence ==
  ASSUME NEW d, NEW buyer, Notices!IsDocument(d), buyer \in Notices!OrganisationIds(d)
  PROVE  Notices!IsSeq(Notices!BuyerClaims(d, buyer))
<1> DEFINE I == {i \in 1..Len(d.organisations) : d.organisations[i].id = buyer}
           o == d.organisations[IF I # {} THEN Notices!Min(I) ELSE 0]
           names == [i \in DOMAIN o.names |-> <<Notices!Claim("procurement_buyer_official_name", <<buyer>>, <<o.names[i]>>)>>]
           one == <<Notices!Claim("procurement_buyer_organisation_ref", <<d.id>>, <<buyer>>)>>
           last == Notices!Optional(o.national, <<Notices!Claim("procurement_buyer_identifier", <<buyer>>, <<o.national>>)>>)
<1>1. Notices!BuyerClaims(d, buyer) = one \o Notices!FlattenSeq(names) \o last
  BY DEF Notices!BuyerClaims, Notices!EachOf, Notices!SelectInSeq
<1>2. /\ DOMAIN d.organisations = 1..Len(d.organisations) /\ Len(d.organisations) \in Nat
      /\ \A x \in Notices!Range(d.organisations) : Notices!IsSeq(x.names)
  BY DEF Notices!IsDocument, Notices!IsSeq
<1>3. I # {} /\ I \subseteq Nat /\ I \subseteq 1..Len(d.organisations)
  BY <1>2 DEF Notices!OrganisationIds
<1>4. o = d.organisations[Notices!Min(I)]
  BY <1>3
<1>5. Notices!IsSeq(o.names)
  <2> HIDE DEF I, o
  <2>1. \E x \in I : \A y \in I : x =< y
    BY <1>3, LeastNumber
  <2>2. Notices!Min(I) \in DOMAIN d.organisations
    BY <1>2, <1>3, <2>1 DEF Notices!Min
  <2>3. QED
    BY <1>2, <1>4, <2>2, ElementsAreInRange
<1> HIDE DEF o
<1>6. Notices!IsSeq(one) /\ Notices!IsSeq(last)
  BY ShortSequences, SequencesStaySequences DEF Joins
<1>7. names = [i \in DOMAIN o.names |-> names[i]] /\ \A i \in DOMAIN o.names : Notices!IsSeq(names[i])
  BY ShortSequences
<1> HIDE DEF one, last, names
<1>8. Notices!IsSeq(Notices!FlattenSeq(names))
  BY <1>5, <1>7, SequencesStaySequences DEF Joins
<1>9. QED
  BY <1>1, <1>6, <1>8, SequencesStaySequences DEF Joins

LEMMA LotClaimsAreASequence ==
  ASSUME NEW d, NEW lot, Notices!IsLot(lot)
  PROVE  Notices!IsSeq(Notices!LotClaims(d, lot))
<1> DEFINE subject == <<d.id, lot.id>>
           one == <<Notices!Claim("procurement_lot_identifier", subject, <<lot.id>>)>>
           deadline == Notices!Optional(lot.deadline, <<Notices!Claim("procurement_submission_deadline", subject, <<lot.deadline>>)>>)
           funding == Notices!Optional(lot.funding, <<Notices!Claim("procurement_eu_funding_indicator", subject, <<lot.funding>>)>>)
<1>1. Notices!LotClaims(d, lot) = one \o Notices!ProjectClaims(subject, lot.project) \o deadline \o funding
  BY DEF Notices!LotClaims
<1>2. Notices!IsSeq(Notices!ProjectClaims(subject, lot.project))
  BY ProjectClaimsAreASequence DEF Notices!IsLot
<1>3. Notices!IsSeq(one) /\ Notices!IsSeq(deadline) /\ Notices!IsSeq(funding)
  BY ShortSequences, SequencesStaySequences DEF Joins
<1> HIDE DEF one, deadline, funding, subject
<1>4. QED
  BY <1>1, <1>2, <1>3, SequencesStaySequences DEF Joins

LEMMA ContractClaimsAreASequence ==
  ASSUME NEW d, Notices!IsDocument(d), d.root = "ContractNotice", Notices!ParseContractNotice(d)
  PROVE  Notices!IsSeq(Notices!ContractNoticeClaims(d))
<1>1. /\ Notices!IsSeq(d.buyers) /\ Notices!IsSeq(d.changes) /\ Notices!IsSeq(d.lots) /\ Notices!IsSeq(d.project)
      /\ \A lot \in Notices!Range(d.lots) : Notices!IsLot(lot)
      /\ \A p \in Notices!Range(d.project) : Notices!IsProject(p)
  BY DEF Notices!IsDocument
<1>2. Notices!Range(d.buyers) \subseteq Notices!OrganisationIds(d)
  BY DEF Notices!ParseContractNotice, Notices!TEDEFormsCN16Parser
<1> DEFINE head == <<Notices!Claim("procurement_notice_type", <<d.id>>, <<d.profile[3]>>),
                     Notices!Claim("procurement_notice_subtype", <<d.id>>, <<d.profile[4]>>),
                     Notices!Claim("procurement_notice_issue_date", <<d.id>>, <<Notices!ToString(d.date)>>)>>
           procedure == Notices!Optional(d.procedure, <<Notices!Claim("procurement_procedure_identifier", <<d.id>>, <<d.procedure>>)>>)
           type == Notices!Optional(d.type, <<Notices!Claim("procurement_procedure_type", <<d.id>>, <<d.type>>)>>)
           buyers == [i \in DOMAIN d.buyers |-> Notices!BuyerClaims(d, d.buyers[i])]
           project == Notices!ProjectClaims(<<d.id>>, d.project)
           lots == [i \in DOMAIN d.lots |-> Notices!LotClaims(d, d.lots[i])]
<1>3. Notices!CandidateClaims(d) =
        head \o procedure \o type \o Notices!FlattenSeq(buyers) \o project \o Notices!FlattenSeq(lots)
  BY DEF Notices!CandidateClaims, Notices!EachOf
<1>4. Notices!IsSeq(head) /\ Notices!IsSeq(procedure) /\ Notices!IsSeq(type)
  BY ShortSequences, SequencesStaySequences DEF Joins
<1>5. Notices!IsSeq(project)
  BY <1>1, ProjectClaimsAreASequence
<1>6. Notices!IsSeq(Notices!FlattenSeq(buyers))
  <2>1. buyers = [i \in DOMAIN d.buyers |-> buyers[i]] /\ \A i \in DOMAIN d.buyers : Notices!IsSeq(buyers[i])
    BY <1>1, <1>2, ElementsAreInRange, BuyerClaimsAreASequence
  <2> HIDE DEF buyers
  <2>2. QED
    BY <1>1, <2>1, SequencesStaySequences DEF Joins
<1>7. Notices!IsSeq(Notices!FlattenSeq(lots))
  <2>1. lots = [i \in DOMAIN d.lots |-> lots[i]] /\ \A i \in DOMAIN d.lots : Notices!IsSeq(lots[i])
    BY <1>1, ElementsAreInRange, LotClaimsAreASequence
  <2> HIDE DEF lots
  <2>2. QED
    BY <1>1, <2>1, SequencesStaySequences DEF Joins
<1> HIDE DEF head, procedure, type, project
<1> DEFINE buyersFlat == Notices!FlattenSeq(buyers)
           lotsFlat == Notices!FlattenSeq(lots)
<1> HIDE DEF buyersFlat, lotsFlat
<1>8. Notices!IsSeq(Notices!CandidateClaims(d))
  <2>1. Notices!IsSeq(head \o procedure \o type)
    BY <1>4, SequencesStaySequences DEF Joins
  <2>2. Notices!IsSeq(head \o procedure \o type \o buyersFlat \o project)
    BY <1>5, <1>6, <2>1, SequencesStaySequences DEF Joins, buyersFlat
  <2>3. QED
    BY <1>3, <1>7, <2>2, SequencesStaySequences DEF Joins, buyersFlat, lotsFlat
<1> DEFINE kind == <<Notices!Claim("procurement_notice_lifecycle_kind", Notices!Reference(d), <<Notices!ContractKind(d)>>)>>
           changes == [i \in DOMAIN d.changes |->
                        <<Notices!Claim("procurement_changed_notice_reference", Notices!Reference(d), d.changes[i].previous),
                          Notices!Claim("procurement_change_reason_code", Notices!Reference(d), <<d.changes[i].reason>>)>>]
<1>9. Notices!ContractNoticeClaims(d) = Notices!CandidateClaims(d) \o kind \o Notices!FlattenSeq(changes)
  BY DEF Notices!ContractNoticeClaims, Notices!EachOf
<1>10. Notices!IsSeq(kind)
  BY ShortSequences
<1>11. Notices!IsSeq(Notices!FlattenSeq(changes))
  <2>1. changes = [i \in DOMAIN d.changes |-> changes[i]] /\ \A i \in DOMAIN d.changes : Notices!IsSeq(changes[i])
    BY ShortSequences
  <2> HIDE DEF changes
  <2>2. QED
    BY <1>1, <2>1, SequencesStaySequences DEF Joins
<1> HIDE DEF kind, changes
<1>12. QED
  BY <1>8, <1>9, <1>10, <1>11, SequencesStaySequences DEF Joins

LEMMA TenderClaimsAreASequence ==
  ASSUME NEW d, NEW r, NEW t, Notices!IsDocument(d), Notices!IsSeq(Notices!PartyWinners(d, t)),
         Notices!Range(Notices!PartyWinners(d, t)) \subseteq Notices!OrganisationIds(d)
  PROVE  Notices!IsSeq(Notices!TenderClaims(d, r, t))
<1> DEFINE winners == Notices!PartyWinners(d, t)
           One(w) == <<Notices!Claim("procurement_winner_organisation_ref", <<r.lot>>, <<w>>)>>
           Names(w) == [i \in DOMAIN Notices!Row(d.organisations, w).names |->
                         <<Notices!Claim("procurement_winner_official_name", <<w>>, <<Notices!Row(d.organisations, w).names[i]>>)>>]
           parts == [i \in DOMAIN winners |-> One(winners[i]) \o Notices!FlattenSeq(Names(winners[i]))]
           amount == Notices!Optional(t.amount, <<Notices!Claim("procurement_awarded_value", <<r.lot>>, <<t.amount, t.currency>>)>>)
<1>1. Notices!TenderClaims(d, r, t) = Notices!FlattenSeq(parts) \o amount
  BY DEF Notices!TenderClaims, Notices!EachOf
<1>2. Notices!IsSeq(amount)
  BY ShortSequences, SequencesStaySequences DEF Joins
<1>3. Notices!IsSeq(d.organisations) /\ \A o \in Notices!Range(d.organisations) : Notices!IsSeq(o.names)
  BY DEF Notices!IsDocument
<1>4. ASSUME NEW w \in Notices!OrganisationIds(d) PROVE Notices!IsSeq(One(w) \o Notices!FlattenSeq(Names(w)))
  <2>1. \E i \in DOMAIN d.organisations : d.organisations[i].id = w
    BY DEF Notices!OrganisationIds
  <2>2. \E i \in DOMAIN d.organisations : Notices!Row(d.organisations, w) = d.organisations[i]
    BY <1>3, <2>1, RowIsFound
  <2>3. Notices!IsSeq(Notices!Row(d.organisations, w).names)
    BY <1>3, <2>2, ElementsAreInRange
  <2> DEFINE f == Names(w)
             s == Notices!Row(d.organisations, w).names
  <2>4. f = [i \in DOMAIN s |-> f[i]] /\ \A i \in DOMAIN s : Notices!IsSeq(f[i])
    BY ShortSequences
  <2>5. Notices!IsSeq(One(w))
    BY ShortSequences
  <2> HIDE DEF f, One
  <2>6. Notices!IsSeq(Notices!FlattenSeq(f))
    BY <2>3, <2>4, SequencesStaySequences DEF Joins
  <2>7. QED
    BY <2>5, <2>6, SequencesStaySequences DEF Joins, f
<1>5. \A i \in DOMAIN winners : winners[i] \in Notices!OrganisationIds(d)
  BY ElementsAreInRange
<1> HIDE DEF One, Names, amount, winners
<1>6. parts = [i \in DOMAIN winners |-> parts[i]] /\ \A i \in DOMAIN winners : Notices!IsSeq(parts[i])
  BY <1>4, <1>5
<1> HIDE DEF parts
<1>7. Notices!IsSeq(Notices!FlattenSeq(parts))
  BY <1>6, SequencesStaySequences DEF Joins, winners
<1>8. QED
  BY <1>1, <1>2, <1>7, SequencesStaySequences DEF Joins

\* A tender a result notice names is in it, and so are the party and the winners behind it.
LEMMA TendersAreKnown ==
  ASSUME NEW d, Notices!IsDocument(d), d.root = "ContractAwardNotice", Notices!ParseResultNotice(d),
         NEW r \in Notices!Range(d.results), NEW i \in DOMAIN r.tenders,
         NEW t, t = Notices!Row(d.tenders, r.tenders[i])
  PROVE  /\ t \in Notices!Range(d.tenders) /\ t.id = r.tenders[i] /\ t.lot = r.lot
         /\ Notices!IsSeq(Notices!PartyWinners(d, t))
         /\ Notices!Range(Notices!PartyWinners(d, t)) \subseteq Notices!OrganisationIds(d)
         /\ r.status = "selec-w" =>
              /\ Notices!PartyWinners(d, t) # <<>>
              /\ \E p \in Notices!Range(d.parties) : p.id = t.party /\ p.winners = Notices!PartyWinners(d, t)
<1>1. /\ Notices!IsSeq(d.tenders) /\ Notices!IsSeq(d.parties)
      /\ \A p \in Notices!Range(d.parties) : Notices!IsSeq(p.winners)
  BY DEF Notices!IsDocument
<1>2. Notices!ParseLotResult(d, r)
  <2>1. \A j \in DOMAIN d.results : Notices!ParseLotResult(d, d.results[j])
    BY DEF Notices!ParseResultNotice
  <2>2. QED
    BY <2>1 DEF Notices!Range
<1>3. /\ t # Notices!NoRow /\ t.lot = r.lot
      /\ r.status = "selec-w" => Notices!PartyWinners(d, t) # <<>>
      /\ Notices!Range(Notices!PartyWinners(d, t)) \subseteq Notices!OrganisationIds(d)
  BY <1>2 DEF Notices!ParseLotResult
<1>4. \E j \in DOMAIN d.tenders : d.tenders[j].id = r.tenders[i] /\ t = d.tenders[j]
  BY <1>1, <1>3, RowIsFound
<1>5. \/ Notices!Row(d.parties, t.party) = Notices!NoRow
      \/ \E j \in DOMAIN d.parties : d.parties[j].id = t.party /\ Notices!Row(d.parties, t.party) = d.parties[j]
  BY <1>1, RowIsFound
<1>6. Notices!NoRow.winners = <<>>
  BY DEF Notices!NoRow
<1>7. Notices!PartyWinners(d, t) = Notices!Row(d.parties, t.party).winners
  BY DEF Notices!PartyWinners
<1>8. Notices!IsSeq(Notices!PartyWinners(d, t))
  BY <1>1, <1>5, <1>6, <1>7, ElementsAreInRange, ShortSequences
<1>9. r.status = "selec-w" =>
        \E p \in Notices!Range(d.parties) : p.id = t.party /\ p.winners = Notices!PartyWinners(d, t)
  BY <1>3, <1>5, <1>6, <1>7, ElementsAreInRange
<1>10. QED
  BY <1>3, <1>4, <1>8, <1>9, ElementsAreInRange

LEMMA ResultClaimsAreASequence ==
  ASSUME NEW d, Notices!IsDocument(d), d.root = "ContractAwardNotice", Notices!ParseResultNotice(d)
  PROVE  Notices!IsSeq(Notices!ResultNoticeClaims(d))
<1>1. /\ Notices!IsSeq(d.results) /\ Notices!IsSeq(d.contracts)
      /\ \A r \in Notices!Range(d.results) : Notices!IsSeq(r.tenders) /\ Notices!IsSeq(r.counts)
  BY DEF Notices!IsDocument
<1> DEFINE kind == <<Notices!Claim("procurement_notice_lifecycle_kind", Notices!Reference(d), <<"PROCEDURE_RESULT">>)>>
           Opening(r) == <<Notices!Claim("procurement_result_lot_identifier", <<r.id>>, <<r.lot>>),
                        Notices!Claim("procurement_winner_selection_status", <<r.lot>>, <<r.status>>)>>
           Counts(r) == [i \in DOMAIN r.counts |->
                           <<Notices!Claim("procurement_tenders_received_count", <<r.lot>>, <<Notices!ToString(r.counts[i])>>)>>]
           Tenders(r) == [i \in DOMAIN r.tenders |-> Notices!TenderClaims(d, r, Notices!Row(d.tenders, r.tenders[i]))]
           Part(r) == Opening(r) \o Notices!FlattenSeq(Counts(r)) \o Notices!FlattenSeq(Tenders(r))
           parts == [i \in DOMAIN d.results |-> Part(d.results[i])]
           Agreement(c) == <<Notices!Claim("procurement_contract_identifier", <<d.procedure>>, <<c.id>>)>>
                          \o Notices!Optional(c.date, <<Notices!Claim("procurement_award_date", <<c.id>>, <<c.date>>)>>)
           agreed == [i \in DOMAIN d.contracts |-> Agreement(d.contracts[i])]
<1>2. Notices!ResultNoticeClaims(d) = kind \o Notices!FlattenSeq(parts) \o Notices!FlattenSeq(agreed)
  BY DEF Notices!ResultNoticeClaims, Notices!EachOf
<1>3. Notices!IsSeq(kind)
  BY ShortSequences
<1>4. ASSUME NEW r \in Notices!Range(d.results) PROVE Notices!IsSeq(Part(r))
  <2> DEFINE f == Counts(r)
             g == Tenders(r)
             h == Opening(r)
  <2>1. Notices!IsSeq(h)
    BY ShortSequences
  <2>2. f = [i \in DOMAIN r.counts |-> f[i]] /\ \A i \in DOMAIN r.counts : Notices!IsSeq(f[i])
    BY ShortSequences
  <2>3. g = [i \in DOMAIN r.tenders |-> g[i]] /\ \A i \in DOMAIN r.tenders : Notices!IsSeq(g[i])
    BY TendersAreKnown, TenderClaimsAreASequence
  <2> HIDE DEF f, g, h
  <2>4. Notices!IsSeq(Notices!FlattenSeq(f)) /\ Notices!IsSeq(Notices!FlattenSeq(g))
    BY <1>1, <2>2, <2>3, SequencesStaySequences DEF Joins
  <2>5. Notices!IsSeq(h \o Notices!FlattenSeq(f) \o Notices!FlattenSeq(g))
    BY <2>1, <2>4, SequencesStaySequences DEF Joins
  <2>6. QED
    BY <2>5 DEF f, g, h
<1>5. ASSUME NEW c PROVE Notices!IsSeq(Agreement(c))
  BY ShortSequences, SequencesStaySequences DEF Joins
<1> HIDE DEF kind, Part, Agreement
<1>6. /\ parts = [i \in DOMAIN d.results |-> parts[i]] /\ \A i \in DOMAIN d.results : Notices!IsSeq(parts[i])
      /\ agreed = [i \in DOMAIN d.contracts |-> agreed[i]] /\ \A i \in DOMAIN d.contracts : Notices!IsSeq(agreed[i])
  BY <1>4, <1>5, ElementsAreInRange
<1> HIDE DEF parts, agreed
<1>7. Notices!IsSeq(Notices!FlattenSeq(parts)) /\ Notices!IsSeq(Notices!FlattenSeq(agreed))
  BY <1>1, <1>6, SequencesStaySequences DEF Joins
<1>8. QED
  BY <1>2, <1>3, <1>7, SequencesStaySequences DEF Joins

LEMMA ClaimsAreASequence ==
  ASSUME NEW d \in Documents, Notices!Parses(d)
  PROVE  Notices!IsSeq(Notices!Notice(d).claims)
<1>1. Notices!IsDocument(d)
  BY NoticesAssumption
<1>2. CASE d.root = "ContractNotice"
  BY <1>1, <1>2, ContractClaimsAreASequence DEF Notices!Parses, Notices!Notice
<1>3. CASE d.root # "ContractNotice"
  <2>1. Notices!ParseResultNotice(d)
    BY <1>3 DEF Notices!Parses
  <2>2. d.root = "ContractAwardNotice"
    BY <2>1 DEF Notices!ParseResultNotice
  <2>3. QED
    BY <1>1, <1>3, <2>1, <2>2, ResultClaimsAreASequence DEF Notices!Notice
<1>4. QED
  BY <1>2, <1>3

-----------------------------------------------------------------------------
(* What a dossier says. *)

\* seq is a timeline of n notices, each of them read from a document of raw.
Told(seq, n, raw) ==
  /\ n \in Nat /\ seq = [k \in 1..n |-> seq[k]]
  /\ \A k \in 1..n : \E d \in Notices!ToSet(raw) :
       d \in Documents /\ Notices!Parses(d) /\ seq[k] = Notices!Notice(d) /\ Notices!IsSeq(seq[k].claims)

LEMMA AssembledIsTold ==
  ASSUME NEW raw \in Seq(Documents), AllParse(raw)
  PROVE  Told(Notices!Assembled(raw), Len(raw), raw)
<1> DEFINE n == Len(raw)
           p == Gathered(raw)
           seq == Notices!Assembled(raw)
<1>1. Listed(p, n) /\ seq = Notices!Ordered(p)
  BY GatheredIsListed
<1>2. seq = [k \in 1..n |-> p[At(p, n, k)]] /\ \A k \in 1..n : At(p, n, k) \in 1..n
  BY <1>1, OrderedByPlace DEF Placed
<1>3. n \in Nat /\ DOMAIN raw = 1..n /\ \A i \in 1..n : raw[i] \in Documents /\ Notices!Parses(raw[i])
  BY DEF AllParse
<1>4. ASSUME NEW k \in 1..n
      PROVE  \E d \in Notices!ToSet(raw) :
               d \in Documents /\ Notices!Parses(d) /\ seq[k] = Notices!Notice(d) /\ Notices!IsSeq(seq[k].claims)
  <2> DEFINE d == raw[At(p, n, k)]
  <2>1. At(p, n, k) \in DOMAIN raw /\ d \in Documents /\ Notices!Parses(d)
    BY <1>2, <1>3
  <2>2. seq[k] = Notices!Notice(d)
    BY <1>2, <2>1 DEF Gathered
  <2>3. d \in Notices!ToSet(raw)
    BY <2>1 DEF Notices!ToSet
  <2> HIDE DEF d, seq
  <2>4. QED
    BY <2>1, <2>2, <2>3, ClaimsAreASequence
<1>5. seq = [k \in 1..n |-> seq[k]]
  BY <1>2
<1> HIDE DEF seq, n
<1>6. QED
  BY <1>3, <1>4, <1>5 DEF Told, seq, n

\* The notices a lineage accepts: an initial one, then changes that name the competition
\* before them, results, and nothing but results after a cancellation.
LEMMA LineageIsAChain ==
  ASSUME NEW seq, NEW n \in Nat \ {0}, DOMAIN seq = 1..n, Notices!ValidateLineage(seq)
  PROVE  /\ seq[1].kind = "COMPETITION_INITIAL"
         /\ \A i \in 2..n : Notices!IsCompetition(seq[i]) =>
              LET before == Notices!LatestCompetition(seq, i)
              IN  /\ before \in 1..n /\ seq[i].previous = seq[before].reference
                  /\ seq[before].kind # "NOTICE_CANCELLATION"
<1>1. \A i \in 1..n : Notices!LineageStep(seq, i)
  BY DEF Notices!ValidateLineage
<1>2. \A i \in 1..n : Notices!LatestCompetition(seq, i) =
        IF {j \in 1..(i - 1) : Notices!IsCompetition(seq[j])} # {}
        THEN Notices!Max({j \in 1..(i - 1) : Notices!IsCompetition(seq[j])}) ELSE 0
  BY DEF Notices!LatestCompetition, Notices!SelectLastInSubSeq
<1>3. ASSUME NEW i \in 1..n, seq[i].kind # "COMPETITION_INITIAL" PROVE Notices!LatestCompetition(seq, i) # 0
  <2>1. CASE seq[i].kind = "PROCEDURE_RESULT"
    BY <1>1, <2>1 DEF Notices!LineageStep
  <2>2. CASE seq[i].kind # "PROCEDURE_RESULT"
    BY <1>1, <1>3, <2>2 DEF Notices!LineageStep
  <2>3. QED
    BY <2>1, <2>2
<1>4. seq[1].kind = "COMPETITION_INITIAL"
  <2>1. {j \in 1..(1 - 1) : Notices!IsCompetition(seq[j])} = {} /\ 1 \in 1..n
    OBVIOUS
  <2>2. Notices!LatestCompetition(seq, 1) = 0
    BY <1>2, <2>1
  <2>3. QED
    BY <1>3, <2>1, <2>2
<1>5. ASSUME NEW i \in 2..n, Notices!IsCompetition(seq[i])
      PROVE  LET before == Notices!LatestCompetition(seq, i)
             IN  /\ before \in 1..n /\ seq[i].previous = seq[before].reference
                 /\ seq[before].kind # "NOTICE_CANCELLATION"
  <2> DEFINE I == {j \in 1..(i - 1) : Notices!IsCompetition(seq[j])}
             before == Notices!LatestCompetition(seq, i)
  <2>1. 1 \in I /\ I \subseteq 1..(i - 1) /\ i \in 1..n /\ i - 1 \in Nat /\ \A k \in 1..(i - 1) : k \in 1..n /\ k # 0
    BY <1>4 DEF Notices!IsCompetition
  <2>2. before = Notices!Max(I)
    BY <1>2, <2>1
  <2> HIDE DEF I, before
  <2>3. before \in 1..n /\ before # 0
    BY <2>1, <2>2, GreatestNumber
  <2>4. seq[i].kind # "PROCEDURE_RESULT"
    BY <1>5 DEF Notices!IsCompetition
  <2>5. Notices!LineageStep(seq, i)
    BY <1>1, <2>1
  <2>6. seq[i].kind # "COMPETITION_INITIAL"
    <3>1. SUFFICES ASSUME seq[i].kind = "COMPETITION_INITIAL" PROVE FALSE
      OBVIOUS
    <3>2. Notices!LatestCompetition(seq, i) = 0
      BY <2>5, <3>1 DEF Notices!LineageStep
    <3>3. QED
      BY <2>3, <3>2 DEF before
  <2>7. seq[i].previous = seq[before].reference /\ seq[before].kind # "NOTICE_CANCELLATION"
    BY <2>4, <2>5, <2>6 DEF Notices!LineageStep, before
  <2>8. QED
    BY <2>3, <2>7 DEF before
<1>6. QED
  BY <1>4, <1>5

\* A notice that says a lot was awarded comes from a document that awards it and names the
\* winners.
LEMMA AwardsAreNamed ==
  ASSUME NEW d \in Documents, Notices!Parses(d), "selec-w" \in Notices!Notice(d).statuses
  PROVE  Notices!Awards(d) /\ Notices!Notice(d).winners # {}
<1>1. Notices!IsDocument(d)
  BY NoticesAssumption
<1>2. d.root # "ContractNotice"
  BY DEF Notices!Notice
<1>3. Notices!ParseResultNotice(d) /\ d.root = "ContractAwardNotice"
  BY <1>2 DEF Notices!Parses, Notices!ParseResultNotice
<1>4. PICK j \in DOMAIN d.results : d.results[j].status = "selec-w"
  BY <1>2 DEF Notices!Notice
<1> DEFINE r == d.results[j]
<1>5. r \in Notices!Range(d.results) /\ r \in Notices!ToSet(d.results) /\ r.status = "selec-w"
  BY <1>4, ElementsAreInRange DEF Notices!ToSet
<1>6. Notices!ParseLotResult(d, r)
  BY <1>3, <1>4 DEF Notices!ParseResultNotice
<1> HIDE DEF r
<1>7. Notices!IsSeq(r.tenders) /\ r.tenders # <<>>
  BY <1>1, <1>3, <1>5, <1>6 DEF Notices!IsDocument, Notices!ParseLotResult
<1>8. 1 \in DOMAIN r.tenders
  BY <1>7 DEF Notices!IsSeq
<1> DEFINE t == Notices!Row(d.tenders, r.tenders[1])
<1>9. /\ t \in Notices!Range(d.tenders) /\ t.id = r.tenders[1] /\ t.lot = r.lot
      /\ Notices!IsSeq(Notices!PartyWinners(d, t)) /\ Notices!PartyWinners(d, t) # <<>>
      /\ Notices!Range(Notices!PartyWinners(d, t)) \subseteq Notices!OrganisationIds(d)
      /\ \E p \in Notices!Range(d.parties) : p.id = t.party /\ p.winners = Notices!PartyWinners(d, t)
  BY <1>1, <1>3, <1>5, <1>8, TendersAreKnown
<1>10. Notices!Awards(d)
  <2> HIDE DEF t
  <2>1. \A s : Notices!ToSet(s) = Notices!Range(s)
    BY DEF Notices!ToSet, Notices!Range
  <2>2. PICK p \in Notices!ToSet(d.parties) : p.id = t.party /\ p.winners = Notices!PartyWinners(d, t)
    BY <1>9, <2>1
  <2>3. t \in Notices!ToSet(d.tenders) /\ t.id \in Notices!ToSet(r.tenders)
    BY <1>8, <1>9, <2>1, ElementsAreInRange
  <2>4. p.winners # <<>> /\ Notices!ToSet(p.winners) \subseteq Notices!OrganisationIds(d)
    BY <1>9, <2>1, <2>2
  <2>5. QED
    BY <1>3, <1>5, <1>9, <2>2, <2>3, <2>4 DEF Notices!Awards
<1>11. Notices!Notice(d).winners # {}
  <2> DEFINE W == UNION {Notices!Range(Notices!PartyWinners(d, Notices!Row(d.tenders, r.tenders[i]))) : i \in DOMAIN r.tenders}
  <2>1. 1 \in DOMAIN Notices!PartyWinners(d, t)
    <3> DEFINE w == Notices!PartyWinners(d, t)
    <3>1. Notices!IsSeq(w) /\ w # <<>>
      BY <1>9
    <3> HIDE DEF w
    <3>2. 1 \in DOMAIN w
      BY <3>1 DEF Notices!IsSeq
    <3>3. QED
      BY <3>2 DEF w
  <2>2. Notices!PartyWinners(d, t)[1] \in Notices!Range(Notices!PartyWinners(d, t))
    BY <2>1, ElementsAreInRange
  <2>3. Notices!PartyWinners(d, t)[1] \in W
    BY <1>8, <2>2
  <2>4. Notices!Notice(d).winners =
          UNION {UNION {Notices!Range(Notices!PartyWinners(d, Notices!Row(d.tenders, x.tenders[i]))) :
                          i \in DOMAIN x.tenders} : x \in Notices!Range(d.results)}
    BY <1>2 DEF Notices!Notice
  <2>5. Notices!PartyWinners(d, t)[1] \in Notices!Notice(d).winners
    BY <1>5, <2>3, <2>4
  <2>6. QED
    BY <2>5
<1>12. QED
  BY <1>10, <1>11

OneChain(chain, n) ==
  /\ Len(chain) = n /\ chain[1].kind = "COMPETITION_INITIAL"
  /\ \A i \in 2..n :
       LET before == Notices!SelectLastInSubSeq(chain, 1, i - 1, Notices!IsCompetition)
       IN  Notices!IsCompetition(chain[i]) =>
             chain[i].previous = chain[before].reference /\ chain[before].kind # "NOTICE_CANCELLATION"

LEMMA ChainIsSound ==
  ASSUME NEW seq, NEW n \in Nat \ {0}, DOMAIN seq = 1..n, Notices!ValidateLineage(seq),
         NEW chain, chain = Notices!BuildEvents(seq)
  PROVE  OneChain(chain, n)
<1>1. /\ DOMAIN chain = 1..n /\ Len(chain) = n
      /\ \A i \in 1..n : /\ chain[i].kind = seq[i].kind /\ chain[i].reference = seq[i].reference
                         /\ chain[i].previous = seq[i].previous
  BY DEF Notices!BuildEvents
<1>2. /\ seq[1].kind = "COMPETITION_INITIAL"
      /\ \A i \in 2..n : Notices!IsCompetition(seq[i]) =>
           LET before == Notices!LatestCompetition(seq, i)
           IN  /\ before \in 1..n /\ seq[i].previous = seq[before].reference
               /\ seq[before].kind # "NOTICE_CANCELLATION"
  BY LineageIsAChain
<1>3. ASSUME NEW i \in 2..n, Notices!IsCompetition(chain[i])
      PROVE  LET before == Notices!SelectLastInSubSeq(chain, 1, i - 1, Notices!IsCompetition)
             IN  chain[i].previous = chain[before].reference /\ chain[before].kind # "NOTICE_CANCELLATION"
  <2> DEFINE I == {j \in 1..(i - 1) : Notices!IsCompetition(chain[j])}
             J == {j \in 1..(i - 1) : Notices!IsCompetition(seq[j])}
             before == Notices!SelectLastInSubSeq(chain, 1, i - 1, Notices!IsCompetition)
  <2>1. before = IF I # {} THEN Notices!Max(I) ELSE 0
    BY DEF Notices!SelectLastInSubSeq
  <2>2. Notices!LatestCompetition(seq, i) = IF J # {} THEN Notices!Max(J) ELSE 0
    BY DEF Notices!LatestCompetition, Notices!SelectLastInSubSeq
  <2>3. i \in 1..n /\ \A j \in 1..(i - 1) : j \in 1..n
    OBVIOUS
  <2>4. I = J
    BY <1>1, <2>3 DEF Notices!IsCompetition
  <2> HIDE DEF I, J, before
  <2>5. before = Notices!LatestCompetition(seq, i)
    BY <2>1, <2>2, <2>4
  <2>6. Notices!IsCompetition(seq[i])
    BY <1>1, <1>3, <2>3 DEF Notices!IsCompetition
  <2>7. before \in 1..n /\ seq[i].previous = seq[before].reference /\ seq[before].kind # "NOTICE_CANCELLATION"
    BY <1>2, <2>5, <2>6
  <2>8. chain[i].previous = chain[before].reference /\ chain[before].kind # "NOTICE_CANCELLATION"
    BY <1>1, <2>3, <2>7
  <2>9. QED
    BY <2>8 DEF before
<1>4. chain[1].kind = "COMPETITION_INITIAL"
  BY <1>1, <1>2
<1>5. QED
  BY <1>1, <1>3, <1>4 DEF OneChain

\* The claims of some notices, one notice after the other, and their evidence.
ClaimsOf(ns) == Notices!EachOf(ns, LAMBDA m : m.claims)

EvidenceIn(ns) == Notices!EachOf(ns, Notices!EvidenceOf)

\* n notices with their claims in a sequence each.
WithClaims(ns, n) == n \in Nat /\ ns = [k \in 1..n |-> ns[k]] /\ \A k \in 1..n : Notices!IsSeq(ns[k].claims)

LEMMA SameDomain ==
  ASSUME NEW s, Notices!IsSeq(s), NEW t, t = [i \in DOMAIN s |-> t[i]]
  PROVE  Notices!IsSeq(t) /\ Len(t) = Len(s)
<1>1. DOMAIN s = 1..Len(s) /\ Len(s) \in Nat
  BY DEF Notices!IsSeq
<1>2. t = [i \in 1..Len(s) |-> t[i]]
  BY <1>1
<1>3. \A i \in 1..Len(s) : t[i] \in Notices!Range(t)
  BY <1>2 DEF Notices!Range
<1>4. QED
  BY <1>1, <1>2, <1>3 DEF Notices!IsSeq

LEMMA EvidenceBacksClaims ==
  ASSUME NEW ns, NEW n, WithClaims(ns, n)
  PROVE  /\ Len(EvidenceIn(ns)) = Len(ClaimsOf(ns)) /\ DOMAIN EvidenceIn(ns) = DOMAIN ClaimsOf(ns)
         /\ \A j \in DOMAIN EvidenceIn(ns) :
              /\ EvidenceIn(ns)[j].claim = ClaimsOf(ns)[j]
              /\ \E k \in 1..n : ns[k].reference = EvidenceIn(ns)[j].reference
<1> DEFINE ss == [i \in 1..n |-> Notices!EvidenceOf(ns[i])]
           tt == [i \in 1..n |-> ns[i].claims]
           e == EvidenceIn(ns)
           c == ClaimsOf(ns)
<1>1. n \in Nat /\ DOMAIN ns = 1..n
  BY DEF WithClaims
<1>2. e = Notices!FlattenSeq(ss) /\ c = Notices!FlattenSeq(tt)
  BY <1>1 DEF EvidenceIn, ClaimsOf, Notices!EachOf
<1>3. ASSUME NEW i \in 1..n
      PROVE  /\ Notices!IsSeq(tt[i]) /\ Notices!IsSeq(ss[i]) /\ Len(ss[i]) = Len(tt[i])
             /\ \A k \in DOMAIN ss[i] : ss[i][k].claim = tt[i][k] /\ ss[i][k].reference = ns[i].reference
  <2> DEFINE f == Notices!EvidenceOf(ns[i])
  <2>1. f = [k \in DOMAIN ns[i].claims |-> [reference |-> ns[i].reference, claim |-> ns[i].claims[k]]]
    BY DEF Notices!EvidenceOf
  <2>2. Notices!IsSeq(ns[i].claims) /\ f = [k \in DOMAIN ns[i].claims |-> f[k]]
    BY <2>1 DEF WithClaims
  <2>3. \A k \in DOMAIN f : f[k].claim = ns[i].claims[k] /\ f[k].reference = ns[i].reference
    BY <2>1
  <2> HIDE DEF f
  <2>4. Notices!IsSeq(f) /\ Len(f) = Len(ns[i].claims)
    BY <2>2, SameDomain
  <2>5. ss[i] = f /\ tt[i] = ns[i].claims
    BY DEF f
  <2>6. QED
    BY <2>2, <2>3, <2>4, <2>5
<1>4. ss = [i \in 1..n |-> ss[i]] /\ tt = [i \in 1..n |-> tt[i]]
  OBVIOUS
<1> HIDE DEF ss, tt, e, c
<1>5. Aligned(e, c, ss, tt, n)
  <2>1. Parts(ss, n) /\ Parts(tt, n) /\ SameLengths(ss, tt, n)
    BY <1>3, <1>4 DEF Parts, SameLengths
  <2>2. QED
    BY <1>1, <1>2, <2>1, FlattenAligns
<1>6. Len(e) = Len(c) /\ DOMAIN e = DOMAIN c
  BY <1>5 DEF Aligned, Notices!IsSeq
<1>7. ASSUME NEW j \in DOMAIN e
      PROVE  e[j].claim = c[j] /\ \E k \in 1..n : ns[k].reference = e[j].reference
  <2>1. PICK i \in 1..n : \E k \in DOMAIN ss[i] : e[j] = ss[i][k] /\ c[j] = tt[i][k]
    BY <1>5 DEF Aligned
  <2>2. QED
    BY <1>3, <2>1
<1>8. QED
  BY <1>6, <1>7 DEF e, c

\* The result notices of a timeline are just those of its notices that report a result.
LEMMA ResultsAreFound ==
  ASSUME NEW seq, NEW n, WithClaims(seq, n), NEW found, found = Notices!ResultNotices(seq)
  PROVE  /\ WithClaims(found, Len(found))
         /\ \A j \in 1..Len(found) : \E i \in 1..n : found[j] = seq[i]
         /\ found # <<>> <=> \E i \in 1..n : ~Notices!IsCompetition(seq[i])
<1> DEFINE ss == [i \in 1..n |-> IF Notices!IsCompetition(seq[i]) THEN <<>> ELSE <<seq[i]>>]
<1>1. n \in Nat /\ DOMAIN seq = 1..n
  BY DEF WithClaims
<1>2. found = Notices!FlattenSeq(ss)
  BY <1>1 DEF Notices!ResultNotices, Notices!EachOf
<1>3. \A i \in 1..n : /\ Notices!IsSeq(ss[i])
                      /\ \A k \in DOMAIN ss[i] : ss[i][k] = seq[i] /\ ~Notices!IsCompetition(seq[i])
                      /\ ~Notices!IsCompetition(seq[i]) => 1 \in DOMAIN ss[i]
  BY ShortSequences
<1>4. Parts(ss, n)
  <2>1. ss = [i \in 1..n |-> ss[i]]
    OBVIOUS
  <2> HIDE DEF ss
  <2>2. QED
    BY <1>3, <2>1 DEF Parts
<1> HIDE DEF ss
<1>5. /\ Notices!IsSeq(found)
      /\ \A j \in DOMAIN found : \E i \in 1..n : \E k \in DOMAIN ss[i] : found[j] = ss[i][k]
      /\ \A i \in 1..n : \A k \in DOMAIN ss[i] : \E j \in DOMAIN found : found[j] = ss[i][k]
  BY <1>1, <1>2, <1>4, Flattening
<1>6. Len(found) \in Nat /\ DOMAIN found = 1..Len(found) /\ found = [j \in 1..Len(found) |-> found[j]]
  BY <1>5 DEF Notices!IsSeq
<1>7. \A j \in 1..Len(found) : \E i \in 1..n : found[j] = seq[i] /\ ~Notices!IsCompetition(seq[i])
  BY <1>3, <1>5, <1>6
<1>8. WithClaims(found, Len(found))
  BY <1>6, <1>7 DEF WithClaims
<1>9. ASSUME found # <<>> PROVE \E i \in 1..n : ~Notices!IsCompetition(seq[i])
  <2>1. 1 \in 1..Len(found)
    BY <1>6, <1>9
  <2>2. QED
    BY <1>7, <2>1
<1>10. ASSUME NEW i \in 1..n, ~Notices!IsCompetition(seq[i]) PROVE found # <<>>
  <2>1. \E j \in DOMAIN found : TRUE
    BY <1>3, <1>5, <1>10
  <2>2. QED
    BY <2>1
<1>11. QED
  BY <1>7, <1>8, <1>9, <1>10

\* The decisions of a lifecycle are about its claims, one each; none admits without a
\* source that is ready.
LEMMA DecisionsFollowClaims ==
  ASSUME NEW seq, NEW n, WithClaims(seq, n), NEW c, NEW ds, ds = Notices!LifecycleDecisions(seq, c)
  PROVE  /\ Notices!IsSeq(ds) /\ [j \in DOMAIN ds |-> ds[j].claim] = ClaimsOf(seq)
         /\ ~Notices!ProductAdmissionReady(c) /\ ~Notices!SandboxReady(c) => ~Notices!Admissible(ds)
<1> DEFINE Outcome(claim) ==
             IF ~Notices!ProductAdmissionReady(c) /\ ~Notices!SandboxReady(c) THEN "BLOCKED_SOURCE_NOT_PRODUCT_ADMITTED"
             ELSE IF claim.predicate \in Notices!Personal THEN "REJECTED_PROHIBITED"
             ELSE IF claim.predicate \notin Notices!LIFECYCLE_AUTO_ADMISSIBLE_PREDICATES
                  THEN "HUMAN_REVIEW_REQUIRED_OUTSIDE_PROFILE"
             ELSE "SANDBOX_ADMISSIBLE_REDERIVED"
           Made(m) == [i \in DOMAIN m.claims |-> Notices!Decided(m.claims[i], Outcome(m.claims[i]))]
           ss == [i \in 1..n |-> Made(seq[i])]
           tt == [i \in 1..n |-> seq[i].claims]
           cs == ClaimsOf(seq)
<1>1. n \in Nat /\ DOMAIN seq = 1..n
  BY DEF WithClaims
<1>2. ds = Notices!FlattenSeq(ss)
  BY <1>1 DEF Notices!LifecycleDecisions, Notices!EachOf
<1>3. cs = Notices!FlattenSeq(tt)
  BY <1>1 DEF ClaimsOf, Notices!EachOf
<1>4. \A claim : ~Notices!ProductAdmissionReady(c) /\ ~Notices!SandboxReady(c) =>
                    Outcome(claim) = "BLOCKED_SOURCE_NOT_PRODUCT_ADMITTED"
  OBVIOUS
<1> HIDE DEF Outcome
<1>5. ASSUME NEW i \in 1..n
      PROVE  /\ Notices!IsSeq(tt[i]) /\ Notices!IsSeq(ss[i]) /\ Len(ss[i]) = Len(tt[i])
             /\ \A k \in DOMAIN ss[i] : ss[i][k].claim = tt[i][k] /\ ss[i][k].outcome = Outcome(tt[i][k])
  <2> DEFINE f == Made(seq[i])
             g == seq[i].claims
  <2>1. \A k \in DOMAIN g : f[k].claim = g[k] /\ f[k].outcome = Outcome(g[k])
    BY DEF Notices!Decided
  <2>2. f = [k \in DOMAIN g |-> f[k]] /\ Notices!IsSeq(g)
    BY DEF WithClaims
  <2>3. ss[i] = f /\ tt[i] = g
    OBVIOUS
  <2> HIDE DEF f, g
  <2>4. Notices!IsSeq(f) /\ Len(f) = Len(g) /\ DOMAIN f = DOMAIN g
    BY <2>2, SameDomain
  <2> HIDE DEF ss, tt
  <2>5. QED
    BY <2>1, <2>2, <2>3, <2>4
<1>6. ss = [i \in 1..n |-> ss[i]] /\ tt = [i \in 1..n |-> tt[i]]
  OBVIOUS
<1> HIDE DEF ss, tt, cs
<1>7. Aligned(ds, cs, ss, tt, n)
  <2>1. Parts(ss, n) /\ Parts(tt, n) /\ SameLengths(ss, tt, n)
    BY <1>5, <1>6 DEF Parts, SameLengths
  <2>2. QED
    BY <1>1, <1>2, <1>3, <2>1, FlattenAligns
<1>8. Notices!IsSeq(ds) /\ Notices!IsSeq(cs) /\ DOMAIN ds = DOMAIN cs /\ cs = [j \in DOMAIN cs |-> cs[j]]
  BY <1>7 DEF Aligned, Notices!IsSeq
<1>9. ASSUME NEW j \in DOMAIN ds PROVE ds[j].claim = cs[j] /\ \E claim : ds[j].outcome = Outcome(claim)
  <2>1. PICK i \in 1..n : \E k \in DOMAIN ss[i] : ds[j] = ss[i][k] /\ cs[j] = tt[i][k]
    BY <1>7 DEF Aligned
  <2>2. QED
    BY <1>5, <2>1
<1>10. [j \in DOMAIN ds |-> ds[j].claim] = cs
  BY <1>8, <1>9
<1>11. ~Notices!ProductAdmissionReady(c) /\ ~Notices!SandboxReady(c) => ~Notices!Admissible(ds)
  BY <1>4, <1>9 DEF Notices!Admissible
<1>12. QED
  BY <1>8, <1>10, <1>11 DEF cs

\* What has to hold of the notices and the decisions behind a dossier.
LEMMA DossiersAreSound ==
  ASSUME notices \in Seq(Documents), Notices!Assemblable(notices), notices' = notices,
         NEW kind, NEW replay, NEW ds, [j \in DOMAIN ds |-> ds[j].claim] = ClaimsOf(Notices!Assembled(notices)),
         answer' = Notices!Dossier(kind, Notices!Assembled(notices), ds, replay)
  PROVE  Notices!DossierIsSound'
<1> DEFINE seq == Notices!Assembled(notices)
           n == Len(notices)
           chain == Notices!BuildEvents(seq)
           found == Notices!ResultNotices(seq)
           state0 == Notices!DossierState(seq)
           unknowns == Notices!Unknowns(seq)
           sections == Notices!Sections(seq, ds)
<1>1. Told(seq, n, notices)
  BY AssembledIsTold DEF Notices!Assemblable, AllParse
<1>2. n \in Nat \ {0}
  BY DEF Notices!Assemblable
<1>3. /\ answer'.chain = chain /\ answer'.state = state0 /\ answer'.unknowns = unknowns
      /\ answer'.sections = sections
  BY DEF Notices!Dossier, Notices!Answer
<1>4. Notices!ValidateLineage(seq)
  BY DEF Notices!Assemblable
<1>5. /\ sections.lifecycle.claims = ClaimsOf(seq) /\ sections.lifecycle.evidence = EvidenceIn(seq)
      /\ sections.result.claims = ClaimsOf(found) /\ sections.result.evidence = EvidenceIn(found)
      /\ sections.result.status = IF found = <<>> THEN "UNKNOWN" ELSE "TRACEABLE"
      /\ sections.admission.claims = [j \in DOMAIN ds |-> ds[j].claim]
  BY DEF Notices!Sections, Notices!Section, ClaimsOf, EvidenceIn
<1>s. seq = Notices!Assembled(notices)
  OBVIOUS
<1> HIDE DEF seq, n
<1>6. WithClaims(seq, n)
  BY <1>1 DEF Told, WithClaims
<1>7. DOMAIN seq = 1..n
  BY <1>6 DEF WithClaims
<1>8. /\ DOMAIN chain = 1..n
      /\ \A i \in 1..n : chain[i].kind = seq[i].kind /\ chain[i].reference = seq[i].reference
  BY <1>7 DEF Notices!BuildEvents
<1>9. \A k \in 1..n : \E d \in Notices!ToSet(notices) :
        d \in Documents /\ Notices!Parses(d) /\ seq[k] = Notices!Notice(d)
  BY <1>1 DEF Told
<1>10. \A k \in 1..n : "selec-w" \in seq[k].statuses =>
         seq[k].winners # {} /\ \E d \in Notices!ToSet(notices) : Notices!Awards(d)
  BY <1>9, AwardsAreNamed
<1>11. state0 \in {"AWARDED", "PARTIALLY_AWARDED"} => \E d \in Notices!ToSet(notices) : Notices!Awards(d)
  <2> DEFINE all == UNION {seq[i].statuses : i \in DOMAIN seq}
  <2>1. state0 \in {"AWARDED", "PARTIALLY_AWARDED"} => "selec-w" \in all
    <3>1. state0 = IF \E i \in DOMAIN seq : seq[i].kind = "PROCEDURE_RESULT"
                   THEN IF all = {"selec-w"} THEN "AWARDED"
                        ELSE IF "selec-w" \in all THEN "PARTIALLY_AWARDED"
                        ELSE IF all = {"clos-nw"} THEN "NO_AWARD"
                        ELSE "RESULT_PENDING_OR_MIXED"
                   ELSE IF Notices!Last(seq).kind = "NOTICE_CANCELLATION" THEN "NOTICE_CANCELLED_PROCEDURE_UNRESOLVED"
                   ELSE "OPEN_OR_PENDING"
      BY DEF Notices!DossierState
    <3> HIDE DEF all, state0
    <3>2. QED
      BY <3>1
  <2>2. "selec-w" \in all => \E k \in 1..n : "selec-w" \in seq[k].statuses
    BY <1>7
  <2>3. QED
    BY <1>10, <2>1, <2>2
<1>12. "winner organisation" \notin unknowns
  <2>1. "winner organisation" \in unknowns =>
          \E i \in DOMAIN seq : "selec-w" \in seq[i].statuses /\ seq[i].winners = {}
    BY DEF Notices!Unknowns
  <2>2. QED
    BY <1>7, <1>10, <2>1
<1>13. state0 = "NOTICE_CANCELLED_PROCEDURE_UNRESOLVED" => \A i \in 1..n : Notices!IsCompetition(chain[i])
  <2>1. state0 = "NOTICE_CANCELLED_PROCEDURE_UNRESOLVED" => \A i \in DOMAIN seq : seq[i].kind # "PROCEDURE_RESULT"
    BY DEF Notices!DossierState
  <2>2. QED
    BY <1>7, <1>8, <2>1 DEF Notices!IsCompetition
<1>14. OneChain(chain, n)
  BY <1>2, <1>4, <1>7, <1>s, ChainIsSound
<1>15. /\ Len(EvidenceIn(seq)) = Len(ClaimsOf(seq))
       /\ \A j \in DOMAIN EvidenceIn(seq) :
            /\ EvidenceIn(seq)[j].claim = ClaimsOf(seq)[j]
            /\ \E i \in 1..n : chain[i].reference = EvidenceIn(seq)[j].reference
  <2> HIDE DEF chain
  <2>1. QED
    BY <1>6, <1>8, EvidenceBacksClaims
<1>16. /\ WithClaims(found, Len(found))
       /\ \A j \in 1..Len(found) : \E i \in 1..n : found[j] = seq[i]
       /\ found # <<>> <=> \E i \in 1..n : ~Notices!IsCompetition(seq[i])
  BY <1>6, ResultsAreFound
<1> HIDE DEF chain, found
<1>17. /\ Len(EvidenceIn(found)) = Len(ClaimsOf(found))
       /\ \A j \in DOMAIN EvidenceIn(found) :
            /\ EvidenceIn(found)[j].claim = ClaimsOf(found)[j]
            /\ \E i \in 1..n : chain[i].reference = EvidenceIn(found)[j].reference
  <2>1. /\ Len(EvidenceIn(found)) = Len(ClaimsOf(found))
        /\ \A j \in DOMAIN EvidenceIn(found) :
             /\ EvidenceIn(found)[j].claim = ClaimsOf(found)[j]
             /\ \E k \in 1..Len(found) : found[k].reference = EvidenceIn(found)[j].reference
    BY <1>16, EvidenceBacksClaims
  <2>2. \A k \in 1..Len(found) : \E i \in 1..n : chain[i].reference = found[k].reference
    BY <1>8, <1>16
  <2>3. QED
    BY <2>1, <2>2
<1>18. sections.result.status = "TRACEABLE" <=> \E i \in 1..n : ~Notices!IsCompetition(chain[i])
  <2>1. \A i \in 1..n : Notices!IsCompetition(chain[i]) <=> Notices!IsCompetition(seq[i])
    BY <1>8 DEF Notices!IsCompetition
  <2> HIDE DEF sections
  <2>2. QED
    BY <1>5, <1>16, <2>1
<1>19. sections.admission.claims = sections.lifecycle.claims
  BY <1>5, <1>s
<1> HIDE DEF state0, unknowns, sections
<1>20. \A k \in {"lifecycle", "result"} :
         /\ Len(sections[k].evidence) = Len(sections[k].claims)
         /\ \A j \in DOMAIN sections[k].evidence :
              /\ sections[k].evidence[j].claim = sections[k].claims[j]
              /\ \E i \in DOMAIN chain : chain[i].reference = sections[k].evidence[j].reference
  <2>1. sections["lifecycle"] = sections.lifecycle /\ sections["result"] = sections.result
    OBVIOUS
  <2>2. QED
    BY SMTT(30), <1>5, <1>8, <1>15, <1>17, <2>1
<1>21. answer'.state # Notices!None =>
        /\ chain[1].kind = "COMPETITION_INITIAL"
        /\ \A i \in 2..Len(chain) :
            LET before == Notices!SelectLastInSubSeq(chain, 1, i - 1, Notices!IsCompetition)
            IN  Notices!IsCompetition(chain[i]) =>
                  chain[i].previous = chain[before].reference /\ chain[before].kind # "NOTICE_CANCELLATION"
        /\ state0 \in {"AWARDED", "PARTIALLY_AWARDED"} => \E d \in Notices!ToSet(notices) : Notices!Awards(d)
        /\ "winner organisation" \notin unknowns
        /\ state0 = "NOTICE_CANCELLED_PROCEDURE_UNRESOLVED" =>
                \A i \in DOMAIN chain : Notices!IsCompetition(chain[i])
        /\ sections.admission.claims = sections.lifecycle.claims
        /\ \A k \in {"lifecycle", "result"} :
            /\ Len(sections[k].evidence) = Len(sections[k].claims)
            /\ \A j \in DOMAIN sections[k].evidence :
                /\ sections[k].evidence[j].claim = sections[k].claims[j]
                /\ \E i \in DOMAIN chain : chain[i].reference = sections[k].evidence[j].reference
        /\ sections.result.status = "TRACEABLE" <=> \E i \in DOMAIN chain : ~Notices!IsCompetition(chain[i])
  BY <1>8, <1>11, <1>12, <1>13, <1>14, <1>18, <1>19, <1>20, Zenon DEF OneChain
<1>22. QED
  BY ONLY ZenonT(40), <1>3, <1>21, notices' = notices DEF Notices!DossierIsSound

-----------------------------------------------------------------------------
(* ProcurementHolds is an invariant. *)

\* The decisions stored for a lifecycle are about the claims of the notices in its key.
BatchesTell ==
  \A k \in DOMAIN results :
    k[1] = "lifecycle" => [j \in DOMAIN results[k] |-> results[k][j].claim] = ClaimsOf(k[2])

NoticesInv ==
  /\ notices \in Seq(Documents)
  /\ StoreInv /\ BatchesTell
  /\ Notices!DossierIsSound /\ Notices!AdmissionNeedsReadiness

\* An answer without a dossier and without a decision says nothing.
LEMMA EmptyAnswers ==
  \A kind, replay :
    /\ Notices!Answer(kind, <<>>, replay).state = Notices!None
    /\ ~Notices!Admissible(Notices!Answer(kind, <<>>, replay).decisions)
BY DEF Notices!Answer, Notices!Admissible

LEMMA NoticesInitially ==
  ASSUME Notices!ProcurementInit
  PROVE  NoticesInv
<1>1. notices = <<>> /\ results = <<>> /\ noticeEvents = <<>> /\ answer = Notices!Answer("NONE", <<>>, FALSE)
  BY DEF Notices!ProcurementInit, Notices!NoAnswer
<1>2. answer.state = Notices!None /\ ~Notices!Admissible(answer.decisions)
  BY <1>1, EmptyAnswers
<1>3. StoreInv /\ BatchesTell
  <2>1. results = [k \in DOMAIN results |-> results[k]] /\ DOMAIN results = {} /\ DOMAIN noticeEvents = {}
    BY <1>1
  <2>2. Notices!IsSeq(noticeEvents)
    BY <1>1, ShortSequences
  <2>3. QED
    BY <2>1, <2>2 DEF StoreInv, BatchesTell
<1>4. Notices!DossierIsSound /\ Notices!AdmissionNeedsReadiness
  BY <1>2 DEF Notices!DossierIsSound, Notices!AdmissionNeedsReadiness
<1>5. QED
  BY <1>1, <1>3, <1>4 DEF NoticesInv

LEMMA UnchangedTells ==
  ASSUME BatchesTell, UNCHANGED results
  PROVE  BatchesTell'
<1>1. ASSUME NEW k \in DOMAIN results', k[1] = "lifecycle"
      PROVE  [j \in DOMAIN results'[k] |-> results'[k][j].claim] = ClaimsOf(k[2])
  BY <1>1 DEF BatchesTell
<1>2. QED
  BY <1>1 DEF BatchesTell

\* A commit keeps the store, and what its batches tell if the new one does.
LEMMA CommitKeepsStore ==
  ASSUME StoreInv, BatchesTell, NEW key, NEW ds, NEW fail, Notices!IsSeq(ds), Notices!Commit(key, ds, fail),
         key[1] = "lifecycle" => [j \in DOMAIN ds |-> ds[j].claim] = ClaimsOf(key[2])
  PROVE  StoreInv' /\ BatchesTell'
<1>1. StoreInv'
  BY CommitKeepsWhole
<1>2. CASE UNCHANGED results
  BY <1>1, <1>2, UnchangedTells
<1>3. CASE ~UNCHANGED results
  <2>1. results' = [k \in DOMAIN results \cup {key} |-> IF k = key THEN ds ELSE results[k]] /\ key \notin DOMAIN results
    BY <1>3 DEF Notices!Commit, Notices!Keys
  <2>2. /\ DOMAIN results' = DOMAIN results \cup {key} /\ results'[key] = ds
        /\ \A k \in DOMAIN results : results'[k] = results[k]
    BY <2>1
  <2>3. ASSUME NEW k \in DOMAIN results', k[1] = "lifecycle"
        PROVE  [j \in DOMAIN results'[k] |-> results'[k][j].claim] = ClaimsOf(k[2])
    <3>1. CASE k = key
      BY <2>2, <2>3, <3>1
    <3>2. CASE k # key
      <4>1. k \in DOMAIN results /\ results'[k] = results[k]
        BY <2>2, <2>3, <3>2
      <4>2. QED
        BY <2>3, <4>1 DEF BatchesTell
    <3>3. QED
      BY <3>1, <3>2
  <2>4. BatchesTell'
    BY <2>3 DEF BatchesTell
  <2>5. QED
    BY <1>1, <2>4
<1>4. QED
  BY <1>2, <1>3

LEMMA AssembleKeeps ==
  ASSUME NoticesInv, NEW fail, Notices!Assemble(fail)
  PROVE  NoticesInv'
<1> DEFINE seq == Notices!Assembled(notices)
           n == Len(notices)
           key == Notices!LifecycleKey(seq, context)
           ds == Notices!LifecycleDecisions(seq, context)
           stored == Notices!Stored(key, ds)
<1>1. /\ notices' = notices /\ context' = context
      /\ IF ~Notices!Assemblable(notices) \/ Notices!ProductAdmissionReady(context)
         THEN answer' = Notices!Raised /\ UNCHANGED <<results, noticeEvents>>
         ELSE IF ~Notices!SandboxReady(context)
         THEN answer' = Notices!Dossier("BLOCKED", seq, ds, FALSE) /\ UNCHANGED <<results, noticeEvents>>
         ELSE /\ Notices!Commit(key, ds, fail)
              /\ answer' = IF Notices!CommitRaises(key, ds, fail) THEN Notices!Raised
                           ELSE Notices!Dossier("ASSEMBLED", seq, stored, key \in Notices!Keys)
  BY DEF Notices!Assemble, Notices!Raise
<1>2. notices \in Seq(Documents) /\ StoreInv /\ BatchesTell
  BY DEF NoticesInv
<1>3. key[1] = "lifecycle" /\ key[2] = seq
  BY DEF Notices!LifecycleKey
<1> HIDE DEF key
<1>4. ASSUME answer' = Notices!Raised PROVE Notices!DossierIsSound' /\ Notices!AdmissionNeedsReadiness'
  <2>1. answer'.state = Notices!None /\ ~Notices!Admissible(answer'.decisions)
    BY <1>4, EmptyAnswers DEF Notices!Raised
  <2>2. QED
    BY <2>1 DEF Notices!DossierIsSound, Notices!AdmissionNeedsReadiness
<1>5. UNCHANGED <<results, noticeEvents>> => StoreInv' /\ BatchesTell'
  BY <1>2, UnchangedTells DEF StoreInv, Notices!Fills
<1>6. CASE ~Notices!Assemblable(notices) \/ Notices!ProductAdmissionReady(context)
  BY <1>1, <1>2, <1>4, <1>5, <1>6 DEF NoticesInv
<1>7. CASE Notices!Assemblable(notices) /\ ~Notices!ProductAdmissionReady(context)
  <2>1. WithClaims(seq, n)
    <3>1. Told(seq, n, notices)
      BY <1>2, <1>7, AssembledIsTold DEF Notices!Assemblable, AllParse
    <3>2. QED
      BY <3>1 DEF Told, WithClaims
  <2>2. /\ Notices!IsSeq(ds) /\ [j \in DOMAIN ds |-> ds[j].claim] = ClaimsOf(seq)
        /\ ~Notices!ProductAdmissionReady(context) /\ ~Notices!SandboxReady(context) => ~Notices!Admissible(ds)
    BY <2>1, DecisionsFollowClaims
  <2> HIDE DEF ds
  <2>3. CASE ~Notices!SandboxReady(context)
    <3>1. answer' = Notices!Dossier("BLOCKED", seq, ds, FALSE) /\ UNCHANGED <<results, noticeEvents>>
      BY <1>1, <1>7, <2>3
    <3>2. Notices!DossierIsSound'
      BY <1>1, <1>2, <1>7, <2>2, <3>1, DossiersAreSound
    <3>3. answer'.decisions = ds
      BY <3>1 DEF Notices!Dossier, Notices!Answer
    <3>4. Notices!AdmissionNeedsReadiness'
      <4>1. ~Notices!Admissible(answer'.decisions)
        BY <1>7, <2>2, <2>3, <3>3
      <4>2. QED
        BY <4>1 DEF Notices!AdmissionNeedsReadiness
    <3>5. QED
      BY <1>1, <1>2, <1>5, <3>1, <3>2, <3>4 DEF NoticesInv
  <2>4. CASE Notices!SandboxReady(context)
    <3>1. /\ Notices!Commit(key, ds, fail)
          /\ answer' = IF Notices!CommitRaises(key, ds, fail) THEN Notices!Raised
                       ELSE Notices!Dossier("ASSEMBLED", seq, stored, key \in Notices!Keys)
      BY <1>1, <1>7, <2>4
    <3>2. StoreInv' /\ BatchesTell'
      BY <1>2, <1>3, <2>2, <3>1, CommitKeepsStore
    <3>3. [j \in DOMAIN stored |-> stored[j].claim] = ClaimsOf(seq)
      <4>1. stored = IF key \in DOMAIN results THEN results[key] ELSE ds
        BY DEF Notices!Stored, Notices!Keys
      <4> HIDE DEF stored
      <4>2. CASE key \in DOMAIN results
        BY <1>2, <1>3, <4>1, <4>2 DEF BatchesTell
      <4>3. CASE key \notin DOMAIN results
        BY <2>2, <4>1, <4>3
      <4>4. QED
        BY <4>2, <4>3
    <3> HIDE DEF stored
    <3>4. CASE Notices!CommitRaises(key, ds, fail)
      BY <1>1, <1>2, <1>4, <3>1, <3>2, <3>4 DEF NoticesInv
    <3>5. CASE ~Notices!CommitRaises(key, ds, fail)
      <4>1. answer' = Notices!Dossier("ASSEMBLED", seq, stored, key \in Notices!Keys)
        BY <3>1, <3>5
      <4>2. Notices!DossierIsSound'
        BY <1>1, <1>2, <1>7, <3>3, <4>1, DossiersAreSound
      <4>3. Notices!SandboxReady(context)'
        BY <1>1, <2>4 DEF Notices!SandboxReady
      <4>4. Notices!AdmissionNeedsReadiness'
        BY <4>3 DEF Notices!AdmissionNeedsReadiness
      <4>5. QED
        BY <1>1, <1>2, <3>2, <4>2, <4>4 DEF NoticesInv
    <3>6. QED
      BY <3>4, <3>5
  <2>5. QED
    BY <2>3, <2>4
<1>8. QED
  BY <1>6, <1>7

LEMMA DecideKeeps ==
  ASSUME NoticesInv, NEW d, NEW es \in Candidates, NEW fail, Notices!Decide(d, es, fail)
  PROVE  NoticesInv'
<1> DEFINE key == Notices!AdmissionKey(d, es, context)
           Blocked == [i \in DOMAIN es |-> Notices!Decided(es[i].claim, "BLOCKED_SOURCE_NOT_PRODUCT_ADMITTED")]
           fresh == [i \in DOMAIN es |->
                      Notices!EvaluateCandidate(es[i], Notices!ToSet(Notices!CandidateClaims(d)), context)]
           With(a) == [a EXCEPT !.envelopes = es]
           Ready == Notices!ProductAdmissionReady(context) \/ Notices!SandboxReady(context)
<1>1. /\ notices' = notices /\ context' = context
      /\ \/ answer' = Notices!Raised /\ UNCHANGED <<results, noticeEvents>>
         \/ answer' = With(Notices!Answer("DECIDED", results[key], TRUE)) /\ UNCHANGED <<results, noticeEvents>>
         \/ answer' = With(Notices!Answer("BLOCKED", Blocked, FALSE)) /\ UNCHANGED <<results, noticeEvents>>
         \/ /\ Ready /\ Notices!Commit(key, fresh, fail)
            /\ answer' = IF Notices!CommitRaises(key, fresh, fail) THEN Notices!Raised
                         ELSE With(Notices!Answer("DECIDED", fresh, FALSE))
  BY DEF Notices!Decide, Notices!Raise
<1>2. notices \in Seq(Documents) /\ StoreInv /\ BatchesTell
  BY DEF NoticesInv
<1>3. ASSUME NEW kind, NEW decisions, NEW replay, answer' = With(Notices!Answer(kind, decisions, replay))
      PROVE  /\ answer'.state = Notices!None /\ answer'.kind = kind
             /\ answer'.replay = replay /\ answer'.decisions = decisions
  BY <1>3 DEF Notices!Answer
<1>4. Notices!Raised.state = Notices!None /\ ~Notices!Admissible(Notices!Raised.decisions)
  BY EmptyAnswers DEF Notices!Raised
<1>5. ~Notices!Admissible(Blocked)
  BY DEF Notices!Admissible, Notices!Decided
<1>6. Notices!IsSeq(fresh)
  <2>1. fresh = [i \in DOMAIN es |-> fresh[i]]
    OBVIOUS
  <2> HIDE DEF fresh
  <2>2. QED
    BY <2>1, NoticesAssumption, SameDomain
<1>7. key[1] # "lifecycle"
  BY DEF Notices!AdmissionKey
<1> HIDE DEF key, Blocked, fresh, With
<1>8. StoreInv' /\ BatchesTell'
  <2>1. CASE UNCHANGED <<results, noticeEvents>>
    BY <1>2, <2>1, UnchangedTells DEF StoreInv, Notices!Fills
  <2>2. CASE Notices!Commit(key, fresh, fail)
    BY <1>2, <1>6, <1>7, <2>2, CommitKeepsStore
  <2>3. QED
    BY <1>1, <2>1, <2>2
<1> DEFINE Harmless == ~Notices!Admissible(answer'.decisions) \/ (answer'.kind = "DECIDED" /\ (answer'.replay = TRUE \/ Ready))
<1>9. answer'.state = Notices!None /\ Harmless
  <2>1. CASE answer' = Notices!Raised
    BY <1>4, <2>1
  <2>2. CASE answer' = With(Notices!Answer("DECIDED", results[key], TRUE))
    <3>1. answer'.state = Notices!None /\ answer'.kind = "DECIDED" /\ answer'.replay = TRUE
      BY <1>3, <2>2
    <3>2. QED
      BY <3>1
  <2>3. CASE answer' = With(Notices!Answer("BLOCKED", Blocked, FALSE))
    <3>1. answer'.state = Notices!None /\ answer'.decisions = Blocked
      BY <1>3, <2>3
    <3>2. QED
      BY <1>5, <3>1
  <2>4. CASE Ready /\ answer' = With(Notices!Answer("DECIDED", fresh, FALSE))
    <3>1. answer'.state = Notices!None /\ answer'.kind = "DECIDED"
      BY <1>3, <2>4
    <3>2. QED
      BY <2>4, <3>1
  <2>5. QED
    BY <1>1, <2>1, <2>2, <2>3, <2>4
<1>10. Notices!AdmissionNeedsReadiness'
  <2>1. Harmless
    BY <1>9
  <2>2. Ready => (Notices!SandboxReady(context) \/ Notices!ProductAdmissionReady(context))'
    BY <1>1 DEF Notices!SandboxReady, Notices!ProductAdmissionReady
  <2> HIDE DEF Ready
  <2>3. QED
    BY <2>1, <2>2 DEF Notices!AdmissionNeedsReadiness
<1>11. Notices!DossierIsSound'
  BY <1>9 DEF Notices!DossierIsSound
<1>12. QED
  BY <1>1, <1>2, <1>8, <1>10, <1>11 DEF NoticesInv

LEMMA NoticesKept ==
  ASSUME NoticesInv, [Notices!ProcurementNext]_noticeVars
  PROVE  NoticesInv'
<1>1. ASSUME answer' = Notices!NoAnswer PROVE Notices!DossierIsSound' /\ Notices!AdmissionNeedsReadiness'
  <2>1. answer'.state = Notices!None /\ ~Notices!Admissible(answer'.decisions)
    BY <1>1, EmptyAnswers DEF Notices!NoAnswer
  <2>2. QED
    BY <2>1 DEF Notices!DossierIsSound, Notices!AdmissionNeedsReadiness
<1>2. UNCHANGED <<results, noticeEvents>> => StoreInv' /\ BatchesTell'
  BY UnchangedTells DEF NoticesInv, StoreInv, Notices!Fills
<1>3. ASSUME NEW d \in Documents, Notices!Submit(d) PROVE NoticesInv'
  <2>1. notices' = Append(notices, d) /\ answer' = Notices!NoAnswer /\ UNCHANGED <<results, noticeEvents>>
    BY <1>3 DEF Notices!Submit
  <2>2. notices' \in Seq(Documents)
    BY <2>1 DEF NoticesInv
  <2>3. QED
    BY <1>1, <1>2, <2>1, <2>2 DEF NoticesInv
<1>4. ASSUME NEW c, Notices!ChangeContext(c) PROVE NoticesInv'
  <2>1. notices' = notices /\ answer' = Notices!NoAnswer /\ UNCHANGED <<results, noticeEvents>>
    BY <1>4 DEF Notices!ChangeContext
  <2>2. QED
    BY <1>1, <1>2, <2>1 DEF NoticesInv
<1>5. CASE UNCHANGED noticeVars
  BY ZenonT(40), <1>2, <1>5 DEF NoticesInv, noticeVars, Notices!DossierIsSound, Notices!AdmissionNeedsReadiness
<1>6. QED
  BY <1>3, <1>4, <1>5, AssembleKeeps, DecideKeeps DEF Notices!ProcurementNext

LEMMA NoticesSteps ==
  ASSUME [PlatformNext]_platformVars
  PROVE  [Notices!ProcurementNext]_noticeVars
BY DEF PlatformNext, platformVars, Still

LEMMA NoticesInvHolds ==
  ASSUME NoticesInv
  PROVE  ProcurementHolds
<1>1. Notices!StoreIsWhole
  BY DEF NoticesInv, StoreInv, Notices!StoreIsWhole, Notices!Keys
<1>2. Notices!OrderIsImmaterial
  BY OrderDoesNotMatter DEF NoticesInv
<1>3. QED
  BY <1>1, <1>2 DEF NoticesInv, ProcurementHolds

\* Whatever notices are handed over, in whatever order, and however commits fail or are
\* replayed while the source's readiness changes: the store of CommitBatch holds whole batches
\* only, the dossier of ProcurementLifecycleAssembler states what its notices say, and nothing is
\* admitted from a source that is not ready.
THEOREM ProcurementStaysSound == PlatformSpec => []ProcurementHolds
<1>1. PlatformInit => NoticesInv
  BY NoticesInitially DEF PlatformInit
<1>2. NoticesInv /\ [PlatformNext]_platformVars => NoticesInv'
  BY NoticesSteps, NoticesKept
<1>3. NoticesInv => ProcurementHolds
  BY NoticesInvHolds
<1>4. QED
  BY <1>1, <1>2, <1>3, PTL DEF PlatformSpec
================================================================================
