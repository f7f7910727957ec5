---------------------------- MODULE CurationProofs ----------------------------
(***************************************************************************)
(* Proofs about Curation, Selection, Feed and Extractors for inputs of any *)
(* length over any set of items: what the loops of dedup.py,               *)
(* variant_collapse.py and _filter_noise keep, how mmr_rank ranks, when    *)
(* scrolling ends, what a run selects whatever the model answers, and      *)
(* what an extraction returns whatever its endpoints answer.               *)
(* Each loop is a fold or a function that calls itself for the turn        *)
(* before.  Of a fold it is first shown that an input with one more item   *)
(* takes the loop one turn further, and from then on the inputs, which the *)
(* specification extends item by item, are the induction.                  *)
(***************************************************************************)
EXTENDS Feed, Extractors, TLAPS, FiniteSetTheorems, WellFoundedInduction, SequenceTheorems

\* A non-empty set of numbers has a least one: the initial segments up to its
\* members are finite sets, which inclusion orders without endless descent.
LEMMA LeastNumber ==
    ASSUME NEW S \in SUBSET Nat, S # {}
    PROVE  \E m \in S : \A k \in S : m <= k
<1> DEFINE T == {0..m : m \in S}
<1>1. \A m \in S : 0..m \in FiniteSubsetsOf(Nat)
  BY FS_Interval DEF FiniteSubsetsOf
<1>2. T \subseteq FiniteSubsetsOf(Nat) /\ T # {}
  BY <1>1
<1>3. IsWellFoundedOn(StrictSubsetOrdering(Nat), FiniteSubsetsOf(Nat))
  BY FS_StrictSubsetOrderingWellFounded
<1>4. PICK I \in T : \A J \in T : <<J, I>> \notin StrictSubsetOrdering(Nat)
  <2> HIDE DEF T
  <2> QED BY <1>2, <1>3, WFMin
<1>5. PICK m \in S : I = 0..m
  OBVIOUS
<1>6. ASSUME NEW k \in S, k < m PROVE FALSE
  <2>1. 0..k \in T /\ 0..k \subseteq 0..m /\ 0..k # 0..m
    BY <1>6
  <2>2. <<0..k, 0..m>> \in StrictSubsetOrdering(Nat)
    BY <2>1 DEF StrictSubsetOrdering
  <2> QED BY <1>4, <1>5, <2>1, <2>2
<1> QED BY <1>6

LEMMA MinIs ==
    ASSUME NEW I \in SUBSET Nat, I # {}
    PROVE  Min(I) \in I /\ \A k \in I : Min(I) <= k
<1>1. PICK m \in I : \A k \in I : m <= k
  BY LeastNumber
<1> QED BY <1>1 DEF Min

\* Induction up to a number, over a set of numbers.
LEMMA UpTo ==
    ASSUME NEW n \in Nat, NEW S, 0 \in S, \A k \in 1..n : k - 1 \in S => k \in S
    PROVE  \A k \in 0..n : k \in S
<1> DEFINE Out == {k \in 0..n : k \notin S}
<1>1. Out = {}
  <2> SUFFICES ASSUME Out # {} PROVE FALSE
    OBVIOUS
  <2>1. Out \in SUBSET Nat
    OBVIOUS
  <2>2. PICK m \in Out : \A k \in Out : m <= k
    <3> HIDE DEF Out
    <3> QED BY <2>1, LeastNumber
  <2>3. m \in 1..n /\ m \notin S /\ m - 1 \in 0..n
    BY <2>2
  <2>4. m - 1 \in S
    BY <2>2, <2>3
  <2> QED BY <2>3, <2>4
<1> QED BY <1>1

\* A fold takes the greatest index of a set last.
LEMMA MaxIs ==
    ASSUME NEW n \in Nat, NEW d \in SUBSET (1..n)
    PROVE  /\ d # {} => Max(d) \in d
           /\ \A m \in d : (\A k \in d : k <= m) => Max(d) = m
<1>1. ASSUME d # {} PROVE \E m \in d : \A k \in d : m >= k
  <2> DEFINE Lacks == {n - k : k \in d}
  <2>1. Lacks \in SUBSET Nat /\ Lacks # {}
    <3>1. \A k \in d : n - k \in Nat
      OBVIOUS
    <3> QED BY <1>1, <3>1
  <2>2. PICK lack \in Lacks : \A k \in Lacks : lack <= k
    <3> HIDE DEF Lacks
    <3> QED BY <2>1, LeastNumber
  <2>3. PICK m \in d : lack = n - m
    OBVIOUS
  <2>4. ASSUME NEW k \in d PROVE m >= k
    <3>1. n - m <= n - k
      BY <2>2, <2>3
    <3> QED BY <3>1
  <2> QED BY <2>4
<1>2. d # {} => Max(d) \in d /\ \A k \in d : Max(d) >= k
  BY <1>1 DEF Max
<1>3. ASSUME NEW m \in d, \A k \in d : k <= m PROVE Max(d) = m
  <2>1. Max(d) \in d /\ Max(d) >= m /\ Max(d) <= m
    BY <1>2, <1>3
  <2>2. \A k \in d : k \in Int
    OBVIOUS
  <2>3. Max(d) \in Int /\ m \in Int
    BY <2>1, <2>2
  <2> QED BY <2>1, <2>3
<1> QED BY <1>2, <1>3

LEMMA MaxUpTo ==
    ASSUME NEW k \in Nat \ {0}
    PROVE  Max(1..k) = k /\ (1..k) \ {k} = 1..(k - 1) /\ 1..k # {}
<1>1. k \in 1..k /\ 1..k \in SUBSET (1..k)
  OBVIOUS
<1>2. \A m \in 1..k : m <= k
  OBVIOUS
<1>3. Max(1..k) = k
  <2> DEFINE d == 1..k
  <2>1. k \in d /\ d \in SUBSET (1..k) /\ \A m \in d : m <= k
    BY <1>1, <1>2
  <2> HIDE DEF d
  <2>2. Max(d) = k
    BY <2>1, MaxIs
  <2> QED BY <2>2 DEF d
<1> QED BY <1>1, <1>3

IsStep(step, n, Acc) == step \in [Acc \X (1..n) -> Acc]

Folds(h, n, base, step) ==
    \A d \in SUBSET (1..n) :
        h[d] = IF d = {} THEN base ELSE step[h[d \ {Max(d)}], Max(d)]

\* There is a function that folds: one turn for each index of a set.
LEMMA FoldExists ==
    ASSUME NEW n \in Nat, NEW Acc, NEW base \in Acc, NEW step, IsStep(step, n, Acc)
    PROVE  \E h \in [SUBSET (1..n) -> Acc] : Folds(h, n, base, step)
<1>0. step \in [Acc \X (1..n) -> Acc]
  BY DEF IsStep
<1> DEFINE S == {k \in 0..n : \E h \in [SUBSET (1..k) -> Acc] : Folds(h, k, base, step)}
<1>1. 0 \in S
  <2> DEFINE h == [d \in SUBSET (1..0) |-> base]
  <2>1. \A d \in SUBSET (1..0) : d = {} /\ h[d] = base
    OBVIOUS
  <2>2. h \in [SUBSET (1..0) -> Acc]
    OBVIOUS
  <2> HIDE DEF h
  <2>3. Folds(h, 0, base, step)
    <3>1. ASSUME NEW d \in SUBSET (1..0)
          PROVE  h[d] = IF d = {} THEN base ELSE step[h[d \ {Max(d)}], Max(d)]
      <4>1. d = {} /\ h[d] = base
        BY <2>1
      <4> QED BY <4>1, Zenon
    <3> QED BY <3>1 DEF Folds
  <2>4. \E e \in [SUBSET (1..0) -> Acc] : Folds(e, 0, base, step)
    BY <2>2, <2>3, Zenon
  <2>5. 0 \in 0..n
    OBVIOUS
  <2> QED BY <2>4, <2>5
<1>2. ASSUME NEW k \in 1..n, k - 1 \in S PROVE k \in S
  <2>1. PICK h \in [SUBSET (1..(k - 1)) -> Acc] : Folds(h, k - 1, base, step)
    BY <1>2
  <2> DEFINE g == [d \in SUBSET (1..k) |-> IF k \in d THEN step[h[d \ {k}], k] ELSE h[d]]
  <2>2. \A d \in SUBSET (1..k) : d \ {k} \in SUBSET (1..(k - 1))
    OBVIOUS
  <2>3. g \in [SUBSET (1..k) -> Acc]
    <3>1. ASSUME NEW d \in SUBSET (1..k) PROVE g[d] \in Acc
      <4>1. CASE k \in d
        <5>1. h[d \ {k}] \in Acc
          BY <2>2
        <5>2. <<h[d \ {k}], k>> \in Acc \X (1..n)
          BY <5>1
        <5>3. step[h[d \ {k}], k] \in Acc
          BY <1>0, <5>2
        <5> QED BY <4>1, <5>3
      <4>2. CASE k \notin d
        BY <2>2, <4>2
      <4> QED BY <4>1, <4>2
    <3> QED BY <3>1
  <2>4. ASSUME NEW d \in SUBSET (1..k)
        PROVE  g[d] = IF d = {} THEN base ELSE step[g[d \ {Max(d)}], Max(d)]
    <3>1. CASE k \in d
      <4>1. k \in Nat /\ k \in d /\ d # {} /\ \A j \in d : j <= k
        BY <3>1
      <4>2. Max(d) = k
        BY <4>1, MaxIs
      <4>3. g[d \ {k}] = h[d \ {k}]
        BY <2>2
      <4> QED BY <3>1, <4>1, <4>2, <4>3
    <3>2. CASE k \notin d
      <4>1. d \in SUBSET (1..(k - 1))
        BY <3>2
      <4>2. d # {} => /\ d \ {Max(d)} \in SUBSET (1..(k - 1))
                      /\ g[d \ {Max(d)}] = h[d \ {Max(d)}]
        BY <3>2, <4>1
      <4> QED BY <2>1, <3>2, <4>1, <4>2 DEF Folds
    <3> QED BY <3>1, <3>2
  <2>5. Folds(g, k, base, step)
    BY <2>4 DEF Folds
  <2> HIDE DEF g
  <2> QED BY <2>3, <2>5
<1>3. n \in S
  <2> HIDE DEF S
  <2> QED BY <1>1, <1>2, UpTo
<1> QED BY <1>3

\* h runs through the turns of a loop, in order.
Turns(h, n, Acc, base, step) ==
    /\ h[{}] = base
    /\ \A k \in 1..n : h[1..(k - 1)] \in Acc => h[1..k] = step[h[1..(k - 1)], k]

LEMMA TurnsAgree ==
    ASSUME NEW n \in Nat, NEW Acc, NEW base \in Acc, NEW step, IsStep(step, n, Acc),
           NEW g, NEW h, Turns(g, n, Acc, base, step), Turns(h, n, Acc, base, step)
    PROVE  g[1..n] \in Acc /\ g[1..n] = h[1..n]
<1> DEFINE S == {k \in 0..n : g[1..k] \in Acc /\ g[1..k] = h[1..k]}
<1>1. 0 \in S
  <2>1. 1..0 = {}
    OBVIOUS
  <2>2. g[{}] = base /\ h[{}] = base
    BY Zenon DEF Turns
  <2>3. g[1..0] = base /\ h[1..0] = base
    BY <2>1, <2>2, Zenon
  <2> QED BY <2>3
<1>2. ASSUME NEW k \in 1..n, k - 1 \in S PROVE k \in S
  <2>1. g[1..(k - 1)] \in Acc /\ g[1..(k - 1)] = h[1..(k - 1)]
    BY <1>2
  <2>2. g[1..k] = step[g[1..(k - 1)], k] /\ h[1..k] = step[h[1..(k - 1)], k]
    BY <2>1 DEF Turns
  <2>3. <<g[1..(k - 1)], k>> \in Acc \X (1..n)
    BY <2>1
  <2>4. step[g[1..(k - 1)], k] \in Acc
    BY <2>3 DEF IsStep
  <2>5. g[1..k] \in Acc /\ g[1..k] = h[1..k]
    BY <2>1, <2>2, <2>4
  <2> QED BY <2>5
<1>3. n \in S
  <2> HIDE DEF S
  <2> QED BY <1>1, <1>2, UpTo
<1> QED BY <1>3
-----------------------------------------------------------------------------
(***************************************************************************)
(* _filter_noise.                                                          *)
(***************************************************************************)
LEMMA AcceptTyped ==
    ASSUME NEW C, NEW a \in Seq(C), NEW i \in C
    PROVE  Accept(a, i) \in Seq(C)
BY DEF Accept

\* The turns of the loop of _filter_noise, as a function of what it holds and the index.
NoiseTurn(C, t) == [p \in Seq(C) \X (1..Len(t)) |-> Accept(p[1], t[p[2]])]

NoiseFix(h, t) ==
    h = [d \in SUBSET DOMAIN t |->
            IF d = {} THEN <<>> ELSE Accept(h[d \ {Max(d)}], t[Max(d)])]

LEMMA NoiseTurnIs ==
    ASSUME NEW C, NEW t \in Seq(C)
    PROVE  /\ Len(t) \in Nat /\ DOMAIN t = 1..Len(t)
           /\ <<>> \in Seq(C)
           /\ IsStep(NoiseTurn(C, t), Len(t), Seq(C))
           /\ \A a \in Seq(C) : \A k \in 1..Len(t) : NoiseTurn(C, t)[<<a, k>>] = Accept(a, t[k])
<1> DEFINE Acc == Seq(C)
           f == NoiseTurn(C, t)
<1>1. Len(t) \in Nat /\ DOMAIN t = 1..Len(t) /\ \A k \in 1..Len(t) : t[k] \in C
  OBVIOUS
<1>2. <<>> \in Acc
  OBVIOUS
<1>3. ASSUME NEW a \in Acc, NEW k \in 1..Len(t) PROVE Accept(a, t[k]) \in Acc
  BY <1>1, AcceptTyped
<1> HIDE DEF Acc
<1>4. ASSUME NEW p \in Acc \X (1..Len(t)) PROVE Accept(p[1], t[p[2]]) \in Acc
  BY <1>3
<1>5. f = [p \in Acc \X (1..Len(t)) |-> Accept(p[1], t[p[2]])]
  BY DEF f, NoiseTurn, Acc
<1> HIDE DEF f
<1>6. IsStep(f, Len(t), Acc)
  BY <1>4, <1>5 DEF IsStep
<1>7. ASSUME NEW a \in Acc, NEW k \in 1..Len(t) PROVE f[<<a, k>>] = Accept(a, t[k])
  BY <1>5
<1> QED BY <1>1, <1>2, <1>6, <1>7 DEF Acc, f

LEMMA NoiseFolds ==
    ASSUME NEW C, NEW t \in Seq(C)
    PROVE  \E h : /\ FilterNoise(t) = h[1..Len(t)]
                  /\ Turns(h, Len(t), Seq(C), <<>>, NoiseTurn(C, t))
<1> DEFINE Acc == Seq(C)
           f == NoiseTurn(C, t)
           n == Len(t)
<1>1. n \in Nat /\ DOMAIN t = 1..n
  OBVIOUS
<1>2. /\ <<>> \in Acc /\ IsStep(f, n, Acc)
      /\ \A a \in Acc : \A k \in 1..n : f[<<a, k>>] = Accept(a, t[k])
  BY NoiseTurnIs
<1> HIDE DEF Acc, f, n
<1>3. \E h : NoiseFix(h, t)
  <2>1. PICK h \in [SUBSET (1..n) -> Acc] : Folds(h, n, <<>>, f)
    <3> DEFINE base == <<>>
    <3>1. n \in Nat /\ base \in Acc /\ IsStep(f, n, Acc)
      BY <1>1, <1>2
    <3> HIDE DEF base
    <3>2. \E h \in [SUBSET (1..n) -> Acc] : Folds(h, n, base, f)
      BY <3>1, FoldExists
    <3> QED BY <3>2 DEF base
  <2>2. ASSUME NEW d \in SUBSET (1..n)
        PROVE  h[d] = IF d = {} THEN <<>> ELSE Accept(h[d \ {Max(d)}], t[Max(d)])
    <3>1. CASE d = {}
      BY <2>1, <3>1 DEF Folds
    <3>2. CASE d # {}
      <4>1. Max(d) \in 1..n
        BY <1>1, <3>2, MaxIs
      <4>2. h[d \ {Max(d)}] \in Acc
        OBVIOUS
      <4>3. h[d] = f[<<h[d \ {Max(d)}], Max(d)>>]
        BY <2>1, <3>2 DEF Folds
      <4>4. f[<<h[d \ {Max(d)}], Max(d)>>] = Accept(h[d \ {Max(d)}], t[Max(d)])
        BY <1>2, <4>1, <4>2
      <4> QED BY <3>2, <4>3, <4>4, Zenon
    <3> QED BY <3>1, <3>2, Zenon
  <2> DEFINE r == [d \in SUBSET (1..n) |->
                IF d = {} THEN <<>> ELSE Accept(h[d \ {Max(d)}], t[Max(d)])]
  <2>3. h = r
    <3>1. \A d \in SUBSET (1..n) : h[d] = r[d]
      BY <2>2, Zenon
    <3>2. DOMAIN h = SUBSET (1..n) /\ h = [d \in DOMAIN h |-> h[d]]
      OBVIOUS
    <3>3. DOMAIN r = SUBSET (1..n) /\ r = [d \in DOMAIN r |-> r[d]]
      BY Zenon
    <3> HIDE DEF r
    <3> QED BY <3>1, <3>2, <3>3
  <2> QED BY <1>1, <2>3, Zenon DEF NoiseFix
<1> DEFINE c == CHOOSE h : NoiseFix(h, t)
<1>4. NoiseFix(c, t)
  BY <1>3, Zenon
<1>5. FilterNoise(t) = c[1..n]
  BY <1>1 DEF FilterNoise, FoldLeft, MapThenFoldSet, NoiseFix
<1> HIDE DEF c
<1>6. c[{}] = <<>>
  BY <1>4 DEF NoiseFix
<1>7. ASSUME NEW k \in 1..n, c[1..(k - 1)] \in Acc PROVE c[1..k] = f[c[1..(k - 1)], k]
  <2>1. 1..k \in SUBSET (1..n) /\ k \in Nat \ {0}
    BY <1>1
  <2>2. Max(1..k) = k /\ (1..k) \ {k} = 1..(k - 1) /\ 1..k # {}
    BY <2>1, MaxUpTo
  <2>3. c[1..k] = IF 1..k = {} THEN <<>> ELSE Accept(c[(1..k) \ {Max(1..k)}], t[Max(1..k)])
    <3> DEFINE d == 1..k
    <3>1. d \in SUBSET DOMAIN t
      BY <1>1, <2>1
    <3> HIDE DEF d
    <3>2. c[d] = IF d = {} THEN <<>> ELSE Accept(c[d \ {Max(d)}], t[Max(d)])
      BY <1>4, <3>1 DEF NoiseFix
    <3> QED BY <3>2, Zenon DEF d
  <2>4. c[1..k] = Accept(c[1..(k - 1)], t[k])
    BY <2>2, <2>3, Zenon
  <2>5. f[<<c[1..(k - 1)], k>>] = Accept(c[1..(k - 1)], t[k])
    BY <1>2, <1>7
  <2> QED BY <2>4, <2>5
<1>8. Turns(c, n, Acc, <<>>, f)
  BY <1>6, <1>7 DEF Turns
<1> QED BY <1>5, <1>8 DEF Acc, f, n

LEMMA NoiseTyped ==
    ASSUME NEW C, NEW t \in Seq(C)
    PROVE  FilterNoise(t) \in Seq(C)
<1> DEFINE Acc == Seq(C)
           f == NoiseTurn(C, t)
           n == Len(t)
           base == <<>>
<1>1. n \in Nat /\ base \in Acc /\ IsStep(f, n, Acc)
  BY NoiseTurnIs
<1>2. PICK h : FilterNoise(t) = h[1..n] /\ Turns(h, n, Acc, base, f)
  BY NoiseFolds
<1> HIDE DEF Acc, f, n, base
<1>3. h[1..n] \in Acc
  BY <1>1, <1>2, TurnsAgree
<1> QED BY <1>2, <1>3 DEF Acc

\* For an input with one more item FilterNoise takes one turn more.
LEMMA NoiseGoes ==
    ASSUME NEW t \in Seq(Candidates), NEW i \in Candidates
    PROVE  FilterNoise(Append(t, i)) = Accept(FilterNoise(t), i)
<1> DEFINE n == Len(t)
           u == Append(t, i)
           Acc == Seq(Candidates)
           f == NoiseTurn(Candidates, t)
           e == NoiseTurn(Candidates, u)
<1>1. /\ n \in Nat /\ u \in Seq(Candidates) /\ Len(u) = n + 1 /\ u[n + 1] = i
      /\ \A k \in 1..n : k \in 1..(n + 1) /\ u[k] = t[k]
  OBVIOUS
<1>2. /\ <<>> \in Acc /\ IsStep(f, n, Acc)
      /\ \A a \in Acc : \A k \in 1..n : f[<<a, k>>] = Accept(a, t[k])
  BY NoiseTurnIs
<1>3. PICK h : FilterNoise(t) = h[1..n] /\ Turns(h, n, Acc, <<>>, f)
  BY NoiseFolds
<1> HIDE DEF u
<1>4. \A a \in Acc : \A k \in 1..(n + 1) : e[<<a, k>>] = Accept(a, u[k])
  <2>1. u \in Seq(Candidates)
    BY <1>1
  <2>2. \A a \in Seq(Candidates) : \A k \in 1..Len(u) : e[<<a, k>>] = Accept(a, u[k])
    BY <2>1, NoiseTurnIs, Zenon
  <2> QED BY <1>1, <2>2
<1>5. PICK g : FilterNoise(u) = g[1..(n + 1)] /\ Turns(g, n + 1, Acc, <<>>, e)
  BY <1>1, NoiseFolds
<1> HIDE DEF n, Acc, f, e
<1>6. Turns(g, n, Acc, <<>>, f)
  <2>1. g[{}] = <<>>
    BY <1>5 DEF Turns
  <2>2. ASSUME NEW k \in 1..n, g[1..(k - 1)] \in Acc PROVE g[1..k] = f[g[1..(k - 1)], k]
    <3>1. k \in 1..(n + 1) /\ u[k] = t[k]
      BY <1>1
    <3>2. g[1..k] = e[<<g[1..(k - 1)], k>>]
      BY <1>5, <2>2, <3>1 DEF Turns
    <3>3. e[<<g[1..(k - 1)], k>>] = Accept(g[1..(k - 1)], u[k])
      BY <1>4, <2>2, <3>1
    <3>4. f[<<g[1..(k - 1)], k>>] = Accept(g[1..(k - 1)], t[k])
      BY <1>2, <2>2
    <3> QED BY <3>1, <3>2, <3>3, <3>4
  <2> QED BY <2>1, <2>2 DEF Turns
<1>7. g[1..n] \in Acc /\ g[1..n] = h[1..n]
  <2> DEFINE base == <<>>
  <2>1. n \in Nat /\ base \in Acc /\ IsStep(f, n, Acc)
    BY <1>1, <1>2
  <2>2. Turns(g, n, Acc, base, f) /\ Turns(h, n, Acc, base, f)
    BY <1>3, <1>6
  <2> HIDE DEF base
  <2> QED BY <2>1, <2>2, TurnsAgree
<1>8. g[1..(n + 1)] = Accept(h[1..n], i)
  <2>1. n + 1 \in 1..(n + 1) /\ (n + 1) - 1 = n
    BY <1>1
  <2>2. g[1..(n + 1)] = e[<<g[1..n], n + 1>>]
    BY <1>5, <1>7, <2>1 DEF Turns
  <2>3. e[<<g[1..n], n + 1>>] = Accept(g[1..n], u[n + 1])
    BY <1>4, <1>7, <2>1
  <2> QED BY <1>1, <1>7, <2>2, <2>3
<1> QED BY <1>3, <1>5, <1>8 DEF u

LEMMA NoiseEmpty == FilterNoise(<<>>) = <<>>
<1>1. <<>> \in Seq(Candidates) /\ Len(<<>>) = 0 /\ 1..0 = {}
  OBVIOUS
<1>2. PICK h : FilterNoise(<<>>) = h[1..Len(<<>>)] /\ Turns(h, Len(<<>>), Seq(Candidates), <<>>, NoiseTurn(Candidates, <<>>))
  BY <1>1, NoiseFolds
<1>3. h[{}] = <<>>
  BY <1>2, Zenon DEF Turns
<1>4. FilterNoise(<<>>) = h[{}]
  BY <1>1, <1>2, Zenon
<1> QED BY <1>3, <1>4, Zenon

LEMMA MembersOfLonger ==
    ASSUME NEW S, NEW s \in Seq(S), NEW i \in S
    PROVE  /\ Append(s, i) \in Seq(S)
           /\ ToSet(Append(s, i)) = ToSet(s) \cup {i}
           /\ DOMAIN Append(s, i) = DOMAIN s \cup {Len(s) + 1}
           /\ \A k \in DOMAIN s : Append(s, i)[k] = s[k] /\ s[k] \in ToSet(s) /\ k # Len(s) + 1
           /\ Append(s, i)[Len(s) + 1] = i
<1> DEFINE u == Append(s, i)
           n == Len(s)
<1>1. /\ n \in Nat /\ DOMAIN s = 1..n
      /\ u \in Seq(S) /\ DOMAIN u = 1..(n + 1)
      /\ u[n + 1] = i
      /\ \A k \in 1..n : u[k] = s[k]
  OBVIOUS
<1>2. 1..(n + 1) = (1..n) \cup {n + 1} /\ \A k \in 1..n : k # n + 1
  BY <1>1
<1> HIDE DEF u, n
<1>3. ToSet(u) = ToSet(s) \cup {i}
  BY <1>1, <1>2 DEF ToSet
<1>4. \A k \in DOMAIN s : s[k] \in ToSet(s)
  BY DEF ToSet
<1> QED BY <1>1, <1>2, <1>3, <1>4 DEF u, n

\* What NoiseFilterIsMaximal says of an input.
Maximal(s, kept) ==
    /\ \A m, n \in DOMAIN kept : m # n => <<kept[n].title, kept[m].title>> \notin Similar
    /\ \A i \in ToSet(s) \ ToSet(kept) : Passes(i) => Repeats(i, kept)

LEMMA AcceptKeepsMaximal ==
    ASSUME NEW s \in Seq(Candidates), NEW kept \in Seq(Candidates), NEW i \in Candidates,
           Maximal(s, kept)
    PROVE  Maximal(Append(s, i), Accept(kept, i))
<1>1. \A a, b : <<a, b>> \in Similar => <<b, a>> \in Similar
  BY CurationAssumption DEF CurationAssumption
<1>2. ToSet(Append(s, i)) = ToSet(s) \cup {i}
  BY MembersOfLonger
<1>3. CASE Passes(i) /\ ~Repeats(i, kept)
  <2> DEFINE u == Append(kept, i)
             new == Len(kept) + 1
  <2>1. /\ ToSet(u) = ToSet(kept) \cup {i}
        /\ DOMAIN u = DOMAIN kept \cup {new}
        /\ \A k \in DOMAIN kept : u[k] = kept[k] /\ kept[k] \in ToSet(kept) /\ k # new
        /\ u[new] = i
    BY MembersOfLonger
  <2> HIDE DEF u, new
  <2>2. \A j \in ToSet(kept) :
            <<i.title, j.title>> \notin Similar /\ <<j.title, i.title>> \notin Similar
    BY <1>1, <1>3 DEF Repeats
  <2>3. ASSUME NEW m \in DOMAIN u, NEW n \in DOMAIN u, m # n
        PROVE  <<u[n].title, u[m].title>> \notin Similar
    <3>1. CASE m \in DOMAIN kept /\ n \in DOMAIN kept
      BY <2>1, <2>3, <3>1 DEF Maximal
    <3>2. CASE m = new /\ n \in DOMAIN kept
      BY <2>1, <2>2, <3>2
    <3>3. CASE n = new /\ m \in DOMAIN kept
      BY <2>1, <2>2, <3>3
    <3> QED BY <2>1, <2>3, <3>1, <3>2, <3>3
  <2>4. ASSUME NEW j \in ToSet(Append(s, i)) \ ToSet(u), Passes(j) PROVE Repeats(j, u)
    <3>1. j \in ToSet(s) \ ToSet(kept)
      BY <1>2, <2>1
    <3>2. Repeats(j, kept)
      BY <2>4, <3>1 DEF Maximal
    <3> QED BY <2>1, <3>2 DEF Repeats
  <2>5. Accept(kept, i) = u
    BY <1>3 DEF Accept, u
  <2> QED BY <2>3, <2>4, <2>5 DEF Maximal
<1>4. CASE ~(Passes(i) /\ ~Repeats(i, kept))
  <2>1. Accept(kept, i) = kept
    BY <1>4 DEF Accept
  <2> QED BY <1>2, <1>4, <2>1 DEF Maximal
<1> QED BY <1>3, <1>4

InputOK == items \in Seq(Candidates)

\* The input grows by candidates.
LEMMA InputIsSequence == Spec => []InputOK
<1>1. Init => InputOK
  BY DEF Init, InputOK
<1>2. InputOK /\ [Next]_items => InputOK'
  BY DEF Next, Extend, InputOK
<1> QED BY <1>1, <1>2, PTL DEF Spec

\* Whatever the items are and however many, _filter_noise keeps no two similar
\* titles, and drops an item that passes its thresholds only for a similar one
\* it keeps.
THEOREM NoiseFilter == Spec => []NoiseFilterIsMaximal
<1> DEFINE Inv == Maximal(items, FilterNoise(items))
<1>1. Init => Inv
  <2> SUFFICES ASSUME Init PROVE Inv
    OBVIOUS
  <2>1. items = <<>> /\ FilterNoise(items) = <<>>
    BY NoiseEmpty DEF Init
  <2>2. DOMAIN <<>> = {} /\ ToSet(<<>>) = {}
    BY DEF ToSet
  <2> QED BY <2>1, <2>2 DEF Maximal
<1>2. Inv /\ InputOK /\ [Next]_items => Inv'
  <2> SUFFICES ASSUME Inv, items \in Seq(Candidates), [Next]_items PROVE Inv'
    BY DEF InputOK
  <2>1. CASE UNCHANGED items
    BY <2>1
  <2>2. ASSUME NEW i \in Candidates, Extend(i) PROVE Inv'
    <3>1. items' = Append(items, i)
      BY <2>2 DEF Extend
    <3>2. FilterNoise(items) \in Seq(Candidates) /\ FilterNoise(items') = Accept(FilterNoise(items), i)
      BY <3>1, NoiseGoes, NoiseTyped
    <3>3. Maximal(items', FilterNoise(items'))
      BY <3>1, <3>2, AcceptKeepsMaximal
    <3> QED BY <3>3
  <2> QED BY <2>1, <2>2 DEF Next
<1>3. Inv => NoiseFilterIsMaximal
  BY DEF Maximal, NoiseFilterIsMaximal
<1> HIDE DEF Inv
<1> QED BY <1>1, <1>2, <1>3, InputIsSequence, PTL DEF Spec

\* SelectInSeq finds the first element that passes its test.
LEMMA FoundAt ==
    ASSUME NEW I \in SUBSET (Nat \ {0}), NEW k, k = IF I # {} THEN Min(I) ELSE 0
    PROVE  \/ I = {} /\ k = 0
           \/ k \in I /\ k # 0 /\ \A m \in I : k <= m
<1>1. CASE I = {}
  BY <1>1
<1>2. CASE I # {}
  <2>1. I \in SUBSET Nat
    OBVIOUS
  <2>2. Min(I) \in I /\ \A m \in I : Min(I) <= m
    BY <1>2, <2>1, MinIs
  <2> QED BY <1>2, <2>2
<1> QED BY <1>1, <1>2

LEMMA MembersOfJoin ==
    ASSUME NEW S, NEW s \in Seq(S), NEW t \in Seq(S)
    PROVE  /\ s \o t \in Seq(S)
           /\ Len(s \o t) = Len(s) + Len(t)
           /\ ToSet(s \o t) = ToSet(s) \cup ToSet(t)
           /\ \A k \in DOMAIN s : k \in DOMAIN (s \o t) /\ (s \o t)[k] = s[k]
           /\ \A k \in DOMAIN t : /\ Len(s) + k \in DOMAIN (s \o t) /\ Len(s) + k \notin DOMAIN s
                                  /\ (s \o t)[Len(s) + k] = t[k]
           /\ \A k \in DOMAIN (s \o t) :
                 k \in DOMAIN s \/ \E m \in DOMAIN t : k = Len(s) + m
<1> DEFINE u == s \o t
           m == Len(s)
           n == Len(t)
<1>1. /\ m \in Nat /\ DOMAIN s = 1..m
      /\ n \in Nat /\ DOMAIN t = 1..n
      /\ u \in Seq(S) /\ Len(u) = m + n /\ DOMAIN u = 1..(m + n)
      /\ \A k \in 1..m : u[k] = s[k]
  OBVIOUS
<1>2. \A k \in 1..n : u[m + k] = t[k]
  OBVIOUS
<1> HIDE DEF u, m, n
<1>3. \A k \in 1..m : k \in 1..(m + n)
  BY <1>1
<1>4. \A k \in 1..n : m + k \in 1..(m + n) /\ m + k \notin 1..m
  BY <1>1
<1>5. ASSUME NEW k \in 1..(m + n), k \notin 1..m PROVE \E l \in 1..n : k = m + l
  <2>1. k - m \in 1..n /\ k = m + (k - m)
    BY <1>1, <1>5
  <2> QED BY <2>1
<1>6. ToSet(u) \subseteq ToSet(s) \cup ToSet(t)
  <2>1. ASSUME NEW k \in 1..(m + n) PROVE u[k] \in ToSet(s) \cup ToSet(t)
    BY <1>1, <1>2, <1>5 DEF ToSet
  <2> QED BY <1>1, <2>1 DEF ToSet
<1>7. ToSet(s) \subseteq ToSet(u) /\ ToSet(t) \subseteq ToSet(u)
  BY <1>1, <1>2, <1>3, <1>4 DEF ToSet
<1> QED BY <1>1, <1>2, <1>3, <1>4, <1>5, <1>6, <1>7 DEF u, m, n

\* Replacing an element leaves the others where they are.
LEMMA MembersOfReplaced ==
    ASSUME NEW S, NEW s \in Seq(S), NEW n \in DOMAIN s, NEW i \in S
    PROVE  /\ ReplaceAt(s, n, i) \in Seq(S)
           /\ DOMAIN ReplaceAt(s, n, i) = DOMAIN s
           /\ ReplaceAt(s, n, i)[n] = i
           /\ \A k \in DOMAIN s \ {n} : ReplaceAt(s, n, i)[k] = s[k]
BY DEF ReplaceAt

\* Removing an element moves those behind it.
LEMMA MembersOfRemoved ==
    ASSUME NEW S, NEW s \in Seq(S), NEW n \in DOMAIN s
    PROVE  /\ RemoveAt(s, n) \in Seq(S)
           /\ Len(RemoveAt(s, n)) = Len(s) - 1
           /\ ToSet(s) = ToSet(RemoveAt(s, n)) \cup {s[n]}
           /\ \A k \in 1..(n - 1) : RemoveAt(s, n)[k] = s[k]
           /\ \A k \in n..(Len(s) - 1) : RemoveAt(s, n)[k] = s[k + 1]
<1> DEFINE m == Len(s)
           a == SubSeq(s, 1, n - 1)
           b == SubSeq(s, n + 1, m)
<1>1. /\ m \in Nat /\ DOMAIN s = 1..m /\ n \in 1..m
      /\ \A k \in 1..m : s[k] \in S
  OBVIOUS
<1>2. /\ a \in Seq(S) /\ Len(a) = n - 1 /\ \A k \in 1..(n - 1) : a[k] = s[k]
  <2>1. \A k \in 1..(n - 1) : s[k] \in S
    BY <1>1
  <2>2. 1 \in Int /\ n - 1 \in Int
    BY <1>1
  <2>3. /\ a \in Seq(S) /\ Len(a) = IF 1 <= n - 1 THEN (n - 1) - 1 + 1 ELSE 0
        /\ \A k \in 1..((n - 1) - 1 + 1) : a[k] = s[1 + k - 1]
    BY <2>1, <2>2, SubSeqProperties
  <2> HIDE DEF a, m
  <2>4. (n - 1) - 1 + 1 = n - 1 /\ \A k \in 1..(n - 1) : 1 + k - 1 = k
    BY <1>1
  <2> QED BY <1>1, <2>3, <2>4
<1>3. /\ b \in Seq(S) /\ Len(b) = m - n /\ \A k \in 1..(m - n) : b[k] = s[n + k]
  <2>1. \A k \in (n + 1)..m : s[k] \in S
    BY <1>1
  <2>2. n + 1 \in Int /\ m \in Int
    BY <1>1
  <2>3. /\ b \in Seq(S) /\ Len(b) = IF n + 1 <= m THEN m - (n + 1) + 1 ELSE 0
        /\ \A k \in 1..(m - (n + 1) + 1) : b[k] = s[(n + 1) + k - 1]
    BY <2>1, <2>2, SubSeqProperties
  <2> HIDE DEF b, m
  <2>4. m - (n + 1) + 1 = m - n /\ \A k \in 1..(m - n) : (n + 1) + k - 1 = n + k
    BY <1>1
  <2> QED BY <1>1, <2>3, <2>4
<1> HIDE DEF a, b
<1>4. RemoveAt(s, n) = a \o b
  BY DEF RemoveAt, a, b, m
<1>5. /\ a \o b \in Seq(S) /\ Len(a \o b) = Len(a) + Len(b)
      /\ ToSet(a \o b) = ToSet(a) \cup ToSet(b)
      /\ \A k \in DOMAIN a : (a \o b)[k] = a[k]
      /\ \A k \in DOMAIN b : (a \o b)[Len(a) + k] = b[k]
  <2>1. a \in Seq(S) /\ b \in Seq(S)
    BY <1>2, <1>3
  <2> QED BY <2>1, MembersOfJoin
<1> HIDE DEF m
<1>6. ToSet(a) = {s[k] : k \in 1..(n - 1)}
  <2>1. DOMAIN a = 1..(n - 1)
    BY <1>1, <1>2
  <2> QED BY <1>2, <2>1 DEF ToSet
<1>7. ToSet(b) = {s[k] : k \in (n + 1)..m}
  <2>1. DOMAIN b = 1..(m - n)
    BY <1>1, <1>3
  <2>2. ASSUME NEW k \in (n + 1)..m PROVE s[k] = b[k - n] /\ k - n \in 1..(m - n)
    <3>1. k - n \in 1..(m - n) /\ n + (k - n) = k
      BY <1>1
    <3> QED BY <1>3, <3>1
  <2>3. ASSUME NEW k \in 1..(m - n) PROVE b[k] = s[n + k] /\ n + k \in (n + 1)..m
    BY <1>1, <1>3
  <2>4. ToSet(b) = {b[k] : k \in 1..(m - n)}
    BY <2>1 DEF ToSet
  <2>5. {b[k] : k \in 1..(m - n)} \subseteq {s[k] : k \in (n + 1)..m}
    BY <2>3
  <2>6. {s[k] : k \in (n + 1)..m} \subseteq {b[k] : k \in 1..(m - n)}
    BY <2>2
  <2> QED BY <2>4, <2>5, <2>6
<1>8. 1..m = (1..(n - 1)) \cup ((n + 1)..m) \cup {n}
  BY <1>1
<1>9. ToSet(s) = {s[k] : k \in 1..m}
  BY <1>1 DEF ToSet
<1>10. ToSet(s) = (ToSet(a) \cup ToSet(b)) \cup {s[n]}
  BY <1>6, <1>7, <1>8, <1>9
<1>11. Len(a) + Len(b) = m - 1
  BY <1>1, <1>2, <1>3
<1>12. \A k \in 1..(n - 1) : (a \o b)[k] = s[k]
  <2>1. DOMAIN a = 1..(n - 1)
    BY <1>1, <1>2
  <2> QED BY <1>2, <1>5, <2>1
<1>13. ASSUME NEW k \in n..(m - 1) PROVE (a \o b)[k] = s[k + 1]
  <2>1. DOMAIN b = 1..(m - n) /\ Len(a) = n - 1
    BY <1>1, <1>2, <1>3
  <2> DEFINE l == k - n + 1
  <2>2. l \in 1..(m - n) /\ Len(a) + l = k /\ n + l = k + 1
    BY <1>1, <2>1
  <2> HIDE DEF l
  <2>3. (a \o b)[Len(a) + l] = b[l] /\ b[l] = s[n + l]
    BY <1>3, <1>5, <2>1, <2>2
  <2> QED BY <2>2, <2>3
<1> QED BY <1>4, <1>5, <1>10, <1>11, <1>12, <1>13 DEF m

-----------------------------------------------------------------------------
(***************************************************************************)
(* deduplicate_items.                                                      *)
(***************************************************************************)
LEMMA KeepFirstTyped ==
    ASSUME NEW a \in Seq(Candidates), NEW i \in Candidates
    PROVE  KeepFirst(a, i) \in Seq(Candidates)
BY DEF KeepFirst

\* What Put does to url_map.
PutAppends(map, i) ==
    /\ \A k \in DOMAIN map : map[k].url # i.url
    /\ Put(map, i) = Append(map, i)

PutReplaces(map, i, k) ==
    /\ map[k].url = i.url /\ i.score > map[k].score
    /\ Put(map, i) = ReplaceAt(map, k, i)

PutKeeps(map, i, k) ==
    /\ map[k].url = i.url /\ ~(i.score > map[k].score)
    /\ Put(map, i) = map

LEMMA PutIs ==
    ASSUME NEW map \in Seq(Candidates), NEW i \in Candidates
    PROVE  \/ PutAppends(map, i)
           \/ \E k \in DOMAIN map : PutReplaces(map, i, k) \/ PutKeeps(map, i, k)
<1> DEFINE I == {k \in 1..Len(map) : map[k].url = i.url}
           n == IF I # {} THEN Min(I) ELSE 0
<1>1. DOMAIN map = 1..Len(map) /\ I \in SUBSET (Nat \ {0})
  OBVIOUS
<1>2. SelectInSeq(map, LAMBDA j : j.url = i.url) = n
  BY DEF SelectInSeq
<1>3. Put(map, i) = IF n = 0 THEN Append(map, i)
                    ELSE IF i.score > map[n].score THEN ReplaceAt(map, n, i) ELSE map
  BY <1>2 DEF Put
<1>4. (I = {} /\ n = 0) \/ (n \in I /\ n # 0)
  <2> HIDE DEF I
  <2> QED BY <1>1, FoundAt
<1> HIDE DEF n
<1> QED BY <1>1, <1>3, <1>4 DEF PutAppends, PutReplaces, PutKeeps

Pass2 == [map : Seq(Candidates), noUrl : Seq(Candidates)]

LEMMA PutTyped ==
    ASSUME NEW map \in Seq(Candidates), NEW i \in Candidates
    PROVE  Put(map, i) \in Seq(Candidates)
<1>1. CASE PutAppends(map, i)
  BY <1>1 DEF PutAppends
<1>2. ASSUME NEW k \in DOMAIN map, PutReplaces(map, i, k) \/ PutKeeps(map, i, k)
      PROVE  Put(map, i) \in Seq(Candidates)
  <2>1. ReplaceAt(map, k, i) \in Seq(Candidates)
    BY MembersOfReplaced
  <2> QED BY <1>2, <2>1 DEF PutReplaces, PutKeeps
<1> QED BY <1>1, <1>2, PutIs

LEMMA PlaceIs ==
    ASSUME NEW a \in Pass2, NEW i \in Candidates
    PROVE  /\ a.map \in Seq(Candidates) /\ a.noUrl \in Seq(Candidates)
           /\ Place(a, i).map = IF i.url = NoUrl THEN a.map ELSE Put(a.map, i)
           /\ Place(a, i).noUrl = IF i.url = NoUrl THEN Append(a.noUrl, i) ELSE a.noUrl
           /\ Place(a, i) \in Pass2
<1> DEFINE seqs == Seq(Candidates)
<1>1. a \in [map : seqs, noUrl : seqs]
  BY DEF Pass2
<1>2. Append(a.noUrl, i) \in seqs
  BY <1>1
<1>3. Put(a.map, i) \in seqs
  BY <1>1, PutTyped
<1> HIDE DEF seqs
<1>4. CASE i.url = NoUrl
  <2>1. Place(a, i) = [a EXCEPT !.noUrl = Append(a.noUrl, i)]
    BY <1>4 DEF Place
  <2> DEFINE more == Append(a.noUrl, i)
  <2> HIDE DEF more
  <2>2. [a EXCEPT !.noUrl = more].map = a.map /\ [a EXCEPT !.noUrl = more].noUrl = more
    BY <1>1
  <2>3. more \in seqs => [a EXCEPT !.noUrl = more] \in [map : seqs, noUrl : seqs]
    BY <1>1
  <2> QED BY <1>1, <1>2, <1>4, <2>1, <2>2, <2>3 DEF Pass2, seqs, more
<1>5. CASE i.url # NoUrl
  <2>1. Place(a, i) = [a EXCEPT !.map = Put(a.map, i)]
    BY <1>5 DEF Place
  <2> DEFINE more == Put(a.map, i)
  <2> HIDE DEF more
  <2>2. [a EXCEPT !.map = more].map = more /\ [a EXCEPT !.map = more].noUrl = a.noUrl
    BY <1>1
  <2>3. more \in seqs => [a EXCEPT !.map = more] \in [map : seqs, noUrl : seqs]
    BY <1>1
  <2> QED BY <1>1, <1>3, <1>5, <2>1, <2>2, <2>3 DEF Pass2, seqs, more
<1> QED BY <1>4, <1>5

\* The turns of the loop of the first pass, as a function of what it holds and the index.
FirstTurn(t) == [p \in Seq(Candidates) \X (1..Len(t)) |-> KeepFirst(p[1], t[p[2]])]

FirstFix(h, t) ==
    h = [d \in SUBSET DOMAIN t |->
            IF d = {} THEN <<>> ELSE KeepFirst(h[d \ {Max(d)}], t[Max(d)])]

LEMMA FirstTurnIs ==
    ASSUME NEW t \in Seq(Candidates)
    PROVE  /\ Len(t) \in Nat /\ DOMAIN t = 1..Len(t)
           /\ <<>> \in Seq(Candidates)
           /\ IsStep(FirstTurn(t), Len(t), Seq(Candidates))
           /\ \A a \in Seq(Candidates) : \A k \in 1..Len(t) : FirstTurn(t)[<<a, k>>] = KeepFirst(a, t[k])
<1> DEFINE Acc == Seq(Candidates)
           f == FirstTurn(t)
<1>1. Len(t) \in Nat /\ DOMAIN t = 1..Len(t) /\ \A k \in 1..Len(t) : t[k] \in Candidates
  OBVIOUS
<1>2. <<>> \in Acc
  OBVIOUS
<1>3. ASSUME NEW a \in Acc, NEW k \in 1..Len(t) PROVE KeepFirst(a, t[k]) \in Acc
  BY <1>1, KeepFirstTyped
<1> HIDE DEF Acc
<1>4. ASSUME NEW p \in Acc \X (1..Len(t)) PROVE KeepFirst(p[1], t[p[2]]) \in Acc
  BY <1>3
<1>5. f = [p \in Acc \X (1..Len(t)) |-> KeepFirst(p[1], t[p[2]])]
  BY DEF f, FirstTurn, Acc
<1> HIDE DEF f
<1>6. IsStep(f, Len(t), Acc)
  BY <1>4, <1>5 DEF IsStep
<1>7. ASSUME NEW a \in Acc, NEW k \in 1..Len(t) PROVE f[<<a, k>>] = KeepFirst(a, t[k])
  BY <1>5
<1> QED BY <1>1, <1>2, <1>6, <1>7 DEF Acc, f

LEMMA FirstFolds ==
    ASSUME NEW t \in Seq(Candidates)
    PROVE  \E h : /\ FirstPerContent(t) = h[1..Len(t)]
                  /\ Turns(h, Len(t), Seq(Candidates), <<>>, FirstTurn(t))
<1> DEFINE Acc == Seq(Candidates)
           f == FirstTurn(t)
           n == Len(t)
<1>1. n \in Nat /\ DOMAIN t = 1..n
  OBVIOUS
<1>2. /\ <<>> \in Acc /\ IsStep(f, n, Acc)
      /\ \A a \in Acc : \A k \in 1..n : f[<<a, k>>] = KeepFirst(a, t[k])
  BY FirstTurnIs
<1> HIDE DEF Acc, f, n
<1>3. \E h : FirstFix(h, t)
  <2>1. PICK h \in [SUBSET (1..n) -> Acc] : Folds(h, n, <<>>, f)
    <3> DEFINE base == <<>>
    <3>1. n \in Nat /\ base \in Acc /\ IsStep(f, n, Acc)
      BY <1>1, <1>2
    <3> HIDE DEF base
    <3>2. \E h \in [SUBSET (1..n) -> Acc] : Folds(h, n, base, f)
      BY <3>1, FoldExists
    <3> QED BY <3>2 DEF base
  <2>2. ASSUME NEW d \in SUBSET (1..n)
        PROVE  h[d] = IF d = {} THEN <<>> ELSE KeepFirst(h[d \ {Max(d)}], t[Max(d)])
    <3>1. CASE d = {}
      BY <2>1, <3>1 DEF Folds
    <3>2. CASE d # {}
      <4>1. Max(d) \in 1..n
        BY <1>1, <3>2, MaxIs
      <4>2. h[d \ {Max(d)}] \in Acc
        OBVIOUS
      <4>3. h[d] = f[<<h[d \ {Max(d)}], Max(d)>>]
        BY <2>1, <3>2 DEF Folds
      <4>4. f[<<h[d \ {Max(d)}], Max(d)>>] = KeepFirst(h[d \ {Max(d)}], t[Max(d)])
        BY <1>2, <4>1, <4>2
      <4> QED BY <3>2, <4>3, <4>4, Zenon
    <3> QED BY <3>1, <3>2, Zenon
  <2> DEFINE r == [d \in SUBSET (1..n) |->
                IF d = {} THEN <<>> ELSE KeepFirst(h[d \ {Max(d)}], t[Max(d)])]
  <2>3. h = r
    <3>1. \A d \in SUBSET (1..n) : h[d] = r[d]
      BY <2>2, Zenon
    <3>2. DOMAIN h = SUBSET (1..n) /\ h = [d \in DOMAIN h |-> h[d]]
      OBVIOUS
    <3>3. DOMAIN r = SUBSET (1..n) /\ r = [d \in DOMAIN r |-> r[d]]
      BY Zenon
    <3> HIDE DEF r
    <3> QED BY <3>1, <3>2, <3>3
  <2> QED BY <1>1, <2>3, Zenon DEF FirstFix
<1> DEFINE c == CHOOSE h : FirstFix(h, t)
<1>4. FirstFix(c, t)
  BY <1>3, Zenon
<1>5. FirstPerContent(t) = c[1..n]
  BY <1>1 DEF FirstPerContent, FoldLeft, MapThenFoldSet, FirstFix
<1> HIDE DEF c
<1>6. c[{}] = <<>>
  BY <1>4 DEF FirstFix
<1>7. ASSUME NEW k \in 1..n, c[1..(k - 1)] \in Acc PROVE c[1..k] = f[c[1..(k - 1)], k]
  <2>1. 1..k \in SUBSET (1..n) /\ k \in Nat \ {0}
    BY <1>1
  <2>2. Max(1..k) = k /\ (1..k) \ {k} = 1..(k - 1) /\ 1..k # {}
    BY <2>1, MaxUpTo
  <2>3. c[1..k] = IF 1..k = {} THEN <<>> ELSE KeepFirst(c[(1..k) \ {Max(1..k)}], t[Max(1..k)])
    <3> DEFINE d == 1..k
    <3>1. d \in SUBSET DOMAIN t
      BY <1>1, <2>1
    <3> HIDE DEF d
    <3>2. c[d] = IF d = {} THEN <<>> ELSE KeepFirst(c[d \ {Max(d)}], t[Max(d)])
      BY <1>4, <3>1 DEF FirstFix
    <3> QED BY <3>2, Zenon DEF d
  <2>4. c[1..k] = KeepFirst(c[1..(k - 1)], t[k])
    BY <2>2, <2>3, Zenon
  <2>5. f[<<c[1..(k - 1)], k>>] = KeepFirst(c[1..(k - 1)], t[k])
    BY <1>2, <1>7
  <2> QED BY <2>4, <2>5
<1>8. Turns(c, n, Acc, <<>>, f)
  BY <1>6, <1>7 DEF Turns
<1> QED BY <1>5, <1>8 DEF Acc, f, n

LEMMA FirstTyped ==
    ASSUME NEW t \in Seq(Candidates)
    PROVE  FirstPerContent(t) \in Seq(Candidates)
<1> DEFINE Acc == Seq(Candidates)
           f == FirstTurn(t)
           n == Len(t)
           base == <<>>
<1>1. n \in Nat /\ base \in Acc /\ IsStep(f, n, Acc)
  BY FirstTurnIs
<1>2. PICK h : FirstPerContent(t) = h[1..n] /\ Turns(h, n, Acc, base, f)
  BY FirstFolds
<1> HIDE DEF Acc, f, n, base
<1>3. h[1..n] \in Acc
  BY <1>1, <1>2, TurnsAgree
<1> QED BY <1>2, <1>3 DEF Acc

\* For an input with one more item FirstPerContent takes one turn more.
LEMMA FirstGoes ==
    ASSUME NEW t \in Seq(Candidates), NEW i \in Candidates
    PROVE  FirstPerContent(Append(t, i)) = KeepFirst(FirstPerContent(t), i)
<1> DEFINE n == Len(t)
           u == Append(t, i)
           Acc == Seq(Candidates)
           f == FirstTurn(t)
           e == FirstTurn(u)
<1>1. /\ n \in Nat /\ u \in Seq(Candidates) /\ Len(u) = n + 1 /\ u[n + 1] = i
      /\ \A k \in 1..n : k \in 1..(n + 1) /\ u[k] = t[k]
  OBVIOUS
<1>2. /\ <<>> \in Acc /\ IsStep(f, n, Acc)
      /\ \A a \in Acc : \A k \in 1..n : f[<<a, k>>] = KeepFirst(a, t[k])
  BY FirstTurnIs
<1>3. PICK h : FirstPerContent(t) = h[1..n] /\ Turns(h, n, Acc, <<>>, f)
  BY FirstFolds
<1> HIDE DEF u
<1>4. \A a \in Acc : \A k \in 1..(n + 1) : e[<<a, k>>] = KeepFirst(a, u[k])
  BY <1>1, FirstTurnIs
<1>5. PICK g : FirstPerContent(u) = g[1..(n + 1)] /\ Turns(g, n + 1, Acc, <<>>, e)
  BY <1>1, FirstFolds
<1> HIDE DEF n, Acc, f, e
<1>6. Turns(g, n, Acc, <<>>, f)
  <2>1. g[{}] = <<>>
    BY <1>5 DEF Turns
  <2>2. ASSUME NEW k \in 1..n, g[1..(k - 1)] \in Acc PROVE g[1..k] = f[g[1..(k - 1)], k]
    <3>1. k \in 1..(n + 1) /\ u[k] = t[k]
      BY <1>1
    <3>2. g[1..k] = e[<<g[1..(k - 1)], k>>]
      BY <1>5, <2>2, <3>1 DEF Turns
    <3>3. e[<<g[1..(k - 1)], k>>] = KeepFirst(g[1..(k - 1)], u[k])
      BY <1>4, <2>2, <3>1
    <3>4. f[<<g[1..(k - 1)], k>>] = KeepFirst(g[1..(k - 1)], t[k])
      BY <1>2, <2>2
    <3> QED BY <3>1, <3>2, <3>3, <3>4
  <2> QED BY <2>1, <2>2 DEF Turns
<1>7. g[1..n] \in Acc /\ g[1..n] = h[1..n]
  <2> DEFINE base == <<>>
  <2>1. n \in Nat /\ base \in Acc /\ IsStep(f, n, Acc)
    BY <1>1, <1>2
  <2>2. Turns(g, n, Acc, base, f) /\ Turns(h, n, Acc, base, f)
    BY <1>3, <1>6
  <2> HIDE DEF base
  <2> QED BY <2>1, <2>2, TurnsAgree
<1>8. g[1..(n + 1)] = KeepFirst(h[1..n], i)
  <2>1. n + 1 \in 1..(n + 1) /\ (n + 1) - 1 = n
    BY <1>1
  <2>2. g[1..(n + 1)] = e[<<g[1..n], n + 1>>]
    BY <1>5, <1>7, <2>1 DEF Turns
  <2>3. e[<<g[1..n], n + 1>>] = KeepFirst(g[1..n], u[n + 1])
    BY <1>4, <1>7, <2>1
  <2> QED BY <1>1, <1>7, <2>2, <2>3
<1> QED BY <1>3, <1>5, <1>8 DEF u

LEMMA FirstEmpty == FirstPerContent(<<>>) = <<>>
<1>1. <<>> \in Seq(Candidates) /\ Len(<<>>) = 0 /\ 1..0 = {}
  OBVIOUS
<1>2. PICK h : FirstPerContent(<<>>) = h[1..Len(<<>>)] /\ Turns(h, Len(<<>>), Seq(Candidates), <<>>, FirstTurn(<<>>))
  BY <1>1, FirstFolds
<1>3. h[{}] = <<>>
  BY <1>2, Zenon DEF Turns
<1>4. FirstPerContent(<<>>) = h[{}]
  BY <1>1, <1>2, Zenon
<1> QED BY <1>3, <1>4, Zenon

\* The turns of the loop of the second pass, as a function of what it holds and the index.
BestTurn(t) == [p \in Pass2 \X (1..Len(t)) |-> Place(p[1], t[p[2]])]

BestFix(h, t) ==
    h = [d \in SUBSET DOMAIN t |->
            IF d = {} THEN [map |-> <<>>, noUrl |-> <<>>] ELSE Place(h[d \ {Max(d)}], t[Max(d)])]

LEMMA BestTurnIs ==
    ASSUME NEW t \in Seq(Candidates)
    PROVE  /\ Len(t) \in Nat /\ DOMAIN t = 1..Len(t)
           /\ [map |-> <<>>, noUrl |-> <<>>] \in Pass2
           /\ IsStep(BestTurn(t), Len(t), Pass2)
           /\ \A a \in Pass2 : \A k \in 1..Len(t) : BestTurn(t)[<<a, k>>] = Place(a, t[k])
<1> DEFINE Acc == Pass2
           f == BestTurn(t)
<1>1. Len(t) \in Nat /\ DOMAIN t = 1..Len(t) /\ \A k \in 1..Len(t) : t[k] \in Candidates
  OBVIOUS
<1>2. [map |-> <<>>, noUrl |-> <<>>] \in Acc
  BY DEF Pass2
<1>3. ASSUME NEW a \in Acc, NEW k \in 1..Len(t) PROVE Place(a, t[k]) \in Acc
  BY <1>1, PlaceIs
<1> HIDE DEF Acc
<1>4. ASSUME NEW p \in Acc \X (1..Len(t)) PROVE Place(p[1], t[p[2]]) \in Acc
  BY <1>3
<1>5. f = [p \in Acc \X (1..Len(t)) |-> Place(p[1], t[p[2]])]
  BY DEF f, BestTurn, Acc
<1> HIDE DEF f
<1>6. IsStep(f, Len(t), Acc)
  BY <1>4, <1>5 DEF IsStep
<1>7. ASSUME NEW a \in Acc, NEW k \in 1..Len(t) PROVE f[<<a, k>>] = Place(a, t[k])
  BY <1>5
<1> QED BY <1>1, <1>2, <1>6, <1>7 DEF Acc, f

LEMMA BestFolds ==
    ASSUME NEW t \in Seq(Candidates)
    PROVE  \E h : /\ BestByUrl(t) = h[1..Len(t)]
                  /\ Turns(h, Len(t), Pass2, [map |-> <<>>, noUrl |-> <<>>], BestTurn(t))
<1> DEFINE Acc == Pass2
           f == BestTurn(t)
           n == Len(t)
<1>1. n \in Nat /\ DOMAIN t = 1..n
  OBVIOUS
<1>2. /\ [map |-> <<>>, noUrl |-> <<>>] \in Acc /\ IsStep(f, n, Acc)
      /\ \A a \in Acc : \A k \in 1..n : f[<<a, k>>] = Place(a, t[k])
  BY BestTurnIs
<1> HIDE DEF Acc, f, n
<1>3. \E h : BestFix(h, t)
  <2>1. PICK h \in [SUBSET (1..n) -> Acc] : Folds(h, n, [map |-> <<>>, noUrl |-> <<>>], f)
    <3> DEFINE base == [map |-> <<>>, noUrl |-> <<>>]
    <3>1. n \in Nat /\ base \in Acc /\ IsStep(f, n, Acc)
      BY <1>1, <1>2
    <3> HIDE DEF base
    <3>2. \E h \in [SUBSET (1..n) -> Acc] : Folds(h, n, base, f)
      BY <3>1, FoldExists
    <3> QED BY <3>2 DEF base
  <2>2. ASSUME NEW d \in SUBSET (1..n)
        PROVE  h[d] = IF d = {} THEN [map |-> <<>>, noUrl |-> <<>>] ELSE Place(h[d \ {Max(d)}], t[Max(d)])
    <3>1. CASE d = {}
      BY <2>1, <3>1 DEF Folds
    <3>2. CASE d # {}
      <4>1. Max(d) \in 1..n
        BY <1>1, <3>2, MaxIs
      <4>2. h[d \ {Max(d)}] \in Acc
        OBVIOUS
      <4>3. h[d] = f[<<h[d \ {Max(d)}], Max(d)>>]
        BY <2>1, <3>2 DEF Folds
      <4>4. f[<<h[d \ {Max(d)}], Max(d)>>] = Place(h[d \ {Max(d)}], t[Max(d)])
        BY <1>2, <4>1, <4>2
      <4> QED BY <3>2, <4>3, <4>4, Zenon
    <3> QED BY <3>1, <3>2, Zenon
  <2> DEFINE r == [d \in SUBSET (1..n) |->
                IF d = {} THEN [map |-> <<>>, noUrl |-> <<>>] ELSE Place(h[d \ {Max(d)}], t[Max(d)])]
  <2>3. h = r
    <3>1. \A d \in SUBSET (1..n) : h[d] = r[d]
      BY <2>2, Zenon
    <3>2. DOMAIN h = SUBSET (1..n) /\ h = [d \in DOMAIN h |-> h[d]]
      OBVIOUS
    <3>3. DOMAIN r = SUBSET (1..n) /\ r = [d \in DOMAIN r |-> r[d]]
      BY Zenon
    <3> HIDE DEF r
    <3> QED BY <3>1, <3>2, <3>3
  <2> QED BY <1>1, <2>3, Zenon DEF BestFix
<1> DEFINE c == CHOOSE h : BestFix(h, t)
<1>4. BestFix(c, t)
  BY <1>3, Zenon
<1>5. BestByUrl(t) = c[1..n]
  BY <1>1 DEF BestByUrl, FoldLeft, MapThenFoldSet, BestFix
<1> HIDE DEF c
<1>6. c[{}] = [map |-> <<>>, noUrl |-> <<>>]
  BY <1>4 DEF BestFix
<1>7. ASSUME NEW k \in 1..n, c[1..(k - 1)] \in Acc PROVE c[1..k] = f[c[1..(k - 1)], k]
  <2>1. 1..k \in SUBSET (1..n) /\ k \in Nat \ {0}
    BY <1>1
  <2>2. Max(1..k) = k /\ (1..k) \ {k} = 1..(k - 1) /\ 1..k # {}
    BY <2>1, MaxUpTo
  <2>3. c[1..k] = IF 1..k = {} THEN [map |-> <<>>, noUrl |-> <<>>] ELSE Place(c[(1..k) \ {Max(1..k)}], t[Max(1..k)])
    <3> DEFINE d == 1..k
    <3>1. d \in SUBSET DOMAIN t
      BY <1>1, <2>1
    <3> HIDE DEF d
    <3>2. c[d] = IF d = {} THEN [map |-> <<>>, noUrl |-> <<>>] ELSE Place(c[d \ {Max(d)}], t[Max(d)])
      BY <1>4, <3>1 DEF BestFix
    <3> QED BY <3>2, Zenon DEF d
  <2>4. c[1..k] = Place(c[1..(k - 1)], t[k])
    BY <2>2, <2>3, Zenon
  <2>5. f[<<c[1..(k - 1)], k>>] = Place(c[1..(k - 1)], t[k])
    BY <1>2, <1>7
  <2> QED BY <2>4, <2>5
<1>8. Turns(c, n, Acc, [map |-> <<>>, noUrl |-> <<>>], f)
  BY <1>6, <1>7 DEF Turns
<1> QED BY <1>5, <1>8 DEF Acc, f, n

LEMMA BestTyped ==
    ASSUME NEW t \in Seq(Candidates)
    PROVE  BestByUrl(t) \in Pass2
<1> DEFINE Acc == Pass2
           f == BestTurn(t)
           n == Len(t)
           base == [map |-> <<>>, noUrl |-> <<>>]
<1>1. n \in Nat /\ base \in Acc /\ IsStep(f, n, Acc)
  BY BestTurnIs
<1>2. PICK h : BestByUrl(t) = h[1..n] /\ Turns(h, n, Acc, base, f)
  BY BestFolds
<1> HIDE DEF Acc, f, n, base
<1>3. h[1..n] \in Acc
  BY <1>1, <1>2, TurnsAgree
<1> QED BY <1>2, <1>3 DEF Acc

\* For an input with one more item BestByUrl takes one turn more.
LEMMA BestGoes ==
    ASSUME NEW t \in Seq(Candidates), NEW i \in Candidates
    PROVE  BestByUrl(Append(t, i)) = Place(BestByUrl(t), i)
<1> DEFINE n == Len(t)
           u == Append(t, i)
           Acc == Pass2
           f == BestTurn(t)
           e == BestTurn(u)
<1>1. /\ n \in Nat /\ u \in Seq(Candidates) /\ Len(u) = n + 1 /\ u[n + 1] = i
      /\ \A k \in 1..n : k \in 1..(n + 1) /\ u[k] = t[k]
  OBVIOUS
<1>2. /\ [map |-> <<>>, noUrl |-> <<>>] \in Acc /\ IsStep(f, n, Acc)
      /\ \A a \in Acc : \A k \in 1..n : f[<<a, k>>] = Place(a, t[k])
  BY BestTurnIs
<1>3. PICK h : BestByUrl(t) = h[1..n] /\ Turns(h, n, Acc, [map |-> <<>>, noUrl |-> <<>>], f)
  BY BestFolds
<1> HIDE DEF u
<1>4. \A a \in Acc : \A k \in 1..(n + 1) : e[<<a, k>>] = Place(a, u[k])
  BY <1>1, BestTurnIs
<1>5. PICK g : BestByUrl(u) = g[1..(n + 1)] /\ Turns(g, n + 1, Acc, [map |-> <<>>, noUrl |-> <<>>], e)
  BY <1>1, BestFolds
<1> HIDE DEF n, Acc, f, e
<1>6. Turns(g, n, Acc, [map |-> <<>>, noUrl |-> <<>>], f)
  <2>1. g[{}] = [map |-> <<>>, noUrl |-> <<>>]
    BY <1>5 DEF Turns
  <2>2. ASSUME NEW k \in 1..n, g[1..(k - 1)] \in Acc PROVE g[1..k] = f[g[1..(k - 1)], k]
    <3>1. k \in 1..(n + 1) /\ u[k] = t[k]
      BY <1>1
    <3>2. g[1..k] = e[<<g[1..(k - 1)], k>>]
      BY <1>5, <2>2, <3>1 DEF Turns
    <3>3. e[<<g[1..(k - 1)], k>>] = Place(g[1..(k - 1)], u[k])
      BY <1>4, <2>2, <3>1
    <3>4. f[<<g[1..(k - 1)], k>>] = Place(g[1..(k - 1)], t[k])
      BY <1>2, <2>2
    <3> QED BY <3>1, <3>2, <3>3, <3>4
  <2> QED BY <2>1, <2>2 DEF Turns
<1>7. g[1..n] \in Acc /\ g[1..n] = h[1..n]
  <2> DEFINE base == [map |-> <<>>, noUrl |-> <<>>]
  <2>1. n \in Nat /\ base \in Acc /\ IsStep(f, n, Acc)
    BY <1>1, <1>2
  <2>2. Turns(g, n, Acc, base, f) /\ Turns(h, n, Acc, base, f)
    BY <1>3, <1>6
  <2> HIDE DEF base
  <2> QED BY <2>1, <2>2, TurnsAgree
<1>8. g[1..(n + 1)] = Place(h[1..n], i)
  <2>1. n + 1 \in 1..(n + 1) /\ (n + 1) - 1 = n
    BY <1>1
  <2>2. g[1..(n + 1)] = e[<<g[1..n], n + 1>>]
    BY <1>5, <1>7, <2>1 DEF Turns
  <2>3. e[<<g[1..n], n + 1>>] = Place(g[1..n], u[n + 1])
    BY <1>4, <1>7, <2>1
  <2> QED BY <1>1, <1>7, <2>2, <2>3
<1> QED BY <1>3, <1>5, <1>8 DEF u

LEMMA BestEmpty == BestByUrl(<<>>) = [map |-> <<>>, noUrl |-> <<>>]
<1>1. <<>> \in Seq(Candidates) /\ Len(<<>>) = 0 /\ 1..0 = {}
  OBVIOUS
<1>2. PICK h : BestByUrl(<<>>) = h[1..Len(<<>>)] /\ Turns(h, Len(<<>>), Pass2, [map |-> <<>>, noUrl |-> <<>>], BestTurn(<<>>))
  BY <1>1, BestFolds
<1>3. h[{}] = [map |-> <<>>, noUrl |-> <<>>]
  BY <1>2, Zenon DEF Turns
<1>4. BestByUrl(<<>>) = h[{}]
  BY <1>1, <1>2, Zenon
<1> QED BY <1>3, <1>4, Zenon

LEMMA ScoresAreNumbers == \A i \in Candidates : i.score \in Nat
BY CurationAssumption DEF CurationAssumption

\* The first pass keeps one item for each content, whatever the input.
FirstOK(s, kept) ==
    /\ ToSet(kept) \subseteq ToSet(s)
    /\ \A m, n \in DOMAIN kept : SameContent(kept[m], kept[n]) => m = n
    /\ \A i \in ToSet(s) : \E j \in ToSet(kept) : SameContent(i, j)

\* url_map holds items with a url, one for each url, and none that is worse
\* than another of its url.
MapOK(kept, map) ==
    /\ \A k \in DOMAIN map : map[k].url # NoUrl /\ map[k] \in ToSet(kept)
    /\ \A m, n \in DOMAIN map : map[m].url = map[n].url => m = n
    /\ \A i \in ToSet(kept) : i.url # NoUrl =>
          \E k \in DOMAIN map : map[k].url = i.url /\ i.score <= map[k].score

NoUrlOK(kept, noUrl) ==
    /\ ToSet(noUrl) = {i \in ToSet(kept) : i.url = NoUrl}
    /\ \A m, n \in DOMAIN noUrl : noUrl[m] = noUrl[n] => m = n

LEMMA KeepFirstOK ==
    ASSUME NEW s \in Seq(Candidates), NEW kept \in Seq(Candidates), NEW i \in Candidates,
           FirstOK(s, kept)
    PROVE  FirstOK(Append(s, i), KeepFirst(kept, i))
<1>1. ToSet(Append(s, i)) = ToSet(s) \cup {i}
  BY MembersOfLonger
<1>2. CASE \E j \in ToSet(kept) : SameContent(i, j)
  <2>1. KeepFirst(kept, i) = kept
    BY <1>2 DEF KeepFirst
  <2> QED BY <1>1, <1>2, <2>1 DEF FirstOK
<1>3. CASE ~ \E j \in ToSet(kept) : SameContent(i, j)
  <2> DEFINE u == Append(kept, i)
             new == Len(kept) + 1
  <2>1. /\ ToSet(u) = ToSet(kept) \cup {i}
        /\ DOMAIN u = DOMAIN kept \cup {new}
        /\ \A k \in DOMAIN kept : u[k] = kept[k] /\ kept[k] \in ToSet(kept) /\ k # new
        /\ u[new] = i
    BY MembersOfLonger
  <2>2. KeepFirst(kept, i) = u
    BY <1>3 DEF KeepFirst
  <2> HIDE DEF u, new
  <2>3. ASSUME NEW m \in DOMAIN u, NEW n \in DOMAIN u, SameContent(u[m], u[n]) PROVE m = n
    <3>1. CASE m \in DOMAIN kept /\ n \in DOMAIN kept
      BY <2>1, <2>3, <3>1 DEF FirstOK
    <3>2. CASE m = new /\ n \in DOMAIN kept
      BY <1>3, <2>1, <2>3, <3>2
    <3>3. CASE n = new /\ m \in DOMAIN kept
      <4>1. SameContent(u[n], u[m])
        BY <2>3 DEF SameContent
      <4> QED BY <1>3, <2>1, <3>3, <4>1
    <3> QED BY <2>1, <3>1, <3>2, <3>3
  <2>4. \A j \in ToSet(s) \cup {i} : \E l \in ToSet(u) : SameContent(j, l)
    <3>1. SameContent(i, i)
      BY DEF SameContent
    <3> QED BY <2>1, <3>1 DEF FirstOK
  <2> QED BY <1>1, <2>1, <2>2, <2>3, <2>4 DEF FirstOK
<1> QED BY <1>2, <1>3

\* Put costs no url its place, and makes none worse.
LEMMA PutNeverHurts ==
    ASSUME NEW map \in Seq(Candidates), NEW i \in Candidates, NEW k \in DOMAIN map
    PROVE  \E m \in DOMAIN Put(map, i) :
              Put(map, i)[m].url = map[k].url /\ Put(map, i)[m].score >= map[k].score
<1>1. map[k] \in Candidates /\ map[k].score \in Nat /\ i.score \in Nat
  BY ScoresAreNumbers
<1>2. map[k].score >= map[k].score
  BY <1>1
<1>3. CASE PutAppends(map, i)
  <2>1. k \in DOMAIN Append(map, i) /\ Append(map, i)[k] = map[k]
    BY MembersOfLonger
  <2> QED BY <1>2, <1>3, <2>1 DEF PutAppends
<1>4. ASSUME NEW n \in DOMAIN map, PutReplaces(map, i, n)
      PROVE  \E m \in DOMAIN Put(map, i) :
                Put(map, i)[m].url = map[k].url /\ Put(map, i)[m].score >= map[k].score
  <2> DEFINE u == ReplaceAt(map, n, i)
  <2>1. DOMAIN u = DOMAIN map /\ u[n] = i /\ \A l \in DOMAIN map \ {n} : u[l] = map[l]
    BY MembersOfReplaced
  <2> HIDE DEF u
  <2>2. k \in DOMAIN u /\ u[k].url = map[k].url /\ u[k].score >= map[k].score
    <3>1. CASE k = n
      <4>1. i.url = map[k].url /\ i.score >= map[k].score
        BY <1>1, <1>4, <3>1 DEF PutReplaces
      <4> QED BY <2>1, <3>1, <4>1
    <3>2. CASE k # n
      BY <1>2, <2>1, <3>2
    <3> QED BY <3>1, <3>2
  <2> QED BY <1>4, <2>2 DEF PutReplaces, u
<1>5. ASSUME NEW n \in DOMAIN map, PutKeeps(map, i, n)
      PROVE  \E m \in DOMAIN Put(map, i) :
                Put(map, i)[m].url = map[k].url /\ Put(map, i)[m].score >= map[k].score
  BY <1>2, <1>5 DEF PutKeeps
<1> QED BY <1>3, <1>4, <1>5, PutIs

LEMMA PutOK ==
    ASSUME NEW kept \in Seq(Candidates), NEW map \in Seq(Candidates), NEW i \in Candidates,
           i.url # NoUrl, MapOK(kept, map)
    PROVE  MapOK(Append(kept, i), Put(map, i))
<1> DEFINE after == Append(kept, i)
           u == Put(map, i)
<1>1. ToSet(after) = ToSet(kept) \cup {i}
  BY MembersOfLonger
<1>2. i.score \in Nat /\ \A k \in DOMAIN map : map[k] \in Candidates /\ map[k].score \in Nat
  BY ScoresAreNumbers
<1>3. \A j \in ToSet(kept) : j \in Candidates /\ j.score \in Nat
  BY ScoresAreNumbers DEF ToSet
<1>4. /\ \A k \in DOMAIN u : u[k].url # NoUrl /\ u[k] \in ToSet(after)
      /\ \A m, n \in DOMAIN u : u[m].url = u[n].url => m = n
      /\ \E k \in DOMAIN u : u[k].url = i.url /\ i.score <= u[k].score
  <2>1. CASE PutAppends(map, i)
    <3> DEFINE new == Len(map) + 1
    <3>1. u = Append(map, i) /\ \A k \in DOMAIN map : map[k].url # i.url
      BY <2>1 DEF PutAppends
    <3>2. /\ DOMAIN u = DOMAIN map \cup {new}
          /\ \A k \in DOMAIN map : u[k] = map[k] /\ k # new
          /\ u[new] = i
      BY <3>1, MembersOfLonger
    <3> HIDE DEF u, new, after
    <3>3. \A k \in DOMAIN u : u[k].url # NoUrl /\ u[k] \in ToSet(after)
      BY <1>1, <3>2 DEF MapOK
    <3>4. \A m, n \in DOMAIN u : u[m].url = u[n].url => m = n
      BY <3>1, <3>2 DEF MapOK
    <3>5. new \in DOMAIN u /\ u[new].url = i.url /\ i.score <= u[new].score
      BY <1>2, <3>2
    <3> QED BY <3>3, <3>4, <3>5
  <2>2. ASSUME NEW n \in DOMAIN map, PutReplaces(map, i, n)
        PROVE  /\ \A k \in DOMAIN u : u[k].url # NoUrl /\ u[k] \in ToSet(after)
               /\ \A l, m \in DOMAIN u : u[l].url = u[m].url => l = m
               /\ \E k \in DOMAIN u : u[k].url = i.url /\ i.score <= u[k].score
    <3>1. u = ReplaceAt(map, n, i) /\ map[n].url = i.url
      BY <2>2 DEF PutReplaces
    <3>2. DOMAIN u = DOMAIN map /\ u[n] = i /\ \A l \in DOMAIN map \ {n} : u[l] = map[l]
      BY <3>1, MembersOfReplaced
    <3> HIDE DEF u, after
    <3>3. \A k \in DOMAIN u : u[k].url # NoUrl /\ u[k] \in ToSet(after)
      BY <1>1, <3>2 DEF MapOK
    <3>4. \A k \in DOMAIN map : u[k].url = map[k].url
      BY <3>1, <3>2
    <3>5. \A l, m \in DOMAIN u : u[l].url = u[m].url => l = m
      BY <3>2, <3>4 DEF MapOK
    <3>6. n \in DOMAIN u /\ u[n].url = i.url /\ i.score <= u[n].score
      BY <1>2, <3>2
    <3> QED BY <3>3, <3>5, <3>6
  <2>3. ASSUME NEW n \in DOMAIN map, PutKeeps(map, i, n)
        PROVE  /\ \A k \in DOMAIN u : u[k].url # NoUrl /\ u[k] \in ToSet(after)
               /\ \A l, m \in DOMAIN u : u[l].url = u[m].url => l = m
               /\ \E k \in DOMAIN u : u[k].url = i.url /\ i.score <= u[k].score
    <3>1. u = map /\ map[n].url = i.url /\ ~(i.score > map[n].score)
      BY <2>3 DEF PutKeeps
    <3> HIDE DEF u, after
    <3>2. i.score <= map[n].score
      BY <1>2, <3>1
    <3> QED BY <1>1, <3>1, <3>2 DEF MapOK
  <2> QED BY <2>1, <2>2, <2>3, PutIs
<1>5. ASSUME NEW j \in ToSet(kept), j.url # NoUrl
      PROVE  \E k \in DOMAIN u : u[k].url = j.url /\ j.score <= u[k].score
  <2>1. PICK n \in DOMAIN map : map[n].url = j.url /\ j.score <= map[n].score
    BY <1>5 DEF MapOK
  <2>2. PICK k \in DOMAIN u : u[k].url = map[n].url /\ u[k].score >= map[n].score
    BY PutNeverHurts
  <2>3. u \in Seq(Candidates)
    BY PutTyped
  <2> HIDE DEF u
  <2>4. u[k] \in Candidates
    BY <2>3
  <2>5. u[k].score \in Nat /\ map[n].score \in Nat /\ j.score \in Nat
    BY <1>2, <1>3, <2>4, ScoresAreNumbers
  <2>6. j.score <= u[k].score
    BY <2>1, <2>2, <2>5
  <2> QED BY <2>1, <2>2, <2>6
<1> HIDE DEF u, after
<1>6. MapOK(after, u)
  BY <1>1, <1>4, <1>5 DEF MapOK
<1> QED BY <1>6 DEF u, after

LEMMA PlaceOK ==
    ASSUME NEW kept \in Seq(Candidates), NEW a \in Pass2, NEW i \in Candidates,
           i \notin ToSet(kept), MapOK(kept, a.map), NoUrlOK(kept, a.noUrl)
    PROVE  /\ MapOK(Append(kept, i), Place(a, i).map)
           /\ NoUrlOK(Append(kept, i), Place(a, i).noUrl)
<1>1. /\ a.map \in Seq(Candidates) /\ a.noUrl \in Seq(Candidates)
      /\ Place(a, i).map = IF i.url = NoUrl THEN a.map ELSE Put(a.map, i)
      /\ Place(a, i).noUrl = IF i.url = NoUrl THEN Append(a.noUrl, i) ELSE a.noUrl
  BY PlaceIs
<1>2. ToSet(Append(kept, i)) = ToSet(kept) \cup {i}
  BY MembersOfLonger
<1>3. CASE i.url = NoUrl
  <2> DEFINE u == Append(a.noUrl, i)
             new == Len(a.noUrl) + 1
  <2>1. MapOK(Append(kept, i), a.map)
    BY <1>2, <1>3 DEF MapOK
  <2>2. /\ ToSet(u) = ToSet(a.noUrl) \cup {i}
        /\ DOMAIN u = DOMAIN a.noUrl \cup {new}
        /\ \A k \in DOMAIN a.noUrl : u[k] = a.noUrl[k] /\ a.noUrl[k] \in ToSet(a.noUrl) /\ k # new
        /\ u[new] = i
    BY <1>1, MembersOfLonger
  <2>3. Place(a, i).map = a.map /\ Place(a, i).noUrl = u
    BY <1>1, <1>3
  <2> HIDE DEF u, new
  <2>4. ToSet(u) = {j \in ToSet(kept) \cup {i} : j.url = NoUrl}
    BY <1>3, <2>2 DEF NoUrlOK
  <2>5. i \notin ToSet(a.noUrl)
    BY DEF NoUrlOK
  <2>6. \A m, n \in DOMAIN u : u[m] = u[n] => m = n
    BY <2>2, <2>5 DEF NoUrlOK
  <2> QED BY <1>2, <2>1, <2>3, <2>4, <2>6 DEF NoUrlOK
<1>4. CASE i.url # NoUrl
  <2>1. MapOK(Append(kept, i), Put(a.map, i))
    BY <1>1, <1>4, PutOK
  <2>2. NoUrlOK(Append(kept, i), a.noUrl)
    BY <1>2, <1>4 DEF NoUrlOK
  <2> QED BY <1>1, <1>4, <2>1, <2>2
<1> QED BY <1>3, <1>4

\* The two passes over an input, together.
PassesOK(s) ==
    /\ FirstOK(s, FirstPerContent(s))
    /\ MapOK(FirstPerContent(s), BestByUrl(FirstPerContent(s)).map)
    /\ NoUrlOK(FirstPerContent(s), BestByUrl(FirstPerContent(s)).noUrl)

\* What deduplicate_items holds after its passes.
LEMMA PassesTyped ==
    ASSUME NEW s \in Seq(Candidates)
    PROVE  /\ FirstPerContent(s) \in Seq(Candidates)
           /\ BestByUrl(FirstPerContent(s)) \in Pass2
           /\ BestByUrl(FirstPerContent(s)).map \in Seq(Candidates)
           /\ BestByUrl(FirstPerContent(s)).noUrl \in Seq(Candidates)
<1>1. FirstPerContent(s) \in Seq(Candidates)
  BY FirstTyped
<1>2. BestByUrl(FirstPerContent(s)) \in Pass2
  BY <1>1, BestTyped
<1> QED BY <1>1, <1>2 DEF Pass2

\* A further item is a repeat, and changes nothing, or is placed.
LEMMA PassesGo ==
    ASSUME NEW s \in Seq(Candidates), NEW i \in Candidates
    PROVE  \/ FirstPerContent(Append(s, i)) = FirstPerContent(s)
           \/ /\ i \notin ToSet(FirstPerContent(s))
              /\ FirstPerContent(Append(s, i)) = Append(FirstPerContent(s), i)
              /\ BestByUrl(FirstPerContent(Append(s, i))) = Place(BestByUrl(FirstPerContent(s)), i)
<1> DEFINE kept == FirstPerContent(s)
<1>1. kept \in Seq(Candidates) /\ FirstPerContent(Append(s, i)) = KeepFirst(kept, i)
  BY FirstGoes, FirstTyped
<1> HIDE DEF kept
<1>2. CASE \E j \in ToSet(kept) : SameContent(i, j)
  BY <1>1, <1>2 DEF KeepFirst, kept
<1>3. CASE ~ \E j \in ToSet(kept) : SameContent(i, j)
  <2>1. i \notin ToSet(kept)
    BY <1>3 DEF SameContent
  <2>2. KeepFirst(kept, i) = Append(kept, i)
    BY <1>3 DEF KeepFirst
  <2>3. BestByUrl(Append(kept, i)) = Place(BestByUrl(kept), i)
    BY <1>1, BestGoes
  <2> QED BY <1>1, <2>1, <2>2, <2>3 DEF kept
<1> QED BY <1>2, <1>3

LEMMA PassesStayOK ==
    ASSUME NEW s \in Seq(Candidates), NEW i \in Candidates, PassesOK(s)
    PROVE  PassesOK(Append(s, i))
<1> DEFINE kept == FirstPerContent(s)
           pass2 == BestByUrl(kept)
<1>1. kept \in Seq(Candidates) /\ pass2 \in Pass2
  BY PassesTyped
<1>2. FirstPerContent(Append(s, i)) = KeepFirst(kept, i)
  BY FirstGoes
<1>3. FirstOK(s, kept) /\ MapOK(kept, pass2.map) /\ NoUrlOK(kept, pass2.noUrl)
  BY DEF PassesOK
<1>4. \/ FirstPerContent(Append(s, i)) = kept
      \/ /\ i \notin ToSet(kept)
         /\ FirstPerContent(Append(s, i)) = Append(kept, i)
         /\ BestByUrl(FirstPerContent(Append(s, i))) = Place(pass2, i)
  BY PassesGo
<1> HIDE DEF kept, pass2
<1>5. FirstOK(Append(s, i), FirstPerContent(Append(s, i)))
  BY <1>1, <1>2, <1>3, KeepFirstOK
<1>6. CASE FirstPerContent(Append(s, i)) = kept
  BY <1>3, <1>5, <1>6 DEF PassesOK, pass2
<1>7. CASE /\ i \notin ToSet(kept)
           /\ FirstPerContent(Append(s, i)) = Append(kept, i)
           /\ BestByUrl(FirstPerContent(Append(s, i))) = Place(pass2, i)
  <2>1. MapOK(Append(kept, i), Place(pass2, i).map) /\ NoUrlOK(Append(kept, i), Place(pass2, i).noUrl)
    BY <1>1, <1>3, <1>7, PlaceOK
  <2> QED BY <1>5, <1>7, <2>1 DEF PassesOK
<1> QED BY <1>4, <1>6, <1>7

\* A sequence without repeats is as long as the set of its members is large.
LEMMA NoRepeats ==
    ASSUME NEW S, NEW s \in Seq(S), \A m, n \in DOMAIN s : s[m] = s[n] => m = n
    PROVE  Len(s) = Cardinality(ToSet(s))
<1> DEFINE n == Len(s)
<1>1. n \in Nat /\ DOMAIN s = 1..n /\ s = [k \in 1..n |-> s[k]]
  OBVIOUS
<1>2. IsFiniteSet(1..n) /\ Cardinality(1..n) = n
  <2>1. 1 \in Int /\ n \in Int
    BY <1>1
  <2> HIDE DEF n
  <2>2. IsFiniteSet(1..n) /\ Cardinality(1..n) = IF 1 > n THEN 0 ELSE n - 1 + 1
    BY <2>1, FS_Interval, Zenon
  <2> QED BY <1>1, <2>2
<1> HIDE DEF n
<1>3. s \in [1..n -> ToSet(s)]
  BY <1>1 DEF ToSet
<1>4. \A m, k \in 1..n : s[m] = s[k] => m = k
  BY <1>1
<1>5. \A x \in ToSet(s) : \E k \in 1..n : s[k] = x
  BY <1>1 DEF ToSet
<1>6. s \in Bijection(1..n, ToSet(s))
  BY <1>3, <1>4, <1>5 DEF Bijection, Injection, Surjection, IsInjective
<1>7. ExistsBijection(1..n, ToSet(s))
  BY <1>6 DEF ExistsBijection
<1>8. Cardinality(ToSet(s)) = Cardinality(1..n)
  BY <1>2, <1>7, FS_Bijection
<1> QED BY <1>2, <1>8 DEF n

\* What DedupImplementsRelation says of an input.
LEMMA PassesImplementRelation ==
    ASSUME NEW s \in Seq(Candidates), PassesOK(s)
    PROVE  /\ ToSet(Deduplicate(s)) \in Deduplicated(ToSet(s))
           /\ Len(Deduplicate(s)) = Cardinality(ToSet(Deduplicate(s)))
<1> DEFINE kept == FirstPerContent(s)
           map == BestByUrl(kept).map
           noUrl == BestByUrl(kept).noUrl
           u == Deduplicate(s)
<1>1. kept \in Seq(Candidates) /\ map \in Seq(Candidates) /\ noUrl \in Seq(Candidates)
  BY PassesTyped
<1>2. FirstOK(s, kept) /\ MapOK(kept, map) /\ NoUrlOK(kept, noUrl)
  BY DEF PassesOK
<1>3. u = map \o noUrl
  BY DEF Deduplicate
<1> HIDE DEF kept, map, noUrl, u
<1>4. /\ u \in Seq(Candidates)
      /\ ToSet(u) = ToSet(map) \cup ToSet(noUrl)
      /\ \A k \in DOMAIN map : k \in DOMAIN u /\ u[k] = map[k]
      /\ \A k \in DOMAIN noUrl : Len(map) + k \in DOMAIN u /\ u[Len(map) + k] = noUrl[k]
      /\ \A k \in DOMAIN u : k \in DOMAIN map \/ \E m \in DOMAIN noUrl : k = Len(map) + m
  BY <1>1, <1>3, MembersOfJoin
<1>5. /\ \A k \in DOMAIN map : map[k] \in ToSet(map) /\ map[k].url # NoUrl
      /\ \A k \in DOMAIN noUrl : noUrl[k] \in ToSet(noUrl) /\ noUrl[k].url = NoUrl
      /\ \A x \in ToSet(map) : \E k \in DOMAIN map : x = map[k]
  <2>1. \A k \in DOMAIN noUrl : noUrl[k] \in ToSet(noUrl)
    BY DEF ToSet
  <2> QED BY <1>2, <2>1 DEF ToSet, MapOK, NoUrlOK
<1>6. ToSet(kept) \in OnePerContent(ToSet(s))
  <2>1. ASSUME NEW i \in ToSet(kept), NEW j \in ToSet(kept), i.url = j.url /\ i.title = j.title
        PROVE  i = j
    <3>1. PICK m \in DOMAIN kept, n \in DOMAIN kept : i = kept[m] /\ j = kept[n]
      BY DEF ToSet
    <3> QED BY <1>2, <2>1, <3>1 DEF FirstOK, SameContent
  <2> QED BY <1>2, <2>1 DEF OnePerContent, FirstOK, SameContent
<1>7. ToSet(u) \in BestPerUrl(ToSet(kept))
  <2>1. ToSet(u) \subseteq ToSet(kept)
    BY <1>2, <1>4, <1>5 DEF MapOK, NoUrlOK
  <2>2. ASSUME NEW i \in ToSet(u), NEW j \in ToSet(u), i.url = j.url, i.url # NoUrl
        PROVE  i = j
    <3>1. i \in ToSet(map) /\ j \in ToSet(map)
      BY <1>2, <1>4, <2>2 DEF NoUrlOK
    <3>2. PICK m \in DOMAIN map, n \in DOMAIN map : i = map[m] /\ j = map[n]
      BY <1>5, <3>1
    <3> QED BY <1>2, <2>2, <3>2 DEF MapOK
  <2>3. ASSUME NEW i \in ToSet(kept)
        PROVE  \E j \in ToSet(u) : i.url = j.url /\ i.score <= j.score
    <3>1. CASE i.url = NoUrl
      <4>1. i \in ToSet(u)
        BY <1>2, <1>4, <3>1 DEF NoUrlOK
      <4>2. i \in Candidates
        BY <1>1 DEF ToSet
      <4>3. i.score <= i.score
        BY <4>2, ScoresAreNumbers
      <4> QED BY <4>1, <4>3
    <3>2. CASE i.url # NoUrl
      BY <1>2, <1>4, <1>5, <3>2 DEF MapOK
    <3> QED BY <3>1, <3>2
  <2>4. {i \in ToSet(kept) : i.url = NoUrl} \subseteq ToSet(u)
    BY <1>2, <1>4 DEF NoUrlOK
  <2> QED BY <2>1, <2>2, <2>3, <2>4 DEF BestPerUrl
<1>8. ASSUME NEW k \in DOMAIN u, NEW n \in DOMAIN u, u[k] = u[n] PROVE k = n
  <2>1. CASE k \in DOMAIN map /\ n \in DOMAIN map
    BY <1>2, <1>4, <1>8, <2>1 DEF MapOK
  <2>2. CASE \E l, m \in DOMAIN noUrl : k = Len(map) + l /\ n = Len(map) + m
    BY <1>2, <1>4, <1>8, <2>2 DEF NoUrlOK
  <2>3. CASE k \in DOMAIN map /\ \E m \in DOMAIN noUrl : n = Len(map) + m
    BY <1>4, <1>5, <1>8, <2>3
  <2>4. CASE n \in DOMAIN map /\ \E m \in DOMAIN noUrl : k = Len(map) + m
    BY <1>4, <1>5, <1>8, <2>4
  <2> QED BY <1>4, <2>1, <2>2, <2>3, <2>4
<1>9. Len(u) = Cardinality(ToSet(u))
  BY <1>4, <1>8, NoRepeats
<1> QED BY <1>6, <1>7, <1>9 DEF Deduplicated, u

\* Of each content the first pass keeps the first item.
IsFirst(s, n) == \A m \in 1..(n - 1) : ~SameContent(s[m], s[n])

FirstsOK(s, kept) == \A i \in ToSet(kept) : \E n \in DOMAIN s : s[n] = i /\ IsFirst(s, n)

LEMMA FirstsStayOK ==
    ASSUME NEW s \in Seq(Candidates), NEW kept \in Seq(Candidates), NEW i \in Candidates,
           FirstOK(s, kept), FirstsOK(s, kept)
    PROVE  FirstsOK(Append(s, i), KeepFirst(kept, i))
<1> DEFINE u == Append(s, i)
           new == Len(s) + 1
<1>1. /\ DOMAIN u = DOMAIN s \cup {new} /\ DOMAIN s = 1..Len(s) /\ Len(s) \in Nat
      /\ u[new] = i
      /\ \A k \in DOMAIN s : u[k] = s[k] /\ s[k] \in ToSet(s)
  BY MembersOfLonger
<1> HIDE DEF u
<1>2. ASSUME NEW j \in ToSet(kept) PROVE \E n \in DOMAIN u : u[n] = j /\ IsFirst(u, n)
  <2>1. PICK n \in DOMAIN s : s[n] = j /\ IsFirst(s, n)
    BY DEF FirstsOK
  <2>2. \A m \in 1..(n - 1) : m \in DOMAIN s
    BY <1>1
  <2>3. IsFirst(u, n)
    BY <1>1, <2>1, <2>2 DEF IsFirst
  <2> QED BY <1>1, <2>1, <2>3
<1>3. CASE \E j \in ToSet(kept) : SameContent(i, j)
  <2>1. KeepFirst(kept, i) = kept
    BY <1>3 DEF KeepFirst
  <2> QED BY <1>2, <2>1 DEF FirstsOK, u
<1>4. CASE ~ \E j \in ToSet(kept) : SameContent(i, j)
  <2>1. KeepFirst(kept, i) = Append(kept, i)
    BY <1>4 DEF KeepFirst
  <2>2. ToSet(Append(kept, i)) = ToSet(kept) \cup {i}
    BY MembersOfLonger
  <2>3. ASSUME NEW m \in DOMAIN s PROVE ~SameContent(s[m], i)
    <3>1. PICK j \in ToSet(kept) : SameContent(s[m], j)
      BY <1>1 DEF FirstOK
    <3> QED BY <1>4, <3>1 DEF SameContent
  <2>4. \A m \in 1..(new - 1) : m \in DOMAIN s
    BY <1>1
  <2>5. new \in DOMAIN u /\ u[new] = i /\ IsFirst(u, new)
    BY <1>1, <2>3, <2>4 DEF IsFirst
  <2>6. \A j \in ToSet(kept) \cup {i} : \E n \in DOMAIN u : u[n] = j /\ IsFirst(u, n)
    BY <1>2, <2>5
  <2> QED BY <2>1, <2>2, <2>6 DEF FirstsOK, u
<1> QED BY <1>3, <1>4

\* What the passes of deduplicate_items make of any list of items.
LEMMA PassesAreOK ==
    ASSUME NEW s \in Seq(Candidates)
    PROVE  PassesOK(s) /\ FirstsOK(s, FirstPerContent(s))
<1> DEFINE n == Len(s)
           top(k) == SubSeq(s, 1, k)
           OK(t) == PassesOK(t) /\ FirstsOK(t, FirstPerContent(t))
           S == {k \in 0..n : OK(top(k))}
<1>1. n \in Nat /\ \A k \in 1..n : s[k] \in Candidates
  OBVIOUS
<1>2. ASSUME NEW k \in 0..n
      PROVE  /\ top(k) \in Seq(Candidates) /\ Len(top(k)) = k
             /\ \A j \in 1..k : top(k)[j] = s[j]
  <2>1. \A j \in 1..k : s[j] \in Candidates
    BY <1>1
  <2>2. 1 \in Int /\ k \in Int
    BY <1>1
  <2>3. /\ top(k) \in Seq(Candidates) /\ Len(top(k)) = IF 1 <= k THEN k - 1 + 1 ELSE 0
        /\ \A j \in 1..(k - 1 + 1) : top(k)[j] = s[1 + j - 1]
    BY <2>1, <2>2, SubSeqProperties
  <2> HIDE DEF top
  <2>4. k - 1 + 1 = k /\ k >= 0 /\ \A j \in 1..k : 1 + j - 1 = j
    BY <2>2
  <2> QED BY <2>2, <2>3, <2>4
<1>3. top(n) = s
  BY SubSeqFull
<1> HIDE DEF n, top
<1>4. 0 \in S
  <2> DEFINE none == <<>>
  <2>1. top(0) = none
    BY <1>1, <1>2
  <2>2. FirstPerContent(none) = none /\ BestByUrl(none) = [map |-> none, noUrl |-> none]
    BY FirstEmpty, BestEmpty
  <2>3. DOMAIN none = {} /\ ToSet(none) = {}
    BY DEF ToSet
  <2> HIDE DEF none
  <2>4. BestByUrl(none).map = none /\ BestByUrl(none).noUrl = none
    BY <2>2
  <2>5. OK(none)
    BY <2>2, <2>3, <2>4 DEF PassesOK, FirstOK, MapOK, NoUrlOK, FirstsOK
  <2> QED BY <1>1, <2>1, <2>5
<1>5. ASSUME NEW k \in 1..n, k - 1 \in S PROVE k \in S
  <2> DEFINE t == top(k - 1)
             x == s[k]
  <2>1. k - 1 \in 0..n /\ k \in 0..n /\ k \in Nat \ {0} /\ x \in Candidates
    BY <1>1
  <2>2. t \in Seq(Candidates) /\ Len(t) = k - 1 /\ \A j \in 1..(k - 1) : t[j] = s[j]
    BY <1>2, <2>1
  <2>3. top(k) \in Seq(Candidates) /\ Len(top(k)) = k /\ \A j \in 1..k : top(k)[j] = s[j]
    BY <1>2, <2>1
  <2>4. OK(t)
    BY <1>5
  <2> HIDE DEF t, x
  <2> DEFINE longer == Append(t, x)
  <2>5. /\ longer \in Seq(Candidates) /\ Len(longer) = k
        /\ longer[k] = x /\ \A j \in 1..(k - 1) : longer[j] = t[j]
    BY <2>1, <2>2
  <2>6. top(k) = longer
    <3> HIDE DEF longer
    <3>1. \A j \in 1..k : j = k \/ j \in 1..(k - 1)
      BY <2>1
    <3>2. \A j \in 1..k : top(k)[j] = longer[j]
      BY <2>2, <2>3, <2>5, <3>1 DEF x
    <3> QED BY <2>3, <2>5, <3>2, SeqEqual
  <2>7. PassesOK(longer)
    BY <2>1, <2>2, <2>4, PassesStayOK
  <2>8. FirstsOK(longer, FirstPerContent(longer))
    <3>1. FirstPerContent(t) \in Seq(Candidates) /\ FirstOK(t, FirstPerContent(t))
      BY <2>2, <2>4, PassesTyped DEF PassesOK
    <3>2. FirstPerContent(longer) = KeepFirst(FirstPerContent(t), x)
      BY <2>1, <2>2, FirstGoes
    <3> QED BY <2>1, <2>2, <2>4, <3>1, <3>2, FirstsStayOK
  <2> QED BY <2>1, <2>6, <2>7, <2>8
<1>6. \A k \in 0..n : k \in S
  <2> HIDE DEF S
  <2> QED BY <1>1, <1>4, <1>5, UpTo
<1>7. OK(top(n))
  BY <1>1, <1>6
<1> QED BY <1>3, <1>7

\* An item that nothing of its content precedes gets through the first pass.
LEMMA FirstsAreKept ==
    ASSUME NEW s \in Seq(Candidates), NEW n \in DOMAIN s, IsFirst(s, n)
    PROVE  s[n] \in ToSet(FirstPerContent(s))
<1> DEFINE kept == FirstPerContent(s)
<1>1. FirstOK(s, kept) /\ FirstsOK(s, kept)
  BY PassesAreOK DEF PassesOK
<1> HIDE DEF kept
<1>2. s[n] \in ToSet(s)
  BY DEF ToSet
<1>3. PICK j \in ToSet(kept) : SameContent(s[n], j)
  BY <1>1, <1>2 DEF FirstOK
<1>4. PICK p \in DOMAIN s : s[p] = j /\ IsFirst(s, p)
  BY <1>1 DEF FirstsOK
<1>5. SameContent(s[n], s[p]) /\ SameContent(s[p], s[n])
  BY <1>3, <1>4 DEF SameContent
<1>6. ~(p \in 1..(n - 1)) /\ ~(n \in 1..(p - 1))
  BY <1>4, <1>5 DEF IsFirst
<1>7. p = n
  <2>1. p \in 1..Len(s) /\ n \in 1..Len(s) /\ Len(s) \in Nat
    OBVIOUS
  <2> QED BY <1>6, <2>1
<1> QED BY <1>4, <1>7 DEF kept

\* What gets through the first pass leaves its url nothing worse.
LEMMA BestOfUrl ==
    ASSUME NEW s \in Seq(Candidates), NEW i \in ToSet(FirstPerContent(s)), i.url # NoUrl
    PROVE  \E j \in ToSet(Deduplicate(s)) : j.url = i.url /\ j.score >= i.score
<1> DEFINE kept == FirstPerContent(s)
           map == BestByUrl(kept).map
           noUrl == BestByUrl(kept).noUrl
<1>1. kept \in Seq(Candidates) /\ map \in Seq(Candidates) /\ noUrl \in Seq(Candidates)
  BY PassesTyped
<1>2. MapOK(kept, map)
  BY PassesAreOK DEF PassesOK
<1>3. Deduplicate(s) = map \o noUrl
  BY DEF Deduplicate
<1>4. i \in Candidates
  BY <1>1 DEF ToSet
<1> HIDE DEF map, noUrl
<1>5. PICK k \in DOMAIN map : map[k].url = i.url /\ i.score <= map[k].score
  BY <1>2 DEF MapOK
<1>6. map[k] \in Candidates /\ map[k] \in ToSet(map)
  BY <1>1 DEF ToSet
<1>7. map[k].score >= i.score
  BY <1>4, <1>5, <1>6, ScoresAreNumbers
<1>8. map[k] \in ToSet(Deduplicate(s))
  BY <1>1, <1>3, <1>6, MembersOfJoin
<1> QED BY <1>5, <1>7, <1>8

\* The loops of deduplicate_items compute, of every list of items, what the
\* relation the model of the pipeline is built on allows, and no item twice.
THEOREM DedupIsCorrect == Spec => []DedupImplementsRelation
<1>1. InputOK => DedupImplementsRelation
  BY PassesAreOK, PassesImplementRelation DEF InputOK, DedupImplementsRelation
<1> QED BY <1>1, InputIsSequence, PTL

\* Whether the item at place n keeps i from standing for its content.
Displaces(s, n, i) == SameContent(s[n], i) /\ \A m \in 1..(n - 1) : ~SameContent(s[m], i)

\* What the item at place n does to what stands for a url without it.
LEMMA RepostsCost ==
    ASSUME NEW s \in Seq(Candidates), NEW n \in DOMAIN s,
           NEW i \in ToSet(Deduplicate(RemoveAt(s, n))), i.url # NoUrl
    PROVE  \E j \in ToSet(Deduplicate(s)) :
              /\ j.url = i.url
              /\ j.score >= i.score \/ (Displaces(s, n, i) /\ j.score >= s[n].score)
<1> DEFINE t == RemoveAt(s, n)
           N == Len(s)
<1>1. /\ t \in Seq(Candidates) /\ Len(t) = N - 1
      /\ \A k \in 1..(n - 1) : t[k] = s[k]
      /\ \A k \in n..(N - 1) : t[k] = s[k + 1]
  BY MembersOfRemoved
<1>2. N \in Nat /\ DOMAIN s = 1..N /\ n \in 1..N
  OBVIOUS
<1>3. i \in ToSet(Deduplicate(t))
  OBVIOUS
<1> HIDE DEF t, N
<1>4. i \in ToSet(FirstPerContent(t))
  <2> DEFINE kept == FirstPerContent(t)
             map == BestByUrl(kept).map
             noUrl == BestByUrl(kept).noUrl
  <2>1. map \in Seq(Candidates) /\ noUrl \in Seq(Candidates)
    BY <1>1, PassesTyped
  <2>2. MapOK(kept, map) /\ NoUrlOK(kept, noUrl)
    BY <1>1, PassesAreOK DEF PassesOK
  <2>3. Deduplicate(t) = map \o noUrl
    BY DEF Deduplicate
  <2> HIDE DEF map, noUrl, kept
  <2>4. i \in ToSet(map) \cup ToSet(noUrl)
    BY <1>3, <2>1, <2>3, MembersOfJoin
  <2>5. i \in ToSet(kept)
    BY <2>2, <2>4 DEF MapOK, NoUrlOK, ToSet
  <2> QED BY <2>5 DEF kept
<1>5. PICK p \in DOMAIN t : t[p] = i /\ IsFirst(t, p)
  BY <1>1, <1>4, PassesAreOK DEF FirstsOK
<1>6. p \in 1..(N - 1)
  BY <1>1
<1>7. CASE Displaces(s, n, i)
  <2>1. IsFirst(s, n) /\ s[n].url = i.url
    BY <1>7 DEF Displaces, IsFirst, SameContent
  <2>2. s[n] \in ToSet(FirstPerContent(s)) /\ s[n].url # NoUrl
    BY <2>1, FirstsAreKept
  <2>3. PICK j \in ToSet(Deduplicate(s)) : j.url = s[n].url /\ j.score >= s[n].score
    BY <2>2, BestOfUrl
  <2> QED BY <1>7, <2>1, <2>3
<1>8. CASE ~Displaces(s, n, i)
  <2> DEFINE q == IF p < n THEN p ELSE p + 1
  <2>1. q \in DOMAIN s /\ q # n /\ (p < n => q = p) /\ (p >= n => q = p + 1)
    BY <1>2, <1>6
  <2>2. s[q] = i
    <3>1. CASE p < n
      <4>1. p \in 1..(n - 1)
        BY <1>2, <1>6, <3>1
      <4> QED BY <1>1, <1>5, <2>1, <3>1, <4>1
    <3>2. CASE ~(p < n)
      <4>1. p \in n..(N - 1) /\ p >= n
        BY <1>2, <1>6, <3>2
      <4> QED BY <1>1, <1>5, <2>1, <4>1
    <3> QED BY <3>1, <3>2
  <2> HIDE DEF q
  <2>3. ~SameContent(s[n], i) \/ n > p
    <3> SUFFICES ASSUME SameContent(s[n], i), n <= p PROVE FALSE
      BY <1>2, <1>6
    <3>1. PICK m \in 1..(n - 1) : SameContent(s[m], i)
      BY <1>8 DEF Displaces
    <3>2. m \in 1..(p - 1) /\ t[m] = s[m]
      BY <1>1, <1>2, <1>6
    <3> QED BY <1>5, <3>1, <3>2 DEF IsFirst
  <2>4. ASSUME NEW m \in 1..(q - 1) PROVE ~SameContent(s[m], i)
    <3>1. m \in 1..N /\ q \in 1..N
      BY <1>2, <2>1
    <3>2. CASE m = n
      <4>1. n <= p
        BY <1>2, <1>6, <2>1, <3>1, <3>2
      <4>2. ~(n > p)
        BY <1>2, <1>6, <4>1
      <4> QED BY <2>3, <3>2, <4>2
    <3>3. CASE m < n
      <4>1. m \in 1..(n - 1) /\ m \in 1..(p - 1)
        BY <1>2, <1>6, <2>1, <3>1, <3>3
      <4> QED BY <1>1, <1>5, <4>1 DEF IsFirst
    <3>4. CASE m > n
      <4>1. m - 1 \in n..(N - 1) /\ m - 1 \in 1..(p - 1) /\ (m - 1) + 1 = m
        BY <1>2, <1>6, <2>1, <3>1, <3>4
      <4>2. t[m - 1] = s[m]
        BY <1>1, <4>1
      <4> QED BY <1>5, <4>1, <4>2 DEF IsFirst
    <3> QED BY <1>2, <3>1, <3>2, <3>3, <3>4
  <2>5. i \in ToSet(FirstPerContent(s))
    <3>1. IsFirst(s, q)
      BY <2>2, <2>4 DEF IsFirst
    <3> QED BY <2>1, <2>2, <3>1, FirstsAreKept
  <2> QED BY <2>5, BestOfUrl
<1> QED BY <1>7, <1>8

\* A further item, wherever it stands in a list of any length, costs no url its
\* place in what deduplicate_items returns, and leaves a url with a worse item
\* only if it has the title of the one that stood for it and precedes all
\* others of that title: then with nothing worse than itself.
THEOREM OnlyRepostsCost == Spec => []OnlyRepostsHurt
<1>1. InputOK => OnlyRepostsHurt
  <2> SUFFICES ASSUME items \in Seq(Candidates), NEW n \in DOMAIN items,
                      NEW i \in ToSet(Deduplicate(RemoveAt(items, n))), i.url # NoUrl
               PROVE  \E j \in ToSet(Deduplicate(items)) :
                         /\ j.url = i.url
                         /\ \/ j.score >= i.score
                            \/ /\ SameContent(items[n], i)
                               /\ \A m \in 1..(n - 1) : ~SameContent(items[m], i)
                               /\ j.score >= items[n].score
    BY Zenon DEF InputOK, OnlyRepostsHurt
  <2> QED BY RepostsCost DEF Displaces
<1> QED BY <1>1, InputIsSequence, PTL

-----------------------------------------------------------------------------
(***************************************************************************)
(* The rows that the feed reads: what the runs stored, later.              *)
(***************************************************************************)
\* The versions of an article that a page may read: as it is when the first page
\* does, or some hours on.
Versions == Candidates \cup {Later(i, hours) : i \in Candidates, hours \in Nat}

LEMMA CandidatesAre ==
    ASSUME NEW i \in Candidates
    PROVE  /\ i.score \in Int /\ i.born \in Int /\ i.age \in Int /\ i.relevance \in Int
           /\ i.topic \in DOMAIN TopicWeight
           /\ Kind(i) \in DOMAIN Threshold \cup {"rss", "arxiv"}
BY CurationAssumption, FeedAssumption DEF CurationAssumption, FeedAssumption

LEMMA LaterIs ==
    ASSUME NEW i \in Candidates, NEW hours \in Nat
    PROVE  LET x == Later(i, hours)
           IN  /\ x.score = i.score /\ x.relevance = i.relevance /\ x.topic = i.topic
               /\ x.source = i.source /\ x.paper = i.paper
               /\ x.age \in Int /\ x.born \in Int
<1> DEFINE x == Later(i, hours)
           born == IF i.born = NoBirth THEN NoBirth ELSE i.born + hours
<1>1. /\ i = [f \in DOMAIN i |-> i[f]]
      /\ {"title", "score", "topic", "relevance"} \subseteq DOMAIN i
  BY SelectionAssumption DEF SelectionAssumption
<1>2. {"source", "dated", "paper", "age", "born"} \subseteq DOMAIN i
  BY FeedAssumption DEF FeedAssumption
<1>3. i.age + hours \in Int /\ born \in Int
  BY CandidatesAre
<1>4. x = [i EXCEPT !.age = i.age + hours, !.born = born]
  BY DEF Later
<1> HIDE DEF x, born
<1>5. x.age = i.age + hours /\ x.born = born
  BY <1>2, <1>4
<1>6. /\ x.score = i.score /\ x.relevance = i.relevance /\ x.topic = i.topic
      /\ x.source = i.source /\ x.paper = i.paper
  BY <1>1, <1>2, <1>4
<1> QED BY <1>3, <1>5, <1>6 DEF x

LEMMA VersionsAre ==
    ASSUME NEW x \in Versions
    PROVE  /\ x.score \in Int /\ x.born \in Int /\ x.age \in Int /\ x.relevance \in Int
           /\ x.topic \in DOMAIN TopicWeight
           /\ Kind(x) \in DOMAIN Threshold \cup {"rss", "arxiv"}
<1>1. CASE x \in Candidates
  BY <1>1, CandidatesAre
<1>2. ASSUME NEW i \in Candidates, NEW hours \in Nat, x = Later(i, hours)
      PROVE  /\ x.score \in Int /\ x.born \in Int /\ x.age \in Int /\ x.relevance \in Int
             /\ x.topic \in DOMAIN TopicWeight
             /\ Kind(x) \in DOMAIN Threshold \cup {"rss", "arxiv"}
  <2>1. /\ x.score = i.score /\ x.relevance = i.relevance /\ x.topic = i.topic
        /\ x.source = i.source /\ x.paper = i.paper
        /\ x.age \in Int /\ x.born \in Int
    BY <1>2, LaterIs
  <2>2. Kind(x) = Kind(i)
    BY <2>1 DEF Kind
  <2> QED BY <2>1, <2>2, CandidatesAre
<1> QED BY <1>1, <1>2 DEF Versions

LEMMA ListsOfVersions ==
    ASSUME NEW s \in Seq(Candidates)
    PROVE  s \in Seq(Versions)
<1>1. Candidates \subseteq Versions
  BY DEF Versions
<1>2. Len(s) \in Nat /\ s = [k \in 1..Len(s) |-> s[k]] /\ \A k \in 1..Len(s) : s[k] \in Candidates
  OBVIOUS
<1>3. s \in [1..Len(s) -> Versions]
  BY <1>1, <1>2
<1> QED BY <1>2, <1>3

-----------------------------------------------------------------------------
(***************************************************************************)
(* collapse_variants.                                                      *)
(***************************************************************************)
\* What KeepBest does to the best of each group.
BestAppends(best, x) ==
    /\ \A k \in DOMAIN best : Group(best[k]) # Group(x)
    /\ KeepBest(best, x) = Append(best, x)

BestReplaces(best, x, k) ==
    /\ Group(best[k]) = Group(x) /\ x.score > best[k].score
    /\ KeepBest(best, x) = ReplaceAt(best, k, x)

BestStays(best, x, k) ==
    /\ Group(best[k]) = Group(x) /\ ~(x.score > best[k].score)
    /\ KeepBest(best, x) = best

LEMMA KeepBestIs ==
    ASSUME NEW best \in Seq(Versions), NEW x \in Versions
    PROVE  \/ BestAppends(best, x)
           \/ \E k \in DOMAIN best : BestReplaces(best, x, k) \/ BestStays(best, x, k)
<1> DEFINE I == {k \in 1..Len(best) : Group(best[k]) = Group(x)}
           n == IF I # {} THEN Min(I) ELSE 0
<1>1. DOMAIN best = 1..Len(best) /\ I \in SUBSET (Nat \ {0})
  OBVIOUS
<1>2. SelectInSeq(best, LAMBDA y : Group(y) = Group(x)) = n
  BY DEF SelectInSeq
<1>3. KeepBest(best, x) = IF n = 0 THEN Append(best, x)
                          ELSE IF x.score > best[n].score THEN ReplaceAt(best, n, x) ELSE best
  BY <1>2 DEF KeepBest
<1>4. (I = {} /\ n = 0) \/ (n \in I /\ n # 0)
  <2> HIDE DEF I
  <2> QED BY <1>1, FoundAt
<1> HIDE DEF n
<1> QED BY <1>1, <1>3, <1>4 DEF BestAppends, BestReplaces, BestStays

Sorted == [nonHf : Seq(Versions), best : Seq(Versions)]

LEMMA KeepBestTyped ==
    ASSUME NEW best \in Seq(Versions), NEW x \in Versions
    PROVE  KeepBest(best, x) \in Seq(Versions)
<1>1. CASE BestAppends(best, x)
  BY <1>1 DEF BestAppends
<1>2. ASSUME NEW k \in DOMAIN best, BestReplaces(best, x, k) \/ BestStays(best, x, k)
      PROVE  KeepBest(best, x) \in Seq(Versions)
  <2>1. ReplaceAt(best, k, x) \in Seq(Versions)
    BY MembersOfReplaced
  <2> QED BY <1>2, <2>1 DEF BestReplaces, BestStays
<1> QED BY <1>1, <1>2, KeepBestIs

LEMMA SortIs ==
    ASSUME NEW a \in Sorted, NEW x \in Versions
    PROVE  /\ a.nonHf \in Seq(Versions) /\ a.best \in Seq(Versions)
           /\ Sort(a, x).nonHf = IF Group(x) = NoModel THEN Append(a.nonHf, x) ELSE a.nonHf
           /\ Sort(a, x).best = IF Group(x) = NoModel THEN a.best ELSE KeepBest(a.best, x)
           /\ Sort(a, x) \in Sorted
<1> DEFINE seqs == Seq(Versions)
<1>1. a \in [nonHf : seqs, best : seqs]
  BY DEF Sorted
<1>2. Append(a.nonHf, x) \in seqs
  BY <1>1
<1>3. KeepBest(a.best, x) \in seqs
  BY <1>1, KeepBestTyped
<1> HIDE DEF seqs
<1>4. CASE Group(x) = NoModel
  <2>1. Sort(a, x) = [a EXCEPT !.nonHf = Append(a.nonHf, x)]
    BY <1>4 DEF Sort
  <2> DEFINE more == Append(a.nonHf, x)
  <2> HIDE DEF more
  <2>2. [a EXCEPT !.nonHf = more].best = a.best /\ [a EXCEPT !.nonHf = more].nonHf = more
    BY <1>1
  <2>3. more \in seqs => [a EXCEPT !.nonHf = more] \in [nonHf : seqs, best : seqs]
    BY <1>1
  <2> QED BY <1>1, <1>2, <1>4, <2>1, <2>2, <2>3 DEF Sorted, seqs, more
<1>5. CASE Group(x) # NoModel
  <2>1. Sort(a, x) = [a EXCEPT !.best = KeepBest(a.best, x)]
    BY <1>5 DEF Sort
  <2> DEFINE more == KeepBest(a.best, x)
  <2> HIDE DEF more
  <2>2. [a EXCEPT !.best = more].best = more /\ [a EXCEPT !.best = more].nonHf = a.nonHf
    BY <1>1
  <2>3. more \in seqs => [a EXCEPT !.best = more] \in [nonHf : seqs, best : seqs]
    BY <1>1
  <2> QED BY <1>1, <1>3, <1>5, <2>1, <2>2, <2>3 DEF Sorted, seqs, more
<1> QED BY <1>4, <1>5

\* The turns of the loop of collapse_variants, as a function of what it holds and the index.
VariantTurn(t) == [p \in Sorted \X (1..Len(t)) |-> Sort(p[1], t[p[2]])]

VariantFix(h, t) ==
    h = [d \in SUBSET DOMAIN t |->
            IF d = {} THEN [nonHf |-> <<>>, best |-> <<>>] ELSE Sort(h[d \ {Max(d)}], t[Max(d)])]

LEMMA VariantTurnIs ==
    ASSUME NEW t \in Seq(Versions)
    PROVE  /\ Len(t) \in Nat /\ DOMAIN t = 1..Len(t)
           /\ [nonHf |-> <<>>, best |-> <<>>] \in Sorted
           /\ IsStep(VariantTurn(t), Len(t), Sorted)
           /\ \A a \in Sorted : \A k \in 1..Len(t) : VariantTurn(t)[<<a, k>>] = Sort(a, t[k])
<1> DEFINE Acc == Sorted
           f == VariantTurn(t)
<1>1. Len(t) \in Nat /\ DOMAIN t = 1..Len(t) /\ \A k \in 1..Len(t) : t[k] \in Versions
  OBVIOUS
<1>2. [nonHf |-> <<>>, best |-> <<>>] \in Acc
  BY DEF Sorted
<1>3. ASSUME NEW a \in Acc, NEW k \in 1..Len(t) PROVE Sort(a, t[k]) \in Acc
  BY <1>1, SortIs
<1> HIDE DEF Acc
<1>4. ASSUME NEW p \in Acc \X (1..Len(t)) PROVE Sort(p[1], t[p[2]]) \in Acc
  BY <1>3
<1>5. f = [p \in Acc \X (1..Len(t)) |-> Sort(p[1], t[p[2]])]
  BY DEF f, VariantTurn, Acc
<1> HIDE DEF f
<1>6. IsStep(f, Len(t), Acc)
  BY <1>4, <1>5 DEF IsStep
<1>7. ASSUME NEW a \in Acc, NEW k \in 1..Len(t) PROVE f[<<a, k>>] = Sort(a, t[k])
  BY <1>5
<1> QED BY <1>1, <1>2, <1>6, <1>7 DEF Acc, f

LEMMA VariantFolds ==
    ASSUME NEW t \in Seq(Versions)
    PROVE  \E h : /\ BestVariants(t) = h[1..Len(t)]
                  /\ Turns(h, Len(t), Sorted, [nonHf |-> <<>>, best |-> <<>>], VariantTurn(t))
<1> DEFINE Acc == Sorted
           f == VariantTurn(t)
           n == Len(t)
<1>1. n \in Nat /\ DOMAIN t = 1..n
  OBVIOUS
<1>2. /\ [nonHf |-> <<>>, best |-> <<>>] \in Acc /\ IsStep(f, n, Acc)
      /\ \A a \in Acc : \A k \in 1..n : f[<<a, k>>] = Sort(a, t[k])
  BY VariantTurnIs
<1> HIDE DEF Acc, f, n
<1>3. \E h : VariantFix(h, t)
  <2>1. PICK h \in [SUBSET (1..n) -> Acc] : Folds(h, n, [nonHf |-> <<>>, best |-> <<>>], f)
    <3> DEFINE base == [nonHf |-> <<>>, best |-> <<>>]
    <3>1. n \in Nat /\ base \in Acc /\ IsStep(f, n, Acc)
      BY <1>1, <1>2
    <3> HIDE DEF base
    <3>2. \E h \in [SUBSET (1..n) -> Acc] : Folds(h, n, base, f)
      BY <3>1, FoldExists
    <3> QED BY <3>2 DEF base
  <2>2. ASSUME NEW d \in SUBSET (1..n)
        PROVE  h[d] = IF d = {} THEN [nonHf |-> <<>>, best |-> <<>>] ELSE Sort(h[d \ {Max(d)}], t[Max(d)])
    <3>1. CASE d = {}
      BY <2>1, <3>1 DEF Folds
    <3>2. CASE d # {}
      <4>1. Max(d) \in 1..n
        BY <1>1, <3>2, MaxIs
      <4>2. h[d \ {Max(d)}] \in Acc
        OBVIOUS
      <4>3. h[d] = f[<<h[d \ {Max(d)}], Max(d)>>]
        BY <2>1, <3>2 DEF Folds
      <4>4. f[<<h[d \ {Max(d)}], Max(d)>>] = Sort(h[d \ {Max(d)}], t[Max(d)])
        BY <1>2, <4>1, <4>2
      <4> QED BY <3>2, <4>3, <4>4, Zenon
    <3> QED BY <3>1, <3>2, Zenon
  <2> DEFINE r == [d \in SUBSET (1..n) |->
                IF d = {} THEN [nonHf |-> <<>>, best |-> <<>>] ELSE Sort(h[d \ {Max(d)}], t[Max(d)])]
  <2>3. h = r
    <3>1. \A d \in SUBSET (1..n) : h[d] = r[d]
      BY <2>2, Zenon
    <3>2. DOMAIN h = SUBSET (1..n) /\ h = [d \in DOMAIN h |-> h[d]]
      OBVIOUS
    <3>3. DOMAIN r = SUBSET (1..n) /\ r = [d \in DOMAIN r |-> r[d]]
      BY Zenon
    <3> HIDE DEF r
    <3> QED BY <3>1, <3>2, <3>3
  <2> QED BY <1>1, <2>3, Zenon DEF VariantFix
<1> DEFINE c == CHOOSE h : VariantFix(h, t)
<1>4. VariantFix(c, t)
  BY <1>3, Zenon
<1>5. BestVariants(t) = c[1..n]
  BY <1>1 DEF BestVariants, FoldLeft, MapThenFoldSet, VariantFix
<1> HIDE DEF c
<1>6. c[{}] = [nonHf |-> <<>>, best |-> <<>>]
  BY <1>4 DEF VariantFix
<1>7. ASSUME NEW k \in 1..n, c[1..(k - 1)] \in Acc PROVE c[1..k] = f[c[1..(k - 1)], k]
  <2>1. 1..k \in SUBSET (1..n) /\ k \in Nat \ {0}
    BY <1>1
  <2>2. Max(1..k) = k /\ (1..k) \ {k} = 1..(k - 1) /\ 1..k # {}
    BY <2>1, MaxUpTo
  <2>3. c[1..k] = IF 1..k = {} THEN [nonHf |-> <<>>, best |-> <<>>] ELSE Sort(c[(1..k) \ {Max(1..k)}], t[Max(1..k)])
    <3> DEFINE d == 1..k
    <3>1. d \in SUBSET DOMAIN t
      BY <1>1, <2>1
    <3> HIDE DEF d
    <3>2. c[d] = IF d = {} THEN [nonHf |-> <<>>, best |-> <<>>] ELSE Sort(c[d \ {Max(d)}], t[Max(d)])
      BY <1>4, <3>1 DEF VariantFix
    <3> QED BY <3>2, Zenon DEF d
  <2>4. c[1..k] = Sort(c[1..(k - 1)], t[k])
    BY <2>2, <2>3, Zenon
  <2>5. f[<<c[1..(k - 1)], k>>] = Sort(c[1..(k - 1)], t[k])
    BY <1>2, <1>7
  <2> QED BY <2>4, <2>5
<1>8. Turns(c, n, Acc, [nonHf |-> <<>>, best |-> <<>>], f)
  BY <1>6, <1>7 DEF Turns
<1> QED BY <1>5, <1>8 DEF Acc, f, n

LEMMA VariantTyped ==
    ASSUME NEW t \in Seq(Versions)
    PROVE  BestVariants(t) \in Sorted
<1> DEFINE Acc == Sorted
           f == VariantTurn(t)
           n == Len(t)
           base == [nonHf |-> <<>>, best |-> <<>>]
<1>1. n \in Nat /\ base \in Acc /\ IsStep(f, n, Acc)
  BY VariantTurnIs
<1>2. PICK h : BestVariants(t) = h[1..n] /\ Turns(h, n, Acc, base, f)
  BY VariantFolds
<1> HIDE DEF Acc, f, n, base
<1>3. h[1..n] \in Acc
  BY <1>1, <1>2, TurnsAgree
<1> QED BY <1>2, <1>3 DEF Acc

\* For an input with one more item BestVariants takes one turn more.
LEMMA VariantGoes ==
    ASSUME NEW t \in Seq(Versions), NEW i \in Versions
    PROVE  BestVariants(Append(t, i)) = Sort(BestVariants(t), i)
<1> DEFINE n == Len(t)
           u == Append(t, i)
           Acc == Sorted
           f == VariantTurn(t)
           e == VariantTurn(u)
<1>1. /\ n \in Nat /\ u \in Seq(Versions) /\ Len(u) = n + 1 /\ u[n + 1] = i
      /\ \A k \in 1..n : k \in 1..(n + 1) /\ u[k] = t[k]
  OBVIOUS
<1>2. /\ [nonHf |-> <<>>, best |-> <<>>] \in Acc /\ IsStep(f, n, Acc)
      /\ \A a \in Acc : \A k \in 1..n : f[<<a, k>>] = Sort(a, t[k])
  BY VariantTurnIs
<1>3. PICK h : BestVariants(t) = h[1..n] /\ Turns(h, n, Acc, [nonHf |-> <<>>, best |-> <<>>], f)
  BY VariantFolds
<1> HIDE DEF u
<1>4. \A a \in Acc : \A k \in 1..(n + 1) : e[<<a, k>>] = Sort(a, u[k])
  BY <1>1, VariantTurnIs
<1>5. PICK g : BestVariants(u) = g[1..(n + 1)] /\ Turns(g, n + 1, Acc, [nonHf |-> <<>>, best |-> <<>>], e)
  BY <1>1, VariantFolds
<1> HIDE DEF n, Acc, f, e
<1>6. Turns(g, n, Acc, [nonHf |-> <<>>, best |-> <<>>], f)
  <2>1. g[{}] = [nonHf |-> <<>>, best |-> <<>>]
    BY <1>5 DEF Turns
  <2>2. ASSUME NEW k \in 1..n, g[1..(k - 1)] \in Acc PROVE g[1..k] = f[g[1..(k - 1)], k]
    <3>1. k \in 1..(n + 1) /\ u[k] = t[k]
      BY <1>1
    <3>2. g[1..k] = e[<<g[1..(k - 1)], k>>]
      BY <1>5, <2>2, <3>1 DEF Turns
    <3>3. e[<<g[1..(k - 1)], k>>] = Sort(g[1..(k - 1)], u[k])
      BY <1>4, <2>2, <3>1
    <3>4. f[<<g[1..(k - 1)], k>>] = Sort(g[1..(k - 1)], t[k])
      BY <1>2, <2>2
    <3> QED BY <3>1, <3>2, <3>3, <3>4
  <2> QED BY <2>1, <2>2 DEF Turns
<1>7. g[1..n] \in Acc /\ g[1..n] = h[1..n]
  <2> DEFINE base == [nonHf |-> <<>>, best |-> <<>>]
  <2>1. n \in Nat /\ base \in Acc /\ IsStep(f, n, Acc)
    BY <1>1, <1>2
  <2>2. Turns(g, n, Acc, base, f) /\ Turns(h, n, Acc, base, f)
    BY <1>3, <1>6
  <2> HIDE DEF base
  <2> QED BY <2>1, <2>2, TurnsAgree
<1>8. g[1..(n + 1)] = Sort(h[1..n], i)
  <2>1. n + 1 \in 1..(n + 1) /\ (n + 1) - 1 = n
    BY <1>1
  <2>2. g[1..(n + 1)] = e[<<g[1..n], n + 1>>]
    BY <1>5, <1>7, <2>1 DEF Turns
  <2>3. e[<<g[1..n], n + 1>>] = Sort(g[1..n], u[n + 1])
    BY <1>4, <1>7, <2>1
  <2> QED BY <1>1, <1>7, <2>2, <2>3
<1> QED BY <1>3, <1>5, <1>8 DEF u

LEMMA VariantEmpty == BestVariants(<<>>) = [nonHf |-> <<>>, best |-> <<>>]
<1>1. <<>> \in Seq(Versions) /\ Len(<<>>) = 0 /\ 1..0 = {}
  OBVIOUS
<1>2. PICK h : BestVariants(<<>>) = h[1..Len(<<>>)] /\ Turns(h, Len(<<>>), Sorted, [nonHf |-> <<>>, best |-> <<>>], VariantTurn(<<>>))
  BY <1>1, VariantFolds
<1>3. h[{}] = [nonHf |-> <<>>, best |-> <<>>]
  BY <1>2, Zenon DEF Turns
<1>4. BestVariants(<<>>) = h[{}]
  BY <1>1, <1>2, Zenon
<1> QED BY <1>3, <1>4, Zenon

\* The place of the first item of an input that equals x.
FirstPlace(s, x) == SelectInSeq(s, LAMBDA y : y = x)

LEMMA FirstPlaceIs ==
    ASSUME NEW s \in Seq(Versions), NEW x \in ToSet(s)
    PROVE  /\ FirstPlace(s, x) \in DOMAIN s /\ s[FirstPlace(s, x)] = x
           /\ \A n \in DOMAIN s : s[n] = x => FirstPlace(s, x) <= n
<1> DEFINE I == {k \in 1..Len(s) : s[k] = x}
           n == IF I # {} THEN Min(I) ELSE 0
<1>1. DOMAIN s = 1..Len(s) /\ I \in SUBSET (Nat \ {0})
  OBVIOUS
<1>2. FirstPlace(s, x) = n
  BY DEF SelectInSeq, FirstPlace
<1>3. I # {}
  BY <1>1 DEF ToSet
<1>4. n \in I /\ \A m \in I : n <= m
  <2> HIDE DEF I
  <2> QED BY <1>1, <1>3, FoundAt
<1> HIDE DEF n
<1> QED BY <1>1, <1>2, <1>4

\* A longer input leaves the place of what it held.
LEMMA FirstPlaceStays ==
    ASSUME NEW s \in Seq(Versions), NEW i \in Versions
    PROVE  /\ \A x \in ToSet(s) : FirstPlace(Append(s, i), x) <= FirstPlace(s, x)
           /\ FirstPlace(Append(s, i), i) <= Len(s) + 1
<1> DEFINE u == Append(s, i)
           new == Len(s) + 1
<1>1. /\ u \in Seq(Versions)
      /\ ToSet(u) = ToSet(s) \cup {i}
      /\ DOMAIN u = DOMAIN s \cup {new}
      /\ \A k \in DOMAIN s : u[k] = s[k]
      /\ u[new] = i
  BY MembersOfLonger
<1> HIDE DEF u, new
<1>2. ASSUME NEW x \in ToSet(s) PROVE FirstPlace(u, x) <= FirstPlace(s, x)
  <2>1. FirstPlace(s, x) \in DOMAIN s /\ s[FirstPlace(s, x)] = x
    BY FirstPlaceIs
  <2>2. x \in ToSet(u) /\ FirstPlace(s, x) \in DOMAIN u /\ u[FirstPlace(s, x)] = x
    BY <1>1, <2>1
  <2> QED BY <1>1, <2>2, FirstPlaceIs
<1>3. FirstPlace(u, i) <= new
  <2>1. i \in ToSet(u) /\ new \in DOMAIN u /\ u[new] = i
    BY <1>1
  <2> QED BY <1>1, <2>1, FirstPlaceIs
<1> QED BY <1>2, <1>3 DEF u, new

\* x is better than the item at place n, or as good and not later.
NoWorse(s, x, n) ==
    \/ s[n].score < x.score
    \/ s[n].score = x.score /\ FirstPlace(s, x) <= n

NonHfOK(s, nonHf) == ToSet(nonHf) = {x \in ToSet(s) : Group(x) = NoModel}

BestOK(s, best) ==
    /\ \A k \in DOMAIN best : best[k] \in ToSet(s) /\ Group(best[k]) # NoModel
    /\ \A m, n \in DOMAIN best : Group(best[m]) = Group(best[n]) => m = n
    /\ \A n \in DOMAIN s : Group(s[n]) # NoModel =>
          \E k \in DOMAIN best : Group(best[k]) = Group(s[n]) /\ NoWorse(s, best[k], n)

LEMMA NoWorseStays ==
    ASSUME NEW s \in Seq(Versions), NEW i \in Versions, NEW x \in ToSet(s),
           NEW n \in DOMAIN s, NoWorse(s, x, n)
    PROVE  NoWorse(Append(s, i), x, n)
<1> DEFINE u == Append(s, i)
<1>1. u[n] = s[n] /\ u \in Seq(Versions) /\ x \in ToSet(u)
  BY MembersOfLonger
<1>2. FirstPlace(u, x) <= FirstPlace(s, x)
  BY FirstPlaceStays
<1>3. n \in Int /\ FirstPlace(s, x) \in Int /\ FirstPlace(u, x) \in Int
  <2>1. FirstPlace(s, x) \in DOMAIN s
    BY FirstPlaceIs
  <2>2. FirstPlace(u, x) \in DOMAIN u
    <3> HIDE DEF u
    <3> QED BY <1>1, FirstPlaceIs
  <2> QED BY <1>1, <2>1, <2>2
<1> HIDE DEF u
<1>4. FirstPlace(s, x) <= n => FirstPlace(u, x) <= n
  BY <1>2, <1>3
<1>5. NoWorse(u, x, n)
  BY <1>1, <1>4 DEF NoWorse
<1> QED BY <1>5 DEF u

\* The new item, against the best of its group.
LEMMA NewIsNoWorse ==
    ASSUME NEW s \in Seq(Versions), NEW i \in Versions
    PROVE  /\ NoWorse(Append(s, i), i, Len(s) + 1)
           /\ \A x \in ToSet(s) : ~(i.score > x.score) => NoWorse(Append(s, i), x, Len(s) + 1)
           /\ \A x \in ToSet(s) : \A n \in DOMAIN s :
                 i.score > x.score /\ NoWorse(s, x, n) => NoWorse(Append(s, i), i, n)
<1> DEFINE u == Append(s, i)
           new == Len(s) + 1
<1>1. u[new] = i /\ u \in Seq(Versions) /\ \A n \in DOMAIN s : u[n] = s[n]
  BY MembersOfLonger
<1>2. FirstPlace(u, i) <= new /\ \A x \in ToSet(s) : FirstPlace(u, x) <= FirstPlace(s, x)
  BY FirstPlaceStays
<1>3. i.score \in Int /\ \A x \in ToSet(s) : x.score \in Int
  BY VersionsAre DEF ToSet
<1>4. ASSUME NEW x \in ToSet(s) PROVE FirstPlace(u, x) <= new
  <2>1. FirstPlace(s, x) \in DOMAIN s /\ new \in Int /\ \A k \in DOMAIN s : k \in Int /\ k <= new
    BY FirstPlaceIs
  <2>2. FirstPlace(u, x) \in DOMAIN u
    <3>1. x \in ToSet(u)
      BY MembersOfLonger
    <3> HIDE DEF u
    <3> QED BY <1>1, <3>1, FirstPlaceIs
  <2>3. FirstPlace(u, x) \in Int
    BY <1>1, <2>2
  <2> HIDE DEF u, new
  <2> QED BY <1>2, <2>1, <2>3
<1> HIDE DEF u, new
<1>5. NoWorse(u, i, new)
  BY <1>1, <1>2 DEF NoWorse
<1>6. ASSUME NEW x \in ToSet(s), ~(i.score > x.score) PROVE NoWorse(u, x, new)
  BY <1>1, <1>3, <1>4, <1>6 DEF NoWorse
<1>7. ASSUME NEW x \in ToSet(s), NEW n \in DOMAIN s, i.score > x.score, NoWorse(s, x, n)
      PROVE  NoWorse(u, i, n)
  <2>1. s[n].score \in Int /\ x.score \in Int
    BY <1>3 DEF ToSet
  <2>2. s[n].score < i.score
    BY <1>3, <1>7, <2>1 DEF NoWorse
  <2> QED BY <1>1, <2>2 DEF NoWorse
<1> QED BY <1>5, <1>6, <1>7 DEF u, new

LEMMA KeepBestOK ==
    ASSUME NEW s \in Seq(Versions), NEW best \in Seq(Versions), NEW i \in Versions,
           Group(i) # NoModel, BestOK(s, best)
    PROVE  BestOK(Append(s, i), KeepBest(best, i))
<1> DEFINE u == Append(s, i)
           new == Len(s) + 1
           kept == KeepBest(best, i)
<1>1. /\ ToSet(u) = ToSet(s) \cup {i}
      /\ DOMAIN u = DOMAIN s \cup {new}
      /\ \A k \in DOMAIN s : u[k] = s[k] /\ k # new
      /\ u[new] = i
  BY MembersOfLonger
<1>2. /\ NoWorse(u, i, new)
      /\ \A x \in ToSet(s) : ~(i.score > x.score) => NoWorse(u, x, new)
      /\ \A x \in ToSet(s) : \A n \in DOMAIN s :
            i.score > x.score /\ NoWorse(s, x, n) => NoWorse(u, i, n)
  BY NewIsNoWorse
<1>3. \A x \in ToSet(s) : \A n \in DOMAIN s : NoWorse(s, x, n) => NoWorse(u, x, n)
  BY NoWorseStays
<1>4. /\ \A k \in DOMAIN best : best[k] \in ToSet(s) /\ Group(best[k]) # NoModel
      /\ \A m, n \in DOMAIN best : Group(best[m]) = Group(best[n]) => m = n
      /\ \A n \in DOMAIN s : Group(s[n]) # NoModel =>
            \E k \in DOMAIN best : Group(best[k]) = Group(s[n]) /\ NoWorse(s, best[k], n)
  BY DEF BestOK
<1> HIDE DEF u, new
<1>5. CASE BestAppends(best, i)
  <2> DEFINE last == Len(best) + 1
  <2>1. kept = Append(best, i) /\ \A k \in DOMAIN best : Group(best[k]) # Group(i)
    BY <1>5 DEF BestAppends
  <2>2. /\ DOMAIN kept = DOMAIN best \cup {last}
        /\ \A k \in DOMAIN best : kept[k] = best[k] /\ k # last
        /\ kept[last] = i
    BY <2>1, MembersOfLonger
  <2> HIDE DEF kept, last
  <2>3. \A k \in DOMAIN kept : kept[k] \in ToSet(u) /\ Group(kept[k]) # NoModel
    BY <1>1, <1>4, <2>2
  <2>4. \A m, n \in DOMAIN kept : Group(kept[m]) = Group(kept[n]) => m = n
    BY <1>4, <2>1, <2>2
  <2>5. ASSUME NEW n \in DOMAIN u, Group(u[n]) # NoModel
        PROVE  \E k \in DOMAIN kept : Group(kept[k]) = Group(u[n]) /\ NoWorse(u, kept[k], n)
    <3>1. CASE n = new
      BY <1>1, <1>2, <2>2, <3>1
    <3>2. CASE n \in DOMAIN s
      <4>1. PICK k \in DOMAIN best : Group(best[k]) = Group(s[n]) /\ NoWorse(s, best[k], n)
        BY <1>1, <1>4, <2>5, <3>2
      <4>2. k \in DOMAIN kept /\ Group(kept[k]) = Group(u[n]) /\ NoWorse(u, kept[k], n)
        BY <1>1, <1>3, <1>4, <2>2, <3>2, <4>1
      <4> QED BY <4>2
    <3> QED BY <1>1, <3>1, <3>2
  <2> QED BY <2>3, <2>4, <2>5 DEF BestOK, u, kept
<1>6. ASSUME NEW m \in DOMAIN best, BestReplaces(best, i, m) PROVE BestOK(u, kept)
  <2>1. kept = ReplaceAt(best, m, i) /\ Group(best[m]) = Group(i) /\ i.score > best[m].score
    BY <1>6 DEF BestReplaces
  <2>2. DOMAIN kept = DOMAIN best /\ kept[m] = i /\ \A l \in DOMAIN best \ {m} : kept[l] = best[l]
    BY <2>1, MembersOfReplaced
  <2> HIDE DEF kept
  <2>3. \A k \in DOMAIN kept : kept[k] \in ToSet(u) /\ Group(kept[k]) # NoModel
    BY <1>1, <1>4, <2>2
  <2>4. \A k \in DOMAIN best : Group(kept[k]) = Group(best[k])
    BY <2>1, <2>2
  <2>5. \A l, n \in DOMAIN kept : Group(kept[l]) = Group(kept[n]) => l = n
    BY <1>4, <2>2, <2>4
  <2>6. ASSUME NEW n \in DOMAIN u, Group(u[n]) # NoModel
        PROVE  \E k \in DOMAIN kept : Group(kept[k]) = Group(u[n]) /\ NoWorse(u, kept[k], n)
    <3>1. CASE n = new
      BY <1>1, <1>2, <2>2, <3>1
    <3>2. CASE n \in DOMAIN s
      <4>1. PICK k \in DOMAIN best : Group(best[k]) = Group(s[n]) /\ NoWorse(s, best[k], n)
        BY <1>1, <1>4, <2>6, <3>2
      <4>2. Group(kept[k]) = Group(u[n])
        BY <1>1, <2>4, <3>2, <4>1
      <4>3. NoWorse(u, kept[k], n)
        <5>1. CASE k = m
          BY <1>2, <1>4, <2>1, <2>2, <3>2, <4>1, <5>1
        <5>2. CASE k # m
          BY <1>3, <1>4, <2>2, <3>2, <4>1, <5>2
        <5> QED BY <5>1, <5>2
      <4> QED BY <2>2, <4>2, <4>3
    <3> QED BY <1>1, <3>1, <3>2
  <2> QED BY <2>3, <2>5, <2>6 DEF BestOK
<1>7. ASSUME NEW m \in DOMAIN best, BestStays(best, i, m) PROVE BestOK(u, kept)
  <2>1. kept = best /\ Group(best[m]) = Group(i) /\ ~(i.score > best[m].score)
    BY <1>7 DEF BestStays
  <2> HIDE DEF kept
  <2>2. \A k \in DOMAIN kept : kept[k] \in ToSet(u) /\ Group(kept[k]) # NoModel
    BY <1>1, <1>4, <2>1
  <2>3. ASSUME NEW n \in DOMAIN u, Group(u[n]) # NoModel
        PROVE  \E k \in DOMAIN kept : Group(kept[k]) = Group(u[n]) /\ NoWorse(u, kept[k], n)
    <3>1. CASE n = new
      BY <1>1, <1>2, <1>4, <2>1, <3>1
    <3>2. CASE n \in DOMAIN s
      <4>1. PICK k \in DOMAIN best : Group(best[k]) = Group(s[n]) /\ NoWorse(s, best[k], n)
        BY <1>1, <1>4, <2>3, <3>2
      <4>2. Group(kept[k]) = Group(u[n]) /\ NoWorse(u, kept[k], n)
        BY <1>1, <1>3, <1>4, <2>1, <3>2, <4>1
      <4> QED BY <2>1, <4>2
    <3> QED BY <1>1, <3>1, <3>2
  <2> QED BY <1>4, <2>1, <2>2, <2>3 DEF BestOK
<1> QED BY <1>5, <1>6, <1>7, KeepBestIs DEF u

LEMMA SortOK ==
    ASSUME NEW s \in Seq(Versions), NEW a \in Sorted, NEW i \in Versions,
           NonHfOK(s, a.nonHf), BestOK(s, a.best)
    PROVE  /\ NonHfOK(Append(s, i), Sort(a, i).nonHf)
           /\ BestOK(Append(s, i), Sort(a, i).best)
<1>1. /\ a.nonHf \in Seq(Versions) /\ a.best \in Seq(Versions)
      /\ Sort(a, i).nonHf = IF Group(i) = NoModel THEN Append(a.nonHf, i) ELSE a.nonHf
      /\ Sort(a, i).best = IF Group(i) = NoModel THEN a.best ELSE KeepBest(a.best, i)
  BY SortIs
<1> DEFINE u == Append(s, i)
           new == Len(s) + 1
<1>2. /\ ToSet(u) = ToSet(s) \cup {i}
      /\ DOMAIN u = DOMAIN s \cup {new}
      /\ \A k \in DOMAIN s : u[k] = s[k]
      /\ u[new] = i
  BY MembersOfLonger
<1>3. \A x \in ToSet(s) : \A n \in DOMAIN s : NoWorse(s, x, n) => NoWorse(u, x, n)
  BY NoWorseStays
<1> HIDE DEF u, new
<1>4. CASE Group(i) = NoModel
  <2>1. ToSet(Append(a.nonHf, i)) = ToSet(a.nonHf) \cup {i}
    BY <1>1, MembersOfLonger
  <2>2. NonHfOK(u, Append(a.nonHf, i))
    BY <1>2, <1>4, <2>1 DEF NonHfOK
  <2>3. \A n \in DOMAIN u : Group(u[n]) # NoModel => n \in DOMAIN s /\ u[n] = s[n]
    BY <1>2, <1>4
  <2>4. BestOK(u, a.best)
    BY <1>2, <1>3, <2>3 DEF BestOK
  <2> QED BY <1>1, <1>4, <2>2, <2>4 DEF u
<1>5. CASE Group(i) # NoModel
  <2>1. BestOK(u, KeepBest(a.best, i))
    BY <1>1, <1>5, KeepBestOK DEF u
  <2>2. NonHfOK(u, a.nonHf)
    BY <1>2, <1>5 DEF NonHfOK
  <2> QED BY <1>1, <1>5, <2>1, <2>2 DEF u
<1> QED BY <1>4, <1>5

VariantsOK(s) == NonHfOK(s, BestVariants(s).nonHf) /\ BestOK(s, BestVariants(s).best)

VariantInv == VariantsOK(items)

LEMMA VariantInvariant == Spec => []VariantInv
<1>1. Init => VariantInv
  <2> SUFFICES ASSUME Init PROVE VariantsOK(<<>>)
    BY DEF Init, VariantInv
  <2>1. BestVariants(<<>>) = [nonHf |-> <<>>, best |-> <<>>]
    BY VariantEmpty
  <2>2. DOMAIN <<>> = {} /\ ToSet(<<>>) = {}
    BY DEF ToSet
  <2>3. BestVariants(<<>>).nonHf = <<>> /\ BestVariants(<<>>).best = <<>>
    BY <2>1
  <2> QED BY <2>2, <2>3 DEF VariantsOK, NonHfOK, BestOK
<1>2. VariantInv /\ InputOK /\ [Next]_items => VariantInv'
  <2> SUFFICES ASSUME VariantsOK(items), items \in Seq(Versions), [Next]_items
               PROVE  VariantsOK(items')
    BY ListsOfVersions DEF VariantInv, InputOK
  <2>1. CASE UNCHANGED items
    BY <2>1
  <2>2. ASSUME NEW i \in Candidates, Extend(i) PROVE VariantsOK(items')
    <3> DEFINE a == BestVariants(items)
    <3>1. items' = Append(items, i) /\ i \in Versions
      BY <2>2 DEF Extend, Versions
    <3>2. a \in Sorted /\ BestVariants(items') = Sort(a, i)
      BY <3>1, VariantTyped, VariantGoes
    <3>3. NonHfOK(items, a.nonHf) /\ BestOK(items, a.best)
      BY DEF VariantsOK
    <3> HIDE DEF a
    <3> QED BY <3>1, <3>2, <3>3, SortOK DEF VariantsOK
  <2> QED BY <2>1, <2>2 DEF Next
<1> QED BY <1>1, <1>2, InputIsSequence, PTL DEF Spec

\* Of the variants of a model the feed keeps one, the first of the best, and it
\* keeps every item that is no variant, for every list of rows.
THEOREM VariantsCollapse == Spec => []FeedKeepsBestVariant
<1>1. VariantInv /\ InputOK => FeedKeepsBestVariant
  <2> SUFFICES ASSUME VariantsOK(items), items \in Seq(Versions) PROVE FeedKeepsBestVariant
    BY ListsOfVersions DEF VariantInv, InputOK
  <2> DEFINE nonHf == BestVariants(items).nonHf
             best == BestVariants(items).best
             kept == CollapseVariants(items)
  <2>1. nonHf \in Seq(Versions) /\ best \in Seq(Versions)
    BY VariantTyped DEF Sorted
  <2>2. NonHfOK(items, nonHf) /\ BestOK(items, best)
    BY DEF VariantsOK
  <2>3. kept = nonHf \o best
    BY DEF CollapseVariants
  <2> HIDE DEF nonHf, best, kept
  <2>4. /\ ToSet(kept) = ToSet(nonHf) \cup ToSet(best)
        /\ \A k \in DOMAIN nonHf : kept[k] = nonHf[k]
        /\ \A k \in DOMAIN best : /\ Len(nonHf) + k \in DOMAIN kept
                                  /\ kept[Len(nonHf) + k] = best[k]
        /\ \A k \in DOMAIN kept :
              k \in DOMAIN nonHf \/ \E m \in DOMAIN best : k = Len(nonHf) + m
    BY <2>1, <2>3, MembersOfJoin
  <2>5. \A k \in DOMAIN kept : Group(kept[k]) # NoModel =>
            \E m \in DOMAIN best : k = Len(nonHf) + m /\ kept[k] = best[m]
    <3>1. \A k \in DOMAIN nonHf : Group(nonHf[k]) = NoModel
      BY <2>2 DEF NonHfOK, ToSet
    <3> QED BY <2>4, <3>1
  <2>6. \A x \in ToSet(items) : Group(x) = NoModel => x \in ToSet(kept)
    BY <2>2, <2>4 DEF NonHfOK
  <2>7. ASSUME NEW x \in ToSet(items), Group(x) # NoModel
        PROVE  Cardinality({k \in DOMAIN kept : Group(kept[k]) = Group(x)}) = 1
    <3>1. PICK n \in DOMAIN items : x = items[n]
      BY DEF ToSet
    <3>2. PICK m \in DOMAIN best : Group(best[m]) = Group(x)
      BY <2>2, <2>7, <3>1 DEF BestOK
    <3>3. ASSUME NEW k \in DOMAIN kept, Group(kept[k]) = Group(x) PROVE k = Len(nonHf) + m
      <4>1. PICK l \in DOMAIN best : k = Len(nonHf) + l /\ kept[k] = best[l]
        BY <2>5, <2>7, <3>3
      <4>2. l = m
        BY <2>2, <3>2, <3>3, <4>1 DEF BestOK
      <4> QED BY <4>1, <4>2
    <3>4. {k \in DOMAIN kept : Group(kept[k]) = Group(x)} = {Len(nonHf) + m}
      BY <2>4, <3>2, <3>3
    <3> QED BY <3>4, FS_Singleton
  <2>8. ASSUME NEW k \in DOMAIN kept, NEW n \in DOMAIN items,
               Group(kept[k]) # NoModel, Group(items[n]) = Group(kept[k])
        PROVE  NoWorse(items, kept[k], n)
    <3>1. PICK m \in DOMAIN best : kept[k] = best[m]
      BY <2>5, <2>8
    <3>2. PICK l \in DOMAIN best : Group(best[l]) = Group(items[n]) /\ NoWorse(items, best[l], n)
      BY <2>2, <2>8 DEF BestOK
    <3>3. l = m
      BY <2>2, <2>8, <3>1, <3>2 DEF BestOK
    <3> QED BY <3>1, <3>2, <3>3
  <2> QED BY <2>6, <2>7, <2>8 DEF FeedKeepsBestVariant, NoWorse, FirstPlace, kept
<1> QED BY <1>1, VariantInvariant, InputIsSequence, PTL

-----------------------------------------------------------------------------
(***************************************************************************)
(* Feed: what the operators it is built from return.                       *)
(***************************************************************************)
\* A non-empty finite set of numbers has a greatest one: inclusion orders the
\* sets of the numbers above each without endless descent.
LEMMA MaxOf ==
    ASSUME NEW I \in SUBSET Int, IsFiniteSet(I), I # {}
    PROVE  Max(I) \in I /\ \A k \in I : k <= Max(I)
<1> DEFINE Above(m) == {k \in I : k > m}
           T == {Above(m) : m \in I}
<1>1. \A m \in I : Above(m) \in FiniteSubsetsOf(I)
  <2> TAKE m \in I
  <2>1. Above(m) \subseteq I
    OBVIOUS
  <2>2. IsFiniteSet(Above(m))
    <3> DEFINE J == Above(m)
    <3> HIDE DEF J
    <3>1. J \subseteq I
      BY <2>1 DEF J
    <3>2. IsFiniteSet(J)
      BY <3>1, FS_Subset
    <3> QED BY <3>2 DEF J
  <2> QED BY <2>1, <2>2 DEF FiniteSubsetsOf
<1>2. T \subseteq FiniteSubsetsOf(I) /\ T # {}
  BY <1>1
<1>3. IsWellFoundedOn(StrictSubsetOrdering(I), FiniteSubsetsOf(I))
  BY FS_StrictSubsetOrderingWellFounded
<1>4. PICK J \in T : \A K \in T : <<K, J>> \notin StrictSubsetOrdering(I)
  <2> HIDE DEF T
  <2> QED BY <1>2, <1>3, WFMin
<1>5. PICK m \in I : J = Above(m)
  OBVIOUS
<1>6. ASSUME NEW k \in I, k > m PROVE FALSE
  <2>1. \A j \in I : j > k => j > m
    BY <1>6
  <2>2. k \in Above(m) /\ k \notin Above(k)
    BY <1>6
  <2>3. Above(k) \in T /\ Above(k) \subseteq Above(m) /\ Above(k) # Above(m)
    BY <2>1, <2>2
  <2>4. <<Above(k), Above(m)>> \in StrictSubsetOrdering(I)
    BY <2>3 DEF StrictSubsetOrdering
  <2> QED BY <1>4, <1>5, <2>3, <2>4
<1>7. \A k \in I : m >= k
  BY <1>6
<1>8. Max(I) \in I /\ \A k \in I : Max(I) >= k
  BY <1>7 DEF Max
<1> QED BY <1>8

LEMMA MinOfTwo ==
    ASSUME NEW a \in Int, NEW b \in Int
    PROVE  /\ Min({a, b}) = IF a <= b THEN a ELSE b
           /\ Max({a, b}) = IF a <= b THEN b ELSE a
<1> DEFINE S == {a, b}
<1>1. Min(S) = IF a <= b THEN a ELSE b
  <2> DEFINE m == IF a <= b THEN a ELSE b
  <2>1. m \in S /\ \A k \in S : m <= k
    OBVIOUS
  <2>2. Min(S) \in S /\ \A k \in S : Min(S) <= k
    BY <2>1 DEF Min
  <2>3. Min(S) <= m /\ m <= Min(S) /\ Min(S) \in Int /\ m \in Int
    BY <2>1, <2>2
  <2> HIDE DEF m
  <2>4. Min(S) = m
    BY <2>3
  <2> QED BY <2>4 DEF m
<1>2. Max(S) = IF a <= b THEN b ELSE a
  <2> DEFINE m == IF a <= b THEN b ELSE a
  <2>1. m \in S /\ \A k \in S : m >= k
    OBVIOUS
  <2>2. Max(S) \in S /\ \A k \in S : Max(S) >= k
    BY <2>1 DEF Max
  <2>3. Max(S) <= m /\ m <= Max(S) /\ Max(S) \in Int /\ m \in Int
    BY <2>1, <2>2
  <2> HIDE DEF m
  <2>4. Max(S) = m
    BY <2>3
  <2> QED BY <2>4 DEF m
<1> QED BY <1>1, <1>2

Unfolds(f, n, base, step) ==
    f[0] = base /\ \A k \in 1..n : f[k] = step[<<f[k - 1], k>>]

\* A function that calls itself for the number before exists.
LEMMA RecursionExists ==
    ASSUME NEW n \in Nat, NEW Acc, NEW base \in Acc, NEW step, IsStep(step, n, Acc)
    PROVE  \E f \in [0..n -> Acc] : Unfolds(f, n, base, step)
<1>1. PICK h \in [SUBSET (1..n) -> Acc] : Folds(h, n, base, step)
  BY FoldExists
<1> DEFINE f == [k \in 0..n |-> h[1..k]]
<1>2. \A k \in 0..n : 1..k \in SUBSET (1..n)
  OBVIOUS
<1>3. f \in [0..n -> Acc]
  BY <1>2
<1>4. f[0] = base
  <2>1. 1..0 = {} /\ {} \in SUBSET (1..n)
    OBVIOUS
  <2>2. h[{}] = base
    BY <1>1, <2>1 DEF Folds
  <2> QED BY <2>1, <2>2
<1>5. ASSUME NEW k \in 1..n PROVE f[k] = step[<<f[k - 1], k>>]
  <2>1. k \in Nat \ {0} /\ k \in 0..n /\ k - 1 \in 0..n
    OBVIOUS
  <2>2. Max(1..k) = k /\ (1..k) \ {k} = 1..(k - 1) /\ 1..k # {}
    BY <2>1, MaxUpTo
  <2> DEFINE d == 1..k
  <2>3. d \in SUBSET (1..n)
    BY <1>2, <2>1
  <2> HIDE DEF d
  <2>4. d # {} => h[d] = step[<<h[d \ {Max(d)}], Max(d)>>]
    BY <1>1, <2>3 DEF Folds
  <2>5. h[1..k] = step[<<h[1..(k - 1)], k>>]
    BY <2>2, <2>4, Zenon DEF d
  <2> QED BY <2>1, <2>5
<1> HIDE DEF f
<1> QED BY <1>3, <1>4, <1>5 DEF Unfolds

LEMMA InsertedTyped ==
    ASSUME NEW S, NEW s \in Seq(S), NEW n \in 1..(Len(s) + 1), NEW x \in S
    PROVE  InsertAt(s, n, x) \in Seq(S) /\ Len(InsertAt(s, n, x)) = Len(s) + 1
<1> DEFINE m == Len(s)
           a == SubSeq(s, 1, n - 1)
           b == SubSeq(s, n, m)
<1>1. m \in Nat /\ DOMAIN s = 1..m /\ n \in 1..(m + 1) /\ \A k \in 1..m : s[k] \in S
  OBVIOUS
<1>2. a \in Seq(S) /\ Len(a) = n - 1
  <2>1. \A k \in 1..(n - 1) : s[k] \in S
    BY <1>1
  <2>2. 1 \in Int /\ n - 1 \in Int
    BY <1>1
  <2>3. a \in Seq(S) /\ Len(a) = IF 1 <= n - 1 THEN (n - 1) - 1 + 1 ELSE 0
    BY <2>1, <2>2, SubSeqProperties
  <2> HIDE DEF a, m
  <2> QED BY <1>1, <2>3
<1>3. b \in Seq(S) /\ Len(b) = m + 1 - n
  <2>1. \A k \in n..m : s[k] \in S
    BY <1>1
  <2>2. n \in Int /\ m \in Int
    BY <1>1
  <2>3. b \in Seq(S) /\ Len(b) = IF n <= m THEN m - n + 1 ELSE 0
    BY <2>1, <2>2, SubSeqProperties
  <2> HIDE DEF b, m
  <2> QED BY <1>1, <2>3
<1> HIDE DEF a, b
<1>4. InsertAt(s, n, x) = a \o <<x>> \o b
  BY DEF InsertAt, a, b, m
<1> DEFINE one == <<x>>
<1>5. one \in Seq(S) /\ Len(one) = 1
  OBVIOUS
<1> HIDE DEF one
<1>6. a \o one \in Seq(S) /\ Len(a \o one) = Len(a) + Len(one)
  BY <1>2, <1>5, MembersOfJoin
<1> DEFINE c == a \o one
<1> HIDE DEF c
<1>7. c \in Seq(S) /\ Len(c) = Len(a) + Len(one)
  BY <1>6 DEF c
<1>8. c \o b \in Seq(S) /\ Len(c \o b) = Len(c) + Len(b)
  BY <1>3, <1>7, MembersOfJoin
<1> HIDE DEF m
<1>9. Len(c) + Len(b) = m + 1
  BY <1>1, <1>2, <1>3, <1>5, <1>7
<1> QED BY <1>4, <1>8, <1>9 DEF c, m, one

\* Prefix cuts, or leaves what is no longer.
LEMMA PrefixIs ==
    ASSUME NEW S, NEW s \in Seq(S), NEW n \in Nat
    PROVE  /\ Prefix(s, n) \in Seq(S)
           /\ Len(Prefix(s, n)) <= Len(s)
           /\ Len(s) <= n => Prefix(s, n) = s
<1> DEFINE m == IF n <= Len(s) THEN n ELSE Len(s)
<1>1. Len(s) \in Nat /\ DOMAIN s = 1..Len(s) /\ m \in 0..Len(s) /\ \A k \in 1..Len(s) : s[k] \in S
  OBVIOUS
<1>2. n \in Int /\ Len(s) \in Int
  BY <1>1
<1>3. Min({n, Len(s)}) = m
  BY <1>2, MinOfTwo
<1>4. Len(s) <= n => m = Len(s)
  BY <1>2
<1> HIDE DEF m
<1>5. Prefix(s, n) = SubSeq(s, 1, m)
  BY <1>3 DEF Prefix
<1>6. SubSeq(s, 1, m) \in Seq(S) /\ Len(SubSeq(s, 1, m)) = IF 1 <= m THEN m - 1 + 1 ELSE 0
  <2>1. \A k \in 1..m : s[k] \in S
    BY <1>1
  <2>2. 1 \in Int /\ m \in Int
    BY <1>1
  <2> QED BY <2>1, <2>2, SubSeqProperties
<1>7. Len(SubSeq(s, 1, m)) <= Len(s)
  BY <1>1, <1>6
<1>8. SubSeq(s, 1, Len(s)) = s
  BY SubSeqFull
<1> QED BY <1>4, <1>5, <1>6, <1>7, <1>8

LEMMA VelocityIsInteger ==
    ASSUME NEW x \in Versions, HasVelocity(x)
    PROVE  Velocity(x) \in Int
<1> DEFINE byBirth == OnGitHub(x) /\ x.born # NoBirth
           since == IF byBirth THEN x.born ELSE x.age
           hours == Max({1, since})
           rate == (Unit * x.score * (IF OnGitHub(x) THEN 24 ELSE 1)) \div hours
           pace == CASE x.score <= 0 -> 0
                     [] x.score > 0 /\ Kind(x) = "huggingface" -> Unit * x.score
                     [] x.score > 0 /\ Kind(x) # "huggingface" ->
                           IF ~byBirth /\ ~x.dated THEN 0 ELSE rate
           limit == Threshold[Kind(x)]
<1>1. /\ x.score \in Int /\ x.born \in Int /\ x.age \in Int
      /\ Kind(x) \in DOMAIN Threshold \cup {"rss", "arxiv"}
      /\ \A k \in DOMAIN Threshold : Threshold[k] \in Nat \ {0}
  BY VersionsAre, FeedAssumption DEF FeedAssumption
<1>2. limit \in Nat \ {0}
  <2>1. Kind(x) \notin {"rss", "arxiv"}
    BY DEF HasVelocity, Kind
  <2> QED BY <1>1, <2>1
<1>3. hours \in Nat \ {0}
  <2>1. since \in Int
    BY <1>1
  <2> HIDE DEF since
  <2>2. 1 \in Int
    OBVIOUS
  <2>3. hours = IF 1 <= since THEN since ELSE 1
    BY <2>1, <2>2, MinOfTwo, Zenon
  <2> QED BY <2>1, <2>3
<1> HIDE DEF hours
<1>4. rate \in Int
  <2> DEFINE a == Unit * x.score * (IF OnGitHub(x) THEN 24 ELSE 1)
  <2>1. a \in Int
    BY <1>1 DEF Unit
  <2> HIDE DEF a
  <2>2. a \div hours \in Int
    BY <1>3, <2>1
  <2> QED BY <2>2 DEF a
<1>5. Unit * x.score \in Int
  BY <1>1 DEF Unit
<1> HIDE DEF rate, byBirth
<1>6. pace \in Int
  <2>1. x.score <= 0 \/ x.score > 0
    BY <1>1
  <2>2. CASE x.score <= 0
    <3>1. ~(x.score > 0)
      BY <1>1, <2>2
    <3> QED BY <2>2, <3>1
  <2>3. CASE x.score > 0
    <3>1. ~(x.score <= 0)
      BY <1>1, <2>3
    <3> QED BY <1>4, <1>5, <2>3, <3>1
  <2> QED BY <2>1, <2>2, <2>3
<1>7. Velocity(x) = Min({Unit, (100 * pace) \div limit})
  BY DEF Velocity, hours, rate, byBirth
<1> HIDE DEF pace, limit
<1>8. (100 * pace) \div limit \in Int
  <2> DEFINE a == 100 * pace
  <2>1. a \in Int
    BY <1>6
  <2> HIDE DEF a
  <2>2. a \div limit \in Int
    BY <1>2, <2>1
  <2> QED BY <2>2 DEF a
<1> DEFINE b == (100 * pace) \div limit
<1> HIDE DEF b
<1>9. Min({Unit, b}) \in Int
  <2>1. b \in Int /\ Unit \in Int
    BY <1>8 DEF b, Unit
  <2> QED BY <2>1, MinOfTwo
<1> QED BY <1>7, <1>9 DEF b

LEMMA ScoreIsInteger ==
    ASSUME NEW x \in Versions
    PROVE  Score(x) \in Int
<1>1. /\ x.relevance \in Int /\ x.age \in Int
      /\ x.topic \in DOMAIN TopicWeight
      /\ RecencyWindow \in Nat \ {0}
      /\ TopicWeight[x.topic] \in Nat
  BY VersionsAre, FeedAssumption DEF FeedAssumption
<1>2. Relevance(x) \in Int
  <2> DEFINE a == (Unit * (x.relevance - 75)) \div 25
  <2>1. a \in Int /\ Unit \in Int
    BY <1>1 DEF Unit
  <2>2. Relevance(x) = Max({0, Min({Unit, a})})
    BY DEF Relevance
  <2> HIDE DEF a
  <2>3. Min({Unit, a}) \in Int
    BY <2>1, MinOfTwo
  <2> DEFINE b == Min({Unit, a})
  <2> HIDE DEF b
  <2>4. b \in Int
    BY <2>3 DEF b
  <2>5. Max({0, b}) = IF 0 <= b THEN b ELSE 0
    <3>1. 0 \in Int
      OBVIOUS
    <3> QED BY <2>4, <3>1, MinOfTwo, Zenon
  <2> QED BY <2>2, <2>4, <2>5 DEF b
<1>3. Recency(x) \in Int
  <2> DEFINE a == Unit * x.age
             b == Unit - a \div RecencyWindow
  <2>1. a \in Int
    BY <1>1 DEF Unit
  <2>2. Recency(x) = IF x.dated THEN Max({0, b}) ELSE 0
    BY DEF Recency
  <2> HIDE DEF a
  <2>3. b \in Int
    <3>1. a \div RecencyWindow \in Int
      BY <1>1, <2>1
    <3> QED BY <3>1 DEF Unit
  <2> HIDE DEF b
  <2>4. Max({0, b}) = IF 0 <= b THEN b ELSE 0
    <3>1. 0 \in Int
      OBVIOUS
    <3> QED BY <2>3, <3>1, MinOfTwo, Zenon
  <2> QED BY <2>2, <2>3, <2>4
<1>4. Topic(x) \in Int
  BY <1>1 DEF Topic, Unit
<1>5. HasVelocity(x) => Velocity(x) \in Int
  BY VelocityIsInteger
<1> QED BY <1>2, <1>3, <1>4, <1>5 DEF Score

LEMMA MaxSimilarityIs ==
    ASSUME NEW x, NEW shown \in Seq(Versions)
    PROVE  MaxSimilarity(x, shown) \in 0..10
<1> DEFINE I == {Similarity(x, y) : y \in ToSet(shown)}
<1>1. \A y : Similarity(x, y) \in 0..10
  BY DEF Similarity, TitleOverlap
<1>2. I \subseteq 0..10
  BY <1>1
<1>3. IsFiniteSet(I)
  <2>1. IsFiniteSet(0..10)
    <3>1. 0 \in Int /\ 10 \in Int
      OBVIOUS
    <3> QED BY <3>1, FS_Interval, Zenon
  <2> HIDE DEF I
  <2> QED BY <1>2, <2>1, FS_Subset
<1>4. shown # <<>> => I # {}
  <2>1. shown # <<>> => 1 \in DOMAIN shown
    OBVIOUS
  <2> QED BY <2>1 DEF ToSet
<1> HIDE DEF I
<1>5. I # {} => Max(I) \in I
  <2>1. I \in SUBSET Int
    BY <1>2
  <2> QED BY <1>3, <2>1, MaxOf
<1>6. MaxSimilarity(x, shown) = IF shown = <<>> THEN 0 ELSE Max(I)
  BY DEF MaxSimilarity, I
<1>7. CASE shown = <<>>
  <2>1. MaxSimilarity(x, shown) = 0
    BY <1>6, <1>7, Zenon
  <2> QED BY <2>1
<1>8. CASE shown # <<>>
  <2>1. MaxSimilarity(x, shown) = Max(I)
    BY <1>6, <1>8, Zenon
  <2> QED BY <1>2, <1>4, <1>5, <1>8, <2>1
<1> QED BY <1>7, <1>8

LEMMA GainIsInteger ==
    ASSUME NEW x \in Versions, NEW shown \in Seq(Versions), NEW lambda \in 0..10
    PROVE  Gain(x, shown, lambda) \in Int
<1> DEFINE s == Score(x)
           m == MaxSimilarity(x, shown)
<1>1. s \in Int /\ m \in Int /\ lambda \in Int
  <2>1. m \in 0..10
    BY MaxSimilarityIs
  <2> QED BY <2>1, ScoreIsInteger
<1>2. Gain(x, shown, lambda) = lambda * s - (10 - lambda) * 10 * Unit * m
  BY DEF Gain
<1> HIDE DEF s, m
<1>3. lambda * s \in Int /\ (10 - lambda) * 10 * Unit * m \in Int
  BY <1>1 DEF Unit
<1> QED BY <1>2, <1>3

\* The loop of mmr_rank has a candidate to choose as long as one is left, and
\* there is none of a greater gain.
LEMMA ChoiceIs ==
    ASSUME NEW left \in Seq(Versions), left # <<>>, NEW shown \in Seq(Versions),
           NEW lambda \in 0..10
    PROVE  /\ Choice(left, shown, lambda) \in DOMAIN left
           /\ \A m \in DOMAIN left :
                 Gain(left[m], shown, lambda) <= Gain(left[Choice(left, shown, lambda)], shown, lambda)
<1> DEFINE g == [n \in DOMAIN left |-> Gain(left[n], shown, lambda)]
           I == {g[n] : n \in DOMAIN left}
<1>1. DOMAIN left = 1..Len(left) /\ Len(left) \in Nat \ {0}
  OBVIOUS
<1>2. \A n \in DOMAIN left : g[n] = Gain(left[n], shown, lambda) /\ g[n] \in Int
  <2>1. \A n \in DOMAIN left : left[n] \in Versions
    OBVIOUS
  <2> QED BY <2>1, GainIsInteger
<1> HIDE DEF g
<1>3. I \in SUBSET Int /\ I # {}
  BY <1>1, <1>2
<1>4. IsFiniteSet(I)
  <2>1. IsFiniteSet(DOMAIN left)
    BY <1>1, FS_Interval
  <2>2. g \in Surjection(DOMAIN left, I)
    <3>1. g \in [DOMAIN left -> I]
      BY DEF g
    <3>2. \A k \in I : \E n \in DOMAIN left : g[n] = k
      OBVIOUS
    <3> QED BY <3>1, <3>2 DEF Surjection
  <2> HIDE DEF I
  <2> QED BY <2>1, <2>2, FS_Surjection
<1> DEFINE best == Max(I)
           W == {n \in DOMAIN left : g[n] = best}
<1>5. best \in I /\ \A k \in I : k <= best
  <2> HIDE DEF I
  <2>1. Max(I) \in I /\ \A k \in I : k <= Max(I)
    BY <1>3, <1>4, MaxOf
  <2> QED BY <2>1
<1>6. W \in SUBSET Nat /\ W # {}
  <2>1. \E n \in DOMAIN left : g[n] = best
    BY <1>5
  <2> HIDE DEF best
  <2>2. DOMAIN left \subseteq Nat
    BY <1>1
  <2> QED BY <2>1, <2>2
<1>7. PICK first \in W : \A k \in W : first <= k
  <2> HIDE DEF W
  <2> QED BY <1>6, LeastNumber
<1> DEFINE IsChoice(n) ==
               /\ \A m \in DOMAIN left :
                     Gain(left[m], shown, lambda) <= Gain(left[n], shown, lambda)
               /\ \A m \in 1..(n - 1) :
                     Gain(left[m], shown, lambda) < Gain(left[n], shown, lambda)
<1>8. first \in DOMAIN left /\ IsChoice(first)
  <2>1. first \in DOMAIN left /\ g[first] = best /\ best \in Int
    BY <1>3, <1>5
  <2>2. \A m \in DOMAIN left : g[m] <= best
    BY <1>5
  <2>3. ASSUME NEW m \in 1..(first - 1) PROVE m \in DOMAIN left /\ g[m] < best
    <3>1. m \in DOMAIN left /\ ~(first <= m)
      BY <1>1, <2>1
    <3>2. m \notin W
      BY <1>7, <3>1
    <3>3. g[m] \in Int /\ g[m] <= best /\ g[m] # best
      BY <1>2, <2>2, <3>1, <3>2
    <3> QED BY <2>1, <3>1, <3>3
  <2> HIDE DEF I, W, best
  <2>4. \A m \in DOMAIN left : Gain(left[m], shown, lambda) <= Gain(left[first], shown, lambda)
    BY <1>2, <2>1, <2>2
  <2>5. \A m \in 1..(first - 1) : Gain(left[m], shown, lambda) < Gain(left[first], shown, lambda)
    BY <1>2, <2>1, <2>3
  <2> QED BY <2>1, <2>4, <2>5
<1>9. Choice(left, shown, lambda) = CHOOSE n \in DOMAIN left : IsChoice(n)
  BY DEF Choice
<1>10. Choice(left, shown, lambda) \in DOMAIN left /\ IsChoice(Choice(left, shown, lambda))
  <2> HIDE DEF IsChoice
  <2> QED BY <1>8, <1>9
<1> QED BY <1>10

Ranking == [left : Seq(Versions), shown : Seq(Versions)]

\* What mmr_rank holds of c after k turns: k are selected, the others remain.
TurnOK(st, c, k) ==
    /\ st \in Ranking
    /\ Len(st.left) = Len(c) - k /\ Len(st.shown) = k
    /\ ToSet(st.left) \cup ToSet(st.shown) = ToSet(c)

Picked(st, lambda) == st.left[Choice(st.left, st.shown, lambda)]

LEMMA ShowOK ==
    ASSUME NEW c \in Seq(Versions), NEW k \in 1..Len(c), NEW lambda \in 0..10,
           NEW st, TurnOK(st, c, k - 1)
    PROVE  /\ TurnOK(Show(st, lambda), c, k)
           /\ Show(st, lambda).shown = Append(st.shown, Picked(st, lambda))
           /\ ToSet(Show(st, lambda).left) \subseteq ToSet(st.left)
           /\ Picked(st, lambda) \in ToSet(st.left)
           /\ Picked(st, lambda) \in Versions
           /\ \A x \in ToSet(st.left) :
                 Gain(x, st.shown, lambda) <= Gain(Picked(st, lambda), st.shown, lambda)
<1> DEFINE left == st.left
           shown == st.shown
           n == Choice(left, shown, lambda)
           x == left[n]
<1>1. /\ left \in Seq(Versions) /\ shown \in Seq(Versions)
      /\ Len(left) = Len(c) - (k - 1) /\ Len(shown) = k - 1
      /\ ToSet(left) \cup ToSet(shown) = ToSet(c)
      /\ Len(c) \in Nat /\ k \in 1..Len(c)
  BY DEF TurnOK, Ranking
<1>2. Picked(st, lambda) = x
  BY DEF Picked
<1>3. Show(st, lambda) = [left |-> RemoveAt(left, n), shown |-> Append(shown, x)]
  BY DEF Show
<1> HIDE DEF left, shown
<1>4. left # <<>>
  <2>1. Len(left) # 0
    BY <1>1
  <2> QED BY <2>1
<1>5. /\ n \in DOMAIN left
      /\ \A m \in DOMAIN left : Gain(left[m], shown, lambda) <= Gain(left[n], shown, lambda)
  BY <1>1, <1>4, ChoiceIs
<1> HIDE DEF n
<1>6. /\ RemoveAt(left, n) \in Seq(Versions)
      /\ Len(RemoveAt(left, n)) = Len(left) - 1
      /\ ToSet(left) = ToSet(RemoveAt(left, n)) \cup {left[n]}
  <2> DEFINE S == Versions
  <2>1. left \in Seq(S) /\ n \in DOMAIN left
    BY <1>1, <1>5
  <2> HIDE DEF x, S
  <2>2. /\ RemoveAt(left, n) \in Seq(S)
        /\ Len(RemoveAt(left, n)) = Len(left) - 1
        /\ ToSet(left) = ToSet(RemoveAt(left, n)) \cup {left[n]}
    BY <2>1, MembersOfRemoved
  <2> QED BY <2>2 DEF S
<1>7. x \in Versions /\ x \in ToSet(left)
  BY <1>1, <1>5 DEF ToSet
<1>8. \A y \in ToSet(left) : Gain(y, shown, lambda) <= Gain(x, shown, lambda)
  BY <1>5 DEF ToSet
<1> DEFINE rest == RemoveAt(left, n)
           more == Append(shown, x)
<1>9. more \in Seq(Versions) /\ Len(more) = Len(shown) + 1 /\ ToSet(more) = ToSet(shown) \cup {x}
  <2>1. ToSet(more) = ToSet(shown) \cup {x} /\ more \in Seq(Versions)
    BY <1>1, <1>7, MembersOfLonger
  <2>2. Len(more) = Len(shown) + 1
    BY <1>1, <1>7
  <2> QED BY <2>1, <2>2
<1>10. TurnOK([left |-> rest, shown |-> more], c, k)
  <2>1. Len(rest) = Len(c) - k /\ Len(more) = k
    <3> HIDE DEF more, rest
    <3> QED BY <1>1, <1>6, <1>9 DEF rest
  <2>2. ToSet(rest) \cup ToSet(more) = ToSet(c)
    <3> HIDE DEF more, rest
    <3> QED BY <1>1, <1>6, <1>9 DEF rest
  <2>3. rest \in Seq(Versions) /\ more \in Seq(Versions)
    BY <1>6, <1>9
  <2> HIDE DEF more, rest
  <2> QED BY <2>1, <2>2, <2>3 DEF TurnOK, Ranking
<1> HIDE DEF x
<1> QED BY <1>2, <1>3, <1>6, <1>7, <1>8, <1>10 DEF left, shown, more, rest, x

TurnFix(f, c, lambda) ==
    f = [n \in 0..Len(c) |->
            IF n = 0 THEN [left |-> c, shown |-> <<>>] ELSE Show(f[n - 1], lambda)]

LEMMA FirstTurnOK ==
    ASSUME NEW c \in Seq(Versions)
    PROVE  TurnOK([left |-> c, shown |-> <<>>], c, 0)
<1> DEFINE none == <<>>
<1>1. none \in Seq(Versions) /\ Len(none) = 0 /\ ToSet(none) = {}
  BY DEF ToSet
<1>2. Len(c) = Len(c) - 0
  OBVIOUS
<1> HIDE DEF none
<1>3. TurnOK([left |-> c, shown |-> none], c, 0)
  BY <1>1, <1>2 DEF TurnOK, Ranking
<1> QED BY <1>3 DEF none

\* The turns of mmr_rank, from the first to the last.
LEMMA TurnIs ==
    ASSUME NEW c \in Seq(Versions), NEW lambda \in 0..10
    PROVE  /\ Turn(c, lambda)[0] = [left |-> c, shown |-> <<>>]
           /\ \A k \in 0..Len(c) : TurnOK(Turn(c, lambda)[k], c, k)
           /\ \A k \in 1..Len(c) : Turn(c, lambda)[k] = Show(Turn(c, lambda)[k - 1], lambda)
<1> DEFINE n == Len(c)
           base == [left |-> c, shown |-> <<>>]
           next == [p \in Ranking \X (1..n) |->
                       IF TurnOK(p[1], c, p[2] - 1) THEN Show(p[1], lambda) ELSE p[1]]
<1>1. n \in Nat
  OBVIOUS
<1>2. TurnOK(base, c, 0)
  BY FirstTurnOK
<1>3. base \in Ranking
  <2> HIDE DEF base
  <2> QED BY <1>2 DEF TurnOK
<1> HIDE DEF base
<1>4. ASSUME NEW st, NEW k \in 1..n, TurnOK(st, c, k - 1) PROVE TurnOK(Show(st, lambda), c, k)
  BY <1>4, ShowOK
<1>5. ASSUME NEW st \in Ranking, NEW k \in 1..n
      PROVE  /\ next[<<st, k>>] \in Ranking
             /\ TurnOK(st, c, k - 1) => next[<<st, k>>] = Show(st, lambda)
  <2>1. next[<<st, k>>] = IF TurnOK(st, c, k - 1) THEN Show(st, lambda) ELSE st
    <3> HIDE DEF n
    <3> QED OBVIOUS
  <2>2. TurnOK(st, c, k - 1) => Show(st, lambda) \in Ranking
    BY <1>4 DEF TurnOK
  <2> HIDE DEF next
  <2> QED BY <2>1, <2>2
<1>6. IsStep(next, n, Ranking)
  <2>1. ASSUME NEW p \in Ranking \X (1..n)
        PROVE  (IF TurnOK(p[1], c, p[2] - 1) THEN Show(p[1], lambda) ELSE p[1]) \in Ranking
    <3>1. p[1] \in Ranking /\ p[2] \in 1..n
      <4> HIDE DEF n
      <4> QED OBVIOUS
    <3>2. TurnOK(p[1], c, p[2] - 1) => Show(p[1], lambda) \in Ranking
      BY <1>4, <3>1 DEF TurnOK
    <3> QED BY <3>1, <3>2
  <2>2. next \in [Ranking \X (1..n) -> Ranking]
    <3> HIDE DEF n
    <3> QED BY <2>1
  <2> HIDE DEF next
  <2> QED BY <2>2 DEF IsStep
<1> HIDE DEF n, next
<1>7. PICK f \in [0..n -> Ranking] : Unfolds(f, n, base, next)
  BY <1>1, <1>3, <1>6, RecursionExists
<1>8. f[0] = base /\ \A k \in 1..n : f[k] = next[<<f[k - 1], k>>]
  BY <1>7 DEF Unfolds
<1>9. \A k \in 0..n : TurnOK(f[k], c, k)
  <2> DEFINE S == {k \in 0..n : TurnOK(f[k], c, k)}
  <2>1. 0 \in S
    BY <1>1, <1>2, <1>8
  <2>2. ASSUME NEW k \in 1..n, k - 1 \in S PROVE k \in S
    <3>1. k - 1 \in 0..n /\ k \in 0..n /\ TurnOK(f[k - 1], c, k - 1)
      BY <1>1, <2>2
    <3>2. f[k] = Show(f[k - 1], lambda)
      BY <1>5, <1>8, <3>1
    <3>3. TurnOK(f[k], c, k)
      BY <1>4, <3>1, <3>2
    <3> QED BY <3>1, <3>3
  <2>3. \A k \in 0..n : k \in S
    <3> HIDE DEF S
    <3> QED BY <1>1, <2>1, <2>2, UpTo
  <2> QED BY <2>3
<1>10. \E g : TurnFix(g, c, lambda)
  <2> DEFINE r == [k \in 0..n |-> IF k = 0 THEN base ELSE Show(f[k - 1], lambda)]
  <2>1. \A k \in 0..n : f[k] = r[k]
    <3> TAKE k \in 0..n
    <3>1. CASE k = 0
      BY <1>8, <3>1
    <3>2. CASE k # 0
      <4>1. k \in 1..n /\ k - 1 \in 0..n
        BY <1>1, <3>2
      <4>2. f[k] = Show(f[k - 1], lambda)
        BY <1>5, <1>8, <1>9, <4>1
      <4> QED BY <3>2, <4>2
    <3> QED BY <3>1, <3>2
  <2>2. DOMAIN f = 0..n /\ f = [k \in DOMAIN f |-> f[k]]
    OBVIOUS
  <2>3. DOMAIN r = 0..n /\ r = [k \in DOMAIN r |-> r[k]]
    BY Zenon
  <2>4. f = r
    <3> HIDE DEF r
    <3> QED BY <2>1, <2>2, <2>3
  <2>5. TurnFix(f, c, lambda)
    BY <2>4, Zenon DEF TurnFix, n, base
  <2> QED BY <2>5
<1> DEFINE t == Turn(c, lambda)
<1>11. TurnFix(t, c, lambda)
  <2>1. t = CHOOSE g : TurnFix(g, c, lambda)
    BY Zenon DEF Turn, TurnFix
  <2> HIDE DEF t
  <2> QED BY <1>10, <2>1, Zenon
<1> HIDE DEF t
<1>12. t[0] = base
  <2>1. 0 \in 0..n
    BY <1>1
  <2>2. t[0] = IF 0 = 0 THEN base ELSE Show(t[0 - 1], lambda)
    BY <1>11, <2>1 DEF TurnFix, n, base
  <2> QED BY <2>2
<1>13. \A k \in 1..n : t[k] = Show(t[k - 1], lambda)
  <2> TAKE k \in 1..n
  <2>1. k \in 0..n /\ k # 0
    BY <1>1
  <2>2. t[k] = IF k = 0 THEN base ELSE Show(t[k - 1], lambda)
    BY <1>11, <2>1 DEF TurnFix, n, base
  <2> QED BY <2>1, <2>2
<1>14. \A k \in 0..n : TurnOK(t[k], c, k)
  <2> DEFINE S == {k \in 0..n : TurnOK(t[k], c, k)}
  <2>1. 0 \in S
    BY <1>1, <1>2, <1>12
  <2>2. ASSUME NEW k \in 1..n, k - 1 \in S PROVE k \in S
    <3>1. k - 1 \in 0..n /\ k \in 0..n /\ TurnOK(t[k - 1], c, k - 1)
      BY <1>1, <2>2
    <3>2. TurnOK(t[k], c, k)
      BY <1>4, <1>13, <3>1
    <3> QED BY <3>1, <3>2
  <2>3. \A k \in 0..n : k \in S
    <3> HIDE DEF S
    <3> QED BY <1>1, <2>1, <2>2, UpTo
  <2> QED BY <2>3
<1> QED BY <1>12, <1>13, <1>14 DEF n, t, base

\* No turn takes back what is selected, or brings back what is not left.
LEMMA TurnsGoOn ==
    ASSUME NEW c \in Seq(Versions), NEW lambda \in 0..10,
           NEW k \in 0..Len(c), NEW l \in k..Len(c)
    PROVE  /\ ToSet(Turn(c, lambda)[l].left) \subseteq ToSet(Turn(c, lambda)[k].left)
           /\ \A j \in 1..k : Turn(c, lambda)[l].shown[j] = Turn(c, lambda)[k].shown[j]
<1> DEFINE t == Turn(c, lambda)
           n == Len(c)
           GoesOn(i) == /\ ToSet(t[i].left) \subseteq ToSet(t[k].left)
                        /\ \A j \in 1..k : t[i].shown[j] = t[k].shown[j]
           S == {i \in 0..n : i >= k => GoesOn(i)}
<1>1. /\ \A i \in 0..n : TurnOK(t[i], c, i)
      /\ \A i \in 1..n : t[i] = Show(t[i - 1], lambda)
  BY TurnIs
<1>2. n \in Nat /\ k \in 0..n /\ l \in k..n
  OBVIOUS
<1> HIDE DEF t, n
<1>3. 0 \in S
  <2>1. 0 >= k => k = 0
    BY <1>2
  <2>2. GoesOn(k)
    OBVIOUS
  <2> HIDE DEF GoesOn
  <2> QED BY <1>2, <2>1, <2>2
<1>4. ASSUME NEW i \in 1..n, i - 1 \in S PROVE i \in S
  <2>1. CASE i = k
    BY <1>2, <2>1
  <2>2. CASE i < k
    BY <1>2, <2>2
  <2>3. CASE i > k
    <3>1. i - 1 \in 0..n /\ i - 1 >= k /\ i \in 0..n
      BY <1>2, <2>3
    <3>2. GoesOn(i - 1) /\ TurnOK(t[i - 1], c, i - 1)
      BY <1>1, <1>4, <3>1
    <3> DEFINE st == t[i - 1]
    <3>3. t[i] = Show(st, lambda)
      BY <1>1
    <3> HIDE DEF st
    <3>4. /\ Show(st, lambda).shown = Append(st.shown, Picked(st, lambda))
          /\ ToSet(Show(st, lambda).left) \subseteq ToSet(st.left)
      <4>1. TurnOK(st, c, i - 1) /\ i \in 1..Len(c)
        BY <3>2 DEF st, n
      <4> QED BY <4>1, ShowOK
    <3>5. ToSet(t[i].left) \subseteq ToSet(t[k].left)
      BY <3>2, <3>3, <3>4 DEF st
    <3>6. st.shown \in Seq(Versions) /\ Len(st.shown) = i - 1
      BY <3>2 DEF st, TurnOK, Ranking
    <3>7. \A j \in 1..k : Append(st.shown, Picked(st, lambda))[j] = st.shown[j]
      <4> DEFINE s == st.shown
                 x == Picked(st, lambda)
      <4>1. s \in Seq(Versions) /\ Len(s) = i - 1 /\ \A j \in 1..k : j \in 1..(i - 1)
        BY <1>2, <3>1, <3>6
      <4> HIDE DEF s, x
      <4>2. \A j \in 1..k : Append(s, x)[j] = s[j]
        BY <4>1
      <4> QED BY <4>2 DEF s, x
    <3>8. \A j \in 1..k : t[i].shown[j] = t[k].shown[j]
      <4> TAKE j \in 1..k
      <4>1. t[i].shown[j] = st.shown[j]
        BY <3>3, <3>4, <3>7
      <4>2. st.shown[j] = t[k].shown[j]
        BY <3>2 DEF st
      <4> QED BY <4>1, <4>2
    <3> QED BY <3>1, <3>5, <3>8
  <2> QED BY <1>2, <2>1, <2>2, <2>3
<1>5. l \in S
  <2>1. \A i \in 0..n : i \in S
    <3> HIDE DEF S
    <3> QED BY <1>2, <1>3, <1>4, UpTo
  <2>2. l \in 0..n
    BY <1>2
  <2> QED BY <2>1, <2>2
<1>6. GoesOn(l)
  <2> HIDE DEF GoesOn
  <2> QED BY <1>2, <1>5
<1> QED BY <1>6 DEF t

\* The ranking of all candidates: every one of them, and of what any number of
\* turns selects as many from the top.
LEMMA RankIs ==
    ASSUME NEW c \in Seq(Versions), NEW lambda \in 0..10
    PROVE  /\ Rank(c, lambda, Len(c)) = Turn(c, lambda)[Len(c)].shown
           /\ Rank(c, lambda, Len(c)) \in Seq(Versions)
           /\ Len(Rank(c, lambda, Len(c))) = Len(c)
           /\ ToSet(Rank(c, lambda, Len(c))) = ToSet(c)
           /\ \A k \in 0..Len(c) :
                 Turn(c, lambda)[k].shown = SubSeq(Rank(c, lambda, Len(c)), 1, k)
<1> DEFINE t == Turn(c, lambda)
           n == Len(c)
           all == t[n].shown
<1>1. n \in Nat
  OBVIOUS
<1>2. \A k \in 0..n : TurnOK(t[k], c, k)
  BY TurnIs
<1>3. Rank(c, lambda, n) = all
  <2>1. n \in Int
    OBVIOUS
  <2>2. Min({n, n}) = n
    BY <2>1, MinOfTwo
  <2> HIDE DEF n
  <2>3. Rank(c, lambda, n) = Turn(c, lambda)[Min({n, n})].shown
    BY DEF Rank, n
  <2> QED BY <2>2, <2>3
<1> HIDE DEF t
<1>4. TurnOK(t[n], c, n)
  BY <1>1, <1>2
<1>5. /\ all \in Seq(Versions) /\ Len(all) = n
      /\ t[n].left \in Seq(Versions) /\ Len(t[n].left) = 0
      /\ ToSet(t[n].left) \cup ToSet(all) = ToSet(c)
  BY <1>1, <1>4 DEF TurnOK, Ranking
<1>6. ToSet(t[n].left) = {}
  BY <1>5 DEF ToSet
<1>7. ASSUME NEW k \in 0..n PROVE t[k].shown = SubSeq(all, 1, k)
  <2> DEFINE s == t[k].shown
             u == SubSeq(all, 1, k)
  <2>1. s \in Seq(Versions) /\ Len(s) = k
    BY <1>2 DEF TurnOK, Ranking
  <2>2. \A j \in 1..k : all[j] = s[j]
    <3>1. n \in k..Len(c)
      BY <1>1
    <3> QED BY <3>1, TurnsGoOn DEF t
  <2> HIDE DEF s, all
  <2>3. /\ u \in Seq(Versions) /\ Len(u) = k
        /\ \A j \in 1..k : u[j] = all[j]
    <3>1. \A j \in 1..k : all[j] \in Versions
      BY <1>1, <1>5
    <3>2. 1 \in Int /\ k \in Int
      BY <1>1
    <3>3. /\ u \in Seq(Versions) /\ Len(u) = IF 1 <= k THEN k - 1 + 1 ELSE 0
          /\ \A j \in 1..(k - 1 + 1) : u[j] = all[1 + j - 1]
      BY <3>1, <3>2, SubSeqProperties
    <3> HIDE DEF u
    <3>4. k - 1 + 1 = k /\ k >= 0 /\ \A j \in 1..k : 1 + j - 1 = j
      BY <3>2
    <3> QED BY <3>2, <3>3, <3>4
  <2> HIDE DEF u
  <2>4. \A j \in 1..Len(s) : s[j] = u[j]
    BY <2>1, <2>2, <2>3
  <2>5. s = u
    BY <2>1, <2>3, <2>4, SeqEqual
  <2> QED BY <2>5 DEF s, u
<1> HIDE DEF all
<1>8. Rank(c, lambda, Len(c)) = all
  BY <1>3 DEF n
<1> QED BY <1>5, <1>6, <1>7, <1>8 DEF t, n, all

\* The ranking is greedy: at its turn no later article gains more.
LEMMA RankIsGreedy ==
    ASSUME NEW c \in Seq(Versions), NEW lambda \in 0..10,
           NEW m \in 1..Len(c), NEW n \in m..Len(c)
    PROVE  LET ranking == Rank(c, lambda, Len(c))
               shown == SubSeq(ranking, 1, m - 1)
           IN  /\ ranking[m] \in Versions /\ ranking[n] \in Versions
               /\ shown \in Seq(Versions)
               /\ Gain(ranking[n], shown, lambda) <= Gain(ranking[m], shown, lambda)
<1> DEFINE t == Turn(c, lambda)
           all == Rank(c, lambda, Len(c))
           N == Len(c)
<1>1. /\ \A k \in 0..N : TurnOK(t[k], c, k)
      /\ \A k \in 1..N : t[k] = Show(t[k - 1], lambda)
  BY TurnIs
<1>2. /\ all = t[N].shown /\ all \in Seq(Versions) /\ Len(all) = N
      /\ \A k \in 0..N : t[k].shown = SubSeq(all, 1, k)
  BY RankIs
<1>3. N \in Nat /\ m \in 1..N /\ n \in m..N /\ n \in 1..N
  OBVIOUS
<1> HIDE DEF t, all, N
<1>4. ASSUME NEW k \in 1..N
      PROVE  /\ all[k] = Picked(t[k - 1], lambda)
             /\ Picked(t[k - 1], lambda) \in ToSet(t[k - 1].left)
             /\ \A x \in ToSet(t[k - 1].left) :
                  Gain(x, t[k - 1].shown, lambda) <= Gain(Picked(t[k - 1], lambda), t[k - 1].shown, lambda)
  <2> DEFINE st == t[k - 1]
  <2>1. k - 1 \in 0..N /\ k \in 0..N /\ N \in k..N
    BY <1>3
  <2>2. TurnOK(st, c, k - 1) /\ t[k] = Show(st, lambda)
    BY <1>1, <2>1
  <2> HIDE DEF st
  <2>3. /\ Show(st, lambda).shown = Append(st.shown, Picked(st, lambda))
        /\ Picked(st, lambda) \in ToSet(st.left)
        /\ \A x \in ToSet(st.left) :
              Gain(x, st.shown, lambda) <= Gain(Picked(st, lambda), st.shown, lambda)
    <3>1. k \in 1..Len(c)
      BY DEF N
    <3> QED BY <2>2, <3>1, ShowOK
  <2>4. t[N].shown[k] = t[k].shown[k]
    <3>1. k \in 1..k
      BY <1>3
    <3> QED BY <2>1, <3>1, TurnsGoOn DEF t, N
  <2>5. t[k].shown[k] = Picked(st, lambda)
    <3> DEFINE s == st.shown
               x == Picked(st, lambda)
    <3>1. s \in Seq(Versions) /\ Len(s) = k - 1
      BY <2>2 DEF TurnOK, Ranking
    <3>2. t[k].shown = Append(s, x)
      BY <2>2, <2>3
    <3> HIDE DEF s, x
    <3>3. Append(s, x)[Len(s) + 1] = x /\ Len(s) + 1 = k
      BY <1>3, <3>1
    <3> QED BY <3>2, <3>3 DEF x
  <2> QED BY <1>2, <2>3, <2>4, <2>5 DEF st
<1>5. all[n] \in ToSet(t[m - 1].left)
  <2>1. all[n] \in ToSet(t[n - 1].left)
    BY <1>3, <1>4
  <2>2. m - 1 \in 0..N /\ n - 1 \in (m - 1)..N
    BY <1>3
  <2>3. ToSet(t[n - 1].left) \subseteq ToSet(t[m - 1].left)
    BY <2>2, TurnsGoOn DEF t, N
  <2> QED BY <2>1, <2>3
<1>6. Gain(all[n], t[m - 1].shown, lambda) <= Gain(all[m], t[m - 1].shown, lambda)
  BY <1>3, <1>4, <1>5
<1>7. t[m - 1].shown = SubSeq(all, 1, m - 1) /\ t[m - 1].shown \in Seq(Versions)
  <2>1. m - 1 \in 0..N
    BY <1>3
  <2> QED BY <1>1, <1>2, <2>1 DEF TurnOK, Ranking
<1>8. all[m] \in Versions /\ all[n] \in Versions
  BY <1>2, <1>3
<1> QED BY <1>6, <1>7, <1>8 DEF all

-----------------------------------------------------------------------------
(***************************************************************************)
(* _fetch_candidates and collapse_variants: what is ranked.                *)
(***************************************************************************)
LEMMA AddRowTyped ==
    ASSUME NEW t \in Seq(Versions), NEW x \in Versions
    PROVE  AddRow(t, x) \in Seq(Versions) /\ Len(AddRow(t, x)) = Len(t) + 1
<1> DEFINE before == {n \in DOMAIN t : ~StoredBefore(x, t[n])}
           place == 1 + Cardinality(before)
<1>1. Len(t) \in Nat /\ DOMAIN t = 1..Len(t) /\ before \in SUBSET (1..Len(t))
  OBVIOUS
<1> HIDE DEF before
<1>2. IsFiniteSet(1..Len(t)) /\ Cardinality(1..Len(t)) = Len(t)
  <2> DEFINE n == Len(t)
             one == 1
  <2>1. n \in Int /\ one \in Int
    BY <1>1
  <2> HIDE DEF n, one
  <2>2. IsFiniteSet(one..n) /\ Cardinality(one..n) = IF one > n THEN 0 ELSE n - one + 1
    BY <2>1, FS_Interval
  <2> QED BY <1>1, <2>2 DEF n, one
<1>3. Cardinality(before) \in Nat /\ Cardinality(before) <= Len(t)
  <2> DEFINE I == 1..Len(t)
  <2>1. IsFiniteSet(I) /\ Cardinality(I) = Len(t) /\ before \in SUBSET I
    BY <1>1, <1>2
  <2> HIDE DEF I
  <2>2. IsFiniteSet(before) /\ Cardinality(before) <= Cardinality(I)
    BY <2>1, FS_Subset
  <2>3. Cardinality(before) \in Nat
    BY <2>2, FS_CardinalityType
  <2> QED BY <2>1, <2>2, <2>3
<1>4. place \in 1..(Len(t) + 1)
  BY <1>1, <1>3
<1>5. AddRow(t, x) = InsertAt(t, place, x)
  BY DEF AddRow, before
<1> HIDE DEF place
<1> QED BY <1>4, <1>5, InsertedTyped

\* What a window holds of the first rows.
FoundOK(a, k) == a \in Seq(Versions) /\ Len(a) <= k

Find(a, rows, hours, k) == IF Covers(hours, rows[k]) THEN AddRow(a, rows[k]) ELSE a

FoundFix(f, rows, hours) ==
    f = [n \in 0..Len(rows) |->
            IF n = 0 THEN <<>>
            ELSE IF Covers(hours, rows[n]) THEN AddRow(f[n - 1], rows[n])
            ELSE f[n - 1]]

LEMMA FindOK ==
    ASSUME NEW rows \in Seq(Versions), NEW hours, NEW k \in 1..Len(rows),
           NEW a \in Seq(Versions)
    PROVE  /\ Find(a, rows, hours, k) \in Seq(Versions)
           /\ FoundOK(a, k - 1) => FoundOK(Find(a, rows, hours, k), k)
<1>1. rows[k] \in Versions /\ k \in Nat \ {0} /\ Len(a) \in Nat
  OBVIOUS
<1>2. AddRow(a, rows[k]) \in Seq(Versions) /\ Len(AddRow(a, rows[k])) = Len(a) + 1
  BY <1>1, AddRowTyped
<1>3. CASE Covers(hours, rows[k])
  <2>1. Find(a, rows, hours, k) = AddRow(a, rows[k])
    BY <1>3 DEF Find
  <2>2. Len(a) <= k - 1 => Len(a) + 1 <= k
    BY <1>1
  <2> QED BY <1>2, <2>1, <2>2 DEF FoundOK
<1>4. CASE ~Covers(hours, rows[k])
  <2>1. Find(a, rows, hours, k) = a
    BY <1>4 DEF Find
  <2>2. Len(a) <= k - 1 => Len(a) <= k
    BY <1>1
  <2> QED BY <2>1, <2>2 DEF FoundOK
<1> QED BY <1>3, <1>4

\* A window holds rows, and no more than there are.
LEMMA InWindowIs ==
    ASSUME NEW rows \in Seq(Versions), NEW hours
    PROVE  InWindow(rows, hours) \in Seq(Versions) /\ Len(InWindow(rows, hours)) <= Len(rows)
<1> DEFINE n == Len(rows)
           base == <<>>
           Acc == Seq(Versions)
           next == [p \in Acc \X (1..n) |-> Find(p[1], rows, hours, p[2])]
<1>1. n \in Nat /\ base \in Acc /\ FoundOK(base, 0)
  BY DEF FoundOK
<1>2. ASSUME NEW a \in Acc, NEW k \in 1..n
      PROVE  /\ Find(a, rows, hours, k) \in Acc
             /\ FoundOK(a, k - 1) => FoundOK(Find(a, rows, hours, k), k)
  BY FindOK
<1> HIDE DEF n, base, Acc
<1>3. IsStep(next, n, Acc)
  <2>1. ASSUME NEW p \in Acc \X (1..n) PROVE Find(p[1], rows, hours, p[2]) \in Acc
    BY <1>2
  <2>2. next \in [Acc \X (1..n) -> Acc]
    BY <2>1
  <2> HIDE DEF next
  <2> QED BY <2>2 DEF IsStep
<1>4. ASSUME NEW a \in Acc, NEW k \in 1..n PROVE next[<<a, k>>] = Find(a, rows, hours, k)
  OBVIOUS
<1> HIDE DEF next
<1>5. PICK f \in [0..n -> Acc] : Unfolds(f, n, base, next)
  BY <1>1, <1>3, RecursionExists
<1>6. f[0] = base /\ \A k \in 1..n : f[k] = Find(f[k - 1], rows, hours, k)
  <2>1. \A k \in 1..n : k - 1 \in 0..n
    BY <1>1
  <2>2. \A k \in 1..n : f[k - 1] \in Acc
    BY <1>5, <2>1
  <2> QED BY <1>4, <1>5, <2>2 DEF Unfolds
<1>7. \E g : FoundFix(g, rows, hours)
  <2> DEFINE r == [k \in 0..n |->
                      IF k = 0 THEN base
                      ELSE IF Covers(hours, rows[k]) THEN AddRow(f[k - 1], rows[k])
                      ELSE f[k - 1]]
  <2>1. \A k \in 0..n : f[k] = r[k]
    <3> TAKE k \in 0..n
    <3>1. CASE k = 0
      BY <1>6, <3>1
    <3>2. CASE k # 0
      <4>1. k \in 1..n
        BY <1>1, <3>2
      <4>2. f[k] = Find(f[k - 1], rows, hours, k)
        BY <1>6, <4>1
      <4>3. f[k] = IF Covers(hours, rows[k]) THEN AddRow(f[k - 1], rows[k]) ELSE f[k - 1]
        BY <4>2 DEF Find
      <4> QED BY <3>2, <4>3
    <3> QED BY <3>1, <3>2
  <2>2. DOMAIN f = 0..n /\ f = [k \in DOMAIN f |-> f[k]]
    OBVIOUS
  <2>3. DOMAIN r = 0..n /\ r = [k \in DOMAIN r |-> r[k]]
    BY Zenon
  <2>4. f = r
    <3> HIDE DEF r
    <3> QED BY <2>1, <2>2, <2>3
  <2>5. FoundFix(f, rows, hours)
    BY <2>4, Zenon DEF FoundFix, n, base
  <2> QED BY <2>5
<1> DEFINE found == CHOOSE g : FoundFix(g, rows, hours)
<1>8. InWindow(rows, hours) = found[n]
  BY Zenon DEF InWindow, FoundFix, n
<1>9. FoundFix(found, rows, hours)
  BY <1>7, Zenon
<1> HIDE DEF found
<1>10. found[0] = base
  <2>1. 0 \in 0..n
    BY <1>1
  <2> QED BY <1>9, <2>1 DEF FoundFix, n, base
<1>11. ASSUME NEW k \in 1..n PROVE found[k] = Find(found[k - 1], rows, hours, k)
  <2>1. k \in 0..n /\ k # 0
    BY <1>1
  <2>2. found[k] = IF k = 0 THEN base
                   ELSE IF Covers(hours, rows[k]) THEN AddRow(found[k - 1], rows[k])
                   ELSE found[k - 1]
    BY <1>9, <2>1 DEF FoundFix, n, base
  <2> QED BY <2>1, <2>2 DEF Find
<1> DEFINE S == {k \in 0..n : FoundOK(found[k], k)}
<1>12. 0 \in S
  BY <1>1, <1>10
<1>13. ASSUME NEW k \in 1..n, k - 1 \in S PROVE k \in S
  <2>1. FoundOK(found[k - 1], k - 1) /\ k \in 0..n
    BY <1>1, <1>13
  <2>2. found[k - 1] \in Acc
    BY <2>1 DEF FoundOK, Acc
  <2>3. FoundOK(found[k], k)
    BY <1>2, <1>11, <2>1, <2>2
  <2> QED BY <2>1, <2>3
<1>14. n \in S
  <2>1. \A k \in 0..n : k \in S
    <3> HIDE DEF S
    <3> QED BY <1>1, <1>12, <1>13, UpTo
  <2> QED BY <1>1, <2>1
<1> QED BY <1>8, <1>14 DEF FoundOK, n

LEMMA WindowsAre ==
    /\ Windows # {} /\ Windows \in SUBSET Nat
    /\ IsFiniteSet(Windows)
    /\ Max(Windows) \in Windows
<1> DEFINE wider == {w \in Expansions : w > MaxAge}
<1>1. MaxAge \in Nat /\ Expansions \subseteq Nat /\ IsFiniteSet(Expansions)
  BY FeedAssumption DEF FeedAssumption
<1>2. Windows = {MaxAge} \cup wider
  BY DEF Windows
<1>3. IsFiniteSet(wider)
  <2>1. wider \in SUBSET Expansions
    OBVIOUS
  <2> HIDE DEF wider
  <2> QED BY <1>1, <2>1, FS_Subset
<1>4. Windows \in SUBSET Nat /\ Windows # {}
  BY <1>1, <1>2
<1> HIDE DEF wider
<1>5. IsFiniteSet(Windows)
  <2>1. IsFiniteSet({MaxAge})
    BY FS_Singleton
  <2> QED BY <1>2, <1>3, <2>1, FS_Union
<1>6. Max(Windows) \in Windows
  <2>1. Windows \in SUBSET Int
    BY <1>4
  <2> QED BY <1>4, <1>5, <2>1, MaxOf
<1> QED BY <1>4, <1>5, <1>6

Fetched(rows, size, w) == Prefix(InWindow(rows, w), size)

Enough(rows, size) == {w \in Windows : Len(Fetched(rows, size, w)) >= MinItems}

LEMMA PoolIs ==
    ASSUME NEW rows \in Seq(Versions), NEW size \in Nat
    PROVE  /\ Pool(rows, size) =
                 Fetched(rows, size, IF Enough(rows, size) = {} THEN Max(Windows)
                                     ELSE Min(Enough(rows, size)))
           /\ (IF Enough(rows, size) = {} THEN Max(Windows) ELSE Min(Enough(rows, size))) \in Windows
           /\ Pool(rows, size) \in Seq(Versions)
           /\ Len(Pool(rows, size)) <= Len(rows)
<1> DEFINE enough == Enough(rows, size)
           w == IF enough = {} THEN Max(Windows) ELSE Min(enough)
<1>1. Pool(rows, size) = Fetched(rows, size, w)
  BY DEF Pool, Enough, Fetched
<1>2. enough \subseteq Windows
  BY DEF Enough
<1> HIDE DEF enough
<1>3. w \in Windows
  <2>1. enough # {} => Min(enough) \in enough
    <3>1. enough \in SUBSET Nat
      BY <1>2, WindowsAre
    <3> QED BY <3>1, MinIs
  <2> QED BY <1>2, <2>1, WindowsAre
<1> HIDE DEF w
<1> DEFINE found == InWindow(rows, w)
<1>4. found \in Seq(Versions) /\ Len(found) <= Len(rows)
  BY InWindowIs
<1> HIDE DEF found
<1>5. /\ Prefix(found, size) \in Seq(Versions)
      /\ Len(Prefix(found, size)) <= Len(found)
  BY <1>4, PrefixIs
<1>6. Len(Prefix(found, size)) \in Nat /\ Len(found) \in Nat /\ Len(rows) \in Nat
  BY <1>4, <1>5
<1>7. Len(Prefix(found, size)) <= Len(rows)
  BY <1>4, <1>5, <1>6
<1> QED BY <1>1, <1>3, <1>5, <1>7 DEF Fetched, found, enough, w

\* Collapsing variants adds no row.
LEMMA CollapsedIs ==
    ASSUME NEW s \in Seq(Versions)
    PROVE  CollapseVariants(s) \in Seq(Versions) /\ Len(CollapseVariants(s)) <= Len(s)
<1> DEFINE n == Len(s)
           f == VariantTurn(s)
           base == [nonHf |-> <<>>, best |-> <<>>]
           Shorter(a, k) == a \in Sorted /\ Len(a.nonHf) + Len(a.best) <= k
<1>1. /\ n \in Nat /\ base \in Sorted /\ IsStep(f, n, Sorted)
      /\ \A a \in Sorted : \A k \in 1..n : f[<<a, k>>] = Sort(a, s[k])
  BY VariantTurnIs
<1>2. \A k \in 1..n : s[k] \in Versions
  OBVIOUS
<1>3. PICK h : BestVariants(s) = h[1..n] /\ Turns(h, n, Sorted, base, f)
  BY VariantFolds
<1>4. Shorter(base, 0)
  <2>1. base.nonHf = <<>> /\ base.best = <<>> /\ Len(<<>>) = 0
    OBVIOUS
  <2>2. Len(base.nonHf) + Len(base.best) <= 0
    BY <2>1
  <2> QED BY <1>1, <2>2
<1> HIDE DEF n, f, base
<1>5. ASSUME NEW k \in 1..n, NEW a, Shorter(a, k - 1) PROVE Shorter(Sort(a, s[k]), k)
  <2> DEFINE x == s[k]
             b == Sort(a, x)
  <2>1. a \in Sorted /\ x \in Versions /\ k \in Nat
    BY <1>1, <1>2, <1>5
  <2>2. /\ a.nonHf \in Seq(Versions) /\ a.best \in Seq(Versions)
        /\ b.nonHf = IF Group(x) = NoModel THEN Append(a.nonHf, x) ELSE a.nonHf
        /\ b.best = IF Group(x) = NoModel THEN a.best ELSE KeepBest(a.best, x)
        /\ b \in Sorted
    BY <2>1, SortIs
  <2> HIDE DEF b, x
  <2>3. \A t \in Seq(Versions) : Len(t) \in Nat /\ Len(Append(t, x)) = Len(t) + 1
    BY <2>1
  <2>4. Len(KeepBest(a.best, x)) \in Nat /\ Len(KeepBest(a.best, x)) <= Len(a.best) + 1
    <3> DEFINE best == a.best
    <3>1. best \in Seq(Versions)
      BY <2>2
    <3> HIDE DEF best
    <3>2. Len(best) \in Nat /\ Len(Append(best, x)) = Len(best) + 1
      BY <2>3, <3>1
    <3>3. CASE BestAppends(best, x)
      <4>1. KeepBest(best, x) = Append(best, x)
        BY <3>3, Zenon DEF BestAppends
      <4> QED BY <3>2, <4>1 DEF best
    <3>4. ASSUME NEW j \in DOMAIN best, BestReplaces(best, x, j) \/ BestStays(best, x, j)
          PROVE  Len(KeepBest(best, x)) \in Nat /\ Len(KeepBest(best, x)) <= Len(best) + 1
      <4>1. ReplaceAt(best, j, x) \in Seq(Versions) /\ DOMAIN ReplaceAt(best, j, x) = DOMAIN best
        BY <2>1, <3>1, MembersOfReplaced
      <4>2. Len(ReplaceAt(best, j, x)) = Len(best)
        <5> DEFINE r == ReplaceAt(best, j, x)
        <5>1. r \in Seq(Versions) /\ DOMAIN r = DOMAIN best
          BY <4>1
        <5> HIDE DEF r
        <5>2. DOMAIN r = 1..Len(r) /\ DOMAIN best = 1..Len(best) /\ Len(r) \in Nat
          BY <3>1, <5>1
        <5>3. \A i \in Nat : \A m \in Nat : 1..i = 1..m => i = m
          <6> TAKE i \in Nat, m \in Nat
          <6> HAVE 1..i = 1..m
          <6>1. i # 0 => i \in 1..m
            OBVIOUS
          <6>2. m # 0 => m \in 1..i
            OBVIOUS
          <6> QED BY <6>1, <6>2
        <5>4. Len(r) = Len(best)
          BY <3>2, <5>1, <5>2, <5>3
        <5> QED BY <5>4 DEF r
      <4> QED BY <3>2, <3>4, <4>2 DEF BestReplaces, BestStays
    <3>5. \/ BestAppends(best, x)
          \/ \E j \in DOMAIN best : BestReplaces(best, x, j) \/ BestStays(best, x, j)
      BY <2>1, <3>1, KeepBestIs
    <3> QED BY <3>3, <3>4, <3>5 DEF best
  <2>5. Len(b.nonHf) + Len(b.best) <= k
    <3>1. Len(a.nonHf) \in Nat /\ Len(a.best) \in Nat /\ Len(a.nonHf) + Len(a.best) <= k - 1
      BY <1>5, <2>2, <2>3
    <3>2. CASE Group(x) = NoModel
      <4>1. b.nonHf = Append(a.nonHf, x) /\ b.best = a.best
        BY <2>2, <3>2
      <4>2. Len(Append(a.nonHf, x)) = Len(a.nonHf) + 1
        BY <2>2, <2>3
      <4>3. Len(a.nonHf) + 1 + Len(a.best) <= k
        <5> DEFINE i == Len(a.nonHf)
                   j == Len(a.best)
        <5>1. i \in Nat /\ j \in Nat /\ i + j <= k - 1 /\ k \in Nat
          BY <2>1, <3>1
        <5> HIDE DEF i, j
        <5>2. i + 1 + j <= k
          BY <5>1
        <5> QED BY <5>2 DEF i, j
      <4>4. Len(b.nonHf) + Len(b.best) = Len(a.nonHf) + 1 + Len(a.best)
        BY <4>1, <4>2
      <4> QED BY <4>3, <4>4
    <3>3. CASE Group(x) # NoModel
      <4>1. b.nonHf = a.nonHf /\ b.best = KeepBest(a.best, x)
        BY <2>2, <3>3
      <4> DEFINE i == Len(a.nonHf)
                 j == Len(a.best)
                 l == Len(KeepBest(a.best, x))
      <4>2. i \in Nat /\ j \in Nat /\ i + j <= k - 1 /\ l \in Nat /\ l <= j + 1 /\ k \in Nat
        BY <2>1, <2>4, <3>1
      <4> HIDE DEF i, j, l
      <4>3. i + l <= k
        BY <4>2
      <4> QED BY <4>1, <4>3 DEF i, l
    <3> QED BY <3>2, <3>3
  <2> QED BY <2>2, <2>5 DEF b, x
<1> DEFINE S == {k \in 0..n : Shorter(h[1..k], k)}
<1>6. 0 \in S
  <2>1. 1..0 = {}
    OBVIOUS
  <2>2. h[1..0] = base
    BY <1>3, <2>1 DEF Turns
  <2> HIDE DEF Shorter
  <2> QED BY <1>1, <1>4, <2>2
<1>7. ASSUME NEW k \in 1..n, k - 1 \in S PROVE k \in S
  <2>1. Shorter(h[1..(k - 1)], k - 1) /\ k \in 0..n
    <3> HIDE DEF Shorter
    <3> QED BY <1>1, <1>7
  <2>2. h[1..(k - 1)] \in Sorted
    BY <2>1
  <2>3. h[1..k] = f[<<h[1..(k - 1)], k>>]
    BY <1>3, <2>2 DEF Turns
  <2>4. h[1..k] = Sort(h[1..(k - 1)], s[k])
    BY <1>1, <2>2, <2>3
  <2> HIDE DEF Shorter
  <2>5. Shorter(h[1..k], k)
    BY <1>5, <2>1, <2>4
  <2> QED BY <2>1, <2>5
<1>8. n \in S
  <2> HIDE DEF S
  <2>1. \A k \in 0..n : k \in S
    BY <1>1, <1>6, <1>7, UpTo
  <2> QED BY <1>1, <2>1
<1> DEFINE nonHf == BestVariants(s).nonHf
           best == BestVariants(s).best
<1>9. nonHf \in Seq(Versions) /\ best \in Seq(Versions) /\ Len(nonHf) + Len(best) <= n
  BY <1>3, <1>8 DEF Sorted
<1>10. CollapseVariants(s) = nonHf \o best
  BY DEF CollapseVariants
<1> HIDE DEF nonHf, best
<1>11. nonHf \o best \in Seq(Versions) /\ Len(nonHf \o best) = Len(nonHf) + Len(best)
  BY <1>9, MembersOfJoin
<1> QED BY <1>9, <1>10, <1>11 DEF n

LEMMA RowsAreCandidates ==
    ASSUME InputOK
    PROVE  Rows \in Seq(Candidates)
<1> DEFINE pass2 == BestByUrl(FirstPerContent(items))
<1>1. items \in Seq(Candidates)
  BY DEF InputOK
<1>2. pass2.map \in Seq(Candidates) /\ pass2.noUrl \in Seq(Candidates)
  BY <1>1, PassesTyped
<1>3. Rows = pass2.map \o pass2.noUrl
  BY DEF Rows, Deduplicate
<1> HIDE DEF pass2
<1> QED BY <1>2, <1>3, MembersOfJoin

-----------------------------------------------------------------------------
(***************************************************************************)
(* What mmr_rank trades.                                                   *)
(***************************************************************************)
LEMMA Weighing ==
    ASSUME NEW lambda \in 0..10, NEW s \in Int, NEW t \in Int, NEW a \in Int, NEW b \in Int,
           lambda * t - (10 - lambda) * 10 * Unit * b <= lambda * s - (10 - lambda) * 10 * Unit * a
    PROVE  /\ lambda > 0 /\ s < t => a < b
           /\ lambda < 10 /\ a > b => s > t
<1>1. /\ lambda \in {0, 1, 2, 3, 4, 5, 6, 7, 8, 9, 10}
  OBVIOUS
<1>2. CASE lambda = 0
  BY <1>2 DEF Unit
<1>3. CASE lambda = 1
  BY <1>3 DEF Unit
<1>4. CASE lambda = 2
  BY <1>4 DEF Unit
<1>5. CASE lambda = 3
  BY <1>5 DEF Unit
<1>6. CASE lambda = 4
  BY <1>6 DEF Unit
<1>7. CASE lambda = 5
  BY <1>7 DEF Unit
<1>8. CASE lambda = 6
  BY <1>8 DEF Unit
<1>9. CASE lambda = 7
  BY <1>9 DEF Unit
<1>10. CASE lambda = 8
  BY <1>10 DEF Unit
<1>11. CASE lambda = 9
  BY <1>11 DEF Unit
<1>12. CASE lambda = 10
  BY <1>12 DEF Unit
<1> QED BY <1>1, <1>2, <1>3, <1>4, <1>5, <1>6, <1>7, <1>8, <1>9, <1>10, <1>11, <1>12

LEMMA RankTradesFairly ==
    ASSUME NEW c \in Seq(Versions), NEW lambda \in 0..10,
           NEW m \in 1..Len(c), NEW n \in 1..Len(c), m < n
    PROVE  LET ranking == Rank(c, lambda, Len(c))
               Like(i, j) == MaxSimilarity(ranking[i], SubSeq(ranking, 1, j - 1))
           IN  /\ lambda > 0 /\ Score(ranking[m]) < Score(ranking[n]) => Like(m, m) < Like(n, m)
               /\ lambda < 10 /\ Like(m, m) > Like(n, m) => Score(ranking[m]) > Score(ranking[n])
<1> DEFINE ranking == Rank(c, lambda, Len(c))
           shown == SubSeq(ranking, 1, m - 1)
           x == ranking[m]
           y == ranking[n]
<1>1. n \in m..Len(c)
  OBVIOUS
<1>2. /\ x \in Versions /\ y \in Versions /\ shown \in Seq(Versions)
      /\ Gain(y, shown, lambda) <= Gain(x, shown, lambda)
  BY <1>1, RankIsGreedy
<1> DEFINE s == Score(x)
           t == Score(y)
           a == MaxSimilarity(x, shown)
           b == MaxSimilarity(y, shown)
<1> HIDE DEF ranking, shown, x, y
<1>3. s \in Int /\ t \in Int
  BY <1>2, ScoreIsInteger
<1>4. a \in Int /\ b \in Int
  <2>1. a \in 0..10 /\ b \in 0..10
    BY <1>2, MaxSimilarityIs
  <2> QED BY <2>1
<1>5. lambda * t - (10 - lambda) * 10 * Unit * b <= lambda * s - (10 - lambda) * 10 * Unit * a
  BY <1>2 DEF Gain
<1> HIDE DEF s, t, a, b
<1>6. /\ lambda > 0 /\ s < t => a < b
      /\ lambda < 10 /\ a > b => s > t
  BY <1>3, <1>4, <1>5, Weighing
<1> QED BY <1>6 DEF s, t, a, b, x, y, shown, ranking

\* mmr_rank, for any rows and any lambda: an article precedes a better one only
\* if it is less like those before it (unless diversity is all), and one that
\* is more like them precedes only if it is better (unless quality is all).
THEOREM RankingIsFair == Spec => []RankingTradesFairly
<1>1. InputOK => RankingTradesFairly
  <2> SUFFICES ASSUME InputOK PROVE RankingTradesFairly
    OBVIOUS
  <2>1. ASSUME NEW lambda \in Lambdas
        PROVE  LET all == CollapseVariants(Pool(Rows, Len(Rows)))
                   ranking == Rank(all, lambda, Len(all))
                   Like(n, m) == MaxSimilarity(ranking[n], SubSeq(ranking, 1, m - 1))
               IN  \A m, n \in DOMAIN ranking : m < n =>
                      /\ lambda > 0 /\ Score(ranking[m]) < Score(ranking[n]) => Like(m, m) < Like(n, m)
                      /\ lambda < 10 /\ Like(m, m) > Like(n, m) => Score(ranking[m]) > Score(ranking[n])
    <3> DEFINE all == CollapseVariants(Pool(Rows, Len(Rows)))
               ranking == Rank(all, lambda, Len(all))
               Like(n, m) == MaxSimilarity(ranking[n], SubSeq(ranking, 1, m - 1))
    <3>1. lambda \in 0..10
      BY FeedAssumption DEF FeedAssumption
    <3>2. all \in Seq(Versions)
      <4> DEFINE size == Len(Rows)
                 pool == Pool(Rows, size)
      <4>1. Rows \in Seq(Versions)
        BY RowsAreCandidates, ListsOfVersions
      <4>2. size \in Nat
        BY <4>1
      <4> HIDE DEF size
      <4>3. pool \in Seq(Versions)
        BY <4>1, <4>2, PoolIs
      <4> HIDE DEF pool
      <4>4. CollapseVariants(pool) \in Seq(Versions)
        BY <4>3, CollapsedIs
      <4> QED BY <4>4 DEF pool, size
    <3> HIDE DEF all
    <3>3. ranking \in Seq(Versions) /\ Len(ranking) = Len(all)
      BY <3>1, <3>2, RankIs
    <3>4. DOMAIN ranking = 1..Len(all)
      <4> HIDE DEF ranking
      <4> QED BY <3>3
    <3>5. ASSUME NEW m \in DOMAIN ranking, NEW n \in DOMAIN ranking, m < n
          PROVE  /\ lambda > 0 /\ Score(ranking[m]) < Score(ranking[n]) => Like(m, m) < Like(n, m)
                 /\ lambda < 10 /\ Like(m, m) > Like(n, m) => Score(ranking[m]) > Score(ranking[n])
      <4>1. m \in 1..Len(all) /\ n \in 1..Len(all)
        BY <3>4
      <4> QED BY <3>1, <3>2, <3>5, <4>1, RankTradesFairly
    <3> HIDE DEF ranking, Like
    <3>6. \A m, n \in DOMAIN ranking : m < n =>
             /\ lambda > 0 /\ Score(ranking[m]) < Score(ranking[n]) => Like(m, m) < Like(n, m)
             /\ lambda < 10 /\ Like(m, m) > Like(n, m) => Score(ranking[m]) > Score(ranking[n])
      BY <3>5
    <3> QED BY <3>6, Zenon DEF all, ranking, Like
  <2> QED BY <2>1, Zenon DEF RankingTradesFairly
<1> QED BY <1>1, InputIsSequence, PTL

-----------------------------------------------------------------------------
(***************************************************************************)
(* When scrolling ends.                                                    *)
(***************************************************************************)
\* A page is short only if the ranking ends with it, or before it.
LEMMA PageIs ==
    ASSUME NEW rows \in Seq(Versions), NEW lambda \in 0..10,
           NEW limit \in Nat \ {0}, NEW o \in Nat
    PROVE  LET slice == Page(rows, lambda, limit, o)
           IN  /\ slice.data \in Seq(Versions)
               /\ slice.total \in 0..Len(rows)
               /\ Len(slice.data) < limit => slice.total <= o + Len(slice.data)
<1> DEFINE size == limit * Multiplier + o
           pool == Pool(rows, size)
           c == CollapseVariants(pool)
           N == Len(c)
           e == o + limit
           m == IF e <= N THEN e ELSE N
           top == Turn(c, lambda)[m].shown
           data == SubSeq(top, o + 1, m)
<1>1. size \in Nat
  <2>1. Multiplier \in Nat
    BY FeedAssumption DEF FeedAssumption
  <2> QED BY <2>1
<1> HIDE DEF size
<1>2. pool \in Seq(Versions) /\ Len(pool) <= Len(rows)
  BY <1>1, PoolIs
<1> HIDE DEF pool
<1>3. c \in Seq(Versions) /\ Len(c) <= Len(pool)
  BY <1>2, CollapsedIs
<1> HIDE DEF c
<1>4. N \in 0..Len(rows) /\ N \in Nat
  BY <1>2, <1>3
<1>5. e \in Nat /\ e >= o /\ e = o + limit
  OBVIOUS
<1> HIDE DEF N, e
<1>6. m \in 0..N /\ m <= e /\ (m = N \/ m = e)
  BY <1>4, <1>5
<1>7. Min({e, N}) = m
  BY <1>4, <1>5, MinOfTwo
<1>8. Min({e, m}) = m
  <2>1. e \in Int /\ m \in Int /\ m <= e
    BY <1>4, <1>5, <1>6
  <2> HIDE DEF m
  <2> QED BY <2>1, MinOfTwo
<1> HIDE DEF m
<1>9. top \in Seq(Versions) /\ Len(top) = m
  <2>1. TurnOK(Turn(c, lambda)[m], c, m)
    BY <1>3, <1>6, TurnIs DEF N
  <2> QED BY <2>1 DEF TurnOK, Ranking
<1>10. RankUpToPage(c, lambda, limit, o) = top
  BY <1>7, Zenon DEF RankUpToPage, Rank, e, N
<1> HIDE DEF top
<1>11. Page(rows, lambda, limit, o) = [data |-> data, total |-> N]
  <2>1. Page(rows, lambda, limit, o) =
            [data |-> SubSeq(top, o + 1, Min({e, Len(top)})), total |-> Len(c)]
    BY <1>10, Zenon DEF Page, c, pool, size, e
  <2>2. Min({e, Len(top)}) = m
    BY <1>8, <1>9
  <2> QED BY <2>1, <2>2, Zenon DEF N
<1>12. data \in Seq(Versions) /\ Len(data) = IF o + 1 <= m THEN m - (o + 1) + 1 ELSE 0
  <2>1. \A j \in (o + 1)..m : top[j] \in Versions
    BY <1>6, <1>9
  <2>2. o + 1 \in Int /\ m \in Int
    BY <1>6
  <2> QED BY <2>1, <2>2, SubSeqProperties
<1> HIDE DEF data
<1>13. Len(data) < limit => N <= o + Len(data)
  BY <1>4, <1>5, <1>6, <1>12
<1> QED BY <1>4, <1>11, <1>12, <1>13

Scrolling == [loaded : Seq(Versions), total : Nat, over : BOOLEAN]

\* What a reader has after k pages or fewer, when no table has more than n
\* rows: what the last page counts, if there is no next one, and otherwise
\* something of every page, and still less than there is.
ScrollOK(st, k, n) ==
    /\ st \in Scrolling
    /\ IF st.over THEN Len(st.loaded) >= st.total
       ELSE k <= Len(st.loaded) /\ (k > 0 => Len(st.loaded) < n)

LEMMA LoadOK ==
    ASSUME NEW n \in Nat, NEW rows \in Seq(Versions), Len(rows) <= n,
           NEW lambda \in 0..10, NEW limit \in Nat \ {0},
           NEW k \in Nat \ {0}, NEW st, ScrollOK(st, k - 1, n)
    PROVE  ScrollOK(Load(st, rows, lambda, limit), k, n)
<1> DEFINE o == Len(st.loaded)
           slice == Page(rows, lambda, limit, o)
           loaded == st.loaded \o slice.data
           over == Len(loaded) >= slice.total \/ Len(slice.data) < limit
           next == [loaded |-> loaded, total |-> slice.total, over |-> over]
<1>1. /\ st \in Scrolling /\ st.loaded \in Seq(Versions) /\ o \in Nat
      /\ ~st.over => k - 1 <= o
  BY DEF ScrollOK, Scrolling
<1>2. Load(st, rows, lambda, limit) = IF st.over THEN st ELSE next
  BY DEF Load, WithPage
<1>3. CASE st.over
  <2>1. ScrollOK(st, k, n)
    BY <1>3 DEF ScrollOK
  <2> QED BY <1>2, <1>3, <2>1
<1>4. CASE ~st.over
  <2>1. /\ slice.data \in Seq(Versions) /\ slice.total \in 0..Len(rows)
        /\ Len(slice.data) < limit => slice.total <= o + Len(slice.data)
    <3> HIDE DEF o
    <3> QED BY <1>1, PageIs
  <2> HIDE DEF slice
  <2>2. loaded \in Seq(Versions) /\ Len(loaded) = o + Len(slice.data)
    BY <1>1, <2>1, MembersOfJoin
  <2>3. Len(slice.data) \in Nat /\ slice.total \in Nat /\ slice.total <= n
    BY <2>1
  <2> HIDE DEF loaded, o
  <2>4. over => Len(loaded) >= slice.total
    BY <1>1, <2>1, <2>2, <2>3
  <2>5. ~over => k <= Len(loaded) /\ Len(loaded) < n
    BY <1>1, <1>4, <2>1, <2>2, <2>3
  <2>6. over \in BOOLEAN
    OBVIOUS
  <2> HIDE DEF over
  <2>7. next \in Scrolling
    BY <2>2, <2>3, <2>6 DEF Scrolling
  <2>8. ScrollOK(next, k, n)
    BY <2>4, <2>5, <2>7 DEF ScrollOK
  <2> QED BY <1>2, <1>4, <2>8
<1> QED BY <1>1, <1>3, <1>4 DEF Scrolling

\* A list has no more members than places.
LEMMA MembersAreFew ==
    ASSUME NEW S, NEW s \in Seq(S)
    PROVE  IsFiniteSet(ToSet(s)) /\ Cardinality(ToSet(s)) <= Len(s)
<1> DEFINE n == Len(s)
<1>1. n \in Nat /\ DOMAIN s = 1..n /\ s = [k \in 1..n |-> s[k]]
  OBVIOUS
<1>2. IsFiniteSet(1..n) /\ Cardinality(1..n) = n
  <2>1. 1 \in Int /\ n \in Int
    BY <1>1
  <2> HIDE DEF n
  <2>2. IsFiniteSet(1..n) /\ Cardinality(1..n) = IF 1 > n THEN 0 ELSE n - 1 + 1
    BY <2>1, FS_Interval, Zenon
  <2> QED BY <1>1, <2>2
<1> HIDE DEF n
<1>3. s \in [1..n -> ToSet(s)]
  BY <1>1 DEF ToSet
<1>4. \A x \in ToSet(s) : \E k \in 1..n : s[k] = x
  BY <1>1 DEF ToSet
<1>5. s \in Surjection(1..n, ToSet(s))
  BY <1>3, <1>4 DEF Surjection
<1>6. IsFiniteSet(ToSet(s)) /\ Cardinality(ToSet(s)) <= Cardinality(1..n)
  <2> DEFINE I == 1..n
             T == ToSet(s)
  <2>1. s \in Surjection(I, T) /\ IsFiniteSet(I)
    BY <1>2, <1>5
  <2> HIDE DEF I, T
  <2>2. IsFiniteSet(T) /\ Cardinality(T) <= Cardinality(I)
    BY <2>1, FS_Surjection
  <2> QED BY <2>2 DEF I, T
<1> QED BY <1>2, <1>6 DEF n

\* What a page reads are versions of articles, no more than there are items.
LEMMA TableIs ==
    ASSUME InputOK, NEW first \in 0..Len(items), NEW k \in Nat \ {0}
    PROVE  TableAt(first, k) \in Seq(Versions) /\ Len(TableAt(first, k)) <= Len(items)
<1> DEFINE size == first + k - 1
           hours == (k - 1) * Pause
           s == Prefix(items, size)
           rows == Deduplicate(s)
           n == Len(rows)
           table == [l \in DOMAIN rows |-> Later(rows[l], hours)]
<1>1. items \in Seq(Candidates) /\ Len(items) \in Nat
  BY DEF InputOK
<1>2. size \in Nat /\ hours \in Nat
  <2>1. Pause \in Nat
    BY FeedAssumption DEF FeedAssumption
  <2>2. k - 1 \in Nat /\ first \in Nat
    BY <1>1
  <2> QED BY <2>1, <2>2
<1>3. TableAt(first, k) = table
  BY DEF TableAt
<1> HIDE DEF size, hours
<1>4. s \in Seq(Candidates) /\ Len(s) <= Len(items)
  BY <1>1, <1>2, PrefixIs
<1> HIDE DEF s
<1>5. rows \in Seq(Candidates)
  <2> DEFINE map == BestByUrl(FirstPerContent(s)).map
             noUrl == BestByUrl(FirstPerContent(s)).noUrl
  <2>1. map \in Seq(Candidates) /\ noUrl \in Seq(Candidates)
    BY <1>4, PassesTyped
  <2>2. rows = map \o noUrl
    BY DEF Deduplicate
  <2> HIDE DEF map, noUrl
  <2> QED BY <2>1, <2>2, MembersOfJoin
<1>6. n = Cardinality(ToSet(rows)) /\ ToSet(rows) \in Deduplicated(ToSet(s))
  BY <1>4, PassesAreOK, PassesImplementRelation
<1>7. ToSet(rows) \subseteq ToSet(s)
  BY <1>6 DEF Deduplicated, BestPerUrl, OnePerContent
<1> HIDE DEF rows
<1>8. n \in Nat /\ n <= Len(s)
  <2> DEFINE A == ToSet(rows)
             B == ToSet(s)
  <2>1. IsFiniteSet(B) /\ Cardinality(B) <= Len(s) /\ A \subseteq B /\ Len(s) \in Nat
    BY <1>4, <1>7, MembersAreFew
  <2>2. n = Cardinality(A) /\ n \in Nat
    BY <1>5, <1>6
  <2> HIDE DEF A, B, n
  <2>3. Cardinality(A) <= Cardinality(B) /\ Cardinality(B) \in Nat
    BY <2>1, FS_Subset, FS_CardinalityType
  <2> QED BY <2>1, <2>2, <2>3
<1>9. DOMAIN rows = 1..n /\ \A l \in 1..n : rows[l] \in Candidates
  BY <1>5
<1> HIDE DEF n
<1>10. \A l \in 1..n : Later(rows[l], hours) \in Versions
  BY <1>2, <1>9 DEF Versions
<1>11. table \in [1..n -> Versions]
  <2> DEFINE late(l) == Later(rows[l], hours)
  <2>1. \A l \in 1..n : late(l) \in Versions
    BY <1>10
  <2> HIDE DEF late
  <2>2. [l \in 1..n |-> late(l)] \in [1..n -> Versions]
    BY <2>1
  <2> QED BY <1>9, <2>2 DEF late
<1> HIDE DEF table
<1>12. table \in Seq(Versions) /\ Len(table) = n
  BY <1>8, <1>11
<1>13. Len(s) \in Nat
  BY <1>4
<1>14. n <= Len(items)
  BY <1>1, <1>4, <1>8, <1>13
<1> QED BY <1>3, <1>12, <1>14

ScrollFix(f, first, lambda, limit) ==
    f = [n \in 0..(Len(items) + 1) |->
            IF n = 0 THEN [loaded |-> <<>>, total |-> 0, over |-> FALSE]
            ELSE Load(f[n - 1], TableAt(first, n), lambda, limit)]

LEMMA ScrollIs ==
    ASSUME InputOK, NEW first \in 0..Len(items), NEW lambda \in 0..10, NEW limit \in Nat \ {0}
    PROVE  ScrollOK(Scroll(first, lambda, limit), Len(items) + 1, Len(items))
<1> DEFINE N == Len(items)
           n == N + 1
           base == [loaded |-> <<>>, total |-> 0, over |-> FALSE]
           Turned(st, k) == Load(st, TableAt(first, k), lambda, limit)
           next == [p \in Scrolling \X (1..n) |->
                       IF ScrollOK(p[1], p[2] - 1, N) THEN Turned(p[1], p[2]) ELSE p[1]]
<1>1. N \in Nat /\ n \in Nat
  BY DEF InputOK
<1>2. ScrollOK(base, 0, N)
  <2> DEFINE none == <<>>
  <2>1. none \in Seq(Versions) /\ Len(none) = 0
    OBVIOUS
  <2> HIDE DEF none
  <2>2. base = [loaded |-> none, total |-> 0, over |-> FALSE]
    BY DEF none
  <2> HIDE DEF base
  <2>3. base.loaded = none /\ base.over = FALSE /\ base \in Scrolling
    BY <2>1, <2>2 DEF Scrolling
  <2> QED BY <2>1, <2>3 DEF ScrollOK
<1> HIDE DEF base
<1>3. base \in Scrolling
  BY <1>2 DEF ScrollOK
<1>4. ASSUME NEW st, NEW k \in 1..n, ScrollOK(st, k - 1, N)
      PROVE  ScrollOK(Turned(st, k), k, N)
  <2>1. k \in Nat \ {0}
    BY <1>1
  <2> DEFINE rows == TableAt(first, k)
  <2>2. rows \in Seq(Versions) /\ Len(rows) <= N
    BY <2>1, TableIs
  <2> HIDE DEF rows, N
  <2>3. ScrollOK(Load(st, rows, lambda, limit), k, N)
    BY <1>1, <1>4, <2>1, <2>2, LoadOK
  <2> QED BY <2>3 DEF rows
<1> HIDE DEF N, n, Turned
<1>5. ASSUME NEW st \in Scrolling, NEW k \in 1..n
      PROVE  /\ next[<<st, k>>] \in Scrolling
             /\ ScrollOK(st, k - 1, N) => next[<<st, k>>] = Turned(st, k)
  <2>1. next[<<st, k>>] = IF ScrollOK(st, k - 1, N) THEN Turned(st, k) ELSE st
    OBVIOUS
  <2>2. ScrollOK(st, k - 1, N) => Turned(st, k) \in Scrolling
    BY <1>4 DEF ScrollOK
  <2> HIDE DEF next
  <2> QED BY <2>1, <2>2
<1>6. IsStep(next, n, Scrolling)
  <2>1. ASSUME NEW p \in Scrolling \X (1..n)
        PROVE  (IF ScrollOK(p[1], p[2] - 1, N) THEN Turned(p[1], p[2]) ELSE p[1]) \in Scrolling
    <3>1. p[1] \in Scrolling /\ p[2] \in 1..n
      OBVIOUS
    <3>2. ScrollOK(p[1], p[2] - 1, N) => Turned(p[1], p[2]) \in Scrolling
      BY <1>4, <3>1 DEF ScrollOK
    <3> QED BY <3>1, <3>2
  <2>2. next \in [Scrolling \X (1..n) -> Scrolling]
    BY <2>1
  <2> HIDE DEF next
  <2> QED BY <2>2 DEF IsStep
<1> HIDE DEF next
<1>7. PICK f \in [0..n -> Scrolling] : Unfolds(f, n, base, next)
  BY <1>1, <1>3, <1>6, RecursionExists
<1>8. f[0] = base /\ \A k \in 1..n : f[k] = next[<<f[k - 1], k>>]
  BY <1>7 DEF Unfolds
<1>9. \A k \in 0..n : ScrollOK(f[k], k, N)
  <2> DEFINE S == {k \in 0..n : ScrollOK(f[k], k, N)}
  <2>1. 0 \in S
    BY <1>1, <1>2, <1>8
  <2>2. ASSUME NEW k \in 1..n, k - 1 \in S PROVE k \in S
    <3>1. k - 1 \in 0..n /\ k \in 0..n /\ ScrollOK(f[k - 1], k - 1, N)
      BY <1>1, <2>2
    <3>2. f[k] = Turned(f[k - 1], k)
      BY <1>5, <1>8, <3>1
    <3>3. ScrollOK(f[k], k, N)
      BY <1>4, <3>1, <3>2
    <3> QED BY <3>1, <3>3
  <2>3. \A k \in 0..n : k \in S
    <3> HIDE DEF S
    <3> QED BY <1>1, <2>1, <2>2, UpTo
  <2> QED BY <2>3
<1>10. \E g : ScrollFix(g, first, lambda, limit)
  <2> DEFINE r == [k \in 0..n |-> IF k = 0 THEN base ELSE Turned(f[k - 1], k)]
  <2>1. \A k \in 0..n : f[k] = r[k]
    <3> TAKE k \in 0..n
    <3>1. CASE k = 0
      BY <1>8, <3>1
    <3>2. CASE k # 0
      <4>1. k \in 1..n /\ k - 1 \in 0..n
        BY <1>1, <3>2
      <4>2. f[k] = Turned(f[k - 1], k)
        BY <1>5, <1>8, <1>9, <4>1
      <4> QED BY <3>2, <4>2
    <3> QED BY <3>1, <3>2
  <2>2. DOMAIN f = 0..n /\ f = [k \in DOMAIN f |-> f[k]]
    OBVIOUS
  <2>3. DOMAIN r = 0..n /\ r = [k \in DOMAIN r |-> r[k]]
    BY Zenon
  <2>4. f = r
    <3> HIDE DEF r
    <3> QED BY <2>1, <2>2, <2>3
  <2>5. ScrollFix(f, first, lambda, limit)
    BY <2>4, Zenon DEF ScrollFix, Turned, n, N, base
  <2> QED BY <2>5
<1> DEFINE g == CHOOSE e : ScrollFix(e, first, lambda, limit)
<1>11. Scroll(first, lambda, limit) = g[n]
  BY Zenon DEF Scroll, ScrollFix, n, N
<1>12. ScrollFix(g, first, lambda, limit)
  BY <1>10, Zenon
<1> HIDE DEF g
<1>13. g[0] = base
  <2>1. 0 \in 0..n
    BY <1>1
  <2>2. g[0] = IF 0 = 0 THEN base ELSE Turned(g[0 - 1], 0)
    BY <1>12, <2>1 DEF ScrollFix, Turned, n, N, base
  <2> QED BY <2>2
<1>14. \A k \in 1..n : g[k] = Turned(g[k - 1], k)
  <2> TAKE k \in 1..n
  <2>1. k \in 0..n /\ k # 0
    BY <1>1
  <2>2. g[k] = IF k = 0 THEN base ELSE Turned(g[k - 1], k)
    BY <1>12, <2>1 DEF ScrollFix, Turned, n, N, base
  <2> QED BY <2>1, <2>2
<1> DEFINE S == {k \in 0..n : ScrollOK(g[k], k, N)}
<1>15. 0 \in S
  BY <1>1, <1>2, <1>13
<1>16. ASSUME NEW k \in 1..n, k - 1 \in S PROVE k \in S
  <2>1. k - 1 \in 0..n /\ k \in 0..n /\ ScrollOK(g[k - 1], k - 1, N)
    BY <1>1, <1>16
  <2>2. ScrollOK(g[k], k, N)
    BY <1>4, <1>14, <2>1
  <2> QED BY <2>1, <2>2
<1>17. n \in S
  <2>1. \A k \in 0..n : k \in S
    <3> HIDE DEF S
    <3> QED BY <1>1, <1>15, <1>16, UpTo
  <2> QED BY <1>1, <2>1
<1> QED BY <1>11, <1>17 DEF n, N

\* The feed page, for any items, page size and lambda, with a table that grows
\* and articles that age between its pages: scrolling ends within one request
\* more than there are items, and with all that the last page counts loaded.
THEOREM ScrollReachesTotal == Spec => []ScrollEndsAtTotal
<1>1. InputOK => ScrollEndsAtTotal
  <2> SUFFICES ASSUME InputOK, NEW limit \in PageSizes, NEW lambda \in Lambdas,
                      NEW first \in 0..Len(items)
               PROVE  LET scroll == Scroll(first, lambda, limit)
                      IN  scroll.over /\ Len(scroll.loaded) >= scroll.total
    BY Zenon DEF ScrollEndsAtTotal
  <2> DEFINE scroll == Scroll(first, lambda, limit)
             n == Len(items)
  <2>1. lambda \in 0..10 /\ limit \in Nat \ {0}
    BY FeedAssumption DEF FeedAssumption
  <2>2. n \in Nat
    BY DEF InputOK
  <2>3. ScrollOK(scroll, n + 1, n)
    BY <2>1, ScrollIs
  <2> HIDE DEF scroll, n
  <2>4. /\ scroll.over \in BOOLEAN /\ Len(scroll.loaded) \in Nat
        /\ IF scroll.over THEN Len(scroll.loaded) >= scroll.total
           ELSE n + 1 <= Len(scroll.loaded) /\ (n + 1 > 0 => Len(scroll.loaded) < n)
    BY <2>3 DEF ScrollOK, Scrolling
  <2>5. scroll.over
    BY <2>2, <2>4
  <2> QED BY <2>4, <2>5 DEF scroll
<1> QED BY <1>1, InputIsSequence, PTL

-----------------------------------------------------------------------------
(***************************************************************************)
(* What a run selects: keywords, the answer of the model, the merge of     *)
(* events and the noise filter.                                            *)
(***************************************************************************)
\* R orders the members of P, from the first to the last.
Orders(R, P) ==
    /\ \A x \in P : <<x, x>> \in R
    /\ \A x, y \in P : <<x, y>> \in R \/ <<y, x>> \in R
    /\ \A x, y \in P : <<x, y>> \in R /\ <<y, x>> \in R => x = y
    /\ \A x, y, z \in P : <<x, y>> \in R /\ <<y, z>> \in R => <<x, z>> \in R

\* o has each member of P once, in that order.
Arranges(o, P, R) ==
    /\ o \in Seq(P) /\ Len(o) = Cardinality(P)
    /\ \A x \in P : \E k \in 1..Len(o) : o[k] = x
    /\ \A j, k \in 1..Len(o) : o[j] = o[k] => j = k
    /\ \A j, k \in 1..Len(o) : j <= k => <<o[j], o[k]>> \in R

\* The number of members up to it is another for each, so each number up to
\* the size of P is that of one.
LEMMA InOrderIs ==
    ASSUME NEW P, IsFiniteSet(P), NEW R, Orders(R, P)
    PROVE  Arranges(InOrder(P, R), P, R)
<1> DEFINE n == Cardinality(P)
           UpToIt(x) == {m \in P : <<m, x>> \in R}
           f == [x \in P |-> Cardinality(UpToIt(x))]
<1>1. n \in Nat /\ IsFiniteSet(1..n) /\ Cardinality(1..n) = n
  <2>1. n \in Nat
    BY FS_CardinalityType
  <2>2. 1 \in Int /\ n \in Int
    BY <2>1
  <2> HIDE DEF n
  <2>3. IsFiniteSet(1..n) /\ Cardinality(1..n) = IF 1 > n THEN 0 ELSE n - 1 + 1
    BY <2>2, FS_Interval
  <2> QED BY <2>1, <2>3
<1>2. ASSUME NEW x \in P
      PROVE  IsFiniteSet(UpToIt(x)) /\ Cardinality(UpToIt(x)) \in 1..n
  <2> DEFINE U == UpToIt(x)
  <2>1. U \in SUBSET P /\ x \in U
    BY DEF Orders
  <2> HIDE DEF U
  <2>2. IsFiniteSet(U) /\ Cardinality(U) <= Cardinality(P)
    BY <2>1, FS_Subset
  <2>3. Cardinality(U) \in Nat /\ Cardinality(U) # 0
    BY <2>1, <2>2, FS_CardinalityType, FS_EmptySet
  <2>4. Cardinality(U) \in 1..n
    BY <1>1, <2>2, <2>3
  <2> QED BY <2>2, <2>4 DEF U
<1>3. ASSUME NEW x \in P, NEW y \in P, <<x, y>> \in R,
             Cardinality(UpToIt(x)) = Cardinality(UpToIt(y))
      PROVE  x = y
  <2> DEFINE U == UpToIt(x)
             V == UpToIt(y)
  <2>1. U \in SUBSET V
    BY <1>3 DEF Orders
  <2>2. IsFiniteSet(V) /\ Cardinality(U) = Cardinality(V)
    BY <1>2, <1>3
  <2>3. y \in V
    BY DEF Orders
  <2> HIDE DEF U, V
  <2>4. y \in U
    BY <2>1, <2>2, <2>3, FS_Subset
  <2>5. <<y, x>> \in R
    BY <2>4 DEF U
  <2> QED BY <1>3, <2>5 DEF Orders
<1>4. f \in Injection(P, 1..n)
  <2>1. f \in [P -> 1..n]
    BY <1>2
  <2>2. ASSUME NEW x \in P, NEW y \in P, f[x] = f[y] PROVE x = y
    <3>1. Cardinality(UpToIt(x)) = Cardinality(UpToIt(y))
      BY <2>2
    <3>2. <<x, y>> \in R \/ <<y, x>> \in R
      BY DEF Orders
    <3> HIDE DEF UpToIt
    <3> QED BY <1>3, <3>1, <3>2
  <2> HIDE DEF f, n
  <2> QED BY <2>1, <2>2 DEF Injection, IsInjective
<1>5. f \in Surjection(P, 1..n)
  <2> HIDE DEF f
  <2> DEFINE T == 1..n
  <2>1. IsFiniteSet(T) /\ Cardinality(P) = Cardinality(T) /\ f \in Injection(P, T)
    BY <1>1, <1>4
  <2> HIDE DEF T
  <2>2. f \in Surjection(P, T)
    BY <2>1, FS_Injection
  <2> QED BY <2>2 DEF T
<1>6. ASSUME NEW k \in 1..n PROVE \E x \in P : Cardinality(UpToIt(x)) = k
  <2>1. \E x \in P : f[x] = k
    <3> HIDE DEF f, n
    <3> QED BY <1>5, <1>6 DEF Surjection
  <2> QED BY <2>1
<1> DEFINE At(k) == CHOOSE x \in P : Cardinality(UpToIt(x)) = k
<1>7. ASSUME NEW k \in 1..n PROVE At(k) \in P /\ Cardinality(UpToIt(At(k))) = k
  <2>1. \E x \in P : Cardinality(UpToIt(x)) = k
    BY <1>6
  <2> HIDE DEF UpToIt
  <2> QED BY <2>1, Zenon
<1>8. InOrder(P, R) = [k \in 1..n |-> At(k)]
  BY Zenon DEF InOrder
<1> HIDE DEF At
<1>9. ASSUME NEW x \in P PROVE \E k \in 1..n : At(k) = x
  <2> DEFINE k == Cardinality(UpToIt(x))
  <2>1. k \in 1..n
    BY <1>2
  <2>2. At(k) \in P /\ Cardinality(UpToIt(At(k))) = k
    <3> HIDE DEF k, UpToIt, n
    <3> QED BY <1>7, <2>1
  <2>3. <<x, At(k)>> \in R \/ <<At(k), x>> \in R
    BY <2>2, Zenon DEF Orders
  <2> HIDE DEF UpToIt
  <2>4. At(k) = x
    BY <1>3, <2>2, <2>3
  <2> HIDE DEF k
  <2> QED BY <2>1, <2>4
<1>10. ASSUME NEW j \in 1..n, NEW k \in 1..n, j <= k PROVE <<At(j), At(k)>> \in R
  <2> DEFINE x == At(j)
             y == At(k)
  <2>1. x \in P /\ y \in P /\ Cardinality(UpToIt(x)) = j /\ Cardinality(UpToIt(y)) = k
    BY <1>7
  <2> HIDE DEF x, y
  <2>2. <<x, y>> \in R \/ <<y, x>> \in R
    BY <2>1, Zenon DEF Orders
  <2>3. CASE <<y, x>> \in R
    <3>1. IsFiniteSet(UpToIt(x))
      BY <1>2, <2>1
    <3> DEFINE U == UpToIt(x)
               V == UpToIt(y)
    <3>2. V \in SUBSET U
      BY <2>1, <2>3 DEF Orders
    <3> HIDE DEF U, V
    <3>3. Cardinality(V) <= Cardinality(U)
      BY <3>1, <3>2, FS_Subset DEF U
    <3>4. j = k
      BY <1>1, <1>10, <2>1, <3>3 DEF U, V
    <3>5. Cardinality(UpToIt(y)) = Cardinality(UpToIt(x))
      BY <2>1, <3>4
    <3> HIDE DEF UpToIt
    <3>6. y = x
      BY <1>3, <2>1, <2>3, <3>5
    <3>7. <<x, y>> \in R
      BY <2>3, <3>6
    <3> QED BY <3>7, Zenon DEF x, y
  <2> QED BY <2>2, <2>3 DEF x, y
<1> DEFINE o == [k \in 1..n |-> At(k)]
<1> HIDE DEF UpToIt, n
<1>11. o \in [1..n -> P] /\ \A k \in 1..n : o[k] = At(k)
  BY <1>7
<1> HIDE DEF o
<1>12. o \in Seq(P) /\ Len(o) = n
  BY <1>1, <1>11, SeqDef
<1>13. ASSUME NEW j \in 1..n, NEW k \in 1..n, o[j] = o[k] PROVE j = k
  BY <1>7, <1>11, <1>13
<1>14. Arranges(o, P, R)
  <2>1. \A x \in P : \E k \in 1..n : o[k] = x
    BY <1>9, <1>11
  <2>2. \A j, k \in 1..n : j <= k => <<o[j], o[k]>> \in R
    BY <1>10, <1>11
  <2>3. \A j, k \in 1..n : o[j] = o[k] => j = k
    BY <1>13
  <2> QED BY <1>12, <2>1, <2>2, <2>3 DEF Arranges, n
<1> QED BY <1>8, <1>14, Zenon DEF o

\* t has the items of s at the places in P, o tells which is whose.
TakenBy(o, t, s, P) ==
    /\ DOMAIN t = DOMAIN o
    /\ \A k \in DOMAIN t : o[k] \in P /\ t[k] = s[o[k]]
    /\ \A j, k \in DOMAIN t : o[j] = o[k] => j = k
    /\ \A n \in P : \E k \in DOMAIN t : o[k] = n

\* Only takes the items at the given places, each once.
LEMMA OnlyTakes ==
    ASSUME NEW C, NEW s \in Seq(C), NEW P \in SUBSET DOMAIN s
    PROVE  /\ Only(s, P) \in Seq({s[n] : n \in P})
           /\ Len(Only(s, P)) <= Len(s)
           /\ \E o : TakenBy(o, Only(s, P), s, P)
<1> DEFINE R == {p \in P \X P : p[1] <= p[2]}
           order == InOrder(P, R)
           D == {s[n] : n \in P}
<1>1. P \in SUBSET Nat /\ IsFiniteSet(P) /\ Cardinality(P) <= Len(s)
  <2>1. Len(s) \in Nat /\ DOMAIN s = 1..Len(s) /\ 1 \in Int /\ Len(s) \in Int
    OBVIOUS
  <2>2. /\ IsFiniteSet(1..Len(s))
        /\ Cardinality(1..Len(s)) = IF 1 > Len(s) THEN 0 ELSE Len(s) - 1 + 1
    BY <2>1, FS_Interval
  <2>3. IsFiniteSet(P) /\ Cardinality(P) <= Cardinality(1..Len(s))
    BY <2>1, <2>2, FS_Subset
  <2>4. Cardinality(1..Len(s)) = Len(s)
    BY <2>1, <2>2
  <2> QED BY <2>1, <2>3, <2>4
<1>2. \A x, y \in P : <<x, y>> \in R <=> x <= y
  OBVIOUS
<1> HIDE DEF R
<1>3. Orders(R, P)
  <2>1. \A x \in P : x \in Nat
    BY <1>1
  <2>2. \A x, y \in P : x <= y \/ y <= x
    BY <2>1
  <2>3. \A x, y \in P : x <= y /\ y <= x => x = y
    BY <2>1
  <2>4. \A x, y, z \in P : x <= y /\ y <= z => x <= z
    BY <2>1
  <2>5. \A x \in P : x <= x
    BY <2>1
  <2> QED BY <1>2, <2>2, <2>3, <2>4, <2>5 DEF Orders
<1>4. Arranges(order, P, R)
  BY <1>1, <1>3, InOrderIs
<1>5. Only(s, P) = [k \in DOMAIN order |-> s[order[k]]]
  BY Zenon DEF Only, R
<1> HIDE DEF order
<1>6. /\ DOMAIN order = 1..Len(order) /\ Len(order) \in Nat
      /\ \A k \in 1..Len(order) : order[k] \in P
      /\ Len(order) <= Len(s)
  BY <1>1, <1>4 DEF Arranges
<1>7. \A k \in 1..Len(order) : s[order[k]] \in D
  BY <1>6
<1> HIDE DEF D
<1> DEFINE m == Len(order)
           v == [k \in 1..m |-> s[order[k]]]
<1>8. v \in [1..m -> D] /\ m \in Nat /\ \A k \in 1..m : v[k] = s[order[k]]
  BY <1>6, <1>7
<1>9. Only(s, P) = v
  BY <1>5, <1>6
<1> HIDE DEF v, m
<1>10. v \in Seq(D) /\ Len(v) = m /\ DOMAIN v = 1..m
  BY <1>8, SeqDef
<1>11. TakenBy(order, v, s, P)
  <2>1. DOMAIN v = DOMAIN order
    BY <1>6, <1>10 DEF m
  <2>2. \A k \in DOMAIN v : order[k] \in P /\ v[k] = s[order[k]]
    BY <1>6, <1>8, <1>10 DEF m
  <2>3. /\ \A j, k \in DOMAIN v : order[j] = order[k] => j = k
        /\ \A n \in P : \E k \in DOMAIN v : order[k] = n
    BY <1>4, <1>10 DEF m, Arranges
  <2> QED BY <2>1, <2>2, <2>3 DEF TakenBy
<1>12. \E o : TakenBy(o, v, s, P)
  BY <1>11, Zenon
<1>13. Len(v) <= Len(s)
  BY <1>6, <1>10 DEF m
<1> QED BY <1>9, <1>10, <1>12, <1>13 DEF D

-----------------------------------------------------------------------------
\* What a chain leads to in one step more.
Nearer(s, near) == near \cup {m \in DOMAIN s : \E j \in near : Related(s, m, j)}

EventFix(f, s, n) ==
    f = [k \in 0..Len(s) |->
            IF k = 0 THEN {n}
            ELSE f[k - 1] \cup {m \in DOMAIN s : \E j \in f[k - 1] : Related(s, m, j)}]

\* An item belongs to its event.
LEMMA EventIs ==
    ASSUME NEW C, NEW s \in Seq(C), NEW x \in DOMAIN s
    PROVE  x \in Event(s, x) /\ Event(s, x) \subseteq DOMAIN s
<1> DEFINE n == Len(s)
           base == {x}
           Acc == {near \in SUBSET DOMAIN s : x \in near}
           next == [p \in Acc \X (1..n) |-> Nearer(s, p[1])]
<1>1. n \in Nat /\ base \in Acc
  OBVIOUS
<1>2. ASSUME NEW a \in Acc PROVE Nearer(s, a) \in Acc
  BY DEF Nearer
<1> HIDE DEF n, base, Acc
<1>3. IsStep(next, n, Acc)
  <2>1. ASSUME NEW p \in Acc \X (1..n) PROVE Nearer(s, p[1]) \in Acc
    BY <1>2
  <2>2. next \in [Acc \X (1..n) -> Acc]
    BY <2>1
  <2> HIDE DEF next
  <2> QED BY <2>2 DEF IsStep
<1>4. ASSUME NEW a \in Acc, NEW k \in 1..n PROVE next[<<a, k>>] = Nearer(s, a)
  OBVIOUS
<1> HIDE DEF next
<1>5. PICK f \in [0..n -> Acc] : Unfolds(f, n, base, next)
  BY <1>1, <1>3, RecursionExists
<1>6. f[0] = base /\ \A k \in 1..n : f[k] = Nearer(s, f[k - 1])
  <2>1. \A k \in 1..n : k - 1 \in 0..n
    BY <1>1
  <2>2. \A k \in 1..n : f[k - 1] \in Acc
    BY <1>5, <2>1
  <2> QED BY <1>4, <1>5, <2>2 DEF Unfolds
<1>7. \E g : EventFix(g, s, x)
  <2> DEFINE r == [k \in 0..n |-> IF k = 0 THEN base ELSE Nearer(s, f[k - 1])]
  <2>1. \A k \in 0..n : f[k] = r[k]
    <3> TAKE k \in 0..n
    <3>1. CASE k = 0
      BY <1>6, <3>1
    <3>2. CASE k # 0
      <4>1. k \in 1..n
        BY <1>1, <3>2
      <4> QED BY <1>6, <3>2, <4>1
    <3> QED BY <3>1, <3>2
  <2>2. DOMAIN f = 0..n /\ f = [k \in DOMAIN f |-> f[k]]
    OBVIOUS
  <2>3. DOMAIN r = 0..n /\ r = [k \in DOMAIN r |-> r[k]]
    BY Zenon
  <2>4. f = r
    <3> HIDE DEF r
    <3> QED BY <2>1, <2>2, <2>3
  <2>5. EventFix(f, s, x)
    BY <2>4, Zenon DEF EventFix, Nearer, n, base
  <2> QED BY <2>5
<1> DEFINE within == CHOOSE g : EventFix(g, s, x)
<1>8. Event(s, x) = within[n]
  BY Zenon DEF Event, EventFix, n
<1>9. EventFix(within, s, x)
  BY <1>7, Zenon
<1> HIDE DEF within
<1>10. within[0] = base
  <2>1. 0 \in 0..n
    BY <1>1
  <2> QED BY <1>9, <2>1 DEF EventFix, n, base
<1>11. ASSUME NEW k \in 1..n PROVE within[k] = Nearer(s, within[k - 1])
  <2>1. k \in 0..n /\ k # 0
    BY <1>1
  <2> QED BY <1>9, <2>1 DEF EventFix, Nearer, n
<1> DEFINE S == {k \in 0..n : within[k] \in Acc}
<1>12. 0 \in S
  BY <1>1, <1>10
<1>13. ASSUME NEW k \in 1..n, k - 1 \in S PROVE k \in S
  <2>1. within[k - 1] \in Acc /\ k \in 0..n
    BY <1>1, <1>13
  <2>2. within[k] \in Acc
    BY <1>2, <1>11, <2>1
  <2> QED BY <2>1, <2>2
<1>14. n \in S
  <2>1. \A k \in 0..n : k \in S
    <3> HIDE DEF S
    <3> QED BY <1>1, <1>12, <1>13, UpTo
  <2> QED BY <1>1, <2>1
<1> QED BY <1>8, <1>14 DEF Acc

\* An event has a heaviest item, and of those a first.
LEMMA WinnerIs ==
    ASSUME NEW C, \A c \in C : c.score \in Int /\ c.relevance \in Int,
           NEW s \in Seq(C), NEW E \in SUBSET DOMAIN s, E # {}
    PROVE  Winner(s, E) \in E
<1> DEFINE W(n) == s[n].score + s[n].relevance
           I == {W(n) : n \in E}
           f == [n \in E |-> W(n)]
<1>1. E \in SUBSET Nat /\ IsFiniteSet(E)
  <2>1. Len(s) \in Nat /\ DOMAIN s = 1..Len(s)
    OBVIOUS
  <2>2. IsFiniteSet(1..Len(s))
    BY <2>1, FS_Interval
  <2>3. IsFiniteSet(E)
    BY <2>1, <2>2, FS_Subset
  <2> QED BY <2>1, <2>3
<1>2. ASSUME NEW n \in E PROVE W(n) \in Int
  <2>1. s[n] \in C
    OBVIOUS
  <2> QED BY <2>1
<1> HIDE DEF W
<1>3. I \in SUBSET Int /\ I # {}
  BY <1>2
<1>4. IsFiniteSet(I)
  <2>1. f \in Surjection(E, I)
    BY DEF Surjection
  <2> HIDE DEF f, I
  <2> QED BY <1>1, <2>1, FS_Surjection
<1>5. PICK M \in I : \A k \in I : k <= M
  <2> HIDE DEF I
  <2> QED BY <1>3, <1>4, MaxOf
<1> DEFINE H == {n \in E : W(n) = M}
<1>6. H \in SUBSET Nat /\ H # {}
  BY <1>1
<1>7. PICK w \in H : \A m \in H : w <= m
  <2> HIDE DEF H
  <2> QED BY <1>6, LeastNumber
<1>8. \A m \in E : W(m) < W(w) \/ (W(m) = W(w) /\ w <= m)
  <2> TAKE m \in E
  <2>1. W(m) \in I /\ W(m) \in Int /\ W(w) = M /\ M \in Int
    BY <1>2, <1>3
  <2>2. CASE W(m) = M
    BY <1>7, <2>1, <2>2
  <2>3. CASE W(m) # M
    <3>1. W(m) <= M
      BY <1>5, <2>1
    <3> HIDE DEF I, H
    <3> QED BY <2>1, <2>3, <3>1
  <2> QED BY <2>2, <2>3
<1> DEFINE Best(n) == \A m \in E : W(m) < W(n) \/ (W(m) = W(n) /\ n <= m)
<1>9. \E n \in E : Best(n)
  BY <1>8
<1>10. Winner(s, E) = CHOOSE n \in E : Best(n)
  BY Zenon DEF Winner, W
<1> HIDE DEF Best
<1> QED BY <1>9, <1>10, Zenon

\* The best items of events are items.
LEMMA MergeEventsIs ==
    ASSUME NEW C, \A c \in C : c.score \in Int /\ c.relevance \in Int,
           NEW s \in Seq(C)
    PROVE  MergeEvents(s) \in Seq(C)
<1> DEFINE begins == {n \in DOMAIN s : \A m \in Event(s, n) : n <= m}
           R == {p \in begins \X begins : Follows(s, p[2], p[1])}
           order == InOrder(begins, R)
           Top(n) == Min(Topical(s, n))
<1>1. Len(s) \in Nat /\ DOMAIN s = 1..Len(s) /\ DOMAIN s \in SUBSET Nat
  OBVIOUS
<1>2. begins \in SUBSET DOMAIN s /\ IsFiniteSet(begins)
  <2>1. begins \in SUBSET DOMAIN s
    OBVIOUS
  <2>2. IsFiniteSet(1..Len(s))
    BY <1>1, FS_Interval
  <2> HIDE DEF begins
  <2> QED BY <1>1, <2>1, <2>2, FS_Subset
<1>3. ASSUME NEW n \in DOMAIN s PROVE Top(n) \in Nat
  <2> DEFINE I == Topical(s, n)
  <2>1. I \in SUBSET Nat /\ I # {}
    BY <1>1 DEF Topical
  <2> HIDE DEF I
  <2>2. Min(I) \in I
    BY <2>1, MinIs
  <2> QED BY <2>1, <2>2 DEF I
<1> HIDE DEF Top, begins
<1>4. \A x, y \in begins : <<x, y>> \in R <=> Top(x) < Top(y) \/ (Top(x) = Top(y) /\ x <= y)
  BY DEF Follows, Top
<1> HIDE DEF R
<1>5. Orders(R, begins)
  <2>1. \A x \in begins : x \in Nat /\ Top(x) \in Nat
    BY <1>1, <1>2, <1>3
  <2>2. \A x \in begins : <<x, x>> \in R
    BY <1>4, <2>1
  <2>3. ASSUME NEW x \in begins, NEW y \in begins PROVE <<x, y>> \in R \/ <<y, x>> \in R
    <3>1. x \in Nat /\ y \in Nat /\ Top(x) \in Nat /\ Top(y) \in Nat
      BY <2>1
    <3>2. \/ Top(x) < Top(y) \/ (Top(x) = Top(y) /\ x <= y)
          \/ Top(y) < Top(x) \/ (Top(y) = Top(x) /\ y <= x)
      BY <3>1
    <3> QED BY <1>4, <3>2, Zenon
  <2>4. \A x, y \in begins : <<x, y>> \in R /\ <<y, x>> \in R => x = y
    BY <1>4, <2>1
  <2>5. \A x, y, z \in begins : <<x, y>> \in R /\ <<y, z>> \in R => <<x, z>> \in R
    BY <1>4, <2>1
  <2> QED BY <2>2, <2>3, <2>4, <2>5 DEF Orders
<1>6. order \in Seq(begins)
  BY <1>2, <1>5, InOrderIs DEF Arranges
<1>7. MergeEvents(s) = [k \in DOMAIN order |-> s[Winner(s, Event(s, order[k]))]]
  BY Zenon DEF MergeEvents, begins, R
<1> HIDE DEF order
<1>8. DOMAIN order = 1..Len(order) /\ Len(order) \in Nat /\ \A k \in 1..Len(order) : order[k] \in begins
  BY <1>6
<1>9. ASSUME NEW k \in 1..Len(order) PROVE s[Winner(s, Event(s, order[k]))] \in C
  <2>1. order[k] \in DOMAIN s
    BY <1>2, <1>8
  <2> DEFINE E == Event(s, order[k])
  <2>2. E \in SUBSET DOMAIN s /\ E # {}
    BY <2>1, EventIs
  <2> HIDE DEF E
  <2>3. Winner(s, E) \in E
    BY <2>2, WinnerIs
  <2>4. Winner(s, E) \in DOMAIN s
    BY <2>2, <2>3
  <2> QED BY <2>4 DEF E
<1> DEFINE m == Len(order)
           v == [k \in 1..m |-> s[Winner(s, Event(s, order[k]))]]
<1>10. v \in Seq(C)
  <2>1. v \in [1..m -> C] /\ m \in Nat
    BY <1>8, <1>9
  <2> HIDE DEF v, m
  <2> QED BY <2>1, SeqDef
<1> QED BY <1>7, <1>8, <1>10

-----------------------------------------------------------------------------
\* A candidate with the topic and the relevance it was given is itself but for
\* these, which can be taken back.
LEMMA AsIs ==
    ASSUME NEW i \in Candidates, NEW t, NEW r
    PROVE  /\ As(i, t, r).title = i.title /\ As(i, t, r).score = i.score
           /\ As(i, t, r).topic = t /\ As(i, t, r).relevance = r
           /\ As(As(i, t, r), NoTopic, 0) = As(i, NoTopic, 0)
           /\ As(i, NoTopic, 0).title = i.title
<1>1. /\ i = [f \in DOMAIN i |-> i[f]]
      /\ {"title", "score", "topic", "relevance"} \subseteq DOMAIN i
  BY SelectionAssumption, Zenon DEF SelectionAssumption
<1> DEFINE Given(j, u, q) ==
                [f \in DOMAIN j |-> IF f = "relevance" THEN q ELSE IF f = "topic" THEN u ELSE j[f]]
<1>2. As(i, t, r) = Given(i, t, r) /\ As(i, NoTopic, 0) = Given(i, NoTopic, 0)
  BY <1>1 DEF As
<1> DEFINE j == Given(i, t, r)
<1>3. As(j, NoTopic, 0) = Given(j, NoTopic, 0)
  BY DEF As
<1>4. DOMAIN j = DOMAIN i
  OBVIOUS
<1>5. Given(j, NoTopic, 0) = Given(i, NoTopic, 0)
  BY <1>4
<1> QED BY <1>1, <1>2, <1>3, <1>5

\* What classify_by_keywords answers.
LEMMA ByKeywordsIs ==
    ASSUME NEW i \in Candidates
    PROVE  ByKeywords(i).relevance \in Int /\ ByKeywords(i).count \in Nat
<1> DEFINE T == ToSet(TopicOrder)
           count == Matches[i.title]
           n == Len(TopicOrder)
           Leads(t) == \A u \in T : count[u] <= count[t]
           at == SelectInSeq(TopicOrder, LAMBDA t : \A u \in T : count[u] <= count[t])
           best == TopicOrder[at]
           quotient == (300 * count[best]) \div KeywordCount[best]
<1>1. /\ TopicOrder \in Seq(T) /\ TopicOrder # <<>>
      /\ \A t \in T : KeywordCount[t] \in Nat \ {0} /\ count[t] \in Nat
  BY SelectionAssumption DEF SelectionAssumption
<1>2. n \in Nat /\ DOMAIN TopicOrder = 1..n /\ n # 0 /\ \A k \in 1..n : TopicOrder[k] \in T
  <2> HIDE DEF T
  <2> QED BY <1>1
<1>3. \E k \in 1..n : Leads(TopicOrder[k])
  <2> DEFINE N == 1..n
             counts == {count[TopicOrder[k]] : k \in N}
             f == [k \in N |-> count[TopicOrder[k]]]
  <2>1. counts \in SUBSET Int /\ counts # {}
    <3>1. 1 \in N
      BY <1>2
    <3>2. \A k \in N : count[TopicOrder[k]] \in Int
      BY <1>1, <1>2
    <3> HIDE DEF N
    <3> QED BY <3>1, <3>2
  <2>2. IsFiniteSet(N)
    BY <1>2, FS_Interval
  <2>3. f \in Surjection(N, counts)
    BY DEF Surjection
  <2> HIDE DEF f
  <2>4. IsFiniteSet(counts)
    <3> HIDE DEF N, counts
    <3> QED BY <2>2, <2>3, FS_Surjection
  <2>5. PICK c \in counts : \A d \in counts : d <= c
    <3> HIDE DEF counts
    <3> QED BY <2>1, <2>4, MaxOf
  <2>6. PICK k \in N : c = count[TopicOrder[k]]
    OBVIOUS
  <2>7. \A u \in T : \E l \in N : u = TopicOrder[l]
    BY <1>2 DEF ToSet
  <2>8. Leads(TopicOrder[k])
    <3> HIDE DEF T
    <3> QED BY <2>5, <2>6, <2>7
  <2> QED BY <2>8
<1>4. best \in T
  <2> DEFINE I == {k \in 1..n : Leads(TopicOrder[k])}
  <2>1. at = IF I # {} THEN Min(I) ELSE 0
    BY DEF SelectInSeq
  <2>2. I \in SUBSET Nat /\ I # {}
    BY <1>3
  <2> HIDE DEF I
  <2>3. at \in I
    BY <2>1, <2>2, MinIs
  <2>4. at \in 1..n
    BY <2>3 DEF I
  <2> HIDE DEF at, T
  <2> QED BY <1>2, <2>4
<1>5. quotient \in Int
  <2>1. count[best] \in Nat /\ KeywordCount[best] \in Nat \ {0}
    BY <1>1, <1>4
  <2> DEFINE a == count[best]
             b == KeywordCount[best]
  <2> HIDE DEF a, b, best
  <2>2. a \in Nat /\ b \in Nat \ {0}
    BY <2>1 DEF a, b
  <2>3. 300 * a \in Int
    BY <2>2
  <2> DEFINE c == 300 * a
  <2> HIDE DEF c
  <2>4. c \div b \in Int
    BY <2>2, <2>3 DEF c
  <2> QED BY <2>4 DEF a, b, c
<1>6. Min({100, quotient}) \in Int
  <2> HIDE DEF quotient
  <2>1. Min({100, quotient}) \in {100, quotient}
    BY <1>5, MinOfTwo
  <2> QED BY <1>5, <2>1
<1>7. count[best] \in Nat
  BY <1>1, <1>4
<1>8. /\ ByKeywords(i).relevance = IF Min({100, quotient}) < 10 THEN 0 ELSE Min({100, quotient})
      /\ ByKeywords(i).count \in {0, count[best]}
  <2> DEFINE q == Min({100, quotient})
  <2>1. ByKeywords(i) = IF q < 10 THEN [topic |-> NoTopic, relevance |-> 0, count |-> 0]
                        ELSE [topic |-> best, relevance |-> q, count |-> count[best]]
    BY Zenon DEF ByKeywords
  <2> HIDE DEF q, best
  <2>2. /\ ByKeywords(i).relevance = IF q < 10 THEN 0 ELSE q
        /\ ByKeywords(i).count \in {0, count[best]}
    BY <2>1
  <2> QED BY <2>2, Zenon DEF q
<1> HIDE DEF quotient, best
<1> QED BY <1>6, <1>7, <1>8

\* The items of F, each with an enabled topic and some relevance.
Chosen(F) == {As(i, t, r) : i \in F, t \in Enabled, r \in Int}

LEMMA ChosenIs ==
    ASSUME NEW F \in SUBSET Candidates, NEW c \in Chosen(F)
    PROVE  /\ c.score \in Int /\ c.relevance \in Int
           /\ As(c, NoTopic, 0).title = c.title
           /\ \E i \in F : As(c, NoTopic, 0) = As(i, NoTopic, 0)
<1>1. PICK i \in F, t \in Enabled, r \in Int : c = As(i, t, r)
  BY DEF Chosen
<1>2. i \in Candidates /\ i.score \in Nat
  BY ScoresAreNumbers
<1> QED BY <1>1, <1>2, AsIs

\* KeywordClassifier gives items it was given.
LEMMA KeywordResultsAre ==
    ASSUME NEW F \in SUBSET Candidates, NEW s \in Seq(F)
    PROVE  KeywordResults(s) \in Seq(Chosen(F))
<1> DEFINE P == {n \in DOMAIN s : /\ ByKeywords(s[n]).topic \in Enabled
                                  /\ ByKeywords(s[n]).relevance >= MinRelevance}
           kept == Only(s, P)
           D == {s[n] : n \in P}
           Found(i) == As(i, ByKeywords(i).topic, ByKeywords(i).relevance)
<1>1. kept \in Seq(D)
  <2>1. P \in SUBSET DOMAIN s
    OBVIOUS
  <2> HIDE DEF P
  <2> QED BY <2>1, OnlyTakes
<1>2. ASSUME NEW i \in D PROVE Found(i) \in Chosen(F)
  <2>1. i \in F /\ ByKeywords(i).topic \in Enabled
    OBVIOUS
  <2>2. ByKeywords(i).relevance \in Int
    BY <2>1, ByKeywordsIs
  <2> QED BY <2>1, <2>2 DEF Chosen
<1>3. KeywordResults(s) = [n \in DOMAIN kept |-> Found(kept[n])]
  BY Zenon DEF KeywordResults
<1> HIDE DEF kept, D, Found
<1> DEFINE m == Len(kept)
<1>4. DOMAIN kept = 1..m /\ m \in Nat /\ \A n \in 1..m : kept[n] \in D
  BY <1>1
<1>5. [n \in 1..m |-> Found(kept[n])] \in [1..m -> Chosen(F)]
  BY <1>2, <1>4
<1> HIDE DEF m
<1>6. [n \in 1..m |-> Found(kept[n])] \in Seq(Chosen(F))
  BY <1>4, <1>5, SeqDef
<1> QED BY <1>3, <1>4, <1>6

\* Whatever the model answers, it is about items that it was asked about.
LEMMA ModelResultsAre ==
    ASSUME NEW F \in SUBSET Candidates, NEW batch \in Seq(F), NEW answer \in Answers
    PROVE  ModelResults(batch, answer) \in Seq(Chosen(F))
<1> DEFINE P == {n \in DOMAIN answer : Usable(answer[n], batch)}
           entries == Only(answer, P)
           D == {answer[n] : n \in P}
           Given(e) == As(batch[e.idx], e.topic, e.relevance)
<1>1. entries \in Seq(D)
  <2>1. P \in SUBSET DOMAIN answer
    OBVIOUS
  <2>2. answer \in Seq(ToSet(answer))
    BY SelectionAssumption DEF SelectionAssumption
  <2> HIDE DEF P
  <2> QED BY <2>1, <2>2, OnlyTakes
<1>2. ASSUME NEW e \in D PROVE Given(e) \in Chosen(F)
  <2>1. Usable(e, batch) /\ e \in ToSet(answer)
    BY DEF ToSet
  <2>2. e.idx \in 1..Len(batch) /\ e.topic \in Enabled
    BY <2>1 DEF Usable
  <2>3. e.relevance \in Int
    BY <2>1, SelectionAssumption DEF SelectionAssumption
  <2>4. batch[e.idx] \in F
    BY <2>2
  <2> QED BY <2>2, <2>3, <2>4 DEF Chosen
<1>3. ModelResults(batch, answer) = [n \in DOMAIN entries |-> Given(entries[n])]
  BY Zenon DEF ModelResults
<1> HIDE DEF entries, D, Given
<1> DEFINE m == Len(entries)
<1>4. DOMAIN entries = 1..m /\ m \in Nat /\ \A n \in 1..m : entries[n] \in D
  BY <1>1
<1>5. [n \in 1..m |-> Given(entries[n])] \in [1..m -> Chosen(F)]
  BY <1>2, <1>4
<1> HIDE DEF m
<1>6. [n \in 1..m |-> Given(entries[n])] \in Seq(Chosen(F))
  BY <1>4, <1>5, SeqDef
<1> QED BY <1>3, <1>4, <1>6

\* The candidates of s that have a keyword.
Worded(s) == {i \in ToSet(s) : ByKeywords(i).count > 0}

LEMMA ClassifiedIs ==
    ASSUME NEW s \in Seq(Candidates), NEW answer \in Answers \cup {Unusable}
    PROVE  /\ Worded(s) \in SUBSET Candidates
           /\ Classified(s, answer) \in Seq(Chosen(Worded(s)))
<1> DEFINE F == Worded(s)
           U == {n \in DOMAIN s : IsAmbiguous(s[n])}
           V == {n \in DOMAIN s : IsSure(s[n])}
           asked == Only(s, U)
           sure == Only(s, V)
<1>1. F \in SUBSET Candidates
  BY DEF Worded, ToSet
<1>2. HighConfidence \in Nat \ {0}
  BY SelectionAssumption DEF SelectionAssumption
<1>3. ASSUME NEW n \in DOMAIN s PROVE IsAmbiguous(s[n]) => s[n] \in F
  BY <1>2 DEF IsAmbiguous, Worded, ToSet
<1>4. asked \in Seq(F)
  <2>1. U \in SUBSET DOMAIN s /\ {s[n] : n \in U} \subseteq F
    BY <1>3
  <2> HIDE DEF U, F
  <2>2. asked \in Seq({s[n] : n \in U})
    BY <2>1, OnlyTakes
  <2> DEFINE D == {s[n] : n \in U}
  <2> HIDE DEF D, asked
  <2>3. asked \in Seq(D) /\ D \subseteq F
    BY <2>1, <2>2 DEF D
  <2> QED BY <2>3
<1>5. ASSUME NEW n \in DOMAIN s PROVE IsSure(s[n]) => s[n] \in F
  <2>1. s[n] \in Candidates /\ s[n] \in ToSet(s)
    BY DEF ToSet
  <2>2. ByKeywords(s[n]).count \in Nat
    BY <2>1, ByKeywordsIs
  <2> QED BY <1>2, <2>1, <2>2 DEF IsSure, Worded
<1>6. sure \in Seq(F)
  <2>1. V \in SUBSET DOMAIN s /\ {s[n] : n \in V} \subseteq F
    BY <1>5
  <2> HIDE DEF V, F
  <2>2. sure \in Seq({s[n] : n \in V})
    BY <2>1, OnlyTakes
  <2> DEFINE D == {s[n] : n \in V}
  <2> HIDE DEF D, sure
  <2>3. sure \in Seq(D) /\ D \subseteq F
    BY <2>1, <2>2 DEF D
  <2> QED BY <2>3
<1>7. Classified(s, answer) = KeywordResults(sure)
          \o (IF answer = Unusable THEN KeywordResults(asked) ELSE ModelResults(asked, answer))
  BY Zenon DEF Classified
<1> HIDE DEF F, sure, asked
<1>8. KeywordResults(sure) \in Seq(Chosen(F)) /\ KeywordResults(asked) \in Seq(Chosen(F))
  BY <1>1, <1>4, <1>6, KeywordResultsAre
<1>9. answer # Unusable => ModelResults(asked, answer) \in Seq(Chosen(F))
  BY <1>1, <1>4, ModelResultsAre
<1>10. Classified(s, answer) \in Seq(Chosen(F))
  <2> DEFINE C == Chosen(F)
             a == KeywordResults(sure)
             b == IF answer = Unusable THEN KeywordResults(asked) ELSE ModelResults(asked, answer)
  <2>1. a \in Seq(C) /\ b \in Seq(C) /\ Classified(s, answer) = a \o b
    BY <1>7, <1>8, <1>9
  <2> HIDE DEF a, b, C
  <2>2. Classified(s, answer) \in Seq(C)
    BY <2>1
  <2> QED BY <2>2 DEF C
<1> QED BY <1>1, <1>10 DEF F

\* No two of what _filter_noise holds are similar.
Dissimilar(a) == \A m, n \in DOMAIN a : m # n => <<a[n].title, a[m].title>> \notin Similar

LEMMA AcceptKeepsDissimilar ==
    ASSUME NEW C, NEW a \in Seq(C), NEW i \in C, Dissimilar(a)
    PROVE  Dissimilar(Accept(a, i))
<1>1. \A x, y : <<x, y>> \in Similar => <<y, x>> \in Similar
  BY CurationAssumption DEF CurationAssumption
<1>2. CASE Passes(i) /\ ~Repeats(i, a)
  <2> DEFINE u == Append(a, i)
             new == Len(a) + 1
  <2>1. /\ DOMAIN u = DOMAIN a \cup {new}
        /\ \A k \in DOMAIN a : u[k] = a[k] /\ a[k] \in ToSet(a) /\ k # new
        /\ u[new] = i
    BY MembersOfLonger
  <2> HIDE DEF u, new
  <2>2. \A j \in ToSet(a) :
            <<i.title, j.title>> \notin Similar /\ <<j.title, i.title>> \notin Similar
    BY <1>1, <1>2 DEF Repeats
  <2>3. ASSUME NEW m \in DOMAIN u, NEW n \in DOMAIN u, m # n
        PROVE  <<u[n].title, u[m].title>> \notin Similar
    <3>1. CASE m \in DOMAIN a /\ n \in DOMAIN a
      BY <2>1, <2>3, <3>1 DEF Dissimilar
    <3>2. CASE m = new /\ n \in DOMAIN a
      BY <2>1, <2>2, <3>2
    <3>3. CASE n = new /\ m \in DOMAIN a
      BY <2>1, <2>2, <3>3
    <3> QED BY <2>1, <2>3, <3>1, <3>2, <3>3
  <2>4. Accept(a, i) = u
    BY <1>2 DEF Accept, u
  <2> QED BY <2>3, <2>4 DEF Dissimilar
<1>3. CASE ~(Passes(i) /\ ~Repeats(i, a))
  <2>1. Accept(a, i) = a
    BY <1>3 DEF Accept
  <2> QED BY <2>1
<1> QED BY <1>2, <1>3

\* Whatever it is given, _filter_noise keeps no two similar items.
LEMMA NoiseKeepsDissimilar ==
    ASSUME NEW C, NEW t \in Seq(C)
    PROVE  FilterNoise(t) \in Seq(C) /\ Dissimilar(FilterNoise(t))
<1> DEFINE Acc == Seq(C)
           step == NoiseTurn(C, t)
           n == Len(t)
           base == <<>>
<1>1. /\ n \in Nat /\ base \in Acc
      /\ \A a \in Acc : \A k \in 1..n : step[<<a, k>>] = Accept(a, t[k])
      /\ \A k \in 1..n : t[k] \in C
  BY NoiseTurnIs
<1>2. PICK h : FilterNoise(t) = h[1..n] /\ Turns(h, n, Acc, base, step)
  BY NoiseFolds
<1> HIDE DEF step, n
<1> DEFINE S == {k \in 0..n : h[1..k] \in Acc /\ Dissimilar(h[1..k])}
<1>3. 0 \in S
  <2>1. 1..0 = {} /\ 0 \in 0..n
    BY <1>1
  <2>2. h[{}] = base
    BY <1>2, Zenon DEF Turns
  <2>3. h[1..0] = base
    BY <2>1, <2>2, Zenon
  <2>4. Dissimilar(base)
    BY DEF Dissimilar
  <2> HIDE DEF base, Acc
  <2> QED BY <1>1, <2>1, <2>3, <2>4
<1>4. ASSUME NEW k \in 1..n, k - 1 \in S PROVE k \in S
  <2>1. h[1..(k - 1)] \in Acc /\ Dissimilar(h[1..(k - 1)]) /\ k \in 0..n
    BY <1>1, <1>4
  <2>2. h[1..k] = step[h[1..(k - 1)], k]
    BY <1>2, <2>1, Zenon DEF Turns
  <2>3. step[<<h[1..(k - 1)], k>>] = Accept(h[1..(k - 1)], t[k])
    BY <1>1, <2>1
  <2>4. h[1..k] = Accept(h[1..(k - 1)], t[k])
    BY <2>2, <2>3, Zenon
  <2>5. t[k] \in C
    BY <1>1
  <2>6. h[1..k] \in Acc
    BY <2>1, <2>4, <2>5, AcceptTyped
  <2>7. Dissimilar(h[1..k])
    BY <2>1, <2>4, <2>5, AcceptKeepsDissimilar
  <2> HIDE DEF Acc
  <2> QED BY <2>1, <2>6, <2>7
<1>5. n \in S
  <2>1. \A k \in 0..n : k \in S
    <3> HIDE DEF S
    <3> QED BY <1>1, <1>3, <1>4, UpTo
  <2> QED BY <1>1, <2>1
<1> QED BY <1>2, <1>5

\* What is said of the selection of a run, for what is left of its input.
LEMMA SelectedAre ==
    ASSUME NEW s \in Seq(Candidates), NEW answer \in Answers \cup {Unusable},
           NEW enabled \in BOOLEAN
    PROVE  /\ Selected(s, answer, enabled) \in Seq(Chosen(Worded(s)))
           /\ enabled => Dissimilar(Selected(s, answer, enabled))
<1> DEFINE F == Worded(s)
           C == Chosen(F)
           found == Classified(s, answer)
<1>1. F \in SUBSET Candidates /\ found \in Seq(C)
  BY ClassifiedIs
<1>2. \A c \in C : c.score \in Int /\ c.relevance \in Int
  <2> HIDE DEF F
  <2> QED BY <1>1, ChosenIs
<1> HIDE DEF F, C, found
<1>3. Merged(found) \in Seq(C)
  BY <1>1, <1>2, MergeEventsIs DEF Merged
<1>4. FilterNoise(Merged(found)) \in Seq(C) /\ Dissimilar(FilterNoise(Merged(found)))
  BY <1>3, NoiseKeepsDissimilar
<1> QED BY <1>3, <1>4 DEF Selected, Validated, F, C, found

\* For candidates, keyword lists, similarities and answers of the model of any
\* kind and number, a run selects only items that dedup left it and only such
\* as have a keyword; each once, if news are validated and its words are not all
\* stop words.
THEOREM SelectionKeepsToInput == Spec => []SelectionIsSubset
<1>1. InputOK => SelectionIsSubset
  <2> SUFFICES ASSUME InputOK, NEW answer \in Answers \cup {Unusable},
                      NEW enabled \in BOOLEAN,
                      NEW n \in DOMAIN Selected(Deduplicate(items), answer, enabled)
               PROVE  LET from == Deduplicate(items)
                          kept == Selected(from, answer, enabled)
                          Is(i, j) == As(i, NoTopic, 0) = As(j, NoTopic, 0)
                      IN  /\ \E i \in ToSet(from) : Is(i, kept[n]) /\ ByKeywords(i).count > 0
                          /\ enabled => \A m \in DOMAIN kept :
                                Is(kept[m], kept[n]) => m = n \/ ~HasWords(kept[n])
    BY Zenon DEF SelectionIsSubset
  <2> DEFINE from == Deduplicate(items)
             kept == Selected(from, answer, enabled)
             F == Worded(from)
             C == Chosen(F)
  <2>1. from \in Seq(Candidates)
    <3> DEFINE map == BestByUrl(FirstPerContent(items)).map
               noUrl == BestByUrl(FirstPerContent(items)).noUrl
    <3>1. map \in Seq(Candidates) /\ noUrl \in Seq(Candidates)
      BY PassesTyped DEF InputOK
    <3>2. from = map \o noUrl
      BY Zenon DEF Deduplicate
    <3> HIDE DEF from, map, noUrl
    <3> QED BY <3>1, <3>2
  <2> HIDE DEF from
  <2>2. F \in SUBSET Candidates
    BY <2>1, ClassifiedIs
  <2>3. kept \in Seq(C) /\ (enabled => Dissimilar(kept))
    BY <2>1, SelectedAre
  <2> HIDE DEF kept, C
  <2>4. ASSUME NEW m \in DOMAIN kept
        PROVE  /\ As(kept[m], NoTopic, 0).title = kept[m].title
               /\ \E i \in F : As(kept[m], NoTopic, 0) = As(i, NoTopic, 0)
    <3>1. kept[m] \in C
      BY <2>3
    <3> HIDE DEF F
    <3> QED BY <2>2, <3>1, ChosenIs DEF C
  <2>5. n \in DOMAIN kept
    BY DEF kept, from
  <2>6. \E i \in ToSet(from) :
            As(i, NoTopic, 0) = As(kept[n], NoTopic, 0) /\ ByKeywords(i).count > 0
    <3>1. PICK i \in F : As(kept[n], NoTopic, 0) = As(i, NoTopic, 0)
      BY <2>4, <2>5
    <3>2. i \in ToSet(from) /\ ByKeywords(i).count > 0
      BY DEF Worded
    <3> QED BY <3>1, <3>2, Zenon
  <2>7. ASSUME enabled, NEW m \in DOMAIN kept, As(kept[m], NoTopic, 0) = As(kept[n], NoTopic, 0), m # n
        PROVE  ~HasWords(kept[n])
    <3>1. kept[m].title = kept[n].title
      BY <2>4, <2>5, <2>7, Zenon
    <3>2. <<kept[n].title, kept[m].title>> \notin Similar
      BY <2>3, <2>5, <2>7 DEF Dissimilar
    <3> QED BY <3>1, <3>2 DEF HasWords
  <2> QED BY <2>6, <2>7, Zenon DEF kept, from
<1> QED BY <1>1, InputIsSequence, PTL

-----------------------------------------------------------------------------
(***************************************************************************)
(* What an extraction returns: the concatenation of its lists, the sort    *)
(* and the cut, the loops over the posts, and the invariant that ties the  *)
(* set of ids to what was taken.                                           *)
(***************************************************************************)
\* f[k] is what the first k of the n lists of q have, one after the other.
Pieces(f, q, n, C) ==
    /\ f[0] = <<>>
    /\ \A k \in 0..n : f[k] \in Seq(C)
    /\ \A k \in 1..n : f[k] = f[k - 1] \o q[k]

LEMMA PiecesExist ==
    ASSUME NEW C, NEW n \in Nat, NEW q \in [1..n -> Seq(C)]
    PROVE  \E f : Pieces(f, q, n, C)
<1> DEFINE Acc == Seq(C)
           step == [p \in Acc \X (1..n) |-> p[1] \o q[p[2]]]
<1>1. \A a \in Acc : \A k \in 1..n : step[<<a, k>>] = a \o q[k]
  OBVIOUS
<1>2. \A a \in Acc : \A k \in 1..n : a \o q[k] \in Acc
  <2> TAKE a \in Acc
  <2> TAKE k \in 1..n
  <2>1. a \in Seq(C) /\ q[k] \in Seq(C)
    OBVIOUS
  <2> QED BY <2>1, MembersOfJoin
<1>3. <<>> \in Acc
  OBVIOUS
<1> HIDE DEF Acc
<1>4. IsStep(step, n, Acc)
  <2>1. \A p \in Acc \X (1..n) : p[1] \o q[p[2]] \in Acc
    BY <1>2
  <2>2. step \in [Acc \X (1..n) -> Acc]
    BY <2>1
  <2> QED BY <2>2, Zenon DEF IsStep
<1> HIDE DEF step
<1>5. PICK f \in [0..n -> Acc] : Unfolds(f, n, <<>>, step)
  BY <1>3, <1>4, RecursionExists
<1>6. f[0] = <<>> /\ \A k \in 0..n : f[k] \in Acc
  BY <1>5 DEF Unfolds
<1>7. ASSUME NEW k \in 1..n PROVE f[k] = f[k - 1] \o q[k]
  <2>1. k - 1 \in 0..n
    OBVIOUS
  <2>2. f[k] = step[<<f[k - 1], k>>] /\ f[k - 1] \in Acc
    BY <1>5, <1>6, <2>1 DEF Unfolds
  <2> QED BY <1>1, <2>2
<1>8. Pieces(f, q, n, C)
  BY <1>6, <1>7 DEF Pieces, Acc
<1> QED BY <1>8, Zenon

\* The function within FlattenSeq.
FlattenFix(g, q) == g = [i \in 1..Len(q) |-> IF i = 1 THEN q[i] ELSE g[i - 1] \o q[i]]

LEMMA FlattenIs ==
    ASSUME NEW C, NEW n \in Nat, NEW q \in Seq(Seq(C)), Len(q) = n, NEW f, Pieces(f, q, n, C)
    PROVE  FlattenSeq(q) = f[n]
<1>1. CASE n = 0
  <2>1. q = <<>> /\ FlattenSeq(q) = q
    BY <1>1 DEF FlattenSeq
  <2> QED BY <1>1, <2>1 DEF Pieces
<1>2. CASE n # 0
  <2> DEFINE g == CHOOSE g : FlattenFix(g, q)
             h == [i \in 1..n |-> f[i]]
  <2>1. FlattenSeq(q) = g[Len(q)]
    BY <1>2, Zenon DEF FlattenSeq, FlattenFix
  <2>2. ASSUME NEW i \in 1..n PROVE h[i] = IF i = 1 THEN q[i] ELSE h[i - 1] \o q[i]
    <3>1. f[i] = f[i - 1] \o q[i] /\ h[i] = f[i]
      BY DEF Pieces
    <3>2. CASE i = 1
      <4>1. f[i - 1] = <<>> /\ q[i] \in Seq(C)
        BY <3>2 DEF Pieces
      <4>2. <<>> \o q[i] = q[i]
        BY <4>1
      <4> QED BY <3>1, <3>2, <4>1, <4>2
    <3>3. CASE i # 1
      <4>1. i - 1 \in 1..n
        BY <3>3
      <4> QED BY <3>1, <3>3, <4>1
    <3> QED BY <3>2, <3>3
  <2>3. h = [i \in 1..n |-> h[i]]
    OBVIOUS
  <2> HIDE DEF h
  <2>4. FlattenFix(h, q)
    <3>1. h = [i \in 1..n |-> IF i = 1 THEN q[i] ELSE h[i - 1] \o q[i]]
      BY <2>2, <2>3
    <3> QED BY <3>1, Zenon DEF FlattenFix
  <2>5. FlattenFix(g, q)
    BY <2>4, Zenon
  <2> HIDE DEF g
  <2>6. \A i \in 1..n : g[i] = IF i = 1 THEN q[i] ELSE g[i - 1] \o q[i]
    <3> DEFINE G(i) == IF i = 1 THEN q[i] ELSE g[i - 1] \o q[i]
    <3>1. g = [i \in 1..n |-> G(i)]
      BY <2>5, Zenon DEF FlattenFix
    <3> HIDE DEF G
    <3>2. \A i \in 1..n : g[i] = G(i)
      BY <3>1
    <3> QED BY <3>2, Zenon DEF G
  <2> DEFINE S == {k \in 0..n : k # 0 => g[k] = f[k]}
  <2>7. 0 \in S
    OBVIOUS
  <2>8. ASSUME NEW k \in 1..n, k - 1 \in S PROVE k \in S
    <3>1. f[k] = f[k - 1] \o q[k] /\ k \in 0..n /\ q[k] \in Seq(C)
      BY DEF Pieces
    <3>2. CASE k = 1
      <4>1. f[k - 1] = <<>> /\ <<>> \o q[k] = q[k]
        BY <3>1, <3>2 DEF Pieces
      <4> QED BY <2>6, <3>1, <3>2, <4>1
    <3>3. CASE k # 1
      <4>1. g[k - 1] = f[k - 1]
        <5>1. k - 1 # 0
          BY <3>3
        <5> QED BY <2>8, <5>1
      <4>2. g[k] = g[k - 1] \o q[k]
        BY <2>6, <3>3, Zenon
      <4> QED BY <3>1, <4>1, <4>2
    <3> QED BY <3>2, <3>3
  <2> HIDE DEF S
  <2>9. \A k \in 0..n : k \in S
    BY <2>7, <2>8, UpTo
  <2>10. g[n] = f[n]
    BY <1>2, <2>9 DEF S
  <2> QED BY <2>1, <2>10
<1> QED BY <1>1, <1>2

\* So does what the first lists have.
LEMMA FlattenFirst ==
    ASSUME NEW C, NEW n \in Nat, NEW q \in Seq(Seq(C)), Len(q) = n, NEW f, Pieces(f, q, n, C),
           NEW k \in 0..n
    PROVE  FlattenSeq(SubSeq(q, 1, k)) = f[k]
<1> DEFINE p == SubSeq(q, 1, k)
<1>1. k \in Nat /\ \A i \in 1..k : q[i] \in Seq(C)
  OBVIOUS
<1>2. p \in Seq(Seq(C)) /\ Len(p) = k /\ \A i \in 1..k : p[i] = q[i]
  BY <1>1, SubSeqProperties
<1> HIDE DEF p
<1>3. Pieces(f, p, k, C)
  <2>1. 0..k \subseteq 0..n /\ 1..k \subseteq 1..n
    OBVIOUS
  <2>2. f[0] = <<>> /\ \A i \in 0..k : f[i] \in Seq(C)
    BY <2>1 DEF Pieces
  <2>3. \A i \in 1..k : f[i] = f[i - 1] \o p[i]
    BY <1>2, <2>1 DEF Pieces
  <2> QED BY <2>2, <2>3 DEF Pieces
<1>4. FlattenSeq(p) = f[k]
  BY <1>1, <1>2, <1>3, FlattenIs
<1> QED BY <1>4 DEF p

\* Where an item of one of the lists is, and that nothing else is there.
LEMMA FlattenMembers ==
    ASSUME NEW C, NEW n \in Nat, NEW q \in Seq(Seq(C)), Len(q) = n, NEW f, Pieces(f, q, n, C)
    PROVE  /\ f[n] \in Seq(C)
           /\ \A e \in 1..n : \A j \in DOMAIN q[e] :
                 Len(f[e - 1]) + j \in DOMAIN f[n] /\ f[n][Len(f[e - 1]) + j] = q[e][j]
           /\ \A i \in DOMAIN f[n] : \E e \in 1..n : \E j \in DOMAIN q[e] : i = Len(f[e - 1]) + j
<1> DEFINE Placed(k) == \A e \in 1..k : \A j \in DOMAIN q[e] :
               Len(f[e - 1]) + j \in DOMAIN f[k] /\ f[k][Len(f[e - 1]) + j] = q[e][j]
           Filled(k) == \A i \in DOMAIN f[k] : \E e \in 1..k : \E j \in DOMAIN q[e] :
               i = Len(f[e - 1]) + j
           S == {k \in 0..n : Placed(k) /\ Filled(k)}
<1>1. 0 \in S
  <2>1. 1..0 = {} /\ f[0] = <<>> /\ DOMAIN f[0] = {}
    BY DEF Pieces
  <2>2. Placed(0) /\ Filled(0)
    BY <2>1
  <2> HIDE DEF Placed, Filled
  <2> QED BY <2>2
<1>2. ASSUME NEW k \in 1..n, k - 1 \in S PROVE k \in S
  <2>1. /\ f[k] = f[k - 1] \o q[k] /\ f[k - 1] \in Seq(C) /\ q[k] \in Seq(C)
        /\ k \in 0..n
    <3>1. k - 1 \in 0..n /\ k \in 0..n /\ k \in 1..Len(q)
      OBVIOUS
    <3>2. q[k] \in Seq(C)
      BY <3>1
    <3>3. f[k] = f[k - 1] \o q[k] /\ f[k - 1] \in Seq(C)
      BY <3>1 DEF Pieces
    <3> QED BY <3>1, <3>2, <3>3
  <2> DEFINE a == f[k - 1]
             b == f[k]
             c == q[k]
  <2>2. /\ \A i \in DOMAIN a : i \in DOMAIN b /\ b[i] = a[i]
        /\ \A j \in DOMAIN c : Len(a) + j \in DOMAIN b /\ b[Len(a) + j] = c[j]
        /\ \A i \in DOMAIN b : i \in DOMAIN a \/ \E j \in DOMAIN c : i = Len(a) + j
    <3>1. a \in Seq(C) /\ c \in Seq(C) /\ b = a \o c
      BY <2>1
    <3> HIDE DEF a, b, c
    <3> QED BY <3>1, MembersOfJoin
  <2>3. Placed(k - 1) /\ Filled(k - 1)
    BY <1>2
  <2>4. \A e \in 1..k : e = k \/ e \in 1..(k - 1)
    OBVIOUS
  <2>5. Placed(k)
    <3> SUFFICES ASSUME NEW e \in 1..k, NEW j \in DOMAIN q[e]
                 PROVE  Len(f[e - 1]) + j \in DOMAIN b /\ b[Len(f[e - 1]) + j] = q[e][j]
      OBVIOUS
    <3>1. CASE e = k
      <4> HIDE DEF b
      <4> QED BY <2>2, <3>1
    <3>2. CASE e \in 1..(k - 1)
      <4>1. Len(f[e - 1]) + j \in DOMAIN a /\ a[Len(f[e - 1]) + j] = q[e][j]
        BY <2>3, <3>2
      <4> HIDE DEF a, b
      <4> QED BY <2>2, <4>1
    <3> QED BY <2>4, <3>1, <3>2
  <2>6. Filled(k)
    <3> SUFFICES ASSUME NEW i \in DOMAIN b
                 PROVE  \E e \in 1..k : \E j \in DOMAIN q[e] : i = Len(f[e - 1]) + j
      OBVIOUS
    <3>1. CASE i \in DOMAIN a
      <4>1. PICK e \in 1..(k - 1) : \E j \in DOMAIN q[e] : i = Len(f[e - 1]) + j
        BY <2>3, <3>1
      <4>2. e \in 1..k
        OBVIOUS
      <4> QED BY <4>1, <4>2
    <3>2. CASE \E j \in DOMAIN c : i = Len(a) + j
      <4>1. k \in 1..k
        OBVIOUS
      <4> QED BY <3>2, <4>1
    <3> HIDE DEF a, b, c
    <3> QED BY <2>2, <3>1, <3>2
  <2> HIDE DEF Placed, Filled
  <2> QED BY <2>1, <2>5, <2>6
<1> HIDE DEF S
<1>3. n \in S
  <2>1. \A k \in 0..n : k \in S
    BY <1>1, <1>2, UpTo
  <2> QED BY <2>1
<1>4. Placed(n) /\ Filled(n)
  <2> HIDE DEF Placed, Filled
  <2> QED BY <1>3 DEF S
<1>5. f[n] \in Seq(C)
  BY DEF Pieces
<1> QED BY <1>4, <1>5

\* Empty lists at the end add nothing.
LEMMA FlattenStops ==
    ASSUME NEW C, NEW n \in Nat, NEW q \in Seq(Seq(C)), Len(q) = n, NEW f, Pieces(f, q, n, C),
           NEW m \in 0..n, \A k \in (m + 1)..n : q[k] = <<>>
    PROVE  f[n] = f[m]
<1> DEFINE S == {k \in 0..n : k >= m => f[k] = f[m]}
<1>1. 0 \in S
  BY DEF S
<1>2. ASSUME NEW k \in 1..n, k - 1 \in S PROVE k \in S
  <2>1. f[k] = f[k - 1] \o q[k] /\ k - 1 \in 0..n /\ k \in 0..n
    <3>1. k - 1 \in 0..n /\ k \in 0..n
      OBVIOUS
    <3>2. f[k] = f[k - 1] \o q[k]
      BY DEF Pieces
    <3> QED BY <3>1, <3>2
  <2>2. CASE k > m
    <3>1. q[k] = <<>> /\ f[k - 1] \in Seq(C)
      BY <2>1, <2>2 DEF Pieces
    <3>2. f[k] = f[k - 1]
      BY <2>1, <3>1
    <3>3. k - 1 >= m
      BY <2>2
    <3>4. f[k - 1] = f[m]
      BY <1>2, <3>3
    <3> QED BY <2>1, <3>2, <3>4
  <2>3. CASE ~(k > m)
    <3>1. k >= m => k = m
      BY <2>3
    <3> QED BY <2>1, <3>1
  <2> QED BY <2>2, <2>3
<1> HIDE DEF S
<1>3. \A k \in 0..n : k \in S
  BY <1>1, <1>2, UpTo
<1>4. n \in S /\ n >= m
  BY <1>3
<1> QED BY <1>4 DEF S

-----------------------------------------------------------------------------
Scored(C) == \A c \in C : c.score \in Int

\* t is s in another order, o tells which is whose.
Permutes(o, t, s) ==
    /\ Len(t) = Len(s)
    /\ \A k \in DOMAIN s : o[k] \in DOMAIN s /\ t[k] = s[o[k]]
    /\ \A j, k \in DOMAIN s : o[j] = o[k] => j = k
    /\ \A i \in DOMAIN s : \E k \in DOMAIN s : o[k] = i

\* Sorting loses nothing, and what comes first is no worse.
LEMMA BestFirstIs ==
    ASSUME NEW C, Scored(C), NEW s \in Seq(C)
    PROVE  /\ BestFirst(s) \in Seq(C)
           /\ \E o : Permutes(o, BestFirst(s), s)
           /\ \A j, k \in DOMAIN s : j <= k => BestFirst(s)[j].score >= BestFirst(s)[k].score
<1> DEFINE P == DOMAIN s
           Better(m, n) == s[m].score > s[n].score \/ (s[m].score = s[n].score /\ m <= n)
           R == {p \in P \X P : Better(p[1], p[2])}
           order == InOrder(P, R)
           n == Len(s)
<1>1. n \in Nat /\ P = 1..n /\ IsFiniteSet(P) /\ Cardinality(P) = n
  <2>1. n \in Nat /\ P = 1..n /\ 1 \in Int /\ n \in Int
    OBVIOUS
  <2> HIDE DEF n, P
  <2>2. IsFiniteSet(1..n) /\ Cardinality(1..n) = IF 1 > n THEN 0 ELSE n - 1 + 1
    BY <2>1, FS_Interval
  <2> QED BY <2>1, <2>2
<1>2. \A x \in P : s[x].score \in Int /\ x \in Int
  BY DEF Scored
<1>3. \A x, y \in P : <<x, y>> \in R <=> Better(x, y)
  OBVIOUS
<1>4. Orders(R, P)
  <2> HIDE DEF R, P
  <2>1. \A x \in P : Better(x, x)
    BY <1>2
  <2>2. \A x, y \in P : Better(x, y) \/ Better(y, x)
    BY <1>2
  <2>3. \A x, y \in P : Better(x, y) /\ Better(y, x) => x = y
    BY <1>2
  <2>4. \A x, y, z \in P : Better(x, y) /\ Better(y, z) => Better(x, z)
    BY <1>2
  <2> HIDE DEF Better
  <2> QED BY <1>3, <2>1, <2>2, <2>3, <2>4 DEF Orders
<1>5. BestFirst(s) = [k \in DOMAIN order |-> s[order[k]]]
  BY Zenon DEF BestFirst
<1>6. Arranges(order, P, R)
  <2> HIDE DEF P, R
  <2> QED BY <1>1, <1>4, InOrderIs
<1> HIDE DEF order, R, P, n
<1>7. /\ order \in Seq(P) /\ Len(order) = n /\ DOMAIN order = 1..n
      /\ \A k \in 1..n : order[k] \in P
  BY <1>1, <1>6 DEF Arranges
<1>8. \A k \in 1..n : s[order[k]] \in C
  BY <1>7 DEF P
<1> DEFINE v == [k \in 1..n |-> s[order[k]]]
<1>9. v \in [1..n -> C] /\ \A k \in 1..n : v[k] = s[order[k]]
  BY <1>8
<1>10. BestFirst(s) = v
  BY <1>5, <1>7
<1> HIDE DEF v
<1>11. v \in Seq(C) /\ Len(v) = n
  BY <1>1, <1>9, SeqDef
<1>12. Permutes(order, v, s)
  <2>1. DOMAIN s = 1..n
    BY <1>1 DEF P
  <2>2. Len(v) = Len(s)
    BY <1>11 DEF n
  <2>3. \A k \in 1..n : order[k] \in 1..n /\ v[k] = s[order[k]]
    BY <1>1, <1>7, <1>9
  <2>4. /\ \A j, k \in 1..n : order[j] = order[k] => j = k
        /\ \A i \in 1..n : \E k \in 1..n : order[k] = i
    BY <1>1, <1>6, <1>7 DEF Arranges
  <2> QED BY <2>1, <2>2, <2>3, <2>4 DEF Permutes
<1>13. \E o : Permutes(o, v, s)
  BY <1>12, Zenon
<1>14. ASSUME NEW j \in DOMAIN s, NEW k \in DOMAIN s, j <= k
       PROVE  v[j].score >= v[k].score
  <2>1. j \in 1..n /\ k \in 1..n
    BY <1>1 DEF P
  <2>2. <<order[j], order[k]>> \in R /\ order[j] \in P /\ order[k] \in P
    BY <1>6, <1>7, <1>14, <2>1 DEF Arranges
  <2>3. Better(order[j], order[k])
    BY <1>3, <2>2
  <2>4. v[j] = s[order[j]] /\ v[k] = s[order[k]]
    BY <1>9, <2>1
  <2> QED BY <1>2, <2>2, <2>3, <2>4
<1> QED BY <1>10, <1>11, <1>13, <1>14

\* No two items have the same id.
OneOfEach(s) == \A i, j \in DOMAIN s : s[i].id = s[j].id => i = j

\* An extraction keeps what it took, up to its limit and from the best on.
LEMMA KeepIs ==
    ASSUME NEW C, Scored(C), MaxItems \in Nat, NEW s \in Seq(C)
    PROVE  /\ Keep(s) \in Seq(C)
           /\ Len(Keep(s)) = Min({MaxItems, Len(s)})
           /\ ToSet(Keep(s)) \subseteq ToSet(s)
           /\ OneOfEach(s) => OneOfEach(Keep(s))
           /\ \A p \in ToSet(s) :
                 \/ p \in ToSet(Keep(s))
                 \/ /\ Len(Keep(s)) = MaxItems
                    /\ Policy.keeps = "best" => \A q \in ToSet(Keep(s)) : q.score >= p.score
<1> DEFINE best == Policy.keeps = "best"
           list == IF best THEN BestFirst(s) ELSE s
           n == Len(s)
           m == IF MaxItems <= n THEN MaxItems ELSE n
           r == SubSeq(list, 1, m)
<1> HIDE DEF best
<1>1. /\ list \in Seq(C)
      /\ \E o : Permutes(o, list, s)
      /\ best => \A j, k \in DOMAIN s : j <= k => list[j].score >= list[k].score
  <2>1. CASE best
    <3>1. list = BestFirst(s)
      BY <2>1
    <3> HIDE DEF list
    <3> QED BY <3>1, BestFirstIs
  <2>2. CASE ~best
    <3>1. list = s
      BY <2>2
    <3>2. Permutes([k \in DOMAIN s |-> k], s, s)
      BY DEF Permutes
    <3>3. \E o : Permutes(o, s, s)
      BY <3>2, Zenon
    <3> QED BY <2>2, <3>1, <3>3
  <2> QED BY <2>1, <2>2
<1> HIDE DEF list
<1>2. PICK o : Permutes(o, list, s)
  BY <1>1
<1>3. n \in Nat /\ DOMAIN s = 1..n /\ Len(list) = n /\ DOMAIN list = 1..n
  BY <1>1, <1>2 DEF Permutes
<1>4. /\ m \in Nat /\ m <= n /\ m <= MaxItems /\ (m = MaxItems \/ m = n)
      /\ 1..m \subseteq 1..n
  BY <1>3
<1>5. Min({MaxItems, n}) = m
  <2>1. MaxItems \in Int /\ n \in Int
    BY <1>3
  <2> HIDE DEF n
  <2> QED BY <2>1, MinOfTwo
<1>6. Keep(s) = r
  <2>1. Keep(s) = SubSeq(list, 1, Min({MaxItems, Len(list)}))
    BY Zenon DEF Keep, list, best
  <2> HIDE DEF m, n
  <2> QED BY <1>3, <1>5, <2>1
<1> HIDE DEF m, n
<1>7. r \in Seq(C) /\ Len(r) = m /\ DOMAIN r = 1..m /\ \A k \in 1..m : r[k] = list[k]
  <2>1. \A k \in 1..m : list[k] \in C
    BY <1>1, <1>3, <1>4
  <2>2. 1 \in Int /\ m \in Int
    BY <1>4
  <2>3. /\ r \in Seq(C) /\ Len(r) = IF 1 <= m THEN m - 1 + 1 ELSE 0
        /\ \A k \in 1..(m - 1 + 1) : r[k] = list[1 + k - 1]
    BY <2>1, <2>2, SubSeqProperties
  <2> QED BY <1>4, <2>3
<1> HIDE DEF r
<1>8. \A k \in 1..m : o[k] \in 1..n /\ r[k] = s[o[k]]
  BY <1>2, <1>3, <1>4, <1>7 DEF Permutes
<1>9. ToSet(r) \subseteq ToSet(s)
  BY <1>3, <1>7, <1>8 DEF ToSet
<1>10. OneOfEach(s) => OneOfEach(r)
  <2> SUFFICES ASSUME OneOfEach(s), NEW j \in 1..m, NEW k \in 1..m, r[j].id = r[k].id
               PROVE  j = k
    BY <1>7 DEF OneOfEach
  <2>1. o[j] = o[k]
    BY <1>3, <1>8 DEF OneOfEach
  <2> QED BY <1>2, <1>3, <1>4, <2>1 DEF Permutes
<1>11. ASSUME NEW p \in ToSet(s), p \notin ToSet(r)
       PROVE  Len(r) = MaxItems /\ (best => \A q \in ToSet(r) : q.score >= p.score)
  <2>1. PICK i \in 1..n : p = s[i]
    BY <1>3 DEF ToSet
  <2>2. PICK k \in 1..n : o[k] = i
    BY <1>2, <1>3 DEF Permutes
  <2>3. list[k] = p
    BY <1>2, <1>3, <2>1, <2>2 DEF Permutes
  <2>4. k \notin 1..m
    BY <1>7, <1>11, <2>3 DEF ToSet
  <2>5. m = MaxItems
    BY <1>3, <1>4, <2>4
  <2>6. ASSUME best, NEW q \in ToSet(r) PROVE q.score >= p.score
    <3>1. PICK j \in 1..m : q = list[j]
      BY <1>7 DEF ToSet
    <3>2. j \in 1..n /\ j <= k
      BY <1>3, <1>4, <2>4
    <3> QED BY <1>1, <1>3, <2>3, <2>6, <3>1, <3>2
  <2> QED BY <1>7, <2>5, <2>6
<1> QED BY <1>5, <1>6, <1>7, <1>9, <1>10, <1>11 DEF best, n

-----------------------------------------------------------------------------
\* What a loop over posts may leave: it takes posts of early and late, one of
\* an id that it had not seen, and each id that it sees is that of a post it
\* takes, or of one outside late.
Leaves(r, posts, already, early, late) ==
    /\ r.taken \in Seq(ToSet(posts) \cap early \cap late)
    /\ Len(r.taken) <= Len(posts)
    /\ OneOfEach(r.taken)
    /\ already \subseteq r.seen
    /\ \A p \in ToSet(r.taken) : p.id \in r.seen \ already
    /\ \A i \in r.seen \ already : \E p \in ToSet(posts) :
          p.id = i /\ (p \in late => p \in ToSet(r.taken))
    /\ \A p \in ToSet(posts) : p \in early => p.id \in r.seen

LEMMA LoopLeaves ==
    ASSUME NEW C, NEW posts \in Seq(C), NEW already, NEW early, NEW late
    PROVE  Leaves(Loop(posts, already, early, late), posts, already, early, late)
<1> DEFINE fresh == Fresh(posts, already, early)
           P == {n \in fresh : posts[n] \in late}
           t == Only(posts, P)
           now == already \cup {posts[n].id : n \in fresh}
           r == Loop(posts, already, early, late)
<1>1. r.taken = t /\ r.seen = now
  BY DEF Loop
<1> HIDE DEF r
<1>2. DOMAIN posts = 1..Len(posts) /\ Len(posts) \in Nat /\ fresh \subseteq DOMAIN posts
  BY DEF Fresh
<1>3. \A n \in fresh : posts[n] \in early /\ posts[n].id \notin already
  BY DEF Fresh
<1>4. ASSUME NEW m \in fresh, NEW n \in fresh, posts[m].id = posts[n].id PROVE m = n
  <2>1. m \in Nat /\ n \in Nat
    BY <1>2
  <2>2. ~(m < n)
    <3>1. m < n => m \in 1..(n - 1)
      BY <1>2
    <3> QED BY <1>3, <1>4, <3>1 DEF Fresh
  <2>3. ~(n < m)
    <3>1. n < m => n \in 1..(m - 1)
      BY <1>2
    <3> QED BY <1>3, <1>4, <3>1 DEF Fresh
  <2> QED BY <2>1, <2>2, <2>3
<1>5. ASSUME NEW n \in DOMAIN posts, posts[n] \in early PROVE posts[n].id \in now
  <2>1. CASE posts[n].id \in already
    BY <2>1
  <2>2. CASE posts[n].id \notin already
    <3> DEFINE Same == {m \in DOMAIN posts : posts[m] \in early /\ posts[m].id = posts[n].id}
    <3>1. Same \in SUBSET Nat /\ n \in Same
      BY <1>2, <1>5
    <3>2. PICK m \in Same : \A k \in Same : m <= k
      <4> HIDE DEF Same
      <4> QED BY <3>1, LeastNumber
    <3>3. m \in DOMAIN posts /\ posts[m] \in early /\ posts[m].id = posts[n].id
      BY <3>2
    <3>4. \A k \in 1..(m - 1) : posts[k] \in early => posts[k].id # posts[m].id
      <4> SUFFICES ASSUME NEW k \in 1..(m - 1), posts[k] \in early, posts[k].id = posts[m].id
                   PROVE  FALSE
        OBVIOUS
      <4>1. k \in DOMAIN posts /\ k < m /\ k \in Nat /\ m \in Nat
        BY <1>2, <3>3
      <4>2. k \in Same
        BY <3>3, <4>1
      <4>3. m <= k
        BY <3>2, <4>2
      <4> QED BY <4>1, <4>3
    <3> HIDE DEF Same
    <3>5. m \in fresh
      BY <2>2, <3>3, <3>4 DEF Fresh
    <3> HIDE DEF fresh
    <3> QED BY <3>3, <3>5
  <2> QED BY <2>1, <2>2
<1> HIDE DEF fresh
<1>6. P \in SUBSET DOMAIN posts
  BY <1>2
<1> DEFINE D == {posts[n] : n \in P}
<1>7. /\ t \in Seq(D) /\ Len(t) <= Len(posts)
      /\ \E o : TakenBy(o, t, posts, P)
  <2> HIDE DEF P
  <2> QED BY <1>6, OnlyTakes
<1>8. PICK o : TakenBy(o, t, posts, P)
  BY <1>7
<1>9. D \subseteq ToSet(posts) \cap early \cap late
  BY <1>2, <1>3 DEF ToSet
<1> HIDE DEF t
<1>10. t \in Seq(ToSet(posts) \cap early \cap late)
  <2> DEFINE E == ToSet(posts) \cap early \cap late
  <2>1. D \subseteq E
    BY <1>9
  <2> HIDE DEF D, E
  <2>2. t \in Seq(E)
    BY <1>7, <2>1
  <2> QED BY <2>2 DEF E
<1>11. OneOfEach(t)
  <2> SUFFICES ASSUME NEW j \in DOMAIN t, NEW k \in DOMAIN t, t[j].id = t[k].id PROVE j = k
    BY DEF OneOfEach
  <2>1. o[j] \in fresh /\ o[k] \in fresh /\ t[j] = posts[o[j]] /\ t[k] = posts[o[k]]
    BY <1>8 DEF TakenBy
  <2>2. o[j] = o[k]
    BY <1>4, <2>1
  <2> QED BY <1>8, <2>2 DEF TakenBy
<1>12. ASSUME NEW n \in P PROVE posts[n] \in ToSet(t)
  <2>1. PICK k \in DOMAIN t : o[k] = n
    BY <1>8 DEF TakenBy
  <2>2. t[k] = posts[n]
    BY <1>8, <2>1 DEF TakenBy
  <2> QED BY <2>1, <2>2 DEF ToSet
<1>13. \A p \in ToSet(t) : p.id \in now \ already
  <2> SUFFICES ASSUME NEW k \in DOMAIN t PROVE t[k].id \in now \ already
    BY DEF ToSet
  <2>1. o[k] \in fresh /\ t[k] = posts[o[k]]
    BY <1>8 DEF TakenBy
  <2> QED BY <1>3, <2>1
<1>14. ASSUME NEW i \in now \ already
       PROVE  \E p \in ToSet(posts) : p.id = i /\ (p \in late => p \in ToSet(t))
  <2>1. PICK n \in fresh : i = posts[n].id
    OBVIOUS
  <2>2. posts[n] \in ToSet(posts)
    BY <1>2 DEF ToSet
  <2>3. posts[n] \in late => posts[n] \in ToSet(t)
    BY <1>12
  <2> QED BY <2>1, <2>2, <2>3
<1>15. \A p \in ToSet(posts) : p \in early => p.id \in now
  BY <1>5 DEF ToSet
<1>16. already \subseteq now
  OBVIOUS
<1> HIDE DEF now
<1> QED BY <1>1, <1>7, <1>10, <1>11, <1>13, <1>14, <1>15, <1>16 DEF Leaves, r

Tracked == kind \notin {"github", "webscraper"}

\* Answers are sequences of posts, and posts can be compared.
LEMMA PostsAre ==
    /\ Scored(Posts)
    /\ \A posts \in Pages : posts \in Seq(Posts)
<1>1. \A posts \in Pages : ToSet(posts) \subseteq Posts
  BY DEF Posts
<1>2. Scored(Posts)
  BY ExtractorsAssumption DEF Scored, Posts
<1>3. ASSUME NEW posts \in Pages PROVE posts \in Seq(Posts)
  <2> DEFINE T == ToSet(posts)
  <2>1. posts \in Seq(T) /\ T \subseteq Posts
    BY <1>1, ExtractorsAssumption
  <2> HIDE DEF T
  <2> QED BY <2>1
<1> QED BY <1>2, <1>3

\* Which loop it is: what it skips later than it looks at ids is stale, and what
\* it is to take it looks at.
LEMMA ReadIs ==
    ASSUME kind \in Sources, Tracked, NEW e
    PROVE  \E early, late :
              /\ \A posts : Read(e, posts) = Loop(posts, seen, early, late)
              /\ \A p \in Posts : p \notin late => p.stale
              /\ \A p \in Posts : Takes(e, p) => p \in early
<1> DEFINE Whole(early, late) == \A posts : Read(e, posts) = Loop(posts, seen, early, late)
           Looks(early) == \A p \in Posts : Takes(e, p) => p \in early
<1>1. /\ \A p \in Posts : p \notin Posts => p.stale
      /\ \A p \in Posts : p \notin Current => p.stale
  BY DEF Current
<1>2. CASE kind = "hackernews"
  <2>1. Whole(Posts, Posts)
    BY <1>2, Zenon DEF Read, Stories
  <2>2. Looks(Posts)
    OBVIOUS
  <2> QED BY <1>1, <2>1, <2>2
<1>3. CASE kind \in {"hackernews_leading", "reddit"}
  <2>1. Whole(Plain, Posts)
    BY <1>3 DEF Read, LeadingStories, TopPosts
  <2>2. Looks(Plain)
    BY <1>3 DEF Takes, Plain
  <2> QED BY <1>1, <2>1, <2>2
<1>4. CASE kind \in {"arxiv", "rss"}
  <2>1. Whole(Plain, Current)
    BY <1>4 DEF Read, NewPapers, FeedEntries
  <2>2. Looks(Plain)
    BY <1>4 DEF Takes, Plain
  <2> QED BY <1>1, <2>1, <2>2
<1>5. CASE kind = "github_search"
  <2>1. Whole(Posts, Current)
    BY <1>5 DEF Read, FoundRepos
  <2>2. Looks(Posts)
    OBVIOUS
  <2> QED BY <1>1, <2>1, <2>2
<1>6. CASE kind = "huggingface" /\ e = 1
  <2>1. Whole(Plain, Current)
    BY <1>6 DEF Read, Models
  <2>2. Looks(Plain)
    BY <1>6 DEF Takes, Plain
  <2> QED BY <1>1, <2>1, <2>2
<1>7. CASE kind = "huggingface" /\ e # 1
  <2>1. Whole(Plain, Posts)
    BY <1>7 DEF Read, DailyPapers
  <2>2. Looks(Plain)
    BY <1>7 DEF Takes, Plain
  <2> QED BY <1>1, <2>1, <2>2
<1>8. \/ kind = "hackernews"
      \/ kind \in {"hackernews_leading", "reddit"}
      \/ kind \in {"arxiv", "rss"}
      \/ kind = "github_search"
      \/ kind = "huggingface" /\ e = 1
      \/ kind = "huggingface" /\ e # 1
  BY DEF Tracked, Sources
<1> HIDE DEF Whole, Looks
<1> QED BY <1>2, <1>3, <1>4, <1>5, <1>6, <1>7, <1>8

\* GitHub's page is taken whole.
LEMMA TrendingIs ==
    ASSUME NEW posts \in Seq(Posts), NEW already
    PROVE  /\ TrendingRepos(posts, already).taken \in Seq(Posts)
           /\ \A p \in ToSet(posts) : ~p.aside => p \in ToSet(TrendingRepos(posts, already).taken)
<1> DEFINE P == {n \in DOMAIN posts : ~posts[n].aside}
           t == Only(posts, P)
           D == {posts[n] : n \in P}
<1>1. TrendingRepos(posts, already).taken = t
  BY DEF TrendingRepos
<1>2. P \in SUBSET DOMAIN posts /\ D \subseteq Posts
  OBVIOUS
<1>3. \A n \in DOMAIN posts : ~posts[n].aside => n \in P
  OBVIOUS
<1> HIDE DEF P
<1>4. t \in Seq(D) /\ \E o : TakenBy(o, t, posts, P)
  BY <1>2, OnlyTakes
<1> HIDE DEF t, D
<1>5. t \in Seq(Posts)
  BY <1>2, <1>4
<1>6. PICK o : TakenBy(o, t, posts, P)
  BY <1>4
<1>7. ASSUME NEW p \in ToSet(posts), ~p.aside PROVE p \in ToSet(t)
  <2>1. PICK n \in DOMAIN posts : p = posts[n]
    BY <1>7 DEF ToSet
  <2>2. n \in P
    BY <1>3, <1>7, <2>1
  <2>3. PICK k \in DOMAIN t : o[k] = n
    BY <1>6, <2>2 DEF TakenBy
  <2>4. t[k] = p
    BY <1>6, <2>1, <2>3 DEF TakenBy
  <2> QED BY <2>3, <2>4 DEF ToSet
<1> QED BY <1>1, <1>5, <1>7

\* Of the articles only those are missing that cannot be read, and those for
\* which the budget is too small.
LEMMA ArticlesAre ==
    ASSUME NEW posts \in Seq(Posts), NEW already, NEW budget \in Int,
           \A p, q \in ToSet(posts) : p.id = q.id => p.gone = q.gone
    PROVE  /\ Articles(posts, already, budget).taken \in Seq(Posts)
           /\ \A p \in ToSet(posts) : ~p.aside /\ ~p.gone =>
                 \/ \E q \in ToSet(Articles(posts, already, budget).taken) : q.id = p.id
                 \/ Len(posts) > budget
<1> DEFINE r == Loop(posts, {}, Plain, Posts)
           links == r.taken
           P == {n \in DOMAIN links : n <= budget /\ ~links[n].gone}
           t == Only(links, P)
           D == {links[n] : n \in P}
<1>1. Leaves(r, posts, {}, Plain, Posts)
  BY LoopLeaves
<1>2. Articles(posts, already, budget).taken = t
  BY DEF Articles, ArticleLinks
<1> HIDE DEF r
<1>3. links \in Seq(Posts) /\ Len(links) <= Len(posts) /\ ToSet(links) \subseteq ToSet(posts)
  <2> DEFINE T == ToSet(posts) \cap Plain \cap Posts
  <2>1. links \in Seq(T) /\ Len(links) <= Len(posts)
    BY <1>1 DEF Leaves
  <2>2. T \subseteq Posts /\ T \subseteq ToSet(posts)
    OBVIOUS
  <2> HIDE DEF T, links
  <2> QED BY <2>1, <2>2 DEF ToSet
<1>4. \A p \in ToSet(posts) : p \in Posts
  BY DEF ToSet
<1>5. ASSUME NEW p \in ToSet(posts), ~p.aside
      PROVE  \E q \in ToSet(links) : q.id = p.id
  <2>1. p \in Plain
    BY <1>4, <1>5 DEF Plain
  <2>2. p.id \in r.seen
    BY <1>1, <2>1 DEF Leaves
  <2>3. PICK q \in ToSet(posts) : q.id = p.id /\ (q \in Posts => q \in ToSet(r.taken))
    BY <1>1, <2>2 DEF Leaves
  <2> QED BY <1>4, <2>3
<1> HIDE DEF links
<1>6. DOMAIN links = 1..Len(links) /\ Len(links) \in Nat /\ Len(posts) \in Nat
  BY <1>3
<1>7. P \in SUBSET DOMAIN links /\ D \subseteq Posts
  BY <1>3
<1>8. \A n \in DOMAIN links : n <= budget /\ ~links[n].gone => n \in P
  OBVIOUS
<1> HIDE DEF P
<1>9. t \in Seq(D) /\ \E o : TakenBy(o, t, links, P)
  BY <1>3, <1>7, OnlyTakes
<1> HIDE DEF t, D
<1>10. t \in Seq(Posts)
  BY <1>7, <1>9
<1>11. PICK o : TakenBy(o, t, links, P)
  BY <1>9
<1>12. ASSUME NEW p \in ToSet(posts), ~p.aside, ~p.gone, Len(posts) <= budget
       PROVE  \E q \in ToSet(t) : q.id = p.id
  <2>1. PICK n \in DOMAIN links : links[n].id = p.id
    BY <1>5, <1>12 DEF ToSet
  <2>2. links[n] \in ToSet(posts)
    BY <1>3 DEF ToSet
  <2>3. ~links[n].gone
    BY <1>12, <2>1, <2>2
  <2>4. n <= budget
    BY <1>3, <1>6, <1>12
  <2>5. n \in P
    BY <1>8, <2>3, <2>4
  <2>6. PICK k \in DOMAIN t : o[k] = n
    BY <1>11, <2>5 DEF TakenBy
  <2>7. t[k] = links[n]
    BY <1>11, <2>6 DEF TakenBy
  <2> QED BY <2>1, <2>6, <2>7 DEF ToSet
<1>13. ASSUME NEW p \in ToSet(posts), ~p.aside, ~p.gone
       PROVE  (\E q \in ToSet(t) : q.id = p.id) \/ Len(posts) > budget
  <2>1. Len(posts) <= budget \/ Len(posts) > budget
    BY <1>6
  <2> QED BY <1>12, <1>13, <2>1
<1> QED BY <1>2, <1>10, <1>13

-----------------------------------------------------------------------------
ExtractTypes ==
    /\ kind \in Sources
    /\ state \in [1..MaxPages -> {"waiting", "asked", "read", "broken", "failed"}]
    /\ page \in [1..MaxPages -> Seq(Posts)]
    /\ taken \in [1..MaxPages -> Seq(Posts)]

\* An endpoint has a page and items once it has answered.
NothingYet ==
    \A e \in 1..MaxPages :
        state[e] \in {"waiting", "asked", "failed"} => page[e] = <<>> /\ taken[e] = <<>>

InTurn ==
    kind = "webscraper" =>
        \A e \in 1..MaxPages : state[e] # "waiting" => \A f \in 1..(e - 1) : state[f] \in Ended

\* The set of ids is that of the items, of the stale posts and of posts on
\* pages that broke, and no two items have the same.
IdsSeen == \A e \in 1..MaxPages : \A p \in ToSet(taken[e]) : p.id \in seen

TakenOnce ==
    /\ \A e \in 1..MaxPages : OneOfEach(taken[e])
    /\ \A e, f \in 1..MaxPages : \A p \in ToSet(taken[e]), q \in ToSet(taken[f]) :
          p.id = q.id => e = f

IdsFound ==
    \A i \in seen : \E f \in Endpoints : \E q \in ToSet(page[f]) :
        q.id = i /\ (state[f] = "broken" \/ q.stale \/ q \in ToSet(taken[f]))

NoneMissed ==
    \A e \in Endpoints : state[e] = "read" =>
        \A p \in ToSet(page[e]) : Takes(e, p) => p.id \in seen

Noted == Tracked => IdsSeen /\ TakenOnce /\ IdsFound /\ NoneMissed

Listed ==
    kind = "github" =>
        \A e \in Endpoints : state[e] = "read" =>
            \A p \in ToSet(page[e]) : Takes(e, p) => p \in ToSet(taken[e])

\* What the budget was when a page of the web scraper came.
Budget(e) == MaxItems - Len(FlattenSeq(SubSeq(taken, 1, e - 1)))

Budgeted ==
    kind = "webscraper" =>
        \A e \in Endpoints : state[e] = "read" =>
            \A p \in ToSet(page[e]) : Takes(e, p) =>
                \/ \E q \in ToSet(taken[e]) : q.id = p.id
                \/ Len(page[e]) > Budget(e)

Finished == Returned => result = Keep(Items) /\ \A e \in Endpoints : state[e] # "asked"

ExtractInv == ExtractTypes /\ NothingYet /\ InTurn /\ Noted /\ Listed /\ Budgeted /\ Finished

\* No extractor has more endpoints than there are places for.
LEMMA EndpointsAre == Endpoints \subseteq 1..MaxPages
<1>1. MaxPages \in Nat \ {0, 1}
  BY ExtractorsAssumption
<1>2. 1..1 \subseteq 1..MaxPages /\ 1..2 \subseteq 1..MaxPages
  BY <1>1
<1>3. CASE Policy.ends = "after one"
  <2>1. Endpoints = 1..1
    BY <1>3, Zenon DEF Endpoints
  <2> QED BY <1>2, <2>1
<1>4. CASE Policy.ends = "after two"
  <2>1. Endpoints = 1..2
    BY <1>4 DEF Endpoints
  <2> QED BY <1>2, <2>1
<1>5. CASE Policy.ends # "after one" /\ Policy.ends # "after two"
  <2>1. Endpoints = 1..MaxPages
    BY <1>5 DEF Endpoints
  <2> QED BY <2>1
<1> QED BY <1>3, <1>4, <1>5

\* Functions on the first numbers are lists.
LEMMA FunctionIsList ==
    ASSUME NEW C, NEW n \in Nat, NEW f \in [1..n -> C]
    PROVE  f \in Seq(C) /\ Len(f) = n
  BY SeqDef

\* Lists that begin alike have the same beginnings.
LEMMA SameStart ==
    ASSUME NEW C, NEW s \in Seq(C), NEW t \in Seq(C), NEW m \in Nat, m <= Len(s), m <= Len(t),
           \A k \in 1..m : s[k] = t[k]
    PROVE  SubSeq(s, 1, m) = SubSeq(t, 1, m)
<1>1. \A k \in 1..m : s[k] \in C /\ t[k] \in C
  OBVIOUS
<1>2. 1 \in Int /\ m \in Int
  OBVIOUS
<1>3. /\ SubSeq(s, 1, m) \in Seq(C) /\ Len(SubSeq(s, 1, m)) = IF 1 <= m THEN m - 1 + 1 ELSE 0
      /\ \A k \in 1..(m - 1 + 1) : SubSeq(s, 1, m)[k] = s[1 + k - 1]
  BY <1>1, <1>2, SubSeqProperties
<1>4. /\ SubSeq(t, 1, m) \in Seq(C) /\ Len(SubSeq(t, 1, m)) = IF 1 <= m THEN m - 1 + 1 ELSE 0
      /\ \A k \in 1..(m - 1 + 1) : SubSeq(t, 1, m)[k] = t[1 + k - 1]
  BY <1>1, <1>2, SubSeqProperties
<1> DEFINE a == SubSeq(s, 1, m)
           b == SubSeq(t, 1, m)
<1>5. Len(a) = m /\ Len(b) = m /\ \A k \in 1..m : a[k] = s[k] /\ b[k] = t[k]
  BY <1>3, <1>4
<1>6. a \in Seq(C) /\ b \in Seq(C)
  BY <1>3, <1>4
<1> HIDE DEF a, b
<1>7. a = b
  BY <1>5, <1>6
<1> QED BY <1>7 DEF a, b

\* The lists of an extraction, and what they are together.
LEMMA TakenIs ==
    ASSUME ExtractTypes
    PROVE  /\ taken \in Seq(Seq(Posts)) /\ Len(taken) = MaxPages
           /\ \E f : Pieces(f, taken, MaxPages, Posts) /\ Items = f[MaxPages]
<1>1. MaxPages \in Nat
  BY ExtractorsAssumption
<1>2. taken \in [1..MaxPages -> Seq(Posts)]
  BY DEF ExtractTypes
<1>3. taken \in Seq(Seq(Posts)) /\ Len(taken) = MaxPages
  BY <1>1, <1>2, FunctionIsList
<1>4. PICK f : Pieces(f, taken, MaxPages, Posts)
  BY <1>1, <1>2, PiecesExist
<1>5. Items = f[MaxPages]
  BY <1>1, <1>3, <1>4, FlattenIs DEF Items
<1>6. \E g : Pieces(g, taken, MaxPages, Posts) /\ Items = g[MaxPages]
  BY <1>4, <1>5, Zenon
<1> QED BY <1>3, <1>6

\* All items together: those of each list, and each id once if the lists have.
LEMMA ItemsAre ==
    ASSUME ExtractTypes
    PROVE  /\ Items \in Seq(Posts)
           /\ \A e \in 1..MaxPages : ToSet(taken[e]) \subseteq ToSet(Items)
           /\ Noted /\ Tracked => OneOfEach(Items)
<1>1. MaxPages \in Nat
  BY ExtractorsAssumption
<1>2. taken \in Seq(Seq(Posts)) /\ Len(taken) = MaxPages
  BY TakenIs
<1>3. PICK f : Pieces(f, taken, MaxPages, Posts) /\ Items = f[MaxPages]
  BY TakenIs
<1>4. /\ Items \in Seq(Posts)
      /\ \A e \in 1..MaxPages : \A j \in DOMAIN taken[e] :
            Len(f[e - 1]) + j \in DOMAIN Items /\ Items[Len(f[e - 1]) + j] = taken[e][j]
      /\ \A i \in DOMAIN Items : \E e \in 1..MaxPages : \E j \in DOMAIN taken[e] :
            i = Len(f[e - 1]) + j
  <2> DEFINE F == f[MaxPages]
  <2>1. /\ F \in Seq(Posts)
        /\ \A e \in 1..MaxPages : \A j \in DOMAIN taken[e] :
              Len(f[e - 1]) + j \in DOMAIN F /\ F[Len(f[e - 1]) + j] = taken[e][j]
        /\ \A i \in DOMAIN F : \E e \in 1..MaxPages : \E j \in DOMAIN taken[e] :
              i = Len(f[e - 1]) + j
    BY <1>1, <1>2, <1>3, FlattenMembers
  <2> HIDE DEF F
  <2>2. Items = F
    BY <1>3 DEF F
  <2> QED BY <2>1, <2>2
<1>5. \A e \in 1..MaxPages : ToSet(taken[e]) \subseteq ToSet(Items)
  <2> SUFFICES ASSUME NEW e \in 1..MaxPages, NEW j \in DOMAIN taken[e]
               PROVE  taken[e][j] \in ToSet(Items)
    BY DEF ToSet
  <2>1. Len(f[e - 1]) + j \in DOMAIN Items /\ Items[Len(f[e - 1]) + j] = taken[e][j]
    BY <1>4
  <2> QED BY <2>1 DEF ToSet
<1>6. ASSUME Noted, Tracked PROVE OneOfEach(Items)
  <2> SUFFICES ASSUME NEW i \in DOMAIN Items, NEW k \in DOMAIN Items, Items[i].id = Items[k].id
               PROVE  i = k
    BY DEF OneOfEach
  <2>1. PICK e \in 1..MaxPages : \E m \in DOMAIN taken[e] : i = Len(f[e - 1]) + m
    BY <1>4
  <2>2. PICK g \in 1..MaxPages : \E n \in DOMAIN taken[g] : k = Len(f[g - 1]) + n
    BY <1>4
  <2>3. PICK m \in DOMAIN taken[e] : i = Len(f[e - 1]) + m
    BY <2>1
  <2>4. PICK n \in DOMAIN taken[g] : k = Len(f[g - 1]) + n
    BY <2>2
  <2>5. Items[i] = taken[e][m] /\ Items[k] = taken[g][n]
    BY <1>4, <2>3, <2>4
  <2>6. taken[e][m] \in ToSet(taken[e]) /\ taken[g][n] \in ToSet(taken[g])
    BY DEF ToSet
  <2>7. e = g
    BY <1>6, <2>5, <2>6 DEF Noted, TakenOnce
  <2>8. OneOfEach(taken[e])
    BY <1>6 DEF Noted, TakenOnce
  <2>9. m = n
    BY <2>5, <2>7, <2>8 DEF OneOfEach
  <2> QED BY <2>7, <2>9, <2>3, <2>4
<1> QED BY <1>4, <1>5, <1>6

\* The budget is what is left when the pages before have been read.
LEMMA BudgetIs ==
    ASSUME ExtractTypes, NEW e \in 1..MaxPages, \A f \in e..MaxPages : taken[f] = <<>>
    PROVE  Budget(e) = MaxItems - Len(Items) /\ Budget(e) \in Int
<1>1. MaxPages \in Nat /\ MaxItems \in Nat
  BY ExtractorsAssumption
<1>2. taken \in Seq(Seq(Posts)) /\ Len(taken) = MaxPages
  BY TakenIs
<1>3. PICK f : Pieces(f, taken, MaxPages, Posts) /\ Items = f[MaxPages]
  BY TakenIs
<1> DEFINE m == e - 1
<1>4. m \in 0..MaxPages /\ \A k \in (m + 1)..MaxPages : taken[k] = <<>>
  BY <1>1
<1>5. Budget(e) = MaxItems - Len(FlattenSeq(SubSeq(taken, 1, m)))
  BY DEF Budget
<1> HIDE DEF m
<1>6. f[MaxPages] = f[m]
  BY <1>1, <1>2, <1>3, <1>4, FlattenStops
<1>7. FlattenSeq(SubSeq(taken, 1, m)) = f[m]
  BY <1>1, <1>2, <1>3, <1>4, FlattenFirst
<1>8. Items \in Seq(Posts)
  BY ItemsAre
<1> QED BY <1>1, <1>3, <1>5, <1>6, <1>7, <1>8

-----------------------------------------------------------------------------
\* What depends on the extractor only.
LEMMA SameKind ==
    ASSUME kind' = kind
    PROVE  /\ Policy' = Policy /\ Endpoints' = Endpoints /\ Tracked' = Tracked
           /\ \A e, p : Takes(e, p)' <=> Takes(e, p)
<1>1. Policy' = Policy
  BY Zenon DEF Policy
<1>2. Endpoints' = Endpoints
  BY <1>1, Zenon DEF Endpoints
<1>3. Tracked' = Tracked
  BY Zenon DEF Tracked
<1>4. \A e, p : Takes(e, p)' <=> Takes(e, p)
  BY Zenon DEF Takes
<1> QED BY <1>1, <1>2, <1>3, <1>4

\* A step that lands no page keeps the invariant, but for the turn and the end.
QuietStep ==
    /\ kind' = kind /\ page' = page /\ seen' = seen /\ taken' = taken
    /\ state' \in [1..MaxPages -> {"waiting", "asked", "read", "broken", "failed"}]
    /\ \A e \in 1..MaxPages :
          \/ state'[e] = state[e]
          \/ state[e] \in {"waiting", "asked"} /\ state'[e] \in {"asked", "failed"}

LEMMA QuietKeeps ==
    ASSUME ExtractInv, QuietStep, InTurn', Finished'
    PROVE  ExtractInv'
<1>1. Endpoints' = Endpoints /\ Tracked' = Tracked /\ Endpoints \subseteq 1..MaxPages
  BY SameKind, EndpointsAre DEF QuietStep
<1>2. /\ kind' = kind /\ page' = page /\ seen' = seen /\ taken' = taken
      /\ \A e \in 1..MaxPages : /\ state'[e] = "read" => state[e] = "read"
                                /\ state[e] = "broken" => state'[e] = "broken"
  BY DEF QuietStep
<1>3. ExtractTypes'
  BY DEF ExtractInv, ExtractTypes, QuietStep
<1>4. NothingYet'
  BY DEF ExtractInv, NothingYet, QuietStep
<1>5. Noted'
  <2> SUFFICES ASSUME Tracked PROVE IdsSeen' /\ TakenOnce' /\ IdsFound' /\ NoneMissed'
    BY <1>1 DEF Noted
  <2>1. IdsSeen /\ TakenOnce /\ IdsFound /\ NoneMissed
    BY DEF ExtractInv, Noted
  <2>2. IdsSeen' /\ TakenOnce'
    BY <1>2, <2>1 DEF IdsSeen, TakenOnce
  <2>3. IdsFound'
    BY <1>1, <1>2, <2>1 DEF IdsFound
  <2>4. NoneMissed'
    <3> SUFFICES ASSUME NEW e \in Endpoints, state'[e] = "read",
                        NEW p \in ToSet(page[e]), Takes(e, p)'
                 PROVE  p.id \in seen
      BY <1>1, <1>2 DEF NoneMissed
    <3>1. Takes(e, p)
      BY <1>2 DEF Takes
    <3> QED BY <1>1, <1>2, <2>1, <3>1 DEF NoneMissed
  <2> QED BY <2>2, <2>3, <2>4
<1>6. Listed'
  <2> SUFFICES ASSUME kind = "github", NEW e \in Endpoints, state'[e] = "read",
                      NEW p \in ToSet(page[e]), Takes(e, p)'
               PROVE  p \in ToSet(taken[e])
    BY <1>1, <1>2 DEF Listed
  <2>1. Takes(e, p)
    BY <1>2 DEF Takes
  <2> QED BY <1>1, <1>2, <2>1 DEF ExtractInv, Listed
<1>7. Budgeted'
  <2> SUFFICES ASSUME kind = "webscraper", NEW e \in Endpoints, state'[e] = "read",
                      NEW p \in ToSet(page[e]), Takes(e, p)'
               PROVE  \/ \E q \in ToSet(taken[e]) : q.id = p.id
                      \/ Len(page[e]) > Budget(e)
    BY <1>1, <1>2 DEF Budgeted, Budget
  <2>1. Takes(e, p)
    BY <1>2 DEF Takes
  <2> QED BY <1>1, <1>2, <2>1 DEF ExtractInv, Budgeted
<1> QED BY <1>3, <1>4, <1>5, <1>6, <1>7 DEF ExtractInv

\* An answer comes, and becomes these items.
Lands(e, how, posts, made) ==
    /\ kind' = kind
    /\ state[e] = "asked" /\ state' = [state EXCEPT ![e] = how]
    /\ page' = [page EXCEPT ![e] = posts]
    /\ taken' = [taken EXCEPT ![e] = made]

\* A landing page disturbs no other endpoint, and the turn goes on.
LEMMA LandsTyped ==
    ASSUME ExtractInv, NEW e \in Endpoints, NEW how \in {"read", "broken"},
           NEW posts \in Seq(Posts), NEW made \in Seq(Posts), Lands(e, how, posts, made)
    PROVE  ExtractTypes' /\ NothingYet' /\ InTurn'
<1>1. e \in 1..MaxPages
  BY EndpointsAre
<1>2. ExtractTypes'
  BY <1>1 DEF ExtractInv, ExtractTypes, Lands
<1>3. \A f \in 1..MaxPages : f # e => state'[f] = state[f] /\ page'[f] = page[f] /\ taken'[f] = taken[f]
  BY DEF ExtractInv, ExtractTypes, Lands
<1>4. state'[e] = how
  BY <1>1 DEF ExtractInv, ExtractTypes, Lands
<1>5. NothingYet'
  BY <1>3, <1>4 DEF ExtractInv, NothingYet
<1>6. InTurn'
  <2> SUFFICES ASSUME kind = "webscraper", NEW f \in 1..MaxPages, state'[f] # "waiting",
                      NEW g \in 1..(f - 1)
               PROVE  state'[g] \in Ended
    BY DEF InTurn, Lands, Ended
  <2>1. state[f] # "waiting"
    BY <1>3 DEF Lands
  <2>2. state[g] \in Ended
    BY <2>1 DEF ExtractInv, InTurn
  <2>3. g \in 1..MaxPages
    BY ExtractorsAssumption
  <2> QED BY <1>3, <1>4, <2>2, <2>3 DEF Ended
<1> QED BY <1>2, <1>5, <1>6

\* What is taken and what is noted go together.
LEMMA LandsNoted ==
    ASSUME ExtractInv, Tracked, NEW e \in Endpoints, NEW how \in {"read", "broken"},
           NEW posts \in Seq(Posts), NEW made \in Seq(Posts), Lands(e, how, posts, made),
           seen \subseteq seen', OneOfEach(made),
           \A p \in ToSet(made) : p.id \in seen' \ seen,
           \A i \in seen' \ seen : \E p \in ToSet(posts) :
               p.id = i /\ (how = "broken" \/ p.stale \/ p \in ToSet(made)),
           how = "read" => \A p \in ToSet(posts) : Takes(e, p) => p.id \in seen'
    PROVE  Noted'
<1>1. e \in 1..MaxPages /\ Endpoints' = Endpoints /\ Endpoints \subseteq 1..MaxPages
  BY SameKind, EndpointsAre DEF Lands
<1>2. /\ state'[e] = how /\ page'[e] = posts /\ taken'[e] = made
      /\ \A f \in 1..MaxPages : f # e =>
            state'[f] = state[f] /\ page'[f] = page[f] /\ taken'[f] = taken[f]
  BY <1>1 DEF ExtractInv, ExtractTypes, Lands
<1>3. page[e] = <<>> /\ taken[e] = <<>>
  BY <1>1 DEF ExtractInv, NothingYet, Lands
<1>4. IdsSeen /\ TakenOnce /\ IdsFound /\ NoneMissed
  BY DEF ExtractInv, Noted
<1>5. IdsSeen'
  <2> SUFFICES ASSUME NEW f \in 1..MaxPages, NEW p \in ToSet(taken'[f]) PROVE p.id \in seen'
    BY DEF IdsSeen
  <2>1. f # e => p.id \in seen
    BY <1>2, <1>4 DEF IdsSeen
  <2> QED BY <1>2, <2>1
<1>6. TakenOnce'
  <2>1. \A f \in 1..MaxPages : OneOfEach(taken'[f])
    BY <1>2, <1>4 DEF TakenOnce
  <2>2. ASSUME NEW f \in 1..MaxPages, NEW g \in 1..MaxPages,
               NEW p \in ToSet(taken'[f]), NEW q \in ToSet(taken'[g]), p.id = q.id
        PROVE  f = g
    <3>1. CASE f # e /\ g # e
      BY <1>2, <1>4, <2>2, <3>1 DEF TakenOnce
    <3>2. CASE f = e /\ g # e
      BY <1>2, <1>4, <2>2, <3>2 DEF IdsSeen
    <3>3. CASE f # e /\ g = e
      BY <1>2, <1>4, <2>2, <3>3 DEF IdsSeen
    <3> QED BY <3>1, <3>2, <3>3
  <2> QED BY <2>1, <2>2 DEF TakenOnce
<1>7. IdsFound'
  <2> SUFFICES ASSUME NEW i \in seen'
               PROVE  \E f \in Endpoints : \E q \in ToSet(page'[f]) :
                         q.id = i /\ (state'[f] = "broken" \/ q.stale \/ q \in ToSet(taken'[f]))
    BY <1>1 DEF IdsFound
  <2>1. CASE i \in seen
    <3>1. PICK f \in Endpoints : \E q \in ToSet(page[f]) :
             q.id = i /\ (state[f] = "broken" \/ q.stale \/ q \in ToSet(taken[f]))
      BY <1>4, <2>1 DEF IdsFound
    <3>2. ToSet(page[e]) = {}
      BY <1>3 DEF ToSet
    <3>3. f # e
      BY <3>1, <3>2
    <3> QED BY <1>1, <1>2, <3>1, <3>3
  <2>2. CASE i \notin seen
    <3>1. PICK p \in ToSet(posts) :
             p.id = i /\ (how = "broken" \/ p.stale \/ p \in ToSet(made))
      BY <2>2
    <3> QED BY <1>2, <3>1
  <2> QED BY <2>1, <2>2
<1>8. NoneMissed'
  <2> SUFFICES ASSUME NEW f \in Endpoints, state'[f] = "read",
                      NEW p \in ToSet(page'[f]), Takes(f, p)'
               PROVE  p.id \in seen'
    BY <1>1 DEF NoneMissed
  <2>1. Takes(f, p)
    BY DEF Takes, Lands
  <2>2. f # e => p.id \in seen
    BY <1>1, <1>2, <1>4, <2>1 DEF NoneMissed
  <2> QED BY <1>2, <2>1, <2>2
<1> QED BY <1>5, <1>6, <1>7, <1>8 DEF Noted

\* A page of github is taken whole or not at all.
LEMMA LandsListed ==
    ASSUME ExtractInv, NEW e \in Endpoints, NEW how \in {"read", "broken"},
           NEW posts \in Seq(Posts), NEW made \in Seq(Posts), Lands(e, how, posts, made),
           kind = "github" /\ how = "read" =>
               \A p \in ToSet(posts) : Takes(e, p) => p \in ToSet(made)
    PROVE  Listed'
<1>1. e \in 1..MaxPages /\ Endpoints' = Endpoints /\ Endpoints \subseteq 1..MaxPages
  BY SameKind, EndpointsAre DEF Lands
<1>2. /\ state'[e] = how /\ page'[e] = posts /\ taken'[e] = made
      /\ \A f \in 1..MaxPages : f # e =>
            state'[f] = state[f] /\ page'[f] = page[f] /\ taken'[f] = taken[f]
  BY <1>1 DEF ExtractInv, ExtractTypes, Lands
<1> SUFFICES ASSUME kind = "github", NEW f \in Endpoints, state'[f] = "read",
                    NEW p \in ToSet(page'[f]), Takes(f, p)'
             PROVE  p \in ToSet(taken'[f])
  BY <1>1 DEF Listed, Lands
<1>3. Takes(f, p)
  BY DEF Takes, Lands
<1>4. CASE f = e
  BY <1>2, <1>3, <1>4
<1>5. CASE f # e
  BY <1>1, <1>2, <1>3, <1>5 DEF ExtractInv, Listed
<1> QED BY <1>4, <1>5

\* A page after the one that is read has not been asked for, so that it is the
\* last to use the budget.
LEMMA LandsBudgeted ==
    ASSUME ExtractInv, NEW e \in Endpoints, NEW how \in {"read", "broken"},
           NEW posts \in Seq(Posts), NEW made \in Seq(Posts), Lands(e, how, posts, made),
           kind = "webscraper" /\ how = "read" =>
               \A p \in ToSet(posts) : Takes(e, p) =>
                   \/ \E q \in ToSet(made) : q.id = p.id
                   \/ Len(posts) > Budget(e)
    PROVE  Budgeted'
<1>1. e \in 1..MaxPages /\ Endpoints' = Endpoints /\ Endpoints \subseteq 1..MaxPages
  BY SameKind, EndpointsAre DEF Lands
<1>2. /\ state'[e] = how /\ page'[e] = posts /\ taken'[e] = made
      /\ \A f \in 1..MaxPages : f # e =>
            state'[f] = state[f] /\ page'[f] = page[f] /\ taken'[f] = taken[f]
  BY <1>1 DEF ExtractInv, ExtractTypes, Lands
<1>3. ExtractTypes'
  BY LandsTyped
<1> SUFFICES ASSUME kind = "webscraper", NEW f \in Endpoints, state'[f] = "read",
                    NEW p \in ToSet(page'[f]), Takes(f, p)'
             PROVE  \/ \E q \in ToSet(taken'[f]) : q.id = p.id
                    \/ Len(page'[f]) > Budget(f)'
  BY <1>1 DEF Budgeted, Budget, Lands
<1>4. Takes(f, p)
  BY DEF Takes, Lands
<1>5. f <= e
  <2> SUFFICES ASSUME f > e PROVE FALSE
    BY <1>1
  <2>1. f \in Int /\ e \in Int /\ e >= 1 /\ e # f
    BY <1>1
  <2>2. state[f] = "read"
    BY <1>1, <1>2, <2>1
  <2>3. e \in 1..(f - 1)
    BY <2>1
  <2>4. state[e] \in Ended
    BY <1>1, <2>2, <2>3 DEF ExtractInv, InTurn
  <2> QED BY <2>4 DEF Lands, Ended
<1>6. Budget(f)' = Budget(f)
  <2> DEFINE s == taken
             t == taken'
             m == f - 1
  <2>1. s \in Seq(Seq(Posts)) /\ Len(s) = MaxPages
    BY TakenIs DEF ExtractInv
  <2>2. t \in Seq(Seq(Posts)) /\ Len(t) = MaxPages
    <3>1. MaxPages \in Nat /\ t \in [1..MaxPages -> Seq(Posts)]
      BY <1>3, ExtractorsAssumption DEF ExtractTypes
    <3> HIDE DEF t
    <3> QED BY <3>1, FunctionIsList
  <2>3. m \in Nat /\ m <= MaxPages /\ \A k \in 1..m : s[k] = t[k]
    BY <1>1, <1>2, <1>5, ExtractorsAssumption
  <2> HIDE DEF s, t, m
  <2>4. SubSeq(s, 1, m) = SubSeq(t, 1, m)
    BY <2>1, <2>2, <2>3, SameStart
  <2> QED BY <2>4, Zenon DEF Budget, s, t, m
<1>7. CASE f = e
  BY <1>2, <1>4, <1>6, <1>7
<1>8. CASE f # e
  BY <1>1, <1>2, <1>4, <1>6, <1>8 DEF ExtractInv, Budgeted
<1> QED BY <1>7, <1>8

-----------------------------------------------------------------------------
\* What the loop over an answer makes and notes, where ids are tracked.
LEMMA ReadNotes ==
    ASSUME kind \in Sources, Tracked, NEW e, NEW posts \in Seq(Posts)
    PROVE  LET r == Read(e, posts)
           IN  /\ r.taken \in Seq(Posts)
               /\ OneOfEach(r.taken)
               /\ seen \subseteq r.seen
               /\ \A p \in ToSet(r.taken) : p.id \in r.seen \ seen
               /\ \A i \in r.seen \ seen : \E p \in ToSet(posts) :
                     p.id = i /\ (p.stale \/ p \in ToSet(r.taken))
               /\ \A p \in ToSet(posts) : Takes(e, p) => p.id \in r.seen
<1>1. PICK early, late : /\ \A some : Read(e, some) = Loop(some, seen, early, late)
                         /\ \A p \in Posts : p \notin late => p.stale
                         /\ \A p \in Posts : Takes(e, p) => p \in early
  BY ReadIs
<1> DEFINE r == Read(e, posts)
           D == ToSet(posts) \cap early \cap late
<1>2. r = Loop(posts, seen, early, late)
  BY <1>1, Zenon
<1>3. Leaves(r, posts, seen, early, late)
  BY <1>2, LoopLeaves
<1>4. ToSet(posts) \subseteq Posts
  BY DEF ToSet
<1> HIDE DEF r
<1>5. r.taken \in Seq(D) /\ D \subseteq Posts
  BY <1>3, <1>4 DEF Leaves
<1> HIDE DEF D
<1>6. r.taken \in Seq(Posts)
  BY <1>5
<1>7. \A i \in r.seen \ seen : \E p \in ToSet(posts) :
         p.id = i /\ (p.stale \/ p \in ToSet(r.taken))
  BY <1>1, <1>3, <1>4 DEF Leaves
<1>8. \A p \in ToSet(posts) : Takes(e, p) => p.id \in r.seen
  BY <1>1, <1>3, <1>4 DEF Leaves
<1> QED BY <1>3, <1>6, <1>7, <1>8 DEF Leaves, r

\* What a loop that breaks had made, and what the whole answer was noted for.
LEMMA BrokenNotes ==
    ASSUME kind \in Sources, Tracked, NEW e, NEW posts \in Seq(Posts), posts # <<>>
    PROVE  LET had == Read(e, Front(posts))
           IN  /\ had.taken \in Seq(Posts)
               /\ OneOfEach(had.taken)
               /\ \A p \in ToSet(had.taken) : p.id \in Read(e, posts).seen \ seen
<1>1. PICK early, late : /\ \A some : Read(e, some) = Loop(some, seen, early, late)
                         /\ \A p \in Posts : p \notin late => p.stale
                         /\ \A p \in Posts : Takes(e, p) => p \in early
  BY ReadIs
<1> DEFINE front == Front(posts)
           had == Read(e, front)
           r == Read(e, posts)
           D == ToSet(front) \cap early \cap late
<1>2. front \in Seq(Posts) /\ ToSet(front) \subseteq ToSet(posts) /\ ToSet(posts) \subseteq Posts
  <2> DEFINE n == Len(posts) - 1
  <2>1. n \in Nat /\ \A k \in 1..n : posts[k] \in Posts
    OBVIOUS
  <2>2. n \in Int /\ 1 \in Int
    BY <2>1
  <2>3. front = SubSeq(posts, 1, n)
    BY DEF Front
  <2>4. 1..n \subseteq DOMAIN posts
    OBVIOUS
  <2> HIDE DEF front, n
  <2>5. /\ front \in Seq(Posts) /\ Len(front) = IF 1 <= n THEN n - 1 + 1 ELSE 0
        /\ \A k \in 1..(n - 1 + 1) : front[k] = posts[1 + k - 1]
    BY <2>1, <2>2, <2>3, SubSeqProperties
  <2>6. DOMAIN front = 1..n /\ \A k \in 1..n : front[k] = posts[k]
    BY <2>1, <2>5
  <2> QED BY <2>4, <2>5, <2>6 DEF ToSet
<1>3. had = Loop(front, seen, early, late) /\ r = Loop(posts, seen, early, late)
  BY <1>1, Zenon
<1> HIDE DEF front, had, r
<1>4. Leaves(had, front, seen, early, late) /\ Leaves(r, posts, seen, early, late)
  BY <1>2, <1>3, LoopLeaves
<1>5. had.taken \in Seq(D) /\ D \subseteq Posts
  BY <1>2, <1>4 DEF Leaves
<1>6. had.taken \in Seq(Posts)
  <2> HIDE DEF D
  <2> QED BY <1>5
<1>7. ASSUME NEW p \in ToSet(had.taken) PROVE p.id \in r.seen \ seen
  <2>1. p \in D
    <3> HIDE DEF D
    <3> QED BY <1>5, <1>7 DEF ToSet
  <2>2. p \in ToSet(posts) /\ p \in early
    BY <1>2, <2>1
  <2> QED BY <1>4, <1>7, <2>2 DEF Leaves
<1>8. OneOfEach(had.taken)
  BY <1>4 DEF Leaves
<1> QED BY <1>6, <1>7, <1>8 DEF had, r, front

\* One lemma per action.
LEMMA AskKeeps ==
    ASSUME ExtractInv, NEW e \in Endpoints, Ask(e)
    PROVE  ExtractInv'
<1>1. e \in 1..MaxPages
  BY EndpointsAre
<1>2. /\ state[e] = "waiting" /\ state'[e] = "asked"
      /\ \A f \in 1..MaxPages : f # e => state'[f] = state[f]
      /\ state' \in [1..MaxPages -> {"waiting", "asked", "read", "broken", "failed"}]
  BY <1>1 DEF ExtractInv, ExtractTypes, Ask
<1>3. QuietStep
  BY <1>2 DEF QuietStep, Ask
<1>4. InTurn'
  <2> SUFFICES ASSUME kind = "webscraper", NEW f \in 1..MaxPages, state'[f] # "waiting",
                      NEW g \in 1..(f - 1)
               PROVE  state'[g] \in Ended
    BY DEF InTurn, Ask, Ended
  <2>1. g \in 1..MaxPages /\ g # f
    BY ExtractorsAssumption
  <2>2. state[g] \in Ended
    <3>1. CASE f = e
      BY <3>1 DEF Ask
    <3>2. CASE f # e
      BY <1>2, <3>2 DEF ExtractInv, InTurn
    <3> QED BY <3>1, <3>2
  <2> QED BY <1>2, <2>1, <2>2 DEF Ended
<1>5. Finished'
  BY DEF Finished, Returned, Ask
<1> QED BY <1>3, <1>4, <1>5, QuietKeeps

LEMMA FailKeeps ==
    ASSUME ExtractInv, NEW e \in Endpoints, Fail(e)
    PROVE  ExtractInv'
<1>1. e \in 1..MaxPages
  BY EndpointsAre
<1>2. /\ state[e] = "asked" /\ state'[e] = "failed"
      /\ \A f \in 1..MaxPages : f # e => state'[f] = state[f]
      /\ state' \in [1..MaxPages -> {"waiting", "asked", "read", "broken", "failed"}]
  BY <1>1 DEF ExtractInv, ExtractTypes, Fail
<1>3. QuietStep
  BY <1>2 DEF QuietStep, Fail
<1>4. InTurn'
  <2> SUFFICES ASSUME kind = "webscraper", NEW f \in 1..MaxPages, state'[f] # "waiting",
                      NEW g \in 1..(f - 1)
               PROVE  state'[g] \in Ended
    BY DEF InTurn, Fail, Ended
  <2>1. g \in 1..MaxPages
    BY ExtractorsAssumption
  <2>2. state[g] \in Ended
    BY <1>2 DEF ExtractInv, InTurn
  <2> QED BY <1>2, <2>1, <2>2 DEF Ended
<1>5. Finished'
  BY <1>2 DEF ExtractInv, Finished, Returned, Fail
<1> QED BY <1>3, <1>4, <1>5, QuietKeeps

LEMMA AnswerKeeps ==
    ASSUME ExtractInv, NEW e \in Endpoints, NEW posts \in Pages, Answer(e, posts)
    PROVE  ExtractInv'
<1> DEFINE made == Read(e, posts).taken
<1>1. e \in 1..MaxPages /\ kind \in Sources
  BY EndpointsAre DEF ExtractInv, ExtractTypes
<1>2. posts \in Seq(Posts)
  BY PostsAre
<1>3. Lands(e, "read", posts, made) /\ seen' = Read(e, posts).seen
  BY DEF Answer, Lands
<1>4. ASSUME Tracked
      PROVE  made \in Seq(Posts) /\ Noted'
  <2>1. /\ made \in Seq(Posts) /\ OneOfEach(made)
        /\ seen \subseteq Read(e, posts).seen
        /\ \A p \in ToSet(made) : p.id \in Read(e, posts).seen \ seen
        /\ \A i \in Read(e, posts).seen \ seen : \E p \in ToSet(posts) :
              p.id = i /\ (p.stale \/ p \in ToSet(made))
        /\ \A p \in ToSet(posts) : Takes(e, p) => p.id \in Read(e, posts).seen
    BY <1>1, <1>2, <1>4, ReadNotes
  <2> HIDE DEF made
  <2> QED BY <1>2, <1>3, <1>4, <2>1, LandsNoted
<1>5. ~Tracked => Noted'
  BY DEF Noted, Tracked, Answer
<1>6. ASSUME kind = "github"
      PROVE  made \in Seq(Posts) /\ \A p \in ToSet(posts) : Takes(e, p) => p \in ToSet(made)
  <2>1. made = TrendingRepos(posts, seen).taken
    BY <1>6 DEF Read
  <2>2. \A p : Takes(e, p) => ~p.aside
    BY <1>6 DEF Takes
  <2> HIDE DEF made
  <2> QED BY <1>2, <2>1, <2>2, TrendingIs
<1>7. ASSUME kind = "webscraper"
      PROVE  /\ made \in Seq(Posts)
             /\ \A p \in ToSet(posts) : Takes(e, p) =>
                   \/ \E q \in ToSet(made) : q.id = p.id
                   \/ Len(posts) > Budget(e)
  <2>1. \A f \in e..MaxPages : taken[f] = <<>>
    <3> SUFFICES ASSUME NEW f \in e..MaxPages PROVE taken[f] = <<>>
      OBVIOUS
    <3>1. f \in 1..MaxPages /\ (f # e => e \in 1..(f - 1))
      BY <1>1, ExtractorsAssumption
    <3>2. f # e => state[f] = "waiting"
      BY <1>3, <1>7, <3>1 DEF ExtractInv, InTurn, Lands, Ended
    <3> QED BY <1>3, <3>1, <3>2 DEF ExtractInv, NothingYet, Lands
  <2>2. Budget(e) = MaxItems - Len(Items) /\ Budget(e) \in Int
    BY <1>1, <2>1, BudgetIs DEF ExtractInv
  <2>3. made = Articles(posts, seen, MaxItems - Len(Items)).taken
    BY <1>7 DEF Read
  <2>4. /\ \A p : Takes(e, p) => ~p.aside /\ ~p.gone
        /\ \A p, q \in ToSet(posts) : p.id = q.id => p.gone = q.gone
    BY <1>7, ExtractorsAssumption DEF Takes
  <2> DEFINE budget == Budget(e)
  <2> HIDE DEF made, budget
  <2>5. made = Articles(posts, seen, budget).taken /\ budget \in Int
    BY <2>2, <2>3 DEF budget
  <2>6. /\ made \in Seq(Posts)
        /\ \A p \in ToSet(posts) : ~p.aside /\ ~p.gone =>
              \/ \E q \in ToSet(made) : q.id = p.id
              \/ Len(posts) > budget
    BY <1>2, <2>4, <2>5, ArticlesAre
  <2> QED BY <2>4, <2>6 DEF budget
<1>8. made \in Seq(Posts)
  BY <1>4, <1>6, <1>7 DEF Tracked
<1> HIDE DEF made
<1>9. ExtractTypes' /\ NothingYet' /\ InTurn'
  BY <1>2, <1>3, <1>8, LandsTyped
<1>10. Listed'
  BY <1>2, <1>3, <1>6, <1>8, LandsListed
<1>11. Budgeted'
  BY <1>2, <1>3, <1>7, <1>8, LandsBudgeted
<1>12. Finished'
  BY DEF ExtractInv, Finished, Returned, Answer
<1> QED BY <1>4, <1>5, <1>9, <1>10, <1>11, <1>12 DEF ExtractInv

LEMMA BreakKeeps ==
    ASSUME ExtractInv, NEW e \in Endpoints, NEW posts \in Pages, Break(e, posts)
    PROVE  ExtractInv'
<1>1. kind \in Sources
  BY DEF ExtractInv, ExtractTypes
<1>2. posts \in Seq(Posts) /\ posts # <<>>
  BY PostsAre DEF Break
<1>3. PICK made \in Saved(e, posts) : taken' = [taken EXCEPT ![e] = made]
  BY DEF Break
<1>4. \/ made = <<>>
      \/ made = Read(e, Front(posts)).taken /\ Policy.broken = "what it had"
  BY <1>3 DEF Saved
<1>5. Lands(e, "broken", posts, made) /\ seen' = Read(e, posts).seen
  BY <1>3 DEF Break, Lands
<1>6. Policy.broken = "what it had" => Tracked
  <2>1. kind = "github" => Policy = GitHubTrending
    BY DEF Policy
  <2>2. kind = "webscraper" => Policy = WebScraper
    BY DEF Policy
  <2>3. GitHubTrending.broken = "raises" /\ WebScraper.broken = "nothing"
    BY DEF GitHubTrending, WebScraper
  <2> QED BY <2>1, <2>2, <2>3 DEF Tracked
<1>7. ASSUME Tracked
      PROVE  /\ made \in Seq(Posts) /\ OneOfEach(made)
             /\ \A p \in ToSet(made) : p.id \in Read(e, posts).seen \ seen
  <2>1. CASE made = <<>>
    BY <2>1 DEF OneOfEach, ToSet
  <2>2. CASE made = Read(e, Front(posts)).taken
    BY <1>1, <1>2, <1>7, <2>2, BrokenNotes
  <2> QED BY <1>4, <2>1, <2>2
<1>8. made \in Seq(Posts)
  <2>1. <<>> \in Seq(Posts)
    OBVIOUS
  <2> QED BY <1>4, <1>6, <1>7, <2>1
<1>9. ASSUME Tracked PROVE Noted'
  <2>1. /\ seen \subseteq Read(e, posts).seen
        /\ \A i \in Read(e, posts).seen \ seen : \E p \in ToSet(posts) : p.id = i
    BY <1>1, <1>2, <1>9, ReadNotes
  <2> QED BY <1>2, <1>5, <1>7, <1>8, <1>9, <2>1, LandsNoted
<1>10. ~Tracked => Noted'
  BY DEF Noted, Tracked, Break
<1>11. ExtractTypes' /\ NothingYet' /\ InTurn'
  BY <1>2, <1>5, <1>8, LandsTyped
<1>12. Listed'
  BY <1>2, <1>5, <1>8, LandsListed
<1>13. Budgeted'
  BY <1>2, <1>5, <1>8, LandsBudgeted
<1>14. Finished'
  BY DEF Finished, Returned, Break
<1> QED BY <1>9, <1>10, <1>11, <1>12, <1>13, <1>14 DEF ExtractInv

LEMMA FinishKeeps ==
    ASSUME ExtractInv, Finish
    PROVE  ExtractInv'
<1>1. QuietStep
  BY DEF ExtractInv, ExtractTypes, Finish, QuietStep
<1>2. InTurn'
  BY DEF ExtractInv, InTurn, Finish, Ended
<1>3. Finished'
  <2>1. Endpoints' = Endpoints /\ Policy' = Policy
    BY SameKind DEF Finish
  <2>2. Keep(Items)' = Keep(Items)
    BY <2>1, Zenon DEF Finish, Keep, Items
  <2>3. \A e \in Endpoints : state[e] # "asked"
    BY DEF Finish, Ended
  <2>4. result' = Keep(Items) /\ state' = state
    BY DEF Finish
  <2> QED BY <2>1, <2>2, <2>3, <2>4 DEF Finished
<1> QED BY <1>1, <1>2, <1>3, QuietKeeps

\* What is waiting, noted, taken, budgeted and returned fit together in every state
\* of an extraction.
LEMMA ExtractInvariant == ExtractSpec => []ExtractInv
<1>1. ExtractInit => ExtractInv
  <2> SUFFICES ASSUME ExtractInit PROVE ExtractInv
    OBVIOUS
  <2>1. /\ kind \in Sources
        /\ \A e \in 1..MaxPages : state[e] = "waiting" /\ page[e] = <<>> /\ taken[e] = <<>>
        /\ state = [e \in 1..MaxPages |-> "waiting"]
        /\ page = [e \in 1..MaxPages |-> <<>>]
        /\ taken = [e \in 1..MaxPages |-> <<>>]
    BY ExtractorsAssumption DEF ExtractInit
  <2>2. ExtractTypes
    BY <2>1 DEF ExtractTypes
  <2>3. NothingYet /\ InTurn
    BY <2>1 DEF NothingYet, InTurn
  <2>4. ToSet(<<>>) = {} /\ OneOfEach(<<>>)
    BY DEF ToSet, OneOfEach
  <2>5. IdsSeen /\ TakenOnce
    BY <2>1, <2>4 DEF IdsSeen, TakenOnce
  <2>6. IdsFound
    BY DEF ExtractInit, IdsFound
  <2>7. \A e \in Endpoints : state[e] # "read" /\ state[e] # "asked"
    BY <2>1, EndpointsAre
  <2>8. NoneMissed /\ Listed /\ Budgeted /\ Finished
    BY <2>7 DEF NoneMissed, Listed, Budgeted, Finished, Returned, ExtractInit
  <2> QED BY <2>2, <2>3, <2>5, <2>6, <2>8 DEF ExtractInv, Noted
<1>2. ExtractInv /\ [ExtractNext]_extractVars => ExtractInv'
  <2> SUFFICES ASSUME ExtractInv, [ExtractNext]_extractVars PROVE ExtractInv'
    OBVIOUS
  <2>1. ASSUME NEW e \in Endpoints, Ask(e) PROVE ExtractInv'
    BY <2>1, AskKeeps
  <2>2. ASSUME NEW e \in Endpoints, Fail(e) PROVE ExtractInv'
    BY <2>2, FailKeeps
  <2>3. ASSUME NEW e \in Endpoints, NEW posts \in Pages, Answer(e, posts) PROVE ExtractInv'
    BY <2>3, AnswerKeeps
  <2>4. ASSUME NEW e \in Endpoints, NEW posts \in Pages, Break(e, posts) PROVE ExtractInv'
    BY <2>4, BreakKeeps
  <2>5. CASE Finish
    BY <2>5, FinishKeeps
  <2>6. CASE UNCHANGED extractVars
    <3>1. QuietStep
      BY <2>6 DEF ExtractInv, ExtractTypes, QuietStep, extractVars
    <3>2. InTurn'
      BY <2>6 DEF ExtractInv, InTurn, Ended, extractVars
    <3>3. Finished'
      <4>1. kind' = kind /\ taken' = taken /\ outcome' = outcome /\ state' = state /\ result' = result
        BY <2>6 DEF extractVars
      <4>2. Endpoints' = Endpoints /\ Policy' = Policy
        BY <4>1, SameKind
      <4>3. Keep(Items)' = Keep(Items)
        BY <4>1, <4>2, Zenon DEF Keep, Items
      <4> QED BY <4>1, <4>2, <4>3 DEF ExtractInv, Finished, Returned
    <3> QED BY <3>1, <3>2, <3>3, QuietKeeps
  <2> QED BY <2>1, <2>2, <2>3, <2>4, <2>5, <2>6 DEF ExtractNext, Reply
<1> QED BY <1>1, <1>2, PTL DEF ExtractSpec

\* Whatever the endpoints answer, and in whatever order, an extraction returns
\* the best of what it took, within its limit, and what two endpoints list once
\* (the loops and cuts of extract() in src/src/extractors/).
THEOREM BestIsKept == ExtractSpec => []BestAreKept
<1>1. ExtractInv => BestAreKept
  <2> SUFFICES ASSUME ExtractInv, Returned
               PROVE  /\ kind \notin {"webscraper", "github"} =>
                            \A m, n \in DOMAIN result : result[m].id = result[n].id => m = n
                      /\ Len(result) = Min({MaxItems, Len(Items)})
                      /\ Policy.keeps = "best" =>
                            \A p \in ToSet(Items) \ ToSet(result) :
                                \A q \in ToSet(result) : q.score >= p.score
    BY Zenon DEF BestAreKept
  <2>1. result = Keep(Items) /\ ExtractTypes /\ Noted
    BY DEF ExtractInv, Finished
  <2>2. Items \in Seq(Posts) /\ (Tracked => OneOfEach(Items))
    BY <2>1, ItemsAre
  <2>3. Scored(Posts) /\ MaxItems \in Nat
    BY PostsAre, ExtractorsAssumption
  <2>4. /\ Len(result) = Min({MaxItems, Len(Items)})
        /\ OneOfEach(Items) => OneOfEach(result)
        /\ \A p \in ToSet(Items) :
              \/ p \in ToSet(result)
              \/ /\ Len(result) = MaxItems
                 /\ Policy.keeps = "best" => \A q \in ToSet(result) : q.score >= p.score
    BY <2>1, <2>2, <2>3, KeepIs
  <2>5. Tracked => OneOfEach(result)
    BY <2>2, <2>4
  <2> QED BY <2>4, <2>5 DEF Tracked, OneOfEach
<1> QED BY <1>1, ExtractInvariant, PTL

\* No order of answers and no failure but those of the endpoint itself costs a
\* post its place: one on a page that was read to its end is returned, or does
\* not fit, or its id was met before under a post that was not taken (the loops
\* of extract() in src/src/extractors/ and what their except clauses leave).
THEOREM OnlyFailuresLose == ExtractSpec => []OnlyFailuresLoseItems
<1>1. ExtractInv => OnlyFailuresLoseItems
  <2> SUFFICES ASSUME ExtractInv, Returned, NEW e \in Endpoints, NEW p \in ToSet(page[e]),
                      state[e] = "read", Takes(e, p)
               PROVE  \/ \E q \in ToSet(result) : q.id = p.id
                      \/ /\ Len(result) = MaxItems
                         /\ Policy.keeps = "best" => \A q \in ToSet(result) : q.score >= p.score
                      \/ \E f \in Endpoints : \E q \in ToSet(page[f]) :
                            q.id = p.id /\ (state[f] = "broken" \/ q.stale \/ q.score < p.score)
                      \/ kind = "webscraper" /\ Len(page[e]) > Budget(e)
    BY Zenon DEF OnlyFailuresLoseItems, Budget
  <2>1. result = Keep(Items) /\ ExtractTypes
    BY DEF ExtractInv, Finished
  <2>2. Endpoints \subseteq 1..MaxPages
    BY EndpointsAre
  <2>3. Scored(Posts) /\ MaxItems \in Nat
    BY PostsAre, ExtractorsAssumption
  <2>4. Items \in Seq(Posts) /\ \A f \in 1..MaxPages : ToSet(taken[f]) \subseteq ToSet(Items)
    BY <2>1, ItemsAre
  <2>5. \A f \in Endpoints : ToSet(taken[f]) \subseteq ToSet(Items)
    BY <2>2, <2>4
  <2>6. /\ ToSet(result) \subseteq ToSet(Items)
        /\ \A q \in ToSet(Items) :
              \/ q \in ToSet(result)
              \/ /\ Len(result) = MaxItems
                 /\ Policy.keeps = "best" => \A r \in ToSet(result) : r.score >= q.score
    BY <2>1, <2>3, <2>4, KeepIs
  <2>7. \A q \in ToSet(Items) : q.score \in Int
    BY <2>3, <2>4 DEF ToSet, Scored
  <2>8. p.score \in Int
    <3>1. page[e] \in Seq(Posts)
      BY <2>1, <2>2 DEF ExtractTypes
    <3> QED BY <2>3, <3>1 DEF ToSet, Scored
  <2>9. ASSUME NEW q \in ToSet(Items), q.id = p.id, q.score >= p.score
        PROVE  \/ \E r \in ToSet(result) : r.id = p.id
               \/ /\ Len(result) = MaxItems
                  /\ Policy.keeps = "best" => \A r \in ToSet(result) : r.score >= p.score
    <3>1. CASE q \in ToSet(result)
      BY <2>9, <3>1
    <3>2. CASE q \notin ToSet(result)
      <4>1. \A r \in ToSet(result) : r.score \in Int
        BY <2>6, <2>7
      <4> QED BY <2>6, <2>7, <2>8, <2>9, <3>2, <4>1
    <3> QED BY <3>1, <3>2
  <2>10. CASE Tracked
    <3>1. p.id \in seen
      BY <2>10 DEF ExtractInv, Noted, NoneMissed
    <3>2. PICK f \in Endpoints : \E q \in ToSet(page[f]) :
             q.id = p.id /\ (state[f] = "broken" \/ q.stale \/ q \in ToSet(taken[f]))
      BY <2>10, <3>1 DEF ExtractInv, Noted, IdsFound
    <3>3. PICK q \in ToSet(page[f]) :
             q.id = p.id /\ (state[f] = "broken" \/ q.stale \/ q \in ToSet(taken[f]))
      BY <3>2
    <3>4. CASE state[f] = "broken" \/ q.stale \/ q.score < p.score
      BY <3>3, <3>4
    <3>5. CASE q \in ToSet(taken[f]) /\ ~(q.score < p.score)
      <4>1. q \in ToSet(Items) /\ q.score >= p.score
        BY <2>5, <2>7, <2>8, <3>5
      <4> QED BY <2>9, <3>3, <4>1
    <3> QED BY <3>3, <3>4, <3>5
  <2>11. CASE kind = "github"
    <3>1. p \in ToSet(taken[e])
      BY <2>11 DEF ExtractInv, Listed
    <3>2. p \in ToSet(Items) /\ p.score >= p.score
      BY <2>5, <2>8, <3>1
    <3> QED BY <2>9, <3>2
  <2>12. CASE kind = "webscraper"
    <3>1. \/ \E q \in ToSet(taken[e]) : q.id = p.id
          \/ Len(page[e]) > Budget(e)
      BY <2>12 DEF ExtractInv, Budgeted
    <3>2. ASSUME NEW q \in ToSet(taken[e]), q.id = p.id
          PROVE  \/ \E r \in ToSet(result) : r.id = p.id
                 \/ /\ Len(result) = MaxItems
                    /\ Policy.keeps = "best" => \A r \in ToSet(result) : r.score >= p.score
      <4>1. Policy = WebScraper
        BY <2>12 DEF Policy
      <4>2. Policy.keeps # "best"
        BY <4>1 DEF WebScraper
      <4>3. q \in ToSet(Items)
        BY <2>5
      <4> QED BY <2>6, <3>2, <4>2, <4>3
    <3> QED BY <2>12, <3>1, <3>2
  <2> QED BY <2>10, <2>11, <2>12 DEF Tracked
<1> QED BY <1>1, ExtractInvariant, PTL

=============================================================================
