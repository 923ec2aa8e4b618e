--------------------------- MODULE WordCountProofs ---------------------------
(***************************************************************************)
(* Word count is right: a run that ends well has counted every word of every *)
(* text once, for any number of mappers and reducers and any texts.          *)
(***************************************************************************)
EXTENDS DataBufferProofs, WellFoundedInduction

-----------------------------------------------------------------------------
(* What is defined by recursion over a number                               *)

\* Induction up to L, with the set of the numbers that are good.
LEMMA UpTo ==
    ASSUME NEW L \in Nat, NEW P, 0 \in P, \A n \in 1..L : n - 1 \in P => n \in P
    PROVE  \A n \in 0..L : n \in P
<1>1. PICK T : T = {n \in 0..L : n \notin P}
  BY Zenon
<1>2. SUFFICES ASSUME T # {} PROVE FALSE
  BY Zenon, <1>1
<1>3. T \in SUBSET Nat
  BY <1>1
<1>4. PICK x \in T : \A y \in T : ~ (<<y, x>> \in OpToRel(<, Nat))
  BY Zenon, <1>2, <1>3, NatLessThanWellFounded, WFMin
<1>5. x \in 0..L /\ x \notin P
  BY Zenon, <1>1
<1>6. x # 0 /\ x \in 1..L /\ x - 1 \in Nat /\ x - 1 < x /\ x - 1 \in 0..L
  BY <1>5
<1>7. x - 1 \notin P
  BY Zenon, <1>5, <1>6
<1>8. x - 1 \in T
  BY Zenon, <1>1, <1>6, <1>7
<1> QED  BY Zenon, <1>3, <1>4, <1>6, <1>8 DEF OpToRel

\* A function given by its first value and by a step from each value to the next.
Iterate(g, L, V, v0, step) ==
    g \in [0..L -> V] /\ g[0] = v0 /\ \A n \in 1..L : g[n] = step[n][g[n - 1]]

\* There is such a function, for any length.
LEMMA Iterates ==
    ASSUME NEW L \in Nat, NEW V, NEW v0 \in V, NEW step \in [1..L -> [V -> V]]
    PROVE  \E g : Iterate(g, L, V, v0, step)
<1> DEFINE Upto(n, g) == Iterate(g, n, V, v0, step)
<1> USE DEF Iterate
<1>1. PICK P : P = {n \in 0..L : \E g : Upto(n, g)}
  BY Zenon
<1>2. 0 \in P
  <2>1. PICK g : g = [n \in 0..0 |-> v0]
    BY Zenon
  <2>2. Upto(0, g)
    BY <2>1
  <2> QED  BY <1>1, <2>2
<1>3. ASSUME NEW n \in 1..L, n - 1 \in P PROVE n \in P
  <2>1. PICK g : Upto(n - 1, g)
    BY Zenon, <1>1, <1>3
  <2>2. PICK v : v = step[n][g[n - 1]]
    BY Zenon
  <2>3. g[n - 1] \in V /\ v \in V
    BY <2>1, <2>2
  <2>4. PICK h : h = [k \in 0..n |-> IF k = n THEN v ELSE g[k]]
    BY Zenon
  <2>5. h \in [0..n -> V]
    BY <2>1, <2>3, <2>4
  <2>6. h[0] = v0 /\ h[n] = v /\ \A k \in 0..(n - 1) : h[k] = g[k]
    BY <2>1, <2>4
  <2>7. ASSUME NEW k \in 1..n PROVE h[k] = step[k][h[k - 1]]
    <3>1. CASE k = n
      BY <2>2, <2>6, <3>1
    <3>2. CASE k # n
      <4>1. k \in 1..(n - 1) /\ k \in 0..(n - 1) /\ k - 1 \in 0..(n - 1)
        BY <3>2
      <4> QED  BY Zenon, <2>1, <2>6, <4>1
    <3> QED  BY Zenon, <3>1, <3>2
  <2>8. Upto(n, h)
    BY Zenon, <2>5, <2>6, <2>7
  <2> HIDE DEF Iterate
  <2>9. n \in 0..L
    OBVIOUS
  <2> QED  BY Zenon, <1>1, <2>8, <2>9
<1>4. \A n \in 0..L : n \in P
  BY Zenon, <1>2, <1>3, UpTo
<1>5. L \in P
  BY <1>4
<1> QED  BY Zenon, <1>1, <1>5

\* There is one such function.
LEMMA IterateOnce ==
    ASSUME NEW L \in Nat, NEW V, NEW v0, NEW step, NEW g, Iterate(g, L, V, v0, step),
           NEW h, h[0] = v0, \A n \in 1..L : h[n - 1] \in V => h[n] = step[n][h[n - 1]]
    PROVE  \A n \in 0..L : h[n] = g[n]
<1> USE DEF Iterate
<1>1. PICK P : P = {n \in 0..L : h[n] = g[n]}
  BY Zenon
<1>2. 0 \in P
  BY <1>1
<1>3. ASSUME NEW n \in 1..L, n - 1 \in P PROVE n \in P
  <2>1. h[n - 1] = g[n - 1] /\ n - 1 \in 0..L /\ n \in 0..L
    BY <1>1, <1>3
  <2>2. g[n - 1] \in V /\ g[n] = step[n][g[n - 1]]
    BY Zenon, <2>1
  <2> QED  BY Zenon, <1>1, <2>1, <2>2
<1>4. \A n \in 0..L : n \in P
  BY Zenon, <1>2, <1>3, UpTo
<1> QED  BY Zenon, <1>1, <1>4

\* The sequences joined up to the n-th (UserFunctions' Joined).
LEMMA JoinedIs ==
    ASSUME NEW S, NEW L \in Nat, NEW seqs \in [1..L -> Seq(S)]
    PROVE  \E g \in [0..L -> Seq(S)] :
              /\ g[0] = <<>> /\ \A n \in 1..L : g[n] = g[n - 1] \o seqs[n]
              /\ Joined(seqs) = g[L]
<1> DEFINE Rec(g) == g = [n \in 0..Len(seqs) |-> IF n = 0 THEN <<>> ELSE g[n - 1] \o seqs[n]]
<1>1. Len(seqs) = L /\ 0 \in 0..L /\ L \in 0..L /\ \A n \in 1..L : n \in 0..L /\ n # 0 /\ n - 1 \in 0..L
  OBVIOUS
<1>2. PICK V, step : V = Seq(S) /\ step = [n \in 1..L |-> [v \in V |-> v \o seqs[n]]]
  BY Zenon
<1>3. step \in [1..L -> [V -> V]] /\ <<>> \in V
  BY <1>2
<1>4. PICK e : e \in V /\ e = <<>>
  BY Zenon, <1>3
<1>5. PICK g : Iterate(g, L, V, e, step)
  BY Zenon, <1>3, <1>4, Iterates
<1>6. g \in [0..L -> V] /\ g[0] = <<>> /\ \A n \in 1..L : g[n] = g[n - 1] \o seqs[n]
  <2>1. g \in [0..L -> V] /\ g[0] = <<>> /\ \A n \in 1..L : g[n] = step[n][g[n - 1]]
    BY Zenon, <1>4, <1>5 DEF Iterate
  <2>2. \A n \in 1..L : g[n - 1] \in V
    BY <2>1
  <2> QED  BY Zenon, <1>2, <2>1, <2>2
<1>7. Rec(g)
  <2>1. ASSUME NEW n \in 0..L PROVE g[n] = IF n = 0 THEN <<>> ELSE g[n - 1] \o seqs[n]
    <3>1. n = 0 \/ n \in 1..L
      OBVIOUS
    <3> QED  BY Zenon, <1>1, <1>6, <3>1
  <2>2. g = [n \in 0..L |-> g[n]]
    BY Zenon, <1>6
  <2> QED  BY Zenon, <1>1, <2>1, <2>2
<1>8. PICK h : h = (CHOOSE f : Rec(f))
  BY Zenon
<1>9. Rec(h)
  BY Zenon, <1>7, <1>8
<1>10. Joined(seqs) = h[L]
  BY Zenon, <1>1, <1>8 DEF Joined
<1>11. h[0] = e /\ \A n \in 1..L : h[n - 1] \in V => h[n] = step[n][h[n - 1]]
  BY Zenon, <1>1, <1>2, <1>4, <1>9
<1> HIDE DEF Rec
<1>12. \A n \in 0..L : h[n] = g[n]
  BY <1>5, <1>11, IterateOnce
<1> QED  BY Zenon, <1>1, <1>2, <1>6, <1>10, <1>12

\* What a reducer has added up of a word after n mappers (reducer lib.rs:50-65).
Shares(c, L, sh, w) ==
    /\ Len(sh) = L /\ c \in [1..L -> Nat]
    /\ \A n \in 1..L : c[n] = IF w \in DOMAIN sh[n] THEN sh[n][w] ELSE 0
Sums(g, L, c) == g \in [0..L -> Nat] /\ g[0] = 0 /\ \A n \in 1..L : g[n] = g[n - 1] + c[n]

\* UserFunctions' Total adds up the shares of a word.
LEMMA TotalIs ==
    ASSUME NEW L \in Nat, NEW sh, NEW w, NEW c, Shares(c, L, sh, w)
    PROVE  \E g : Sums(g, L, c) /\ \A h : Sums(h, L, c) => Total(sh, w) = h[L]
<1>0. /\ Len(sh) = L /\ c \in [1..L -> Nat]
      /\ \A n \in 1..L : c[n] = IF w \in DOMAIN sh[n] THEN sh[n][w] ELSE 0
  BY Zenon DEF Shares
<1> DEFINE Rec(g) == g = [n \in 0..Len(sh) |-> IF n = 0 THEN 0
                                             ELSE g[n - 1] + (IF w \in DOMAIN sh[n] THEN sh[n][w] ELSE 0)]
<1>1. 0 \in 0..L /\ L \in 0..L /\ \A n \in 1..L : n \in 0..L /\ n # 0 /\ n - 1 \in 0..L
  OBVIOUS
<1>2. PICK step : step = [n \in 1..L |-> [v \in Nat |-> v + c[n]]]
  BY Zenon
<1>3. step \in [1..L -> [Nat -> Nat]]
  BY <1>0, <1>2
<1>5. PICK g : Iterate(g, L, Nat, 0, step)
  BY Zenon, <1>3, Iterates
<1>6. g \in [0..L -> Nat] /\ g[0] = 0 /\ \A n \in 1..L : g[n] = g[n - 1] + c[n]
  <2>1. g \in [0..L -> Nat] /\ g[0] = 0 /\ \A n \in 1..L : g[n] = step[n][g[n - 1]]
    BY Zenon, <1>5 DEF Iterate
  <2>2. \A n \in 1..L : g[n - 1] \in Nat
    BY <2>1
  <2> QED  BY Zenon, <1>2, <2>1, <2>2
<1>7. Rec(g)
  <2>1. ASSUME NEW n \in 0..L
        PROVE  g[n] = IF n = 0 THEN 0 ELSE g[n - 1] + (IF w \in DOMAIN sh[n] THEN sh[n][w] ELSE 0)
    <3>1. n = 0 \/ n \in 1..L
      OBVIOUS
    <3> QED  BY Zenon, <1>0, <1>1, <1>6, <3>1
  <2>2. g = [n \in 0..L |-> g[n]]
    BY Zenon, <1>6
  <2> QED  BY Zenon, <1>0, <2>1, <2>2
<1>8. PICK h : h = (CHOOSE f : Rec(f))
  BY Zenon
<1>9. Rec(h)
  BY Zenon, <1>7, <1>8
<1>10. Total(sh, w) = h[L]
  BY Zenon, <1>0, <1>8 DEF Total
<1>11. h[0] = 0 /\ \A n \in 1..L : h[n - 1] \in Nat => h[n] = step[n][h[n - 1]]
  BY Zenon, <1>0, <1>1, <1>2, <1>9
<1> HIDE DEF Rec
<1>12. \A n \in 0..L : h[n] = g[n]
  BY <1>5, <1>11, IterateOnce
<1>13. Sums(g, L, c)
  BY Zenon, <1>6 DEF Sums
<1>14. ASSUME NEW k, Sums(k, L, c) PROVE Total(sh, w) = k[L]
  <2>1. k \in [0..L -> Nat] /\ k[0] = 0 /\ \A n \in 1..L : k[n] = k[n - 1] + c[n]
    BY Zenon, <1>14 DEF Sums
  <2>2. k[0] = 0 /\ \A n \in 1..L : k[n - 1] \in Nat => k[n] = step[n][k[n - 1]]
    BY Zenon, <1>2, <2>1
  <2>3. \A n \in 0..L : k[n] = g[n]
    BY <1>5, <2>2, IterateOnce
  <2> QED  BY Zenon, <1>1, <1>10, <1>12, <2>3
<1> QED  BY Zenon, <1>13, <1>14

\* The reducer of a word is one of the reducers (mapper lib.rs:60-66).
LEMMA IndexIs ==
    ASSUME NEW R \in Nat \ {0}, NEW word \in Seq(Nat)
    PROVE  getidx(word, R) \in 0..(R - 1)
<1> DEFINE Rec(g) == g = [n \in 0..Len(word) |-> IF n = 0 THEN 0 ELSE (g[n - 1] * 31 + word[n]) % R]
<1>0. PICK L \in Nat : L = Len(word)
  OBVIOUS
<1>V. PICK V : V = 0..(R - 1)
  BY Zenon
<1>1. 0 \in V /\ 0 \in 0..L /\ L \in 0..L /\ \A n \in 1..L : n \in 0..L /\ n # 0 /\ n - 1 \in 0..L
  BY <1>V
<1>2. PICK step : step = [n \in 1..L |-> [v \in V |-> (v * 31 + word[n]) % R]]
  BY Zenon
<1>3. step \in [1..L -> [V -> V]]
  <2>1. ASSUME NEW n \in 1..L, NEW v \in V PROVE (v * 31 + word[n]) % R \in V
    <3>1. PICK x \in Nat : x = v * 31 + word[n]
      BY <1>0, <1>V
    <3> QED  BY <1>V, <3>1
  <2> QED  BY Zenon, <1>2, <2>1
<1>5. PICK g : Iterate(g, L, V, 0, step)
  BY Zenon, <1>1, <1>3, Iterates
<1>6. g \in [0..L -> V] /\ g[0] = 0 /\ \A n \in 1..L : g[n] = (g[n - 1] * 31 + word[n]) % R
  <2>1. g \in [0..L -> V] /\ g[0] = 0 /\ \A n \in 1..L : g[n] = step[n][g[n - 1]]
    BY Zenon, <1>5 DEF Iterate
  <2>2. \A n \in 1..L : g[n - 1] \in V
    BY <2>1
  <2> QED  BY Zenon, <1>2, <2>1, <2>2
<1>7. Rec(g)
  <2>1. ASSUME NEW n \in 0..L PROVE g[n] = IF n = 0 THEN 0 ELSE (g[n - 1] * 31 + word[n]) % R
    <3>1. n = 0 \/ n \in 1..L
      OBVIOUS
    <3> QED  BY Zenon, <1>1, <1>6, <3>1
  <2>2. g = [n \in 0..L |-> g[n]]
    BY Zenon, <1>6
  <2> QED  BY Zenon, <1>0, <2>1, <2>2
<1>8. PICK h : h = (CHOOSE f : Rec(f))
  BY Zenon
<1>9. Rec(h)
  BY Zenon, <1>7, <1>8
<1>10. getidx(word, R) = h[L]
  BY Zenon, <1>0, <1>8 DEF getidx
<1>11. h[0] = 0 /\ \A n \in 1..L : h[n - 1] \in V => h[n] = step[n][h[n - 1]]
  BY Zenon, <1>0, <1>1, <1>2, <1>9
<1> HIDE DEF Rec
<1>12. \A n \in 0..L : h[n] = g[n]
  BY <1>5, <1>11, IterateOnce
<1> QED  BY <1>V, <1>1, <1>6, <1>10, <1>12

-----------------------------------------------------------------------------
\* How often a word occurs in a text.
Occurs(w, s) == Cardinality({i \in DOMAIN s : s[i] = w})

\* A word occurs a natural number of times, never in the empty text.
LEMMA OccursIs ==
    ASSUME NEW S, NEW s \in Seq(S), NEW w
    PROVE  /\ IsFiniteSet({i \in DOMAIN s : s[i] = w}) /\ Occurs(w, s) \in Nat
           /\ w \notin {s[i] : i \in DOMAIN s} => Occurs(w, s) = 0
<1>1. PICK n \in Nat : DOMAIN s = 1..n
  OBVIOUS
<1>2. IsFiniteSet(1..n)
  BY FS_Interval
<1>3. IsFiniteSet({i \in DOMAIN s : s[i] = w})
  BY Zenon, <1>1, <1>2, FS_Subset
<1>4. w \notin {s[i] : i \in DOMAIN s} => {i \in DOMAIN s : s[i] = w} = {}
  BY Zenon
<1> QED  BY Zenon, <1>3, <1>4, FS_CardinalityType, FS_EmptySet DEF Occurs

\* A word occurs in two texts as often as in both of them.
LEMMA OccursJoined ==
    ASSUME NEW S, NEW s \in Seq(S), NEW t \in Seq(S), NEW w
    PROVE  Occurs(w, s \o t) = Occurs(w, s) + Occurs(w, t)
<1>1. PICK n \in Nat, m \in Nat : DOMAIN s = 1..n /\ DOMAIN t = 1..m /\ DOMAIN (s \o t) = 1..(n + m) /\ n = Len(s)
  OBVIOUS
<1>2. PICK A, B, C : /\ A = {i \in 1..n : s[i] = w} /\ B = {i \in 1..m : t[i] = w}
                     /\ C = {n + i : i \in B}
  BY Zenon
<1>3. {i \in DOMAIN (s \o t) : (s \o t)[i] = w} = A \cup C
  <2>1. \A i \in 1..n : (s \o t)[i] = s[i] /\ i \in 1..(n + m)
    BY <1>1
  <2>2. \A i \in 1..m : (s \o t)[n + i] = t[i] /\ n + i \in 1..(n + m)
    BY <1>1
  <2>3. \A i \in 1..(n + m) : i \in 1..n \/ \E k \in 1..m : i = n + k
    <3>1. \A i \in 1..(n + m) : i \in 1..n \/ (i - n \in 1..m /\ i = n + (i - n))
      OBVIOUS
    <3> QED  BY Zenon, <3>1
  <2>4. ASSUME NEW i \in 1..(n + m), (s \o t)[i] = w PROVE i \in A \cup C
    <3>1. CASE i \in 1..n
      BY Zenon, <1>2, <2>1, <2>4, <3>1
    <3>2. CASE \E k \in 1..m : i = n + k
      BY Zenon, <1>2, <2>2, <2>4, <3>2
    <3> QED  BY Zenon, <2>3, <3>1, <3>2
  <2>5. \A i \in A : i \in 1..(n + m) /\ (s \o t)[i] = w
    BY Zenon, <1>2, <2>1
  <2>6. \A i \in C : i \in 1..(n + m) /\ (s \o t)[i] = w
    BY Zenon, <1>2, <2>2
  <2>7. \A i : i \in {j \in 1..(n + m) : (s \o t)[j] = w} <=> i \in A \cup C
    BY Zenon, <2>4, <2>5, <2>6
  <2> QED  BY Zenon, <1>1, <2>7
<1>4. A \cap C = {}
  BY <1>2
<1>5. IsFiniteSet(A) /\ IsFiniteSet(B) /\ Cardinality(A) = Occurs(w, s) /\ Cardinality(B) = Occurs(w, t)
  BY Zenon, <1>1, <1>2, OccursIs DEF Occurs
<1>6. IsFiniteSet(C) /\ Cardinality(C) = Cardinality(B)
  <2>1. PICK f : f = [i \in B |-> n + i]
    BY Zenon
  <2>2. f \in [B -> C] /\ (\A i, k \in B : f[i] = f[k] => i = k) /\ \A x \in C : \E i \in B : f[i] = x
    BY <1>2, <2>1
  <2>3. ExistsBijection(B, C)
    BY Zenon, <2>2 DEF ExistsBijection, Bijection, Injection, Surjection, IsInjective
  <2> QED  BY Zenon, <1>5, <2>3, FS_Bijection
<1>7. Cardinality(A \cup C) = Cardinality(A) + Cardinality(C) - Cardinality({})
  BY <1>4, <1>5, <1>6, FS_Union
<1>8. Cardinality(A) \in Nat /\ Cardinality(C) \in Nat /\ Cardinality({}) = 0
  BY Zenon, <1>5, <1>6, FS_CardinalityType, FS_EmptySet
<1>9. Occurs(w, s \o t) = Cardinality(A \cup C)
  BY Zenon, <1>3 DEF Occurs
<1> QED  BY <1>5, <1>6, <1>7, <1>8, <1>9

\* A word is in a text.
In(w, s) == \E k \in DOMAIN s : s[k] = w

\* A word is in two texts together when it is in one of them.
LEMMA InJoined ==
    ASSUME NEW S, NEW s \in Seq(S), NEW t \in Seq(S), NEW w
    PROVE  In(w, s \o t) <=> In(w, s) \/ In(w, t)
<1>1. PICK n \in Nat, m \in Nat : DOMAIN s = 1..n /\ DOMAIN t = 1..m /\ DOMAIN (s \o t) = 1..(n + m) /\ n = Len(s)
  OBVIOUS
<1>2. \A i \in 1..n : (s \o t)[i] = s[i] /\ i \in 1..(n + m)
  BY <1>1
<1>3. \A i \in 1..m : (s \o t)[n + i] = t[i] /\ n + i \in 1..(n + m)
  BY <1>1
<1>4. \A i \in 1..(n + m) : i \in 1..n \/ \E k \in 1..m : i = n + k
  <2>1. \A i \in 1..(n + m) : i \in 1..n \/ (i - n \in 1..m /\ i = n + (i - n))
    OBVIOUS
  <2> QED  BY Zenon, <2>1
<1>5. In(w, s) \/ In(w, t) => In(w, s \o t)
  BY Zenon, <1>1, <1>2, <1>3 DEF In
<1>6. ASSUME In(w, s \o t) PROVE In(w, s) \/ In(w, t)
  <2>1. PICK i \in 1..(n + m) : (s \o t)[i] = w
    BY Zenon, <1>1, <1>6 DEF In
  <2>2. CASE i \in 1..n
    BY Zenon, <1>1, <1>2, <2>1, <2>2 DEF In
  <2>3. CASE \E k \in 1..m : i = n + k
    BY Zenon, <1>1, <1>3, <2>1, <2>3 DEF In
  <2> QED  BY Zenon, <1>4, <2>2, <2>3
<1> QED  BY Zenon, <1>5, <1>6

\* What is in all the texts together, and how often.
LEMMA JoinedCounts ==
    ASSUME NEW L \in Nat, NEW S, NEW T \in [1..L -> Seq(S)], NEW w, NEW c,
           c = [n \in 1..L |-> Occurs(w, T[n])], NEW h, Sums(h, L, c)
    PROVE  /\ Joined(T) \in Seq(S) /\ Occurs(w, Joined(T)) = h[L]
           /\ In(w, Joined(T)) <=> \E n \in 1..L : In(w, T[n])
<1>1. PICK g \in [0..L -> Seq(S)] : /\ g[0] = <<>> /\ \A n \in 1..L : g[n] = g[n - 1] \o T[n]
                                  /\ Joined(T) = g[L]
  BY Zenon, JoinedIs
<1>0. h[0] = 0 /\ \A n \in 1..L : h[n] = h[n - 1] + c[n]
  BY Zenon DEF Sums
<1>2. L \in 0..L /\ 0 \in 0..L /\ \A n \in 1..L : n \in 0..L /\ n - 1 \in 0..L
  OBVIOUS
<1>3. \A n \in 1..L : g[n - 1] \in Seq(S) /\ T[n] \in Seq(S)
  BY Zenon, <1>2
<1>4. \A n \in 0..L : Occurs(w, g[n]) = h[n]
  <2>1. PICK P : P = {n \in 0..L : Occurs(w, g[n]) = h[n]}
    BY Zenon
  <2>2. 0 \in P
    <3>1. {i \in DOMAIN g[0] : g[0][i] = w} = {}
      BY <1>1
    <3>2. Occurs(w, g[0]) = 0
      BY Zenon, <3>1, FS_EmptySet DEF Occurs
    <3> QED  BY Zenon, <1>0, <1>2, <2>1, <3>2
  <2>3. ASSUME NEW n \in 1..L, n - 1 \in P PROVE n \in P
    <3>0. PICK a \in Seq(S), b \in Seq(S) : a = g[n - 1] /\ b = T[n]
      BY Zenon, <1>3
    <3>1. Occurs(w, a \o b) = Occurs(w, a) + Occurs(w, b)
      BY Zenon, OccursJoined
    <3>2. Occurs(w, g[n - 1]) = h[n - 1]
      BY Zenon, <2>1, <2>3
    <3>3. h[n] = h[n - 1] + Occurs(w, T[n])
      BY Zenon, <1>0
    <3>4. Occurs(w, g[n]) = h[n]
      BY Zenon, <1>1, <3>0, <3>1, <3>2, <3>3
    <3> QED  BY Zenon, <1>2, <2>1, <3>4
  <2>4. \A n \in 0..L : n \in P
    BY Zenon, <2>2, <2>3, UpTo
  <2> QED  BY Zenon, <2>1, <2>4
<1>5. \A n \in 0..L : In(w, g[n]) <=> \E i \in 1..n : In(w, T[i])
  <2>1. PICK P : P = {n \in 0..L : In(w, g[n]) <=> \E i \in 1..n : In(w, T[i])}
    BY Zenon
  <2>2. 0 \in P
    <3>1. DOMAIN g[0] = {} /\ 1..0 = {}
      BY <1>1
    <3>2. In(w, g[0]) <=> \E i \in 1..0 : In(w, T[i])
      BY Zenon, <3>1 DEF In
    <3> QED  BY Zenon, <1>2, <2>1, <3>2
  <2>3. ASSUME NEW n \in 1..L, n - 1 \in P PROVE n \in P
    <3>1. In(w, g[n - 1] \o T[n]) <=> In(w, g[n - 1]) \/ In(w, T[n])
      BY Zenon, <1>3, InJoined
    <3>2. In(w, g[n - 1]) <=> \E i \in 1..(n - 1) : In(w, T[i])
      BY Zenon, <2>1, <2>3
    <3>3. n \in 1..n /\ (\A i \in 1..n : i \in 1..(n - 1) \/ i = n) /\ \A i \in 1..(n - 1) : i \in 1..n
      OBVIOUS
    <3>4. In(w, g[n]) <=> \E i \in 1..n : In(w, T[i])
      BY Zenon, <1>1, <3>1, <3>2, <3>3
    <3> QED  BY Zenon, <1>2, <2>1, <3>4
  <2>4. \A n \in 0..L : n \in P
    BY Zenon, <2>2, <2>3, UpTo
  <2> QED  BY Zenon, <2>1, <2>4
<1> QED  BY Zenon, <1>1, <1>2, <1>4, <1>5

\* The words the mapper of a text counts (mapper lib.rs:93-108).
LEMMA CounterIs ==
    ASSUME NEW text
    PROVE  /\ \A w : w \in DOMAIN Counter(text) <=> In(w, text) /\ IsWord(w)
           /\ \A w \in DOMAIN Counter(text) : Counter(text)[w] = Occurs(w, text)
BY Zenon DEF Counter, In, Occurs

\* What it leaves for reducer r (mapper lib.rs:118-139).
LEMMA ShuffleIs ==
    ASSUME NEW text, NEW r, NEW R, NEW sh, sh = Shuffle(Counter(text), r, R)
    PROVE  /\ \A w : w \in DOMAIN sh <=> In(w, text) /\ IsWord(w) /\ getidx(w, R) = r
           /\ \A w \in DOMAIN sh : sh[w] = Occurs(w, text)
<1>1. PICK c : c = Counter(text)
  BY Zenon
<1>2. /\ \A w : w \in DOMAIN c <=> In(w, text) /\ IsWord(w)
      /\ \A w \in DOMAIN c : c[w] = Occurs(w, text)
  BY Zenon, <1>1, CounterIs
<1>3. sh = [w \in {v \in DOMAIN c : getidx(v, R) = r} |-> c[w]]
  BY Zenon, <1>1 DEF Shuffle
<1> QED  BY Zenon, <1>2, <1>3

\* Words are made of alphanumeric characters.
LEMMA WordIs ==
    ASSUME NEW w \in Seq(Nat \cup {Symbol}), IsWord(w)
    PROVE  w \in Seq(Nat)
<1>1. PICK n \in Nat : n = Len(w) /\ DOMAIN w = 1..n /\ w = [i \in 1..n |-> w[i]]
  OBVIOUS
<1>2. \A i \in 1..n : w[i] \in Nat
  <2>1. \A i \in 1..n : w[i] \in Nat \cup {Symbol}
    BY <1>1
  <2> QED  BY Zenon, <1>1, <2>1 DEF IsWord
<1>3. w \in [1..n -> Nat]
  BY Zenon, <1>1, <1>2
<1> QED  BY <1>3

\* Each word has a reducer, and reducer r adds up those that are its own.
Shared(all, T, M, R) ==
    /\ \A w \in DOMAIN all : getidx(w, R) \in 0..(R - 1)
    /\ \A r, ins : ins = [i \in 1..M |-> Shuffle(Counter(T[i]), r, R)] =>
          /\ \A w : w \in DOMAIN Reduce(ins) <=> w \in DOMAIN all /\ getidx(w, R) = r
          /\ \A w \in DOMAIN Reduce(ins) : Reduce(ins)[w] = all[w]

Texts == Seq(Seq(Nat \cup {Symbol}))
\* The mappers' shares, reduced, are the count of all the texts together.
LEMMA Counted ==
    ASSUME NEW M \in Nat, NEW R \in Nat \ {0}, NEW T \in [1..M -> Texts],
           NEW all, all = Counter(Joined(T))
    PROVE  Shared(all, T, M, R)
<1>1. PICK W : W = Seq(Nat \cup {Symbol})
  BY Zenon
<1>0. /\ \A w : w \in DOMAIN all <=> In(w, Joined(T)) /\ IsWord(w)
      /\ \A w \in DOMAIN all : all[w] = Occurs(w, Joined(T))
  BY Zenon, CounterIs
<1>2. T \in [1..M -> Seq(W)]
  BY Zenon, <1>1 DEF Texts
<1>3. ASSUME NEW w
      PROVE  /\ Joined(T) \in Seq(W)
             /\ In(w, Joined(T)) <=> \E n \in 1..M : In(w, T[n])
             /\ \A sh : Len(sh) = M /\ (\A n \in 1..M : Occurs(w, T[n]) = IF w \in DOMAIN sh[n] THEN sh[n][w] ELSE 0)
                         => Total(sh, w) = Occurs(w, Joined(T))
  <2>1. PICK c : c = [n \in 1..M |-> Occurs(w, T[n])]
    BY Zenon
  <2>2. \A n \in 1..M : Occurs(w, T[n]) \in Nat
    BY Zenon, <1>2, OccursIs
  <2>3. c \in [1..M -> Nat]
    BY Zenon, <2>1, <2>2
  <2>4. PICK step : step = [n \in 1..M |-> [v \in Nat |-> v + c[n]]]
    BY Zenon
  <2>5. step \in [1..M -> [Nat -> Nat]]
    BY <2>3, <2>4
  <2>6. PICK h : Iterate(h, M, Nat, 0, step)
    BY Zenon, <2>5, Iterates
  <2>7. Sums(h, M, c)
    <3>1. h \in [0..M -> Nat] /\ h[0] = 0 /\ \A n \in 1..M : h[n] = step[n][h[n - 1]]
      BY Zenon, <2>6 DEF Iterate
    <3>2. \A n \in 1..M : h[n - 1] \in Nat
      BY <3>1
    <3> QED  BY Zenon, <2>4, <3>1, <3>2 DEF Sums
  <2>8. /\ Joined(T) \in Seq(W) /\ Occurs(w, Joined(T)) = h[M]
        /\ In(w, Joined(T)) <=> \E n \in 1..M : In(w, T[n])
    BY Zenon, <1>2, <2>1, <2>7, JoinedCounts
  <2>9. ASSUME NEW sh, Len(sh) = M, \A n \in 1..M : Occurs(w, T[n]) = IF w \in DOMAIN sh[n] THEN sh[n][w] ELSE 0
        PROVE  Total(sh, w) = h[M]
    <3>1. \A n \in 1..M : c[n] = IF w \in DOMAIN sh[n] THEN sh[n][w] ELSE 0
      BY Zenon, <2>1, <2>9
    <3>2. Shares(c, M, sh, w)
      BY Zenon, <2>3, <2>9, <3>1 DEF Shares
    <3> QED  BY Zenon, <2>7, <3>2, TotalIs
  <2> QED  BY Zenon, <2>8, <2>9
<1>4. ASSUME NEW w \in DOMAIN all PROVE getidx(w, R) \in 0..(R - 1)
  <2>1. In(w, Joined(T)) /\ IsWord(w)
    BY Zenon, <1>0, <1>4
  <2>2. Joined(T) \in Seq(W)
    BY Zenon, <1>3
  <2>3. w \in W
    BY <2>1, <2>2 DEF In
  <2> QED  BY Zenon, <1>1, <2>1, <2>3, WordIs, IndexIs
<1>5. ASSUME NEW r, NEW ins, ins = [i \in 1..M |-> Shuffle(Counter(T[i]), r, R)]
      PROVE  /\ \A w : w \in DOMAIN Reduce(ins) <=> w \in DOMAIN all /\ getidx(w, R) = r
             /\ \A w \in DOMAIN Reduce(ins) : Reduce(ins)[w] = all[w]
  <2>1. Len(ins) = M /\ DOMAIN ins = 1..M
    BY <1>5
  <2>2. \A i \in 1..M : ins[i] = Shuffle(Counter(T[i]), r, R)
    BY Zenon, <1>5
  <2>3. ASSUME NEW i \in 1..M
        PROVE  /\ \A w : w \in DOMAIN ins[i] <=> In(w, T[i]) /\ IsWord(w) /\ getidx(w, R) = r
               /\ \A w \in DOMAIN ins[i] : ins[i][w] = Occurs(w, T[i])
    <3>1. PICK sh : sh = ins[i] /\ sh = Shuffle(Counter(T[i]), r, R)
      BY Zenon, <2>2
    <3>2. /\ \A w : w \in DOMAIN sh <=> In(w, T[i]) /\ IsWord(w) /\ getidx(w, R) = r
          /\ \A w \in DOMAIN sh : sh[w] = Occurs(w, T[i])
      BY <3>1, ShuffleIs
    <3> QED  BY Zenon, <3>1, <3>2
  <2>4. ASSUME NEW w
        PROVE  w \in DOMAIN Reduce(ins) <=> w \in DOMAIN all /\ getidx(w, R) = r
    <3>1. w \in DOMAIN Reduce(ins) <=> \E i \in 1..M : w \in DOMAIN ins[i]
      BY Zenon, <2>1 DEF Reduce
    <3>2. w \in DOMAIN all <=> In(w, Joined(T)) /\ IsWord(w)
      BY Zenon, <1>0
    <3> QED  BY Zenon, <1>3, <2>3, <3>1, <3>2
  <2>5. ASSUME NEW w \in DOMAIN Reduce(ins) PROVE Reduce(ins)[w] = all[w]
    <3>1. w \in DOMAIN all /\ getidx(w, R) = r /\ IsWord(w)
      BY Zenon, <1>0, <2>4, <2>5
    <3>2. all[w] = Occurs(w, Joined(T))
      BY Zenon, <1>0, <3>1
    <3>3. Reduce(ins)[w] = Total(ins, w)
      BY Zenon, <2>5 DEF Reduce
    <3>4. ASSUME NEW n \in 1..M PROVE Occurs(w, T[n]) = IF w \in DOMAIN ins[n] THEN ins[n][w] ELSE 0
      <4>1. CASE w \in DOMAIN ins[n]
        BY Zenon, <2>3, <4>1
      <4>2. CASE w \notin DOMAIN ins[n]
        <5>1. ~In(w, T[n])
          BY Zenon, <2>3, <3>1, <4>2
        <5>2. T[n] \in Seq(W) /\ w \notin {T[n][i] : i \in DOMAIN T[n]}
          BY Zenon, <1>2, <5>1 DEF In
        <5> QED  BY Zenon, <4>2, <5>2, OccursIs
      <4> QED  BY Zenon, <4>1, <4>2
    <3> QED  BY Zenon, <1>3, <2>1, <3>2, <3>3, <3>4
  <2> QED  BY Zenon, <2>4, <2>5
<1> QED  BY Zenon, <1>4, <1>5 DEF Shared

-----------------------------------------------------------------------------
(* The values of this run                                                   *)

\* A value of this run is as its writer makes it of what the writer has read.
Made(c) == c.run = run => \E u \in tasks : \E j \in 1..loc[u].filled : c = Cell(u, j)

GotMade == \A t \in tasks : \A i \in DOMAIN loc[t].got : Made(loc[t].got[i])
ImageMade == \A s \in DOMAIN image : \A k \in DOMAIN image[s] : Made(image[s][k])

\* A function that is done ended as what it read makes it end, and run() was
\* over when they were all done.
EndsOk(t) == rust_main(Ends(Fn(t), plan, FileOf(t), Ins(t))) = "ok"
Ended == \A t \in tasks : status[t] = "ok" => EndsOk(t)
Returned == outcome = "ok" => \A t \in tasks : status[t] = "ok"

MadeInv == input \in plan.inputs /\ GotMade /\ ImageMade /\ Ended /\ Returned

\* A step in a run: what functions wrote stays written, and a function that has
\* read its inputs reads no more.
Moves ==
    /\ UNCHANGED <<tasks, plan, input, run>>
    /\ \A u \in tasks : /\ \A j \in 1..loc[u].filled : j \in 1..loc'[u].filled
                        /\ Full(u) => loc'[u].got = loc[u].got

\* What such a step may get, leave on the image and end.
Follows ==
    /\ Moves
    /\ \A t \in tasks : \A i \in DOMAIN loc'[t].got :
          (i \in DOMAIN loc[t].got /\ loc'[t].got[i] = loc[t].got[i]) \/ Made(loc'[t].got[i])
    /\ \A s \in DOMAIN image' : \A k \in DOMAIN image'[s] :
          (s \in DOMAIN image /\ k \in DOMAIN image[s] /\ image'[s][k] = image[s][k]) \/ Made(image[s][k])'
    /\ \A t \in tasks : status'[t] = "ok" => status[t] = "ok" \/ (EndsOk(t) /\ Full(t))
    /\ Returned'

\* What was made stays made.
LEMMA MadeKept ==
    ASSUME IInv, Moves, NEW c, Made(c)
    PROVE  Made(c)'
<1> SUFFICES ASSUME c.run = run PROVE \E u \in tasks : \E j \in 1..loc'[u].filled : c = Cell(u, j)'
  BY Zenon DEF Made, Moves
<1>0. PICK u \in tasks : \E j \in 1..loc[u].filled : c = Cell(u, j)
  BY Zenon DEF Made
<1>1. PICK j \in 1..loc[u].filled : c = Cell(u, j)
  BY Zenon, <1>0
<1>2. Full(u)
  BY Zenon, FilledIs DEF IInv
<1>3. loc'[u].got = loc[u].got /\ j \in 1..loc'[u].filled /\ UNCHANGED <<plan, input>> /\ run' = run
  BY Zenon, <1>2 DEF Moves
<1>4. Cell(u, j)' = Cell(u, j)
  BY Zenon, <1>3, OutsSame
<1> QED  BY Zenon, <1>1, <1>3, <1>4

\* Such a step keeps the invariant.
LEMMA FollowsMade ==
    ASSUME IInv, MadeInv, Follows
    PROVE  MadeInv'
<1>1. Moves /\ UNCHANGED <<tasks, plan, input>>
  BY Zenon DEF Follows, Moves
<1>2. \A c : Made(c) => Made(c)'
  BY Zenon, <1>1, MadeKept
<1>3. GotMade'
  <2> SUFFICES ASSUME NEW t \in tasks, NEW i \in DOMAIN loc'[t].got PROVE Made(loc[t].got[i])'
    BY Zenon, <1>1 DEF GotMade
  <2>1. Made(loc'[t].got[i])
    BY Zenon DEF Follows, MadeInv, GotMade
  <2> QED  BY Zenon, <1>2, <2>1
<1>4. ImageMade'
  <2> SUFFICES ASSUME NEW s \in DOMAIN image', NEW k \in DOMAIN image'[s] PROVE Made(image[s][k])'
    BY Zenon DEF ImageMade
  <2>1. (s \in DOMAIN image /\ k \in DOMAIN image[s] /\ image'[s][k] = image[s][k]) \/ Made(image[s][k])'
    BY Zenon DEF Follows
  <2>2. CASE s \in DOMAIN image /\ k \in DOMAIN image[s] /\ image'[s][k] = image[s][k]
    <3>1. Made(image'[s][k])
      BY Zenon, <2>2 DEF MadeInv, ImageMade
    <3> QED  BY Zenon, <1>2, <3>1
  <2> QED  BY Zenon, <2>1, <2>2
<1>5. Ended'
  <2> SUFFICES ASSUME NEW t \in tasks, status'[t] = "ok" PROVE EndsOk(t)'
    BY Zenon, <1>1 DEF Ended
  <2>1. Full(t) /\ EndsOk(t)
    BY Zenon DEF Follows, MadeInv, Ended, IInv, Steps, Step
  <2>2. loc'[t].got = loc[t].got
    BY Zenon, <1>1, <2>1 DEF Moves
  <2>3. Fn(t)' = Fn(t) /\ FileOf(t)' = FileOf(t) /\ Ins(t)' = Ins(t)
    BY Zenon, <1>1, <2>2 DEF Fn, FileOf, Ins
  <2> QED  BY Zenon, <1>1, <2>1, <2>3 DEF EndsOk
<1> QED  BY Zenon, <1>1, <1>3, <1>4, <1>5 DEF MadeInv, Follows

\* A step that leaves what functions read and wrote alone.
LEMMA QuietFollows ==
    ASSUME UNCHANGED <<tasks, plan, input, image, loc, run>>,
           \A t \in tasks : status'[t] = "ok" => status[t] = "ok" \/ (EndsOk(t) /\ Full(t)),
           Returned'
    PROVE  Follows
BY Zenon DEF Follows, Moves

\* Nor does it end a function well.
LEMMA EndFollows ==
    ASSUME IInv, MadeInv, NEW t \in tasks, NEW o, Scheduler!End(t, o), o = "ok" => EndsOk(t) /\ Full(t),
           UNCHANGED <<plan, input, image, loc, run>>
    PROVE  Follows
<1>1. status[t] = "running" /\ status' = [status EXCEPT ![t] = o] /\ UNCHANGED <<tasks, outcome>>
  BY Zenon DEF Scheduler!End
<1>2. \A u \in tasks : status'[u] = IF u = t THEN o ELSE status[u]
  BY Zenon, <1>1 DEF IInv, Types
<1>3. outcome # "ok"
  BY Zenon, <1>1 DEF MadeInv, Returned
<1>4. Returned'
  BY Zenon, <1>1, <1>3 DEF Returned
<1>5. \A u \in tasks : status'[u] = "ok" => status[u] = "ok" \/ (EndsOk(u) /\ Full(u))
  BY Zenon, <1>2
<1> QED  BY Zenon, <1>1, <1>4, <1>5, QuietFollows

\* A function fails: an error or a panic (agent.rs, the functions' expect).
LEMMA FailFollows ==
    ASSUME IInv, MadeInv, NEW t \in tasks, Fail(t), UNCHANGED <<plan, input, image, run>>
    PROVE  Follows
<1>1. rust_main("panic") = "err"
  BY Zenon, EndsAs
<1>2. Scheduler!End(t, "err") /\ UNCHANGED loc
  BY Zenon, <1>1 DEF Fail
<1> QED  BY Zenon, <1>2, EndFollows

\* A function does something else than to read or to write.
LEMMA WorkFollows ==
    ASSUME IInv, MadeInv, NEW t \in tasks, UNCHANGED <<staged, plan, input, image, run>>,
           \A u \in tasks : /\ loc'[u].got = loc[u].got
                            /\ \A j \in 1..loc[u].filled : j \in 1..loc'[u].filled
    PROVE  Follows
<1>1. UNCHANGED <<tasks, status, outcome>>
  BY Zenon DEF staged
<1>2. Returned'
  BY Zenon, <1>1 DEF MadeInv, Returned
<1> QED  BY Zenon, <1>1, <1>2 DEF Follows, Moves

\* What changing fields of one function's state leaves alone.
LEMMA WorkIs ==
    ASSUME Types, NEW t \in tasks, NEW taken, NEW made \in Nat, NEW inserted \in Nat, NEW filled \in Nat,
           IsSeq(taken), Becomes(t, taken, loc[t].got, made, inserted, filled), loc[t].filled <= filled
    PROVE  \A u \in tasks : /\ loc'[u].got = loc[u].got
                            /\ \A j \in 1..loc[u].filled : j \in 1..loc'[u].filled
<1>1. IsSeq(loc[t].got)
  BY Zenon, LocRecord
<1>2. loc'[t].got = loc[t].got /\ loc'[t].filled = filled /\ \A u \in tasks \ {t} : loc'[u] = loc[u]
  BY Zenon, <1>1, BecomesIs
<1>3. \A j \in 1..loc[t].filled : j \in 1..filled
  BY LocIs
<1> QED  BY Zenon, <1>2, <1>3

\* access_buffer takes the buffer out of the register (agent.rs, faas_buffer).
LEMMA AccessFollows ==
    ASSUME IInv, MadeInv, NEW t \in tasks, Access(t), UNCHANGED plan
    PROVE  Follows
<1>1. PICK e : e = register[NextIn(t)]
  BY Zenon
<1>2. UNCHANGED <<input, image, run>>
  BY Zenon DEF Access
<1>3. CASE Fail(t)
  BY Zenon, <1>2, <1>3, FailFollows
<1>4. CASE loc' = [loc EXCEPT ![t].taken = Append(@, e.addr)] /\ UNCHANGED staged
  <2>0. Types
    BY Zenon DEF IInv
  <2>1. PICK tk : tk = Append(loc[t].taken, e.addr)
    BY Zenon
  <2>2. IsSeq(tk)
    <3>1. PICK S : loc[t].taken \in Seq(S)
      BY Zenon, <2>0, LocRecord DEF IsSeq
    <3>2. tk \in Seq(S \cup {e.addr})
      BY <2>1, <3>1
    <3> QED  BY Zenon, <3>2 DEF IsSeq
  <2>3. loc' = [loc EXCEPT ![t] = [loc[t] EXCEPT !.taken = tk]]
    BY Zenon, <1>4, <2>0, <2>1 DEF Types
  <2>4. Becomes(t, tk, loc[t].got, loc[t].made, loc[t].inserted, loc[t].filled)
    <3>1. [loc[t] EXCEPT !.taken = tk] =
             [taken |-> tk, got |-> loc[t].got, made |-> loc[t].made,
              inserted |-> loc[t].inserted, filled |-> loc[t].filled]
      BY Zenon, <2>0, LocRecord
    <3> QED  BY Zenon, <2>3, <3>1 DEF Becomes
  <2>5. \A u \in tasks : loc'[u].got = loc[u].got /\ \A j \in 1..loc[u].filled : j \in 1..loc'[u].filled
    <3>1. loc[t].made \in Nat /\ loc[t].inserted \in Nat /\ loc[t].filled \in Nat
      BY Zenon, <2>0, LocIs
    <3>2. loc[t].filled <= loc[t].filled
      BY <3>1
    <3> QED  BY Zenon, <2>0, <2>2, <2>4, <3>1, <3>2, WorkIs
  <2> QED  BY Zenon, <1>2, <1>4, <2>5, WorkFollows
<1> QED  BY Zenon, <1>1, <1>3, <1>4 DEF Access

\* buffer_alloc makes a buffer (faas_buffer).
LEMMA AllocFollows ==
    ASSUME IInv, MadeInv, NEW t \in tasks, Alloc(t), UNCHANGED plan
    PROVE  Follows
<1>2. UNCHANGED <<input, image, run>>
  BY Zenon DEF Alloc
<1>3. CASE Fail(t)
  BY <1>2, <1>3, FailFollows
<1>4. CASE loc' = [loc EXCEPT ![t].made = @ + 1] /\ UNCHANGED staged
  <2>0. Types
    BY DEF IInv
  <2>1. PICK m \in Nat : m = loc[t].made + 1
    BY <2>0, LocIs
  <2>2. IsSeq(loc[t].taken)
    BY Zenon, <2>0, LocRecord
  <2>3. loc' = [loc EXCEPT ![t] = [loc[t] EXCEPT !.made = m]]
    BY Zenon, <1>4, <2>0, <2>1 DEF Types
  <2>4. Becomes(t, loc[t].taken, loc[t].got, m, loc[t].inserted, loc[t].filled)
    BY Zenon, <2>0, <2>3, LocRecord DEF Becomes
  <2>5. \A u \in tasks : loc'[u].got = loc[u].got /\ \A j \in 1..loc[u].filled : j \in 1..loc'[u].filled
    <3>1. loc[t].made \in Nat /\ loc[t].inserted \in Nat /\ loc[t].filled \in Nat
      BY Zenon, <2>0, LocIs
    <3>2. loc[t].filled <= loc[t].filled
      BY <3>1
    <3> QED  BY Zenon, <2>0, <2>2, <2>4, <3>1, <3>2, WorkIs
  <2> QED  BY Zenon, <1>2, <1>4, <2>5, WorkFollows
<1> QED  BY Zenon, <1>3, <1>4 DEF Alloc

\* The buffer goes into the register under its slot (faas_buffer).
LEMMA InsertFollows ==
    ASSUME IInv, MadeInv, NEW t \in tasks, Insert(t), UNCHANGED plan
    PROVE  Follows
<1>0. Types
  BY DEF IInv
<1>1. PICK i \in Nat : i = loc[t].inserted + 1
  BY <1>0, LocIs
<1>2. loc' = [loc EXCEPT ![t].inserted = i] /\ UNCHANGED <<staged, input, image, run>>
  BY Zenon, <1>1 DEF Insert
<1>3. loc' = [loc EXCEPT ![t] = [loc[t] EXCEPT !.inserted = i]]
  BY Zenon, <1>0, <1>2 DEF Types
<1>4. Becomes(t, loc[t].taken, loc[t].got, loc[t].made, i, loc[t].filled) /\ IsSeq(loc[t].taken)
  BY Zenon, <1>0, <1>3, LocRecord DEF Becomes
<1>5. \A u \in tasks : loc'[u].got = loc[u].got /\ \A j \in 1..loc[u].filled : j \in 1..loc'[u].filled
  BY <1>0, <1>4, LocIs, WorkIs
<1> QED  BY Zenon, <1>2, <1>5, WorkFollows

\* The function fills the buffer it made: one more value is written.
LEMMA FillFollows ==
    ASSUME IInv, MadeInv, NEW t \in tasks, Fill(t), UNCHANGED plan
    PROVE  Follows
<1>0. Types
  BY DEF IInv
<1>1. PICK i \in Nat : i = loc[t].filled + 1 /\ loc[t].filled <= i
  BY <1>0, LocIs
<1>2. loc' = [loc EXCEPT ![t].filled = i] /\ UNCHANGED <<staged, input, image, run>>
  BY Zenon, <1>1 DEF Fill
<1>3. loc' = [loc EXCEPT ![t] = [loc[t] EXCEPT !.filled = i]]
  BY Zenon, <1>0, <1>2 DEF Types
<1>4. Becomes(t, loc[t].taken, loc[t].got, loc[t].made, loc[t].inserted, i) /\ IsSeq(loc[t].taken)
  BY Zenon, <1>0, <1>3, LocRecord DEF Becomes
<1>5. \A u \in tasks : loc'[u].got = loc[u].got /\ \A j \in 1..loc[u].filled : j \in 1..loc'[u].filled
  BY Zenon, <1>0, <1>1, <1>4, LocIs, WorkIs
<1> QED  BY Zenon, <1>2, <1>5, WorkFollows

\* A function gets a value, its n-th.
Gets(t, c, n) ==
    /\ UNCHANGED <<staged, plan, input, image, run>> /\ ~Full(t)
    /\ loc'[t].filled = loc[t].filled /\ \A u \in tasks \ {t} : loc'[u] = loc[u]
    /\ DOMAIN loc'[t].got = 1..n /\ DOMAIN loc[t].got = 1..(n - 1)
    /\ \A i \in 1..(n - 1) : loc'[t].got[i] = loc[t].got[i]
    /\ loc'[t].got[n] = c

\* The value it gets is as its writer made it.
LEMMA ReadFollows ==
    ASSUME IInv, MadeInv, NEW t \in tasks, NEW c, NEW n \in Nat, Gets(t, c, n), Made(c)
    PROVE  Follows
<1> USE DEF Gets
<1>1. UNCHANGED <<tasks, status, outcome>>
  BY Zenon DEF staged
<1>2. Returned'
  BY Zenon, <1>1 DEF MadeInv, Returned
<1>3. \A i \in 1..n : i \in 1..(n - 1) \/ i = n
  OBVIOUS
<1>4. ASSUME NEW u \in tasks, NEW i \in DOMAIN loc'[u].got
      PROVE  (i \in DOMAIN loc[u].got /\ loc'[u].got[i] = loc[u].got[i]) \/ Made(loc'[u].got[i])
  <2>1. CASE u = t
    BY Zenon, <1>3, <2>1
  <2>2. CASE u # t
    BY Zenon, <2>2
  <2> QED  BY Zenon, <2>1, <2>2
<1>5. Moves
  BY Zenon, <1>1 DEF Moves
<1> QED  BY Zenon, <1>1, <1>2, <1>4, <1>5 DEF Follows

\* It reads through a buffer, which its writer has filled.
LEMMA ReadInFollows ==
    ASSUME IInv, IInv', MadeInv, NEW t \in tasks, ReadIn(t), UNCHANGED plan
    PROVE  Follows
<1>0. Types /\ Steps /\ Got /\ Ref
  BY Zenon DEF IInv
<1>1. PICK n \in Nat : n = Len(loc[t].got)
  BY Zenon, <1>0, LocIs
<1>2. PICK c : c = heap[loc[t].taken[n + 1]]
  BY Zenon
<1>3. /\ n < Len(loc[t].taken) /\ loc' = [loc EXCEPT ![t].got = Append(@, c)]
      /\ UNCHANGED <<staged, input, heap, image, run>>
  BY Zenon, <1>1, <1>2 DEF ReadIn
<1>4. PICK gt : gt = Append(loc[t].got, c)
  BY Zenon
<1>5. IsSeq(gt) /\ (\A i \in 1..n : gt[i] = loc[t].got[i]) /\ gt[n + 1] = c
      /\ DOMAIN gt = 1..(n + 1) /\ DOMAIN loc[t].got = 1..n
  <2>1. PICK S : loc[t].got \in Seq(S)
    BY Zenon, <1>0, LocRecord DEF IsSeq
  <2>2. gt \in Seq(S \cup {c})
    BY <1>4, <2>1
  <2> QED  BY <1>1, <1>4, <2>1, <2>2 DEF IsSeq
<1>6. Becomes(t, loc[t].taken, gt, loc[t].made, loc[t].inserted, loc[t].filled)
  <2>1. loc' = [loc EXCEPT ![t] = [loc[t] EXCEPT !.got = gt]]
    BY Zenon, <1>0, <1>3, <1>4 DEF Types
  <2> QED  BY Zenon, <1>0, <2>1, LocRecord DEF Becomes
<1>7. loc'[t].got = gt /\ loc'[t].filled = loc[t].filled /\ \A u \in tasks \ {t} : loc'[u] = loc[u]
  <2>0. Types /\ IsSeq(gt)
    BY Zenon, <1>0, <1>5
  <2>1. loc[t].made \in Nat /\ loc[t].inserted \in Nat /\ loc[t].filled \in Nat
    BY Zenon, <2>0, LocIs
  <2>2. IsSeq(loc[t].taken)
    BY Zenon, <2>0, LocRecord
  <2> QED  BY <1>6, <2>0, <2>1, <2>2, BecomesIs
<1>8. ~plan.fileBased /\ ~Full(t) /\ n + 1 \in DOMAIN loc[t].taken
  <2>1. Step(t) /\ Len(loc[t].taken) \in Nat /\ Len(InSlots(t)) \in Nat /\ DOMAIN loc[t].taken = 1..Len(loc[t].taken)
    BY Zenon, <1>0, LocIs, PlanIs DEF Steps
  <2>2. ~plan.fileBased /\ n < Len(InSlots(t)) /\ n + 1 \in DOMAIN loc[t].taken
    BY <1>1, <1>3, <2>1 DEF Step
  <2> QED  BY <1>1, <2>2 DEF Full
<1>9. c # Uninit
  <2>1. n + 1 \in 1..(n + 1) /\ t \in tasks'
    BY <1>3 DEF staged
  <2>2. Written(loc[t].got[n + 1], InSlots(t)[n + 1])'
    BY Zenon, <1>5, <1>7, <2>1 DEF IInv, Got
  <2> QED  BY Zenon, <1>5, <1>7, <2>2 DEF Written
<1>10. PICK u \in tasks : \E j \in 1..loc[u].inserted : loc[t].taken[n + 1] = <<u, j>>
  BY Zenon, <1>0, <1>8 DEF Ref, Taken, Entered
<1>11. PICK j \in 1..loc[u].inserted : loc[t].taken[n + 1] = <<u, j>>
  BY Zenon, <1>10
<1>12. j \in 1..loc[u].made
  BY Zenon, <1>0, EnteredIs
<1>13. c = IF j <= loc[u].filled THEN Cell(u, j) ELSE Uninit
  BY Zenon, <1>0, <1>2, <1>8, <1>11, <1>12 DEF Ref, Heap
<1>14. j \in 1..loc[u].filled /\ c = Cell(u, j)
  <2>1. loc[u].filled \in Nat /\ loc[u].made \in Nat
    BY Zenon, <1>0, LocIs
  <2> QED  BY <1>9, <1>12, <1>13, <2>1
<1>15. Made(c)
  BY Zenon, <1>14 DEF Made
<1>16. PICK k \in Nat : k = n + 1 /\ k - 1 = n
  OBVIOUS
<1>17. Gets(t, c, k)
  BY Zenon, <1>3, <1>5, <1>7, <1>8, <1>16 DEF Gets
<1> QED  BY Zenon, <1>15, <1>17, ReadFollows

\* It reads a file: the first byte is of the value it gets.
LEMMA ReadFileFollows ==
    ASSUME IInv, MadeInv, NEW t \in tasks, ReadFile(t), UNCHANGED plan
    PROVE  Follows
<1>0. Types /\ Steps /\ Got /\ Image
  BY Zenon DEF IInv
<1>1. PICK s : s = NextIn(t)
  BY Zenon
<1>2. PICK c : c = image[s][1]
  BY Zenon
<1>3. plan.fileBased /\ Asks(t) /\ s \in DOMAIN image /\ UNCHANGED <<input, register, heap, image, run>>
  BY Zenon, <1>1 DEF ReadFile
<1>4. CASE Fail(t)
  BY Zenon, <1>3, <1>4, FailFollows
<1>5. CASE UNCHANGED staged /\ loc' = [loc EXCEPT ![t].taken = Append(@, 0), ![t].got = Append(@, c)]
  <2>1. PICK n \in Nat : n = Len(loc[t].got)
    BY Zenon, <1>0, LocIs
  <2>2. n < Len(InSlots(t))
    BY Zenon, <1>3, <2>1 DEF Asks
  <2>3. PICK tk : tk = Append(loc[t].taken, 0)
    BY Zenon
  <2>4. PICK gt : gt = Append(loc[t].got, c)
    BY Zenon
  <2>5. IsSeq(gt) /\ (\A i \in 1..n : gt[i] = loc[t].got[i]) /\ gt[n + 1] = c
        /\ DOMAIN gt = 1..(n + 1) /\ DOMAIN loc[t].got = 1..n
    <3>1. PICK S : loc[t].got \in Seq(S)
      BY Zenon, <1>0, LocRecord DEF IsSeq
    <3>2. gt \in Seq(S \cup {c})
      BY <2>4, <3>1
    <3> QED  BY <2>1, <2>4, <3>1, <3>2 DEF IsSeq
  <2>6. IsSeq(tk)
    <3>1. PICK S : loc[t].taken \in Seq(S)
      BY Zenon, <1>0, LocRecord DEF IsSeq
    <3>2. tk \in Seq(S \cup {0})
      BY <2>3, <3>1
    <3> QED  BY Zenon, <3>2 DEF IsSeq
  <2>7. Becomes(t, tk, gt, loc[t].made, loc[t].inserted, loc[t].filled)
    <3>1. loc' = [loc EXCEPT ![t] = [loc[t] EXCEPT !.taken = tk, !.got = gt]]
      BY Zenon, <1>0, <1>5, <2>3, <2>4 DEF Types
    <3>2. \A y : [loc[t] EXCEPT !.taken = tk, !.got = y] =
                    [taken |-> tk, got |-> y, made |-> loc[t].made,
                     inserted |-> loc[t].inserted, filled |-> loc[t].filled]
      BY Zenon, <1>0, LocRecord
    <3> QED  BY Zenon, <3>1, <3>2 DEF Becomes
  <2>8. loc'[t].got = gt /\ loc'[t].filled = loc[t].filled /\ \A u \in tasks \ {t} : loc'[u] = loc[u]
    <3>0. Types /\ IsSeq(gt)
      BY Zenon, <1>0, <2>5
    <3>1. loc[t].made \in Nat /\ loc[t].inserted \in Nat /\ loc[t].filled \in Nat
      BY Zenon, <3>0, LocIs
    <3> QED  BY <2>6, <2>7, <3>0, <3>1, BecomesIs
  <2>9. ~Full(t)
    BY <2>1, <2>2 DEF Full
  <2>10. 1 \in DOMAIN image[s]
    <3>1. IsSeq(image[s]) /\ image[s] # <<>>
      BY Zenon, <1>0, <1>3 DEF Image
    <3> QED  BY <3>1 DEF IsSeq
  <2>11. Made(c)
    BY Zenon, <1>2, <1>3, <2>10 DEF MadeInv, ImageMade
  <2>12. PICK k \in Nat : k = n + 1 /\ k - 1 = n
    OBVIOUS
  <2>13. Gets(t, c, k)
    BY Zenon, <1>3, <1>5, <2>5, <2>8, <2>9, <2>12 DEF Gets
  <2> QED  BY Zenon, <2>11, <2>13, ReadFollows
<1> QED  BY Zenon, <1>1, <1>2, <1>4, <1>5 DEF ReadFile

\* It writes a file: the bytes behind the value are those that were there.
LEMMA WriteFileFollows ==
    ASSUME IInv, MadeInv, NEW t \in tasks, WriteFile(t), UNCHANGED plan
    PROVE  Follows
<1>0. Types /\ Image
  BY Zenon DEF IInv
<1>1. PICK i \in Nat : i = loc[t].filled + 1 /\ loc[t].filled <= i /\ i \in 1..i
  BY <1>0, LocIs
<1>2. PICK s : s = Outs(t)[i].slot
  BY Zenon
<1>3. PICK c : c = Cell(t, i)
  BY Zenon
<1>4. PICK z : z = Size(c)
  BY Zenon
<1>5. PICK old : old = IF s \in DOMAIN image THEN image[s] ELSE <<>>
  BY Zenon
<1>6. PICK b : b = Bytes(c) \o SubSeq(old, Len(Bytes(c)) + 1, Len(old))
  BY Zenon
<1>7. /\ plan.fileBased /\ z \in 1..MaxFile /\ loc' = [loc EXCEPT ![t].filled = i]
      /\ UNCHANGED <<staged, input, run>>
  BY Zenon, <1>1, <1>3, <1>4 DEF WriteFile
<1>8. image' = With(image, s, b)
  BY Zenon, <1>1, <1>2, <1>3, <1>5, <1>6 DEF WriteFile
<1>9. loc' = [loc EXCEPT ![t] = [loc[t] EXCEPT !.filled = i]]
  BY Zenon, <1>0, <1>7 DEF Types
<1>10. Becomes(t, loc[t].taken, loc[t].got, loc[t].made, loc[t].inserted, i) /\ IsSeq(loc[t].taken) /\ IsSeq(loc[t].got)
  BY Zenon, <1>0, <1>9, LocRecord DEF Becomes
<1>11. \A u \in tasks : loc'[u].got = loc[u].got /\ \A j \in 1..loc[u].filled : j \in 1..loc'[u].filled
  BY Zenon, <1>0, <1>1, <1>10, LocIs, WorkIs
<1>12. loc'[t].filled = i
  <2>1. loc[t].made \in Nat /\ loc[t].inserted \in Nat
    BY Zenon, <1>0, LocIs
  <2> QED  BY <1>0, <1>10, <2>1, BecomesIs
<1>13. \A k \in DOMAIN b : b[k] = c \/ (k \in DOMAIN old /\ b[k] = old[k])
  <2>1. IsSeq(old)
    BY <1>0, <1>5, <1>7 DEF Image, IsSeq
  <2>2. z \in Nat /\ z > 0
    BY <1>7, DataBufferAssumption
  <2>3. Bytes(c) = [k \in 1..z |-> c]
    BY Zenon, <1>4 DEF Bytes
  <2>4. Overwritten(b, old, c, z)
    BY Zenon, <1>6, <2>3 DEF Overwritten
  <2>5. Starts(b, old, c, z)
    BY Zenon, <2>1, <2>2, <2>4, Overwrite
  <2>6. \A k \in 1..Len(b) : k \in 1..z \/ k \in (z + 1)..Len(b)
    BY <2>2, <2>5 DEF Starts
  <2> QED  BY Zenon, <2>5, <2>6 DEF Starts
<1>14. Cell(t, i)' = Cell(t, i)
  BY Zenon, <1>7, <1>11, OutsSame
<1>15. UNCHANGED <<tasks, status, outcome>>
  BY Zenon, <1>7 DEF staged
<1>16. ASSUME NEW r \in DOMAIN image', NEW k \in DOMAIN image'[r]
       PROVE  (r \in DOMAIN image /\ k \in DOMAIN image[r] /\ image'[r][k] = image[r][k]) \/ Made(image[r][k])'
  <2>1. CASE r # s
    BY Zenon, <1>8, <2>1 DEF With
  <2>2. CASE r = s
    <3>1. image'[r] = b
      BY Zenon, <1>8, <2>2 DEF With
    <3>2. CASE image'[r][k] = c
      <4>1. i \in 1..loc'[t].filled /\ t \in tasks' /\ image'[r][k] = Cell(t, i)'
        BY Zenon, <1>1, <1>3, <1>12, <1>14, <1>15, <3>2
      <4> QED  BY Zenon, <4>1 DEF Made
    <3>3. CASE k \in DOMAIN old /\ b[k] = old[k]
      <4>1. s \in DOMAIN image
        BY <1>5, <3>3
      <4> QED  BY Zenon, <1>5, <2>2, <3>1, <3>3, <4>1
    <3> QED  BY Zenon, <1>13, <3>1, <3>2, <3>3
  <2> QED  BY Zenon, <2>1, <2>2
<1>17. Returned'
  BY Zenon, <1>15 DEF MadeInv, Returned
<1>18. Moves
  BY Zenon, <1>7, <1>11, <1>15 DEF Moves
<1> QED  BY Zenon, <1>11, <1>15, <1>16, <1>17, <1>18 DEF Follows

\* A function returns: with Ok when what it read makes it so.
LEMMA EndsFollow ==
    ASSUME IInv, MadeInv, NEW t \in tasks, End(t) \/ NoInput(t), UNCHANGED plan
    PROVE  Follows
<1>1. CASE End(t)
  <2>1. PICK o : o = rust_main(Ends(Fn(t), plan, FileOf(t), Ins(t)))
    BY Zenon
  <2>2. Scheduler!End(t, o) /\ Full(t) /\ UNCHANGED <<input, image, loc, run>>
    BY Zenon, <1>1, <2>1 DEF End, Knows, Full
  <2>3. o = "ok" => EndsOk(t) /\ Full(t)
    BY Zenon, <2>1, <2>2 DEF EndsOk
  <2> QED  BY Zenon, <2>2, <2>3, EndFollows
<1>2. CASE NoInput(t)
  <2>1. OnNone(Fn(t)) = "err"
    BY Zenon, EndsAs
  <2>2. Scheduler!End(t, "err") /\ UNCHANGED <<input, image, loc, run>>
    BY Zenon, <1>2, <2>1 DEF NoInput
  <2> QED  BY Zenon, <2>2, EndFollows
<1> QED  BY Zenon, <1>1, <1>2

\* run() starts a function.
LEMMA BeginFollows ==
    ASSUME IInv, MadeInv, NEW t \in tasks, Begin(t), UNCHANGED plan
    PROVE  Follows
<1>1. /\ status' = [status EXCEPT ![t] = "running"] /\ outcome = "none" /\ UNCHANGED outcome
      /\ UNCHANGED <<tasks, plan, input, image, loc, run>>
  BY Zenon DEF Begin, Scheduler!Begin
<1>2. \A u \in tasks : status'[u] = IF u = t THEN "running" ELSE status[u]
  BY Zenon, <1>1 DEF IInv, Types
<1>3. \A u \in tasks : status'[u] = "ok" => status[u] = "ok" \/ (EndsOk(u) /\ Full(u))
  BY Zenon, <1>2
<1>4. Returned'
  BY Zenon, <1>1 DEF Returned
<1> QED  BY Zenon, <1>1, <1>3, <1>4, QuietFollows

\* run() returns Ok when every function did (isolation/mod.rs).
LEMMA ReturnFollows ==
    ASSUME MadeInv, UNCHANGED plan, (\E o \in {"ok", "err", "panicked"} : Return(o)) \/ UNCHANGED vars
    PROVE  Follows
<1>1. CASE \E o \in {"ok", "err", "panicked"} : Return(o)
  <2>1. PICK o : Return(o)
    BY Zenon, <1>1
  <2>2. /\ o = "ok" => \A t \in tasks : status[t] = "ok"
        /\ outcome' = o /\ UNCHANGED <<tasks, status, plan, input, image, loc, run>>
    BY Zenon, <2>1 DEF Return, Scheduler!Return
  <2>3. Returned'
    BY Zenon, <2>2 DEF Returned
  <2> QED  BY Zenon, <2>2, <2>3, QuietFollows
<1>2. CASE UNCHANGED vars
  <2>1. UNCHANGED <<tasks, status, outcome, plan, input, image, loc, run>>
    BY Zenon, <1>2 DEF vars, staged
  <2>2. Returned'
    BY Zenon, <2>1 DEF MadeInv, Returned
  <2> QED  BY Zenon, <2>1, <2>2, QuietFollows
<1> QED  BY Zenon, <1>1, <1>2

\* A new run: nothing on the image is of it.
LEMMA AgainMade ==
    ASSUME IInv, MadeInv, Again, UNCHANGED plan
    PROVE  MadeInv'
<1>1. /\ loc' = [t \in tasks |-> Fresh] /\ status' = [t \in tasks |-> "idle"] /\ UNCHANGED <<tasks, image, plan>>
      /\ run' = run + 1 /\ plan.fileBased /\ input' \in plan.inputs /\ outcome' = "none"
  BY Zenon DEF Again
<1>2. \A t \in tasks : DOMAIN loc'[t].got = {} /\ status'[t] # "ok"
  BY <1>1 DEF Fresh
<1>3. GotMade' /\ Ended' /\ Returned'
  BY Zenon, <1>1, <1>2 DEF GotMade, Ended, Returned
<1>4. ImageMade'
  <2> SUFFICES ASSUME NEW s \in DOMAIN image, NEW k \in DOMAIN image[s], image[s][k].run = run' PROVE FALSE
    BY Zenon, <1>1 DEF ImageMade, Made
  <2>1. Byte(image[s][k], s)
    BY Zenon, <1>1 DEF IInv, Image
  <2>2. image[s][k].run \in Nat /\ image[s][k].run <= run /\ run \in Nat
    BY Zenon, <2>1 DEF Byte, IInv, Types
  <2> QED  BY <1>1, <2>2
<1> QED  BY Zenon, <1>1, <1>3, <1>4 DEF MadeInv

\* At first nothing is written.
LEMMA InitMade == Init => MadeInv
<1> SUFFICES ASSUME Init PROVE MadeInv
  BY Zenon
<1>1. loc = [t \in tasks |-> Fresh] /\ status = [t \in tasks |-> "idle"] /\ image = <<>> /\ outcome = "none"
      /\ input \in plan.inputs
  BY Zenon DEF Init, Scheduler!Init
<1>2. \A t \in tasks : DOMAIN loc[t].got = {} /\ status[t] # "ok"
  BY <1>1 DEF Fresh
<1> QED  BY <1>1, <1>2 DEF MadeInv, GotMade, ImageMade, Ended, Returned

\* Each step of the functions and of run() keeps the invariant.
LEMMA MadeInductive == IInv /\ IInv' /\ MadeInv /\ [Next]_vars => MadeInv'
<1> SUFFICES ASSUME IInv, IInv', MadeInv, [Next]_vars PROVE MadeInv'
  BY Zenon
<1>1. UNCHANGED plan
  BY Zenon DEF Next, vars
<1>2. CASE Again
  BY Zenon, <1>1, <1>2, AgainMade
<1>3. ASSUME NEW t \in tasks,
             \/ Begin(t) \/ Access(t) \/ ReadIn(t) \/ Alloc(t) \/ Insert(t) \/ Fill(t)
             \/ ReadFile(t) \/ WriteFile(t) \/ NoInput(t) \/ End(t)
      PROVE  Follows
  <2>1. CASE Begin(t)      BY Zenon, <1>1, <2>1, BeginFollows
  <2>2. CASE Access(t)     BY <1>1, <2>2, AccessFollows
  <2>3. CASE ReadIn(t)     BY Zenon, <1>1, <2>3, ReadInFollows
  <2>4. CASE Alloc(t)      BY <1>1, <2>4, AllocFollows
  <2>5. CASE Insert(t)     BY <1>1, <2>5, InsertFollows
  <2>6. CASE Fill(t)       BY <1>1, <2>6, FillFollows
  <2>7. CASE ReadFile(t)   BY <1>1, <2>7, ReadFileFollows
  <2>8. CASE WriteFile(t)  BY <1>1, <2>8, WriteFileFollows
  <2>9. CASE NoInput(t) \/ End(t)  BY Zenon, <1>1, <2>9, EndsFollow
  <2> QED  BY Zenon, <1>3, <2>1, <2>2, <2>3, <2>4, <2>5, <2>6, <2>7, <2>8, <2>9
<1>4. CASE (\E o \in {"ok", "err", "panicked"} : Return(o)) \/ UNCHANGED vars
  BY Zenon, <1>1, <1>4, ReturnFollows, FollowsMade
<1>5. CASE Follows
  BY Zenon, <1>5, FollowsMade
<1> QED  BY Zenon, <1>2, <1>3, <1>4, <1>5 DEF Next

\* The values of a run are those that its functions make.
LEMMA MadeInvariance == Spec => []MadeInv
BY InitMade, MadeInductive, Invariance, PTL DEF Spec

-----------------------------------------------------------------------------
(* The count                                                                *)

\* A mapper that is done has written a share for each reducer.
LEMMA MapperIs ==
    ASSUME IInv, MadeInv, NEW u \in tasks, Fn(u).name = "mapper", status[u] = "ok", NEW R \in Nat, R = plan.reducers
    PROVE  /\ input[Fn(u).file].exists /\ loc[u].filled = R
           /\ \A r \in 1..R : /\ Outs(u)[r].slot = <<"shuffle", Fn(u).id, r - 1>>
                              /\ Outs(u)[r].val = Shuffle(Counter(input[Fn(u).file].text), r - 1, R)
<1>1. rust_main(Ends(Fn(u), plan, FileOf(u), Ins(u))) = "ok"
  BY Zenon DEF MadeInv, Ended, EndsOk
<1>2. FileOf(u).exists
  BY Zenon, <1>1 DEF rust_main, Ends
<1>3. FileOf(u) = input[Fn(u).file]
  BY Zenon, <1>2 DEF FileOf
<1>4. PICK text : text = input[Fn(u).file].text
  BY Zenon
<1>5. Outs(u) = mapper_func(Fn(u), plan, text)
  BY Zenon, <1>2, <1>3, <1>4 DEF Outs, Outputs
<1>6. Outs(u) = [r \in 1..R |-> Out(Slot("shuffle", Fn(u).id, r - 1), "HashMap", Shuffle(Counter(text), r - 1, R))]
  BY Zenon, <1>5 DEF mapper_func
<1>7. loc[u].filled = Len(Outs(u))
  BY Zenon DEF IInv, Steps, Step
<1>8. Len(Outs(u)) = R
  BY <1>6
<1>9. \A r \in 1..R : Outs(u)[r].slot = <<"shuffle", Fn(u).id, r - 1>> /\ Outs(u)[r].val = Shuffle(Counter(text), r - 1, R)
  BY <1>6 DEF Out, Slot
<1> QED  BY Zenon, <1>2, <1>3, <1>4, <1>7, <1>8, <1>9

\* What CountAssumption says of the workflow that runs.
LEMMA CountIs ==
    ASSUME IInv, MadeInv, plan.app = "wordcount", NEW R, R = plan.reducers
    PROVE  /\ plan.mappers \in Nat /\ R \in Nat \ {0}
           /\ \A t \in tasks : Fn(t).name # "reducer" =>
                 /\ Fn(t).name = "mapper" /\ Fn(t).file = Fn(t).id
                 /\ input[Fn(t).file].exists => input[Fn(t).file].text \in Seq(Seq(Nat \cup {Symbol}))
           /\ \A t \in Of("reducer") : Fn(t).id \in 0..(R - 1)
           /\ \A r \in 0..(R - 1) : \E t \in Of("reducer") : Fn(t).id = r
           /\ \A t, u \in Of("reducer") : Fn(t).id = Fn(u).id => t = u
<1>1. plan \in Plans /\ tasks = DOMAIN plan.fn /\ input \in plan.inputs
  BY Zenon DEF IInv, Types, MadeInv
<1>2. PICK rs : rs = {t \in DOMAIN plan.fn : plan.fn[t].name = "reducer"}
  BY Zenon
<1>3. /\ plan.reducers > 0
      /\ \A t \in DOMAIN plan.fn \ rs : plan.fn[t].name = "mapper" /\ plan.fn[t].file = plan.fn[t].id
      /\ {plan.fn[t].id : t \in rs} = 0..(plan.reducers - 1)
      /\ \A t, u \in rs : plan.fn[t].id = plan.fn[u].id => t = u
      /\ \A in \in plan.inputs : \A t \in DOMAIN plan.fn \ rs :
            in[plan.fn[t].file].exists => in[plan.fn[t].file].text \in Seq(Seq(Nat \cup {Symbol}))
  BY Zenon, <1>1, <1>2, CountAssumption
<1>4. plan.mappers \in Nat /\ plan.reducers \in Nat
  BY Zenon, <1>1, DataBufferAssumption
<1>5. R \in Nat \ {0}
  BY <1>3, <1>4
<1>6. Of("reducer") = rs
  BY Zenon, <1>1, <1>2 DEF Of, Fn
<1>7. \A t \in tasks : Fn(t).name # "reducer" => t \in DOMAIN plan.fn \ rs /\ Fn(t) = plan.fn[t]
  BY Zenon, <1>1, <1>2 DEF Fn
<1>8. \A t \in tasks : Fn(t).name # "reducer" =>
         /\ Fn(t).name = "mapper" /\ Fn(t).file = Fn(t).id
         /\ input[Fn(t).file].exists => input[Fn(t).file].text \in Seq(Seq(Nat \cup {Symbol}))
  <2> SUFFICES ASSUME NEW t \in tasks, Fn(t).name # "reducer", NEW f, f = Fn(t)
               PROVE  /\ f.name = "mapper" /\ f.file = f.id
                      /\ input[f.file].exists => input[f.file].text \in Seq(Seq(Nat \cup {Symbol}))
    BY Zenon
  <2>1. t \in DOMAIN plan.fn \ rs /\ f = plan.fn[t]
    BY Zenon, <1>7
  <2>2. f.name = "mapper" /\ f.file = f.id
    BY Zenon, <1>3, <2>1
  <2>3. input[f.file].exists => input[f.file].text \in Seq(Seq(Nat \cup {Symbol}))
    BY Zenon, <1>1, <1>3, <2>1
  <2> QED  BY Zenon, <2>2, <2>3
<1>9. \A t \in rs : Fn(t) = plan.fn[t]
  BY Zenon DEF Fn
<1>10. /\ \A t \in rs : Fn(t).id \in 0..(R - 1)
       /\ \A r \in 0..(R - 1) : \E t \in rs : Fn(t).id = r
       /\ \A t, u \in rs : Fn(t).id = Fn(u).id => t = u
  <2>1. PICK ids : ids = {plan.fn[t].id : t \in rs}
    BY Zenon
  <2>2. ids = 0..(R - 1)
    BY Zenon, <1>3, <2>1
  <2>3. \A t \in rs : Fn(t).id \in ids
    BY Zenon, <1>9, <2>1
  <2>4. \A r \in ids : \E t \in rs : Fn(t).id = r
    BY Zenon, <1>9, <2>1
  <2>5. ASSUME NEW t \in rs, NEW u \in rs, Fn(t).id = Fn(u).id PROVE t = u
    <3>1. plan.fn[t].id = plan.fn[u].id
      BY Zenon, <1>9, <2>5
    <3> QED  BY Zenon, <1>3, <3>1
  <2> QED  BY Zenon, <2>2, <2>3, <2>4, <2>5
<1> QED  BY Zenon, <1>4, <1>5, <1>6, <1>8, <1>10

\* What a reducer has read when the run is over.
LEMMA ReducerIs ==
    ASSUME IInv, MadeInv, plan.app = "wordcount", outcome = "ok", NEW t \in Of("reducer"),
           NEW M, M = plan.mappers, NEW R, R = plan.reducers
    PROVE  /\ DOMAIN Ins(t) = 1..M
           /\ \A i \in 1..M : /\ Ins(t)[i] = Shuffle(Counter(input[i - 1].text), Fn(t).id, R)
                              /\ input[i - 1].text \in Seq(Seq(Nat \cup {Symbol}))
<1>1. M \in Nat /\ R \in Nat \ {0} /\ Fn(t).id \in 0..(R - 1)
  BY Zenon, CountIs
<1>2. t \in tasks /\ Fn(t).name = "reducer" /\ \A u \in tasks : status[u] = "ok"
  BY Zenon DEF Of, MadeInv, Returned
<1>3. InSlots(t) = [i \in 1..M |-> Slot("shuffle", i - 1, Fn(t).id)]
  BY Zenon, <1>2 DEF InSlots, Inputs
<1>4. Len(InSlots(t)) = M /\ \A i \in 1..M : InSlots(t)[i] = <<"shuffle", i - 1, Fn(t).id>>
  BY <1>1, <1>3 DEF Slot
<1>5. DOMAIN loc[t].got = 1..M
  <2>1. Full(t) /\ Types
    BY Zenon, <1>2 DEF IInv, Steps, Step
  <2>2. DOMAIN loc[t].got = 1..Len(loc[t].got)
    BY Zenon, <1>2, <2>1, LocIs
  <2> QED  BY Zenon, <1>4, <2>1, <2>2 DEF Full
<1>6. DOMAIN Ins(t) = 1..M /\ \A i \in 1..M : Ins(t)[i] = loc[t].got[i].val
  BY Zenon, <1>5 DEF Ins
<1>7. ASSUME NEW i \in 1..M
      PROVE  /\ Ins(t)[i] = Shuffle(Counter(input[i - 1].text), Fn(t).id, R)
             /\ input[i - 1].text \in Seq(Seq(Nat \cup {Symbol}))
  <2>1. PICK c, s : c = loc[t].got[i] /\ s = InSlots(t)[i]
    BY Zenon
  <2>2. s = <<"shuffle", i - 1, Fn(t).id>>
    BY Zenon, <1>4, <2>1
  <2>3. /\ Written(c, s)
        /\ c.run = run \/ (plan.fileBased /\ ~WrittenNow(s))
    BY Zenon, <1>2, <1>5, <2>1 DEF IInv, Got
  <2>4. PICK u \in tasks : u = c.by /\ Writes(Fn(u), s) /\ c.slot = s
    BY Zenon, <2>3 DEF Written
  <2>5. Fn(u).name # "reducer"
    BY Zenon, <2>4 DEF Writes
  <2>6. /\ Fn(u).name = "mapper" /\ Fn(u).file = Fn(u).id
        /\ input[Fn(u).file].exists => input[Fn(u).file].text \in Seq(Seq(Nat \cup {Symbol}))
    BY Zenon, <2>5, CountIs
  <2>7. Fn(u).id = i - 1
    BY <2>2, <2>4, <2>6 DEF Writes
  <2>8. /\ input[i - 1].exists /\ loc[u].filled = R
        /\ \A r \in 1..R : /\ Outs(u)[r].slot = <<"shuffle", i - 1, r - 1>>
                           /\ Outs(u)[r].val = Shuffle(Counter(input[i - 1].text), r - 1, R)
    <3>1. R \in Nat /\ status[u] = "ok" /\ Fn(u).file = i - 1
      BY Zenon, <1>1, <1>2, <2>6, <2>7
    <3>2. /\ input[Fn(u).file].exists /\ loc[u].filled = R
          /\ \A r \in 1..R : /\ Outs(u)[r].slot = <<"shuffle", Fn(u).id, r - 1>>
                             /\ Outs(u)[r].val = Shuffle(Counter(input[Fn(u).file].text), r - 1, R)
      BY Zenon, <2>6, <3>1, MapperIs
    <3> QED  BY Zenon, <2>7, <3>1, <3>2
  <2>9. PICK k \in 1..R : k - 1 = Fn(t).id
    <3>1. Fn(t).id + 1 \in 1..R /\ (Fn(t).id + 1) - 1 = Fn(t).id
      BY <1>1
    <3> QED  BY Zenon, <3>1
  <2>10. WrittenNow(s)
    <3>1. Outs(u)[k].slot = s /\ k \in 1..loc[u].filled
      BY Zenon, <2>2, <2>8, <2>9
    <3> QED  BY Zenon, <3>1 DEF WrittenNow
  <2>11. c.run = run
    BY Zenon, <2>3, <2>10
  <2>12. Made(c)
    BY Zenon, <1>2, <1>5, <2>1 DEF MadeInv, GotMade
  <2>13. PICK v \in tasks : \E j \in 1..loc[v].filled : c = Cell(v, j)
    BY Zenon, <2>11, <2>12 DEF Made
  <2>14. PICK j \in 1..loc[v].filled : c = Cell(v, j)
    BY Zenon, <2>13
  <2>15. v = u /\ s = Outs(v)[j].slot /\ c.val = Outs(v)[j].val
    BY <2>4, <2>14, CellIs
  <2>16. j \in 1..R /\ s = <<"shuffle", i - 1, j - 1>> /\ c.val = Shuffle(Counter(input[i - 1].text), j - 1, R)
    BY Zenon, <2>8, <2>14, <2>15
  <2>17. j - 1 = Fn(t).id
    BY <2>2, <2>16
  <2>18. c.val = Shuffle(Counter(input[i - 1].text), Fn(t).id, R)
    BY Zenon, <2>16, <2>17
  <2>19. input[i - 1].text \in Seq(Seq(Nat \cup {Symbol}))
    BY Zenon, <2>6, <2>7, <2>8
  <2> QED  BY Zenon, <1>6, <2>1, <2>18, <2>19
<1> QED  BY Zenon, <1>6, <1>7

\* Word count: a run that ends well has counted every word of every text, once,
\* with the number of times it occurs in all of them, and nothing else, for any
\* number of mappers and reducers and any texts, by reference and by file
\* (mapper lib.rs:93-141, reducer lib.rs:50-65).
THEOREM WordsCounted == Spec => []WordCount
<1>1. ASSUME IInv, MadeInv PROVE WordCount
  <2> SUFFICES ASSUME plan.app = "wordcount", outcome = "ok",
                      NEW T, T = [i \in 1..plan.mappers |-> input[i - 1].text],
                      NEW all, all = Counter(Joined(T)), NEW reducers, reducers = Of("reducer")
               PROVE  CountedBy(reducers, all)
    BY Zenon DEF WordCount
  <2>1. PICK M, R : M = plan.mappers /\ R = plan.reducers
    BY Zenon
  <2>2. /\ M \in Nat /\ R \in Nat \ {0}
        /\ \A t \in reducers : Fn(t).id \in 0..(R - 1)
        /\ \A r \in 0..(R - 1) : \E t \in reducers : Fn(t).id = r
        /\ \A t, u \in reducers : Fn(t).id = Fn(u).id => t = u
    BY Zenon, <1>1, <2>1, CountIs
  <2>3. ASSUME NEW t \in reducers
        PROVE  /\ DOMAIN Ins(t) = 1..M
               /\ \A i \in 1..M : /\ Ins(t)[i] = Shuffle(Counter(input[i - 1].text), Fn(t).id, R)
                                  /\ input[i - 1].text \in Seq(Seq(Nat \cup {Symbol}))
    BY Zenon, <1>1, <2>1, ReducerIs
  <2>4. \E t \in reducers : Fn(t).id = 0
    <3>1. 0 \in 0..(R - 1)
      BY <2>2
    <3> QED  BY Zenon, <2>2, <3>1
  <2>5. T \in [1..M -> Texts]
    <3>1. \A i \in 1..M : input[i - 1].text \in Texts
      BY Zenon, <2>3, <2>4 DEF Texts
    <3> QED  BY Zenon, <2>1, <3>1
  <2>6. ASSUME NEW t \in reducers, NEW r, r = Fn(t).id
        PROVE  Ins(t) = [i \in 1..M |-> Shuffle(Counter(T[i]), r, R)]
    <3>1. Ins(t) = [i \in DOMAIN loc[t].got |-> loc[t].got[i].val]
      BY Zenon DEF Ins
    <3>2. Ins(t) = [i \in 1..M |-> Ins(t)[i]]
      BY Zenon, <2>3, <3>1
    <3>3. \A i \in 1..M : Ins(t)[i] = Shuffle(Counter(T[i]), r, R)
      BY Zenon, <2>1, <2>3, <2>6
    <3> QED  BY Zenon, <3>2, <3>3
  <2>7. /\ \A w \in DOMAIN all : getidx(w, R) \in 0..(R - 1)
        /\ \A r, ins : ins = [i \in 1..M |-> Shuffle(Counter(T[i]), r, R)] =>
              /\ \A w : w \in DOMAIN Reduce(ins) <=> w \in DOMAIN all /\ getidx(w, R) = r
              /\ \A w \in DOMAIN Reduce(ins) : Reduce(ins)[w] = all[w]
    <3>0. M \in Nat /\ R \in Nat \ {0}
      BY Zenon, <2>2
    <3>1. Shared(all, T, M, R)
      BY Zenon, <2>5, <3>0, Counted
    <3> QED  BY Zenon, <3>1 DEF Shared
  <2>8. ASSUME NEW t \in reducers
        PROVE  /\ \A w : w \in DOMAIN Reduce(Ins(t)) <=> w \in DOMAIN all /\ getidx(w, R) = Fn(t).id
               /\ \A w \in DOMAIN Reduce(Ins(t)) : Reduce(Ins(t))[w] = all[w]
    <3>1. PICK r, ins : r = Fn(t).id /\ ins = Ins(t)
      BY Zenon
    <3>2. ins = [i \in 1..M |-> Shuffle(Counter(T[i]), r, R)]
      <4>1. Ins(t) = [i \in 1..M |-> Shuffle(Counter(T[i]), r, R)]
        BY <2>6, <3>1
      <4> QED  BY Zenon, <3>1, <4>1
    <3>3. \A w : w \in DOMAIN Reduce(ins) <=> w \in DOMAIN all /\ getidx(w, R) = r
      BY Zenon, <2>7, <3>2
    <3>4. ASSUME NEW w \in DOMAIN Reduce(ins) PROVE Reduce(ins)[w] = all[w]
      BY Zenon, <2>7, <3>2
    <3> QED  BY Zenon, <3>1, <3>3, <3>4
  <2>9. \A t \in reducers : DOMAIN Reduce(Ins(t)) \subseteq DOMAIN all
    BY Zenon, <2>8
  <2>10. ASSUME NEW w \in DOMAIN all
         PROVE  \E t \in reducers :
                   /\ w \in DOMAIN Reduce(Ins(t)) /\ Reduce(Ins(t))[w] = all[w]
                   /\ \A u \in reducers \ {t} : w \notin DOMAIN Reduce(Ins(u))
    <3>1. PICK t \in reducers : Fn(t).id = getidx(w, R)
      BY Zenon, <2>2, <2>7
    <3>2. w \in DOMAIN Reduce(Ins(t)) /\ Reduce(Ins(t))[w] = all[w]
      BY Zenon, <2>8, <3>1
    <3>3. \A u \in reducers \ {t} : w \notin DOMAIN Reduce(Ins(u))
      <4> SUFFICES ASSUME NEW u \in reducers, w \in DOMAIN Reduce(Ins(u)) PROVE u = t
        BY Zenon
      <4>1. Fn(u).id = Fn(t).id
        BY Zenon, <2>8, <3>1
      <4> QED  BY Zenon, <2>2, <4>1
    <3> QED  BY Zenon, <3>2, <3>3
  <2> QED  BY Zenon, <2>9, <2>10 DEF CountedBy
<1> QED  BY <1>1, Invariance, MadeInvariance, PTL
==============================================================================
