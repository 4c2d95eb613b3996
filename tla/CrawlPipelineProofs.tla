------------------------ MODULE CrawlPipelineProofs -------------------------
(***************************************************************************)
(* Theorems about CrawlPipeline for every site, every pool, every number   *)
(* of lost coordinators and every bound: the types of the state; that      *)
(* counts are conserved as long as no coordinator is lost and never exceed *)
(* what was counted; that the tracker puts one copy of a document to work  *)
(* for each claim; and that a job that ends for want of work has           *)
(* downloaded and counted every document that can be reached.              *)
(*                                                                         *)
(* Counts and copies are sums over coordinators and over the messages on   *)
(* their way, so the first sections are about such sums.  Then come what   *)
(* each action does, one part of the invariant after the other, and that   *)
(* every action keeps all of them.                                         *)
(***************************************************************************)
EXTENDS CrawlPipeline, FiniteSetTheorems, SequenceTheorems, TLAPS

-----------------------------------------------------------------------------
(* Sums. *)

\* What SumOf counts: a pair <<x, k>> for each k from 1 to f[x].
Pieces(f) == UNION {{x} \X (1..f[x]) : x \in DOMAIN f}

LEMMA PieceOf ==
  ASSUME NEW f, NEW p
  PROVE  p \in Pieces(f) <=> /\ p = <<p[1], p[2]>> /\ p[1] \in DOMAIN f
                             /\ p[2] \in 1..f[p[1]]
<1>1. ASSUME p \in Pieces(f)
      PROVE  p = <<p[1], p[2]>> /\ p[1] \in DOMAIN f /\ p[2] \in 1..f[p[1]]
  <2>1. PICK x \in DOMAIN f : p \in {x} \X (1..f[x]) BY <1>1 DEF Pieces
  <2>. QED BY <2>1
<1>2. ASSUME p = <<p[1], p[2]>>, p[1] \in DOMAIN f, p[2] \in 1..f[p[1]]
      PROVE  p \in Pieces(f)
  <2>1. p \in {p[1]} \X (1..f[p[1]]) BY <1>2
  <2>. QED BY <1>2, <2>1 DEF Pieces
<1>. QED BY <1>1, <1>2

LEMMA SumType ==
  ASSUME NEW D, IsFiniteSet(D), NEW f \in [D -> Nat]
  PROVE  IsFiniteSet(Pieces(f)) /\ SumOf(f) \in Nat /\ SumOf(f) = Cardinality(Pieces(f))
<1>. DEFINE T == {{x} \X (1..f[x]) : x \in D}
            g == [x \in D |-> {x} \X (1..f[x])]
<1>1. g \in Surjection(D, T) BY DEF Surjection
<1>2. IsFiniteSet(T) BY <1>1, FS_Surjection
<1>3. ASSUME NEW x \in D PROVE IsFiniteSet({x} \X (1..f[x]))
  <2>1. 1 \in Int /\ f[x] \in Int OBVIOUS
  <2>2. IsFiniteSet(1..f[x]) BY <2>1, FS_Interval
  <2>3. IsFiniteSet({x}) BY FS_Singleton
  <2>. QED BY <2>2, <2>3, FS_Product
<1>4. \A p \in T : IsFiniteSet(p) BY <1>3
<1>5. UNION T = Pieces(f) /\ SumOf(f) = Cardinality(UNION T) BY DEF SumOf, Pieces
<1>. HIDE DEF T
<1>6. IsFiniteSet(UNION T) BY <1>2, <1>4, FS_UNION
<1>. QED BY <1>5, <1>6, FS_CardinalityType

\* Sums are added value by value.
LEMMA SumAdd ==
  ASSUME NEW D, IsFiniteSet(D), NEW f \in [D -> Nat], NEW g \in [D -> Nat], NEW h \in [D -> Nat],
         \A x \in D : h[x] = f[x] + g[x]
  PROVE  SumOf(h) = SumOf(f) + SumOf(g)
<1>. DEFINE F == Pieces(f)
            G == Pieces(g)
            H == Pieces(h)
            B == H \ F
            m == [p \in B |-> <<p[1], p[2] - f[p[1]]>>]
<1>1. \A p : p \in F <=> p = <<p[1], p[2]>> /\ p[1] \in D /\ p[2] \in 1..f[p[1]] BY PieceOf
<1>2. \A p : p \in G <=> p = <<p[1], p[2]>> /\ p[1] \in D /\ p[2] \in 1..g[p[1]] BY PieceOf
<1>3. \A p : p \in H <=> p = <<p[1], p[2]>> /\ p[1] \in D /\ p[2] \in 1..h[p[1]] BY PieceOf
<1>4. \A x \in D : f[x] \in Nat /\ g[x] \in Nat /\ h[x] = f[x] + g[x] OBVIOUS
<1>5. /\ IsFiniteSet(F) /\ SumOf(f) = Cardinality(F)
      /\ IsFiniteSet(G) /\ SumOf(g) = Cardinality(G)
      /\ IsFiniteSet(H) /\ SumOf(h) = Cardinality(H)
  BY SumType
<1>. HIDE DEF F, G, H
<1>6. H \cap F = F BY <1>1, <1>3, <1>4
<1>7. \A p \in B : /\ p = <<p[1], p[2]>> /\ p[1] \in D /\ p[2] \in Nat
                   /\ p[2] > f[p[1]] /\ p[2] <= f[p[1]] + g[p[1]]
  BY <1>1, <1>3, <1>4
<1>8. m \in [B -> G] BY <1>2, <1>4, <1>7
<1>9. ASSUME NEW p \in B, NEW q \in B, m[p] = m[q] PROVE p = q
  <2>1. p[1] = q[1] /\ p[2] - f[p[1]] = q[2] - f[q[1]] BY <1>9
  <2>2. p[1] \in D /\ p[2] \in Nat /\ q[2] \in Nat BY <1>7
  <2>3. f[p[1]] \in Nat BY <1>4, <2>2
  <2>4. p[2] - f[p[1]] = q[2] - f[p[1]] BY <2>1
  <2>5. p[2] = q[2] BY <2>2, <2>3, <2>4
  <2>. QED BY <2>1, <2>5, <1>7
<1>10. ASSUME NEW q \in G PROVE \E p \in B : m[p] = q
  <2>. DEFINE p == <<q[1], q[2] + f[q[1]]>>
  <2>1. q = <<q[1], q[2]>> /\ q[1] \in D /\ q[2] \in 1..g[q[1]] BY <1>2
  <2>2. p \in H /\ p \notin F BY <1>1, <1>3, <1>4, <2>1
  <2>3. m[p] = <<q[1], (q[2] + f[q[1]]) - f[q[1]]>> BY <2>2
  <2>4. f[q[1]] \in Nat /\ q[2] \in Nat BY <1>4, <2>1
  <2>5. (q[2] + f[q[1]]) - f[q[1]] = q[2] BY <2>4
  <2>6. m[p] = q BY <2>1, <2>3, <2>5
  <2>. QED BY <2>2, <2>6
<1>11. m \in Bijection(B, G) BY <1>8, <1>9, <1>10 DEF Bijection, Injection, Surjection, IsInjective
<1>12. ExistsBijection(B, G) BY <1>11 DEF ExistsBijection
<1>13. IsFiniteSet(B) /\ Cardinality(B) = Cardinality(H) - Cardinality(H \cap F)
  BY <1>5, FS_Difference
<1>14. Cardinality(G) = Cardinality(B) BY <1>12, <1>13, FS_Bijection
<1>15. Cardinality(F) \in Nat /\ Cardinality(H) \in Nat BY <1>5, FS_CardinalityType
<1>16. Cardinality(G) = Cardinality(H) - Cardinality(F) BY <1>6, <1>13, <1>14
<1>. HIDE DEF B, m
<1>. QED BY <1>5, <1>15, <1>16

LEMMA SumSingle ==
  ASSUME NEW D, NEW c \in D, NEW f \in [D -> Nat], \A x \in D : x # c => f[x] = 0
  PROVE  SumOf(f) = f[c]
<1>. DEFINE n == f[c]
<1>1. ASSUME NEW p PROVE p \in Pieces(f) <=> p \in {c} \X (1..n)
  <2>1. p \in Pieces(f) <=> p = <<p[1], p[2]>> /\ p[1] \in D /\ p[2] \in 1..f[p[1]] BY PieceOf
  <2>2. 1..0 = {} OBVIOUS
  <2>. QED BY <2>1, <2>2
<1>2. Pieces(f) = {c} \X (1..n) BY <1>1
<1>3. SumOf(f) = Cardinality(Pieces(f)) BY DEF SumOf, Pieces
<1>4. IsFiniteSet({c}) /\ Cardinality({c}) = 1 BY FS_Singleton
<1>5. IsFiniteSet(1..n) /\ Cardinality(1..n) = n BY FS_Interval
<1>6. Cardinality({c} \X (1..n)) = Cardinality({c}) * Cardinality(1..n)
  BY <1>4, <1>5, FS_Product
<1>7. Cardinality({c} \X (1..n)) = n BY <1>4, <1>5, <1>6
<1>. QED BY <1>2, <1>3, <1>7

\* Only the value at c changes.
LEMMA SumAtOne ==
  ASSUME NEW D, IsFiniteSet(D), NEW f \in [D -> Nat], NEW g \in [D -> Nat], NEW c \in D,
         \A x \in D : x # c => f[x] = g[x]
  PROVE  /\ SumOf(f) \in Nat /\ SumOf(g) \in Nat /\ f[c] \in Nat /\ g[c] \in Nat
         /\ SumOf(g) + f[c] = SumOf(f) + g[c]
<1>. DEFINE h == [x \in D |-> IF x = c THEN 0 ELSE f[x]]
            fc == [x \in D |-> IF x = c THEN f[c] ELSE 0]
            gc == [x \in D |-> IF x = c THEN g[c] ELSE 0]
<1>1. f[c] \in Nat /\ g[c] \in Nat OBVIOUS
<1>2. h \in [D -> Nat] /\ fc \in [D -> Nat] /\ gc \in [D -> Nat] BY <1>1
<1>3. \A x \in D : f[x] = h[x] + fc[x] OBVIOUS
<1>4. \A x \in D : g[x] = h[x] + gc[x] OBVIOUS
<1>5. \A x \in D : x # c => fc[x] = 0 /\ gc[x] = 0 OBVIOUS
<1>6. fc[c] = f[c] /\ gc[c] = g[c] OBVIOUS
<1>. HIDE DEF h, fc, gc
<1>7. SumOf(fc) = f[c] /\ SumOf(gc) = g[c] BY <1>2, <1>5, <1>6, SumSingle
<1>8. SumOf(f) = SumOf(h) + f[c] BY <1>2, <1>3, <1>7, SumAdd
<1>9. SumOf(g) = SumOf(h) + g[c] BY <1>2, <1>4, <1>7, SumAdd
<1>10. SumOf(f) \in Nat /\ SumOf(g) \in Nat /\ SumOf(h) \in Nat BY <1>2, SumType
<1>. QED BY <1>1, <1>8, <1>9, <1>10

LEMMA SumMonotone ==
  ASSUME NEW D, IsFiniteSet(D), NEW f \in [D -> Nat], NEW g \in [D -> Nat],
         \A x \in D : f[x] <= g[x]
  PROVE  SumOf(f) \in Nat /\ SumOf(g) \in Nat /\ SumOf(f) <= SumOf(g)
<1>. DEFINE h == [x \in D |-> g[x] - f[x]]
<1>1. h \in [D -> Nat] OBVIOUS
<1>2. \A x \in D : g[x] = f[x] + h[x] OBVIOUS
<1>. HIDE DEF h
<1>3. SumOf(g) = SumOf(f) + SumOf(h) BY <1>1, <1>2, SumAdd
<1>. QED BY <1>1, <1>3, SumType

LEMMA SumZero ==
  ASSUME NEW D, NEW f \in [D -> Nat], \A x \in D : f[x] = 0
  PROVE  SumOf(f) = 0
<1>1. ASSUME NEW p \in Pieces(f) PROVE FALSE
  <2>1. p[1] \in D /\ p[2] \in 1..f[p[1]] BY PieceOf
  <2>. QED BY <2>1
<1>2. Pieces(f) = {} BY <1>1
<1>. QED BY <1>2, FS_EmptySet DEF SumOf, Pieces

-----------------------------------------------------------------------------
(* Totals over sequences. *)

LEMMA TotalType ==
  ASSUME NEW S, NEW s \in Seq(S), NEW w \in [S -> Nat]
  PROVE  /\ [i \in DOMAIN s |-> w[s[i]]] \in [1..Len(s) -> Nat]
         /\ IsFiniteSet(1..Len(s))
         /\ Total(s, w) \in Nat
<1>1. Len(s) \in Nat /\ DOMAIN s = 1..Len(s) /\ \A i \in 1..Len(s) : s[i] \in S OBVIOUS
<1>2. [i \in DOMAIN s |-> w[s[i]]] \in [1..Len(s) -> Nat] BY <1>1
<1>3. 1 \in Int /\ Len(s) \in Int BY <1>1
<1>4. IsFiniteSet(1..Len(s)) BY <1>3, FS_Interval
<1>. QED BY <1>2, <1>4, SumType DEF Total

LEMMA TotalConcat ==
  ASSUME NEW S, NEW s \in Seq(S), NEW t \in Seq(S), NEW w \in [S -> Nat]
  PROVE  /\ s \o t \in Seq(S)
         /\ Total(s, w) \in Nat /\ Total(t, w) \in Nat
         /\ Total(s \o t, w) = Total(s, w) + Total(t, w)
<1>. DEFINE n == Len(s)
            k == Len(t)
            f == [i \in DOMAIN s |-> w[s[i]]]
            g == [i \in DOMAIN t |-> w[t[i]]]
            h == [i \in DOMAIN (s \o t) |-> w[(s \o t)[i]]]
            F == Pieces(f)
            G == Pieces(g)
            H == Pieces(h)
            B == H \ F
            m == [p \in B |-> <<p[1] - n, p[2]>>]
<1>1. /\ s \o t \in Seq(S) /\ Len(s \o t) = n + k
      /\ \A i \in 1..n + k : (s \o t)[i] = IF i <= n THEN s[i] ELSE t[i - n]
  BY ConcatProperties
<1>2. n \in Nat /\ k \in Nat /\ DOMAIN s = 1..n /\ DOMAIN t = 1..k /\ DOMAIN (s \o t) = 1..(n + k)
  BY <1>1
<1>3. f \in [1..n -> Nat] /\ g \in [1..k -> Nat] /\ h \in [1..(n + k) -> Nat]
  BY <1>1, <1>2, TotalType
<1>4. /\ \A i \in 1..n : h[i] = f[i]
      /\ \A i \in 1..(n + k) : i > n => i - n \in 1..k /\ h[i] = g[i - n]
      /\ \A i \in 1..k : i + n \in 1..(n + k) /\ h[i + n] = g[i]
  <2>1. \A i \in 1..n : i \in 1..(n + k) BY <1>2
  <2>2. \A i \in 1..n : h[i] = f[i] BY <1>1, <1>2, <2>1
  <2>3. \A i \in 1..(n + k) : i > n => i - n \in 1..k /\ h[i] = g[i - n] BY <1>1, <1>2
  <2>4. \A i \in 1..k : i + n \in 1..(n + k) /\ i + n > n /\ (i + n) - n = i BY <1>2
  <2>. QED BY <2>2, <2>3, <2>4
<1>5. \A p : p \in F <=> p = <<p[1], p[2]>> /\ p[1] \in 1..n /\ p[2] \in 1..f[p[1]]
  BY <1>2, <1>3, PieceOf
<1>6. \A p : p \in G <=> p = <<p[1], p[2]>> /\ p[1] \in 1..k /\ p[2] \in 1..g[p[1]]
  BY <1>2, <1>3, PieceOf
<1>7. \A p : p \in H <=> p = <<p[1], p[2]>> /\ p[1] \in 1..(n + k) /\ p[2] \in 1..h[p[1]]
  BY <1>2, <1>3, PieceOf
<1>8. IsFiniteSet(1..n) /\ IsFiniteSet(1..k) /\ IsFiniteSet(1..(n + k))
  BY <1>1, TotalType
<1>9. /\ IsFiniteSet(F) /\ Total(s, w) = Cardinality(F)
      /\ IsFiniteSet(G) /\ Total(t, w) = Cardinality(G)
      /\ IsFiniteSet(H) /\ Total(s \o t, w) = Cardinality(H)
  BY <1>3, <1>8, SumType DEF Total
<1>. HIDE DEF f, g, h, F, G, H
<1>10. H \cap F = F
  <2>1. ASSUME NEW p \in F PROVE p \in H
    <3>1. p = <<p[1], p[2]>> /\ p[1] \in 1..n /\ p[2] \in 1..f[p[1]] BY <1>5
    <3>2. p[1] \in 1..(n + k) /\ h[p[1]] = f[p[1]] BY <3>1, <1>2, <1>4
    <3>. QED BY <3>1, <3>2, <1>7
  <2>. QED BY <2>1
<1>11. ASSUME NEW p \in B
       PROVE  p = <<p[1], p[2]>> /\ p[1] \in Nat /\ p[1] - n \in 1..k /\ p[2] \in 1..g[p[1] - n]
  <2>1. p = <<p[1], p[2]>> /\ p[1] \in 1..(n + k) /\ p[2] \in 1..h[p[1]] BY <1>7
  <2>2. p[1] > n
    <3>1. CASE p[1] <= n
      <4>1. p[1] \in 1..n BY <2>1, <3>1, <1>2
      <4>2. p \in F BY <4>1, <2>1, <1>4, <1>5
      <4>. QED BY <4>2
    <3>. QED BY <2>1, <3>1, <1>2
  <2>. QED BY <2>1, <2>2, <1>2, <1>4
<1>12. ASSUME NEW p \in B PROVE m[p] = <<p[1] - n, p[2]>> /\ m[p] \in G
  <2>1. m[p] = <<p[1] - n, p[2]>> OBVIOUS
  <2>2. p[1] - n \in 1..k /\ p[2] \in 1..g[p[1] - n] BY <1>11
  <2>. QED BY <2>1, <2>2, <1>6
<1>13. m \in [B -> G] BY <1>12
<1>14. ASSUME NEW p \in B, NEW q \in B, m[p] = m[q] PROVE p = q
  <2>1. p[1] - n = q[1] - n /\ p[2] = q[2] BY <1>12, <1>14
  <2>2. p[1] \in Nat /\ q[1] \in Nat BY <1>11
  <2>3. p[1] = q[1] BY <2>1, <2>2, <1>2
  <2>. QED BY <2>1, <2>3, <1>11
<1>15. ASSUME NEW q \in G PROVE \E p \in B : m[p] = q
  <2>. DEFINE p == <<q[1] + n, q[2]>>
  <2>1. q = <<q[1], q[2]>> /\ q[1] \in 1..k /\ q[2] \in 1..g[q[1]] BY <1>6
  <2>2. q[1] + n \in 1..(n + k) /\ h[q[1] + n] = g[q[1]] BY <2>1, <1>4
  <2>3. p \in H BY <2>1, <2>2, <1>7
  <2>4. q[1] + n > n /\ (q[1] + n) - n = q[1] BY <2>1, <1>2
  <2>5. q[1] + n \notin 1..n BY <2>4, <1>2
  <2>6. p \notin F BY <2>5, <1>5
  <2>7. m[p] = <<(q[1] + n) - n, q[2]>> BY <2>3, <2>6
  <2>8. m[p] = q BY <2>1, <2>4, <2>7
  <2>. QED BY <2>3, <2>6, <2>8
<1>16. m \in Bijection(B, G)
  BY <1>13, <1>14, <1>15 DEF Bijection, Injection, Surjection, IsInjective
<1>17. ExistsBijection(B, G) BY <1>16 DEF ExistsBijection
<1>18. IsFiniteSet(B) /\ Cardinality(B) = Cardinality(H) - Cardinality(H \cap F)
  BY <1>9, FS_Difference
<1>19. Cardinality(G) = Cardinality(B) BY <1>17, <1>18, FS_Bijection
<1>20. Cardinality(F) \in Nat /\ Cardinality(H) \in Nat BY <1>9, FS_CardinalityType
<1>21. Cardinality(G) = Cardinality(H) - Cardinality(F) BY <1>10, <1>18, <1>19
<1>22. Total(s, w) \in Nat /\ Total(t, w) \in Nat BY TotalType
<1>. HIDE DEF B, m
<1>. QED BY <1>1, <1>9, <1>20, <1>21, <1>22

\* The sequence u over S is s and then t.
Splits(S, u, s, t) == s \in Seq(S) /\ t \in Seq(S) /\ u = s \o t

LEMMA TotalSplit ==
  ASSUME NEW S, NEW s, NEW t, NEW u, Splits(S, u, s, t), NEW w \in [S -> Nat]
  PROVE  Total(s, w) \in Nat /\ Total(t, w) \in Nat /\ Total(u, w) = Total(s, w) + Total(t, w)
BY TotalConcat DEF Splits

LEMMA TotalEmpty ==
  ASSUME NEW w
  PROVE  Total(<<>>, w) = 0
<1>. DEFINE f == [i \in DOMAIN <<>> |-> w[<<>>[i]]]
<1>1. DOMAIN <<>> = {} OBVIOUS
<1>2. f \in [{} -> Nat] BY <1>1
<1>. HIDE DEF f
<1>3. SumOf(f) = 0 BY <1>2, SumZero
<1>. QED BY <1>3 DEF Total, f

LEMMA TotalOne ==
  ASSUME NEW S, NEW x \in S, NEW w \in [S -> Nat]
  PROVE  <<x>> \in Seq(S) /\ Total(<<x>>, w) = w[x]
<1>. DEFINE f == [i \in DOMAIN <<x>> |-> w[<<x>>[i]]]
<1>1. DOMAIN <<x>> = {1} /\ <<x>>[1] = x OBVIOUS
<1>2. f \in [{1} -> Nat] /\ f[1] = w[x] BY <1>1
<1>. HIDE DEF f
<1>3. SumOf(f) = f[1] BY <1>2, SumSingle
<1>. QED BY <1>2, <1>3 DEF Total, f

\* s is the sequence t with x at its end; s is x followed by t.
Ends(S, s, t, x)   == t \in Seq(S) /\ x \in S /\ s = Append(t, x)
Starts(S, s, x, t) == s \in Seq(S) /\ s # <<>> /\ x = Head(s) /\ t = Tail(s)

LEMMA TotalAppend ==
  ASSUME NEW S, NEW s, NEW t, NEW x, Ends(S, s, t, x), NEW w \in [S -> Nat]
  PROVE  /\ Total(t, w) \in Nat /\ w[x] \in Nat
         /\ Total(s, w) = Total(t, w) + w[x]
<1>1. t \in Seq(S) /\ x \in S /\ s = t \o <<x>> BY AppendIsConcat DEF Ends
<1>. DEFINE u == <<x>>
<1>2. u \in Seq(S) /\ Total(u, w) = w[x] BY <1>1, TotalOne
<1>3. s = t \o u BY <1>1
<1>. HIDE DEF u
<1>4. Splits(S, s, t, u) BY <1>1, <1>2, <1>3 DEF Splits
<1>5. Total(t, w) \in Nat /\ Total(u, w) \in Nat /\ Total(s, w) = Total(t, w) + Total(u, w)
  BY <1>4, TotalSplit
<1>. QED BY <1>2, <1>5

LEMMA TotalTail ==
  ASSUME NEW S, NEW s, NEW x, NEW t, Starts(S, s, x, t), NEW w \in [S -> Nat]
  PROVE  /\ x \in S /\ t \in Seq(S)
         /\ Total(t, w) \in Nat /\ w[x] \in Nat
         /\ Total(s, w) = w[x] + Total(t, w)
<1>1. x \in S /\ t \in Seq(S) /\ s = <<x>> \o t BY DEF Starts
<1>. DEFINE u == <<x>>
<1>2. u \in Seq(S) /\ Total(u, w) = w[x] BY <1>1, TotalOne
<1>3. s = u \o t BY <1>1
<1>. HIDE DEF u
<1>4. Splits(S, s, u, t) BY <1>1, <1>2, <1>3 DEF Splits
<1>5. Total(t, w) \in Nat /\ Total(s, w) = Total(u, w) + Total(t, w) BY <1>4, TotalSplit
<1>6. w[x] \in Nat BY <1>1
<1>. QED BY <1>1, <1>2, <1>5, <1>6

\* t is the first j elements of s.
Begins(S, s, j, t) == s \in Seq(S) /\ j \in 0..Len(s) /\ t = SubSeq(s, 1, j)

LEMMA TotalSubSeq ==
  ASSUME NEW S, NEW s, NEW j, NEW t, Begins(S, s, j, t), NEW w \in [S -> Nat]
  PROVE  Total(t, w) \in Nat /\ Total(s, w) \in Nat /\ Total(t, w) <= Total(s, w)
<1>1. s \in Seq(S) /\ j \in 0..Len(s) /\ t = SubSeq(s, 1, j) BY DEF Begins
<1>2. Len(s) \in Nat /\ \A i \in 1..Len(s) : s[i] \in S BY <1>1
<1>. DEFINE u == SubSeq(s, j + 1, Len(s))
<1>3. t \in Seq(S) BY <1>1, <1>2, SubSeqProperties
<1>4. u \in Seq(S) BY <1>1, <1>2, SubSeqProperties
<1>5. s = t \o u
  <2>1. 1 \in 1..Len(s) + 1 /\ j \in 1 - 1 .. Len(s) /\ Len(s) \in j..Len(s) BY <1>1, <1>2
  <2>2. SubSeq(s, 1, j) \o SubSeq(s, j + 1, Len(s)) = SubSeq(s, 1, Len(s))
    BY <1>1, <2>1, ConcatAdjacentSubSeq
  <2>3. SubSeq(s, 1, Len(s)) = s BY <1>1, SubSeqFull
  <2>. QED BY <1>1, <2>2, <2>3
<1>. HIDE DEF u
<1>6. Splits(S, s, t, u) BY <1>3, <1>4, <1>5 DEF Splits
<1>7. Total(t, w) \in Nat /\ Total(u, w) \in Nat /\ Total(s, w) = Total(t, w) + Total(u, w)
  BY <1>6, TotalSplit
<1>. QED BY <1>7

\* t is the first j elements of s, of which there are more, and its last one.
KeepsLast(S, s, j, t) ==
  s \in Seq(S) /\ s # <<>> /\ j \in 0..(Len(s) - 1) /\ t = Append(SubSeq(s, 1, j), s[Len(s)])

LEMMA TotalLastKept ==
  ASSUME NEW S, NEW s, NEW j, NEW t, KeepsLast(S, s, j, t)
  PROVE  /\ t \in Seq(S) /\ Len(t) = j + 1
         /\ \A w \in [S -> Nat] : Total(t, w) <= Total(s, w)
<1>1. /\ s \in Seq(S) /\ s # <<>> /\ j \in 0..(Len(s) - 1)
      /\ t = Append(SubSeq(s, 1, j), s[Len(s)])
  BY DEF KeepsLast
<1>2. PICK n \in Nat : n = Len(s) /\ n > 0 BY <1>1
<1>3. PICK x \in S : x = s[n] BY <1>1, <1>2
<1>. DEFINE r == SubSeq(s, 1, n - 1)
            q == SubSeq(s, 1, j)
<1>4. r \in Seq(S) /\ Len(r) = n - 1 BY <1>1, <1>2, SubSeqProperties
<1>5. q \in Seq(S) /\ Len(q) = j BY <1>1, <1>2, SubSeqProperties
<1>6. s = Append(r, x)
  <2>1. 1 \in 1..n /\ n \in 1..n BY <1>2
  <2>2. SubSeq(s, 1, n) = SubSeq(s, 1, n - 1) \o <<s[n]>>
    BY <1>1, <1>2, <2>1, SubSeqRecursiveSecond
  <2>3. SubSeq(s, 1, n) = s BY <1>1, <1>2, SubSeqFull
  <2>4. Append(r, x) = r \o <<x>> BY <1>3, <1>4, AppendIsConcat
  <2>. QED BY <1>3, <2>2, <2>3, <2>4
<1>7. q = SubSeq(r, 1, j)
  <2>1. j \in 0..(n - 1) BY <1>1, <1>2
  <2>2. Len(SubSeq(r, 1, j)) = j /\ SubSeq(r, 1, j) \in Seq(S)
    BY <1>4, <2>1, SubSeqProperties
  <2>3. \A i \in 1..j : SubSeq(r, 1, j)[i] = r[i] /\ r[i] = s[i] /\ q[i] = s[i]
    BY <1>1, <1>2, <1>4, <2>1
  <2>. QED BY <1>5, <2>2, <2>3, SeqEqual
<1>8. Begins(S, r, j, q) BY <1>1, <1>2, <1>4, <1>7 DEF Begins
<1>9. t = Append(q, x) BY <1>1, <1>2, <1>3
<1>. HIDE DEF r, q
<1>10. Ends(S, s, r, x) BY <1>4, <1>6 DEF Ends
<1>11. Ends(S, t, q, x) BY <1>5, <1>9 DEF Ends
<1>12. ASSUME NEW w \in [S -> Nat] PROVE Total(t, w) <= Total(s, w)
  <2>1. Total(q, w) \in Nat /\ Total(r, w) \in Nat /\ Total(q, w) <= Total(r, w)
    BY <1>8, TotalSubSeq
  <2>2. Total(s, w) = Total(r, w) + w[x] /\ w[x] \in Nat BY <1>10, TotalAppend
  <2>3. Total(t, w) = Total(q, w) + w[x] BY <1>11, TotalAppend
  <2>. QED BY <2>1, <2>2, <2>3
<1>13. t \in Seq(S) /\ Len(t) = j + 1 BY <1>5, <1>9, AppendProperties
<1>. QED BY <1>12, <1>13

-----------------------------------------------------------------------------
(* Occurrences, and the elements of a sequence that are in a set. *)

\* The weights of Occurrences.
Is(d) == [e \in Documents |-> IF e = d THEN 1 ELSE 0]

LEMMA OccurrencesAre ==
  ASSUME NEW s \in Seq(Documents), NEW d
  PROVE  /\ Is(d) \in [Documents -> Nat]
         /\ Occurrences(s, d) = Total(s, Is(d))
         /\ Occurrences(s, d) \in Nat
         /\ IsFiniteSet({i \in 1..Len(s) : s[i] = d})
         /\ Occurrences(s, d) = Cardinality({i \in 1..Len(s) : s[i] = d})
<1>. DEFINE I == {i \in 1..Len(s) : s[i] = d}
            f == [i \in DOMAIN s |-> Is(d)[s[i]]]
<1>1. Is(d) \in [Documents -> Nat] /\ Occurrences(s, d) = Total(s, Is(d)) BY DEF Is, Occurrences
<1>2. IsFiniteSet(1..Len(s)) /\ f \in [1..Len(s) -> Nat] /\ Total(s, Is(d)) \in Nat
  BY <1>1, TotalType
<1>3. IsFiniteSet(I) /\ Cardinality(I) \in Nat
  <2>1. I \in SUBSET (1..Len(s)) OBVIOUS
  <2>2. IsFiniteSet(I) BY <1>2, <2>1, FS_Subset
  <2>. QED BY <2>2, FS_CardinalityType
<1>4. \A i \in 1..Len(s) : f[i] = IF i \in I THEN 1 ELSE 0 BY DEF Is
<1>. HIDE DEF f, I
<1>5. Pieces(f) = I \X {1}
  <2>1. ASSUME NEW p \in Pieces(f) PROVE p \in I \X {1}
    <3>1. p = <<p[1], p[2]>> /\ p[1] \in 1..Len(s) /\ p[2] \in 1..f[p[1]] BY <1>2, PieceOf
    <3>2. 1..0 = {} /\ 1..1 = {1} OBVIOUS
    <3>. QED BY <3>1, <3>2, <1>4
  <2>2. ASSUME NEW p \in I \X {1} PROVE p \in Pieces(f)
    <3>1. p = <<p[1], p[2]>> /\ p[1] \in I /\ p[2] = 1 OBVIOUS
    <3>2. p[1] \in 1..Len(s) BY <3>1 DEF I
    <3>3. f[p[1]] = 1 /\ 1 \in 1..1 BY <1>4, <3>1, <3>2
    <3>. QED BY <3>1, <3>2, <3>3, <1>2, PieceOf
  <2>. QED BY <2>1, <2>2
<1>6. IsFiniteSet({1}) /\ Cardinality({1}) = 1 BY FS_Singleton
<1>7. Cardinality(I \X {1}) = Cardinality(I) * Cardinality({1}) BY <1>3, <1>6, FS_Product
<1>8. Cardinality(I \X {1}) = Cardinality(I) BY <1>3, <1>6, <1>7
<1>9. Total(s, Is(d)) = Cardinality(Pieces(f)) BY DEF Total, SumOf, Pieces, f
<1>. QED BY <1>1, <1>2, <1>3, <1>5, <1>8, <1>9 DEF I

LEMMA OccurrencesOnce ==
  ASSUME NEW s \in Seq(Documents), IsInjective(s), NEW d
  PROVE  Occurrences(s, d) = IF d \in ToSet(s) THEN 1 ELSE 0
<1>. DEFINE I == {i \in 1..Len(s) : s[i] = d}
<1>1. Occurrences(s, d) = Cardinality(I) BY OccurrencesAre
<1>2. DOMAIN s = 1..Len(s) OBVIOUS
<1>3. CASE d \in ToSet(s)
  <2>1. PICK i \in 1..Len(s) : s[i] = d BY <1>2, <1>3 DEF ToSet
  <2>2. I = {i} BY <1>2, <2>1 DEF IsInjective
  <2>3. Cardinality({i}) = 1 BY FS_Singleton
  <2>. QED BY <1>1, <1>3, <2>2, <2>3
<1>4. CASE d \notin ToSet(s)
  <2>1. I = {} BY <1>2, <1>4 DEF ToSet
  <2>. QED BY <1>1, <1>4, <2>1, FS_EmptySet
<1>. QED BY <1>3, <1>4

\* Filter keeps the elements in S, each once if they are in s once.
LEMMA FilterKeeps ==
  ASSUME NEW D, NEW s \in Seq(D), NEW S
  PROVE  /\ Filter(s, S) \in Seq(D)
         /\ ToSet(Filter(s, S)) = ToSet(s) \cap S
         /\ IsInjective(s) => IsInjective(Filter(s, S))
<1>. DEFINE I    == {i \in DOMAIN s : s[i] \in S}
            R(i) == {j \in I : j < i}
            n    == Cardinality(I)
            rank == [i \in I |-> Cardinality(R(i)) + 1]
            at_  == [k \in 1..n |-> CHOOSE i \in I : Cardinality(R(i)) = k - 1]
<1>1. DOMAIN s = 1..Len(s) /\ Len(s) \in Nat /\ \A i \in 1..Len(s) : s[i] \in D OBVIOUS
<1>2. I \subseteq 1..Len(s) /\ I \subseteq Nat BY <1>1
<1>3. IsFiniteSet(I) /\ n \in Nat
  <2>1. 1 \in Int /\ Len(s) \in Int BY <1>1
  <2>2. IsFiniteSet(1..Len(s)) BY <2>1, FS_Interval
  <2>3. IsFiniteSet(I) BY <1>2, <2>2, FS_Subset
  <2>. QED BY <2>3, FS_CardinalityType
<1>4. Filter(s, S) = [k \in 1..n |-> s[at_[k]]] BY DEF Filter
<1>5. \A i \in I : s[i] \in D /\ s[i] \in S /\ i \in DOMAIN s BY <1>1
<1>6. \A i \in DOMAIN s : s[i] \in S => i \in I OBVIOUS
<1>. HIDE DEF I
<1>7. ASSUME NEW i \in I
      PROVE  IsFiniteSet(R(i)) /\ Cardinality(R(i)) \in Nat /\ Cardinality(R(i)) < n
  <2>1. R(i) \in SUBSET I /\ i \notin R(i) BY <1>2
  <2>2. R(i) # I BY <2>1
  <2>. HIDE DEF R
  <2>3. IsFiniteSet(R(i)) /\ Cardinality(R(i)) <= Cardinality(I) /\ Cardinality(I) # Cardinality(R(i))
    BY <1>3, <2>1, <2>2, FS_Subset
  <2>4. Cardinality(R(i)) \in Nat BY <2>3, FS_CardinalityType
  <2>. QED BY <1>3, <2>3, <2>4
<1>8. rank \in [I -> 1..n]
  <2>. HIDE DEF R, n
  <2>1. \A i \in I : Cardinality(R(i)) + 1 \in 1..n BY <1>3, <1>7
  <2>. QED BY <2>1
<1>9. ASSUME NEW i \in I, NEW k \in I, i < k PROVE Cardinality(R(i)) # Cardinality(R(k))
  <2>1. R(i) \in SUBSET R(k) /\ i \in R(k) /\ i \notin R(i)
    <3>1. i \in Nat /\ k \in Nat /\ \A j \in I : j \in Nat BY <1>2
    <3>2. \A j \in I : j < i => j < k BY <3>1, <1>9
    <3>3. ~(i < i) BY <3>1
    <3>. QED BY <3>2, <3>3, <1>9, Zenon
  <2>2. R(i) # R(k) BY <2>1
  <2>3. IsFiniteSet(R(k)) BY <1>7
  <2>. HIDE DEF R
  <2>. QED BY <2>1, <2>2, <2>3, FS_Subset
<1>10. ASSUME NEW i \in I, NEW k \in I, Cardinality(R(i)) = Cardinality(R(k)) PROVE i = k
  <2>1. i < k \/ k < i \/ i = k BY <1>2
  <2>. QED BY <2>1, <1>9, <1>10
<1>11. rank \in Injection(I, 1..n)
  <2>1. \A i \in I : rank[i] = Cardinality(R(i)) + 1 OBVIOUS
  <2>2. ASSUME NEW i \in I, NEW k \in I, rank[i] = rank[k] PROVE i = k
    <3>1. Cardinality(R(i)) \in Nat /\ Cardinality(R(k)) \in Nat BY <1>7
    <3>2. Cardinality(R(i)) = Cardinality(R(k)) BY <2>1, <2>2, <3>1
    <3>. QED BY <3>2, <1>10
  <2>. QED BY <1>8, <2>2 DEF Injection, IsInjective
<1>12. rank \in Surjection(I, 1..n)
  <2>1. 1 \in Int /\ n \in Int BY <1>3
  <2>2. IsFiniteSet(1..n) /\ Cardinality(1..n) = n BY <1>3, <2>1, FS_Interval
  <2>. HIDE DEF rank
  <2>3. Cardinality(I) = Cardinality(1..n) BY <2>2
  <2>. HIDE DEF n
  <2>. QED BY <1>11, <2>2, <2>3, FS_Injection
<1>13. ASSUME NEW k \in 1..n PROVE at_[k] \in I /\ Cardinality(R(at_[k])) = k - 1
  <2>1. PICK i \in I : rank[i] = k BY <1>12 DEF Surjection
  <2>2. Cardinality(R(i)) + 1 = k BY <2>1
  <2>3. Cardinality(R(i)) = k - 1
    <3>. HIDE DEF R
    <3>1. Cardinality(R(i)) \in Nat BY <1>7
    <3>. QED BY <2>2, <3>1
  <2>4. at_[k] = CHOOSE j \in I : Cardinality(R(j)) = k - 1 OBVIOUS
  <2>. HIDE DEF at_, R
  <2>. QED BY <2>3, <2>4
<1>14. ASSUME NEW i \in I PROVE \E k \in 1..n : at_[k] = i
  <2>. DEFINE k == Cardinality(R(i)) + 1
  <2>1. k \in 1..n /\ k - 1 = Cardinality(R(i))
    <3>. HIDE DEF R, n
    <3>. QED BY <1>3, <1>7
  <2>2. at_[k] \in I /\ Cardinality(R(at_[k])) = k - 1 BY <2>1, <1>13
  <2>3. at_[k] = i BY <2>1, <2>2, <1>10
  <2>. QED BY <2>1, <2>3
<1>15. ASSUME NEW k \in 1..n, NEW l \in 1..n, at_[k] = at_[l] PROVE k = l
  <2>1. k - 1 = l - 1 BY <1>13, <1>15
  <2>. QED BY <2>1
<1>. HIDE DEF n, at_, rank, R
<1>16. Filter(s, S) \in Seq(D)
  <2>1. \A k \in 1..n : s[at_[k]] \in D BY <1>5, <1>13
  <2>2. [k \in 1..n |-> s[at_[k]]] \in [1..n -> D] BY <2>1
  <2>. QED BY <1>3, <1>4, <2>2, SeqDef
<1>17. DOMAIN Filter(s, S) = 1..n /\ \A k \in 1..n : Filter(s, S)[k] = s[at_[k]] BY <1>4
<1>18. ToSet(Filter(s, S)) = ToSet(s) \cap S
  <2>1. ASSUME NEW x \in ToSet(Filter(s, S)) PROVE x \in ToSet(s) \cap S
    <3>1. PICK k \in 1..n : x = s[at_[k]] BY <1>17, <2>1 DEF ToSet
    <3>. QED BY <3>1, <1>5, <1>13 DEF ToSet
  <2>2. ASSUME NEW x \in ToSet(s) \cap S PROVE x \in ToSet(Filter(s, S))
    <3>1. PICK i \in DOMAIN s : x = s[i] BY <2>2 DEF ToSet
    <3>2. PICK k \in 1..n : at_[k] = i BY <3>1, <2>2, <1>6, <1>14
    <3>. QED BY <3>1, <3>2, <1>17 DEF ToSet
  <2>. QED BY <2>1, <2>2
<1>19. ASSUME IsInjective(s) PROVE IsInjective(Filter(s, S))
  <2>1. ASSUME NEW k \in 1..n, NEW l \in 1..n, s[at_[k]] = s[at_[l]] PROVE k = l
    <3>1. at_[k] \in DOMAIN s /\ at_[l] \in DOMAIN s BY <1>5, <1>13
    <3>2. at_[k] = at_[l] BY <1>19, <2>1, <3>1 DEF IsInjective
    <3>. QED BY <3>2, <1>15
  <2>. QED BY <2>1, <1>17 DEF IsInjective
<1>. QED BY <1>16, <1>18, <1>19

\* A sequence with at most two copies of the root and one of each other document.
LEMMA FewCopies ==
  ASSUME NEW s \in Seq(Documents), IsFiniteSet(Documents), NEW r \in Documents,
         Occurrences(s, r) <= 2, \A d \in Documents : d # r => Occurrences(s, d) <= 1
  PROVE  Len(s) <= Cardinality(Documents) + 1
<1>. DEFINE n == Len(s)
            A == {i \in 1..n : s[i] = r}
            B == (1..n) \ A
            f == [i \in B |-> s[i]]
<1>1. n \in Nat /\ \A i \in 1..n : s[i] \in Documents OBVIOUS
<1>2. IsFiniteSet(1..n) /\ Cardinality(1..n) = n
  <2>1. 1 \in Int /\ n \in Int BY <1>1
  <2>2. IsFiniteSet(1..n) /\ Cardinality(1..n) = IF 1 > n THEN 0 ELSE n - 1 + 1
    BY <2>1, FS_Interval
  <2>. HIDE DEF n
  <2>. QED BY <1>1, <2>2
<1>3. IsFiniteSet(A) /\ Cardinality(A) \in Nat /\ Cardinality(A) <= 2
  <2>1. IsFiniteSet(A) /\ Cardinality(A) = Occurrences(s, r) BY OccurrencesAre
  <2>. QED BY <2>1, FS_CardinalityType
<1>4. IsFiniteSet(Documents \ {r}) /\ Cardinality(Documents \ {r}) = Cardinality(Documents) - 1
  BY FS_RemoveElement
<1>5. ASSUME NEW i \in B, NEW k \in B, s[i] = s[k] PROVE i = k
  <2>. DEFINE d == s[i]
              I == {l \in 1..n : s[l] = d}
  <2>1. d \in Documents /\ d # r BY <1>1
  <2>2. IsFiniteSet(I) /\ Cardinality(I) <= 1
    <3>1. IsFiniteSet(I) /\ Cardinality(I) = Occurrences(s, d) BY OccurrencesAre
    <3>2. Occurrences(s, d) <= 1 BY <2>1
    <3>. QED BY <3>1, <3>2
  <2>3. i \in I /\ k \in I BY <1>5
  <2>. HIDE DEF I
  <2>4. Cardinality(I) \in Nat BY <2>2, FS_CardinalityType
  <2>5. Cardinality(I) # 0 BY <2>2, <2>3, FS_EmptySet
  <2>6. Cardinality(I) = 1 BY <2>2, <2>4, <2>5
  <2>7. PICK x : I = {x} BY <2>2, <2>6, FS_Singleton
  <2>. QED BY <2>3, <2>7
<1>6. f \in Injection(B, Documents \ {r})
  <2>1. f \in [B -> Documents \ {r}] BY <1>1
  <2>2. \A i, k \in B : f[i] = f[k] => i = k BY <1>5
  <2>. QED BY <2>1, <2>2 DEF Injection, IsInjective
<1>. HIDE DEF f
<1>7. Cardinality(B) <= Cardinality(Documents) - 1
  <2>. HIDE DEF B
  <2>. QED BY <1>4, <1>6, FS_Injection
<1>8. Cardinality(B) = Cardinality(1..n) - Cardinality((1..n) \cap A)
  BY <1>2, FS_Difference
<1>9. (1..n) \cap A = A OBVIOUS
<1>10. Cardinality(Documents) \in Nat BY FS_CardinalityType
<1>11. Cardinality(B) = n - Cardinality(A) BY <1>2, <1>8, <1>9
<1>. HIDE DEF n, A, B
<1>12. n <= Cardinality(Documents) + 1 BY <1>1, <1>3, <1>7, <1>10, <1>11
<1>. QED BY <1>12 DEF n

-----------------------------------------------------------------------------
(* The elements of sequences. *)

LEMMA ElementsOf ==
  ASSUME NEW S, NEW s \in Seq(S)
  PROVE  /\ ToSet(s) \subseteq S
         /\ \A x \in S : /\ Append(s, x) \in Seq(S)
                         /\ ToSet(Append(s, x)) = ToSet(s) \cup {x}
         /\ s # <<>> => /\ Head(s) \in S /\ Tail(s) \in Seq(S)
                        /\ ToSet(s) = {Head(s)} \cup ToSet(Tail(s))
         /\ \A t \in Seq(S) : s \o t \in Seq(S) /\ ToSet(s \o t) = ToSet(s) \cup ToSet(t)
         /\ \A j \in 0..Len(s) : SubSeq(s, 1, j) \in Seq(S) /\ ToSet(SubSeq(s, 1, j)) \subseteq ToSet(s)
<1>1. Len(s) \in Nat /\ DOMAIN s = 1..Len(s) /\ \A i \in 1..Len(s) : s[i] \in S OBVIOUS
<1>2. ToSet(s) \subseteq S BY <1>1 DEF ToSet
<1>3. ASSUME NEW x \in S
      PROVE  Append(s, x) \in Seq(S) /\ ToSet(Append(s, x)) = ToSet(s) \cup {x}
  <2>. DEFINE t == Append(s, x)
  <2>1. /\ t \in Seq(S) /\ DOMAIN t = 1..(Len(s) + 1) /\ t[Len(s) + 1] = x
        /\ \A i \in 1..Len(s) : t[i] = s[i]
    BY <1>1, AppendProperties
  <2>. HIDE DEF t
  <2>2. ASSUME NEW y \in ToSet(t) PROVE y \in ToSet(s) \cup {x}
    BY <1>1, <2>1, <2>2 DEF ToSet
  <2>3. x \in ToSet(t) BY <1>1, <2>1 DEF ToSet
  <2>4. ASSUME NEW y \in ToSet(s) PROVE y \in ToSet(t)
    BY <1>1, <2>1, <2>4 DEF ToSet
  <2>. QED BY <2>1, <2>2, <2>3, <2>4 DEF t
<1>4. ASSUME s # <<>>
      PROVE  /\ Head(s) \in S /\ Tail(s) \in Seq(S)
             /\ ToSet(s) = {Head(s)} \cup ToSet(Tail(s))
  <2>. DEFINE t == Tail(s)
  <2>1. /\ Len(s) > 0 /\ Head(s) = s[1] /\ t \in Seq(S)
        /\ DOMAIN t = 1..(Len(s) - 1) /\ \A i \in 1..(Len(s) - 1) : t[i] = s[i + 1]
    BY <1>1, <1>4
  <2>. HIDE DEF t
  <2>2. ASSUME NEW y \in ToSet(s) PROVE y \in {s[1]} \cup ToSet(t)
    <3>1. PICK i \in 1..Len(s) : y = s[i] BY <1>1, <2>2 DEF ToSet
    <3>2. CASE i = 1 BY <3>1, <3>2
    <3>3. CASE i # 1
      <4>1. i - 1 \in 1..(Len(s) - 1) /\ (i - 1) + 1 = i BY <1>1, <3>1, <3>3
      <4>2. y = t[i - 1] BY <2>1, <3>1, <4>1
      <4>. QED BY <2>1, <4>1, <4>2 DEF ToSet
    <3>. QED BY <3>2, <3>3
  <2>3. ASSUME NEW y \in ToSet(t) PROVE y \in ToSet(s)
    <3>1. PICK i \in 1..(Len(s) - 1) : y = t[i] BY <2>1, <2>3 DEF ToSet
    <3>2. i + 1 \in 1..Len(s) /\ y = s[i + 1] BY <1>1, <2>1, <3>1
    <3>. QED BY <1>1, <3>2 DEF ToSet
  <2>4. s[1] \in ToSet(s) /\ s[1] \in S BY <1>1, <2>1 DEF ToSet
  <2>. QED BY <2>1, <2>2, <2>3, <2>4 DEF t
<1>5. ASSUME NEW t \in Seq(S)
      PROVE  s \o t \in Seq(S) /\ ToSet(s \o t) = ToSet(s) \cup ToSet(t)
  <2>1. s \o t \in Seq(S) BY ConcatProperties
  <2>2. Range(s \o t) = Range(s) \cup Range(t) BY RangeConcatenation
  <2>. QED BY <2>1, <2>2 DEF Range, ToSet
<1>6. ASSUME NEW j \in 0..Len(s)
      PROVE  SubSeq(s, 1, j) \in Seq(S) /\ ToSet(SubSeq(s, 1, j)) \subseteq ToSet(s)
  <2>. DEFINE t == SubSeq(s, 1, j)
  <2>1. t \in Seq(S) /\ DOMAIN t = 1..j /\ \A i \in 1..j : t[i] = s[i]
    <3>1. t \in Seq(S) /\ Len(t) = j BY <1>1, SubSeqProperties
    <3>2. \A i \in 1..j : t[i] = s[1 + i - 1] /\ 1 + i - 1 = i BY <1>1
    <3>. QED BY <3>1, <3>2
  <2>. HIDE DEF t
  <2>2. ASSUME NEW y \in ToSet(t) PROVE y \in ToSet(s)
    <3>1. PICK i \in 1..j : y = s[i] BY <2>1, <2>2 DEF ToSet
    <3>2. i \in 1..Len(s) BY <1>1, <3>1
    <3>. QED BY <1>1, <3>1, <3>2 DEF ToSet
  <2>. QED BY <2>1, <2>2 DEF t
<1>. QED BY <1>2, <1>3, <1>4, <1>5, <1>6

-----------------------------------------------------------------------------
(* The scenario. *)

LEMMA ScenarioFacts ==
  ASSUME setup \in Scenarios
  PROVE  /\ IsFiniteSet(Documents) /\ IsFiniteSet(Coordinators) /\ RootDocument \in Documents
         /\ Cardinality(Documents) \in Nat
         /\ Links \in [Documents -> Seq(Documents)]
         /\ \A d \in Documents : IsInjective(Links[d])
         /\ BufferSize \in Nat /\ BufferSize > 0
         /\ Period \in Nat /\ Period > 0
         /\ setup.maxCrashes \in Nat
         /\ setup.joining \subseteq Coordinators
         /\ setup.initialPool \in Seq(Coordinators) /\ setup.initialPool # <<>>
         /\ IsInjective(setup.initialPool)
<1>1. setup \in Scenario BY CrawlPipelineAssumption
<1>2. /\ \A d \in Documents : IsInjective(setup.links[d])
      /\ setup.initialPool # <<>> /\ IsInjective(setup.initialPool)
  BY CrawlPipelineAssumption
<1>3. /\ setup.links \in [Documents -> Seq(Documents)]
      /\ setup.bufferSize \in Nat \ {0} /\ setup.period \in Nat \ {0}
      /\ setup.maxCrashes \in Nat /\ setup.joining \in SUBSET Coordinators
      /\ setup.initialPool \in Seq(Coordinators)
  BY <1>1 DEF Scenario
<1>4. IsFiniteSet(Documents) /\ IsFiniteSet(Coordinators) /\ RootDocument \in Documents
  BY CrawlPipelineAssumption
<1>5. Cardinality(Documents) \in Nat BY <1>4, FS_CardinalityType
<1>. QED BY <1>2, <1>3, <1>4, <1>5 DEF Links, BufferSize, Period

\* What a stream makes of the documents it is offered.
LEMMA OfferAllKeeps ==
  ASSUME setup \in Scenarios, NEW b \in Seq(Documents), Len(b) <= BufferSize,
         NEW docs \in Seq(Documents)
  PROVE  /\ OfferAll(b, docs) \in Seq(Documents) /\ Len(OfferAll(b, docs)) <= BufferSize
         /\ ToSet(OfferAll(b, docs)) \subseteq ToSet(b) \cup ToSet(docs)
         /\ \A d : /\ Occurrences(b, d) \in Nat /\ Occurrences(docs, d) \in Nat
                   /\ Occurrences(OfferAll(b, docs), d) \in Nat
                   /\ Occurrences(OfferAll(b, docs), d) <= Occurrences(b, d) + Occurrences(docs, d)
                   /\ Len(b) + Len(docs) <= BufferSize =>
                        Occurrences(OfferAll(b, docs), d) = Occurrences(b, d) + Occurrences(docs, d)
<1>. DEFINE s == b \o docs
            o == OfferAll(b, docs)
<1>1. BufferSize \in Nat /\ BufferSize > 0 BY ScenarioFacts
<1>2. /\ s \in Seq(Documents) /\ Len(s) = Len(b) + Len(docs) /\ Len(b) \in Nat /\ Len(docs) \in Nat
      /\ ToSet(s) = ToSet(b) \cup ToSet(docs)
  BY ConcatProperties, ElementsOf
<1>3. ASSUME NEW d
      PROVE  /\ Occurrences(b, d) \in Nat /\ Occurrences(docs, d) \in Nat
             /\ Occurrences(s, d) = Occurrences(b, d) + Occurrences(docs, d)
  <2>1. Is(d) \in [Documents -> Nat] BY DEF Is
  <2>2. /\ Total(b, Is(d)) \in Nat /\ Total(docs, Is(d)) \in Nat
        /\ Total(s, Is(d)) = Total(b, Is(d)) + Total(docs, Is(d))
    BY <2>1, TotalConcat
  <2>. QED BY <2>2 DEF Occurrences, Is
<1>4. CASE Len(b) + Len(docs) <= BufferSize
  <2>1. o = s BY <1>4 DEF OfferAll
  <2>2. \A d : Occurrences(s, d) \in Nat BY <1>3
  <2>. QED BY <1>2, <1>3, <1>4, <2>1, <2>2
<1>5. CASE ~(Len(b) + Len(docs) <= BufferSize)
  <2>. DEFINE j == BufferSize - 1
              x == s[Len(s)]
  <2>1. Len(docs) > 0 /\ Len(s) > BufferSize BY <1>1, <1>2, <1>5
  <2>2. x = docs[Len(docs)]
    <3>1. Len(s) \in 1..Len(b) + Len(docs) /\ ~(Len(s) <= Len(b)) /\ Len(s) - Len(b) = Len(docs)
      BY <1>2, <2>1
    <3>. QED BY <3>1, ConcatProperties
  <2>3. o = Append(SubSeq(s, 1, j), x) BY <1>5, <2>2 DEF OfferAll
  <2>4. s # <<>> /\ j \in 0..(Len(s) - 1) /\ j \in 0..Len(s) /\ x \in Documents /\ x \in ToSet(s)
    <3>1. Len(s) \in DOMAIN s BY <1>2, <2>1
    <3>. QED BY <1>1, <1>2, <2>1, <3>1 DEF ToSet
  <2>. HIDE DEF s, x, j
  <2>5. KeepsLast(Documents, s, j, o) BY <1>2, <2>3, <2>4 DEF KeepsLast, x
  <2>6. /\ o \in Seq(Documents) /\ Len(o) = j + 1
        /\ \A w \in [Documents -> Nat] : Total(o, w) <= Total(s, w)
    BY <2>5, TotalLastKept
  <2>7. Len(o) <= BufferSize BY <2>6, <1>1 DEF j
  <2>8. ToSet(o) \subseteq ToSet(s)
    <3>. DEFINE q == SubSeq(s, 1, j)
    <3>1. q \in Seq(Documents) /\ ToSet(q) \subseteq ToSet(s)
      BY <1>2, <2>4, ElementsOf
    <3>2. o = Append(q, x) BY <2>3
    <3>. HIDE DEF q
    <3>3. ToSet(Append(q, x)) = ToSet(q) \cup {x} BY <2>4, <3>1, ElementsOf
    <3>. QED BY <2>4, <3>1, <3>2, <3>3
  <2>. HIDE DEF o
  <2>9. ASSUME NEW d
        PROVE  Occurrences(o, d) \in Nat /\ Occurrences(o, d) <= Occurrences(s, d)
    <3>1. Is(d) \in [Documents -> Nat] BY DEF Is
    <3>2. Total(o, Is(d)) <= Total(s, Is(d)) BY <3>1, <2>6
    <3>3. Occurrences(o, d) = Total(o, Is(d)) /\ Occurrences(s, d) = Total(s, Is(d))
      BY DEF Occurrences, Is
    <3>4. Occurrences(o, d) \in Nat BY <2>6, OccurrencesAre
    <3>. QED BY <3>2, <3>3, <3>4
  <2>10. ToSet(o) \subseteq ToSet(b) \cup ToSet(docs) BY <1>2, <2>8
  <2>11. \A d : /\ Occurrences(b, d) \in Nat /\ Occurrences(docs, d) \in Nat
                /\ Occurrences(o, d) \in Nat
                /\ Occurrences(o, d) <= Occurrences(b, d) + Occurrences(docs, d)
    BY <1>3, <2>9
  <2>. QED BY <1>5, <2>6, <2>7, <2>10, <2>11 DEF o
<1>. QED BY <1>4, <1>5

\* The documents that can be reached.
LEMMA ReachableFacts ==
  ASSUME setup \in Scenarios
  PROVE  /\ RootDocument \in Reachable
         /\ Reachable \subseteq Documents
         /\ \A d \in Reachable : ToSet(Links[d]) \subseteq Reachable
         /\ \A S \in SUBSET Documents :
              RootDocument \in S /\ (\A d \in S : ToSet(Links[d]) \subseteq S) => Reachable \subseteq S
<1>1. RootDocument \in Documents /\ \A d \in Documents : ToSet(Links[d]) \subseteq Documents
  BY ScenarioFacts, ElementsOf
<1>2. ASSUME NEW d \in Reachable, NEW e \in ToSet(Links[d]) PROVE e \in Reachable
  <2>1. d \in Documents BY DEF Reachable
  <2>2. e \in Documents BY <1>1, <2>1
  <2>3. ASSUME NEW S \in SUBSET Documents, RootDocument \in S, \A f \in S : ToSet(Links[f]) \subseteq S
        PROVE  e \in S
    <3>1. d \in S BY <2>3 DEF Reachable
    <3>. QED BY <2>3, <3>1
  <2>. QED BY <2>2, <2>3 DEF Reachable
<1>. QED BY <1>1, <1>2 DEF Reachable

-----------------------------------------------------------------------------
(* The invariant. *)

\* What has been counted at c, or is on its way to be counted by c: discoveries,
\* downloads; and the copies of d on their way to c or with it.
Field(f)  == [st \in Stats |-> st[f]]
CountOf   == [m \in Messages |-> m.count]
Copied(d) == [m \in Messages |-> Occurrences(m.docs, d)]

FoundIn(st, re, ro)     == st.discovered + Total(re, Field("discovered")) + Total(ro, CountOf)
LoggedIn(st, re, ds)    == st.downloaded + Total(re, Field("downloaded")) + Len(ds)
CopiesOf(ro, so, fe, d) == Total(ro, Copied(d)) + Occurrences(so, d) + fe[d]

FoundAt(c)     == FoundIn(stats[c], reports[c], routed[c])
LoggedAt(c)    == LoggedIn(stats[c], reports[c], done[c])
CopiesAt(c, d) == CopiesOf(routed[c], source[c], fetching[c], d)

Discoveries == total.discovered + SumOf([c \in Coordinators |-> FoundAt(c)])
Logs        == total.downloaded + SumOf([c \in Coordinators |-> LoggedAt(c)])
AllCopies(d) == SumOf([c \in Coordinators |-> CopiesAt(c, d)])

\* What may be downloaded: the claims, and the root.
Claims(d) == claim[d].count + IF d = RootDocument THEN 1 ELSE 0

FoundOK  == /\ Discoveries <= 1 + Cardinality(Recorded)
            /\ crashes = 0 => Discoveries = 1 + Cardinality(Recorded)
LoggedOK == /\ Logs <= Downloads
            /\ crashes = 0 => Logs = Downloads
CopiesOK == \A d \in Documents :
              /\ AllCopies(d) + fetched[d] <= Claims(d)
              /\ Undisturbed => AllCopies(d) + fetched[d] = Claims(d)

CountsOK == FoundOK /\ LoggedOK /\ CopiesOK

\* A document is recorded when it was claimed, under a deadline that is not
\* before the start of the job, so that at the start nothing is claimed twice.
ClaimsOK ==
  /\ now \in Nat
  /\ \A d \in Documents :
       /\ claim[d].count = 0 <=> recorded[d] = Unrecorded
       /\ recorded[d] # Unrecorded => ~recorded[d].complete /\ recorded[d].timeout \in Nat
       /\ now = 0 => claim[d].count <= 1

\* As long as no coordinator is lost, the pool has routees, which all run.
PoolOK == crashes = 0 => pool # <<>> /\ ToSet(pool) \subseteq alive

\* A coordinator that does not run has nothing to do.
GoneAreEmpty ==
  \A c \in Coordinators \ alive :
    /\ routed[c] = <<>> /\ source[c] = <<>> /\ done[c] = <<>> /\ parsed[c] = <<>>
    /\ \A d \in Documents : fetching[c][d] = 0
    /\ stats[c] = Reset

\* What is under way was named by pages that can be reached, or is the root.
Named == UNION {ToSet(Links[d]) : d \in Reachable}
ReachAt(c) ==
  /\ \A msg \in ToSet(routed[c]) : ToSet(msg.docs) \subseteq Reachable
  /\ ToSet(source[c]) \subseteq Reachable
  /\ \A d \in Documents : fetching[c][d] > 0 => d \in Reachable
  /\ ToSet(parsed[c]) \subseteq Reachable
  /\ ToSet(asked[c]) \subseteq {Links[d] : d \in Reachable}
ReachOK == (\A c \in Coordinators : ReachAt(c)) /\ Recorded \subseteq Named

\* The documents a downloaded page names are recorded, or asked about, or the
\* page is about to be asked about.
Followed ==
  crashes = 0 =>
    \A d \in Documents : fetched[d] > 0 =>
      \/ ToSet(Links[d]) \subseteq Recorded
      \/ \E c \in Coordinators : d \in ToSet(parsed[c]) \/ Links[d] \in ToSet(asked[c])

\* All that holds of the work under way; with it, a job that ends for want of
\* work is complete.
WorkOK == TypeOK /\ ClaimsOK /\ PoolOK /\ GoneAreEmpty /\ ReachOK /\ Followed /\ CountsOK

IInv == WorkOK /\ FinishedIsComplete

-----------------------------------------------------------------------------
(* Messages and statistics. *)

LEMMA MessageFacts ==
  /\ \A docs \in Seq(Documents) : Process(docs) \in Messages /\ Process(docs).docs = docs
                                  /\ Process(docs).count = 0
  /\ \A n \in Nat : Found(n) \in Messages /\ Found(n).docs = <<>> /\ Found(n).count = n
  /\ \A d \in Documents : Download(d) \in Messages /\ Download(d).docs = <<d>>
                          /\ Download(d).count = 0
<1>1. ASSUME NEW docs \in Seq(Documents)
      PROVE  Process(docs) \in Messages /\ Process(docs).docs = docs /\ Process(docs).count = 0
  BY DEF Process, Messages
<1>2. ASSUME NEW n \in Nat
      PROVE  Found(n) \in Messages /\ Found(n).docs = <<>> /\ Found(n).count = n
  BY DEF Found, Messages
<1>3. ASSUME NEW d \in Documents
      PROVE  Download(d) \in Messages /\ Download(d).docs = <<d>> /\ Download(d).count = 0
  <2>1. <<d>> \in Seq(Documents) OBVIOUS
  <2>. QED BY <2>1 DEF Download, Messages
<1>. QED BY <1>1, <1>2, <1>3

LEMMA StatsFacts ==
  /\ Reset \in Stats /\ Reset.discovered = 0 /\ Reset.downloaded = 0
  /\ \A s \in Stats : s.discovered \in Nat /\ s.downloaded \in Nat
  /\ \A s \in Stats, n \in Nat : /\ WithDiscovered(s, n) \in Stats
                                 /\ WithDiscovered(s, n).discovered = s.discovered + n
                                 /\ WithDiscovered(s, n).downloaded = s.downloaded
  /\ \A s \in Stats, d \in Documents : /\ WithCompleted(s, d) \in Stats
                                       /\ WithCompleted(s, d).discovered = s.discovered
                                       /\ WithCompleted(s, d).downloaded = s.downloaded + 1
  /\ \A s, t \in Stats : /\ Merge(s, t) \in Stats
                         /\ Merge(s, t).discovered = s.discovered + t.discovered
                         /\ Merge(s, t).downloaded = s.downloaded + t.downloaded
<1>1. Reset \in Stats /\ Reset.discovered = 0 /\ Reset.downloaded = 0 BY DEF Reset, Stats
<1>2. \A s \in Stats : s.discovered \in Nat /\ s.downloaded \in Nat /\ s.bytes \in Nat BY DEF Stats
<1>3. ASSUME NEW s \in Stats, NEW n \in Nat
      PROVE  /\ WithDiscovered(s, n) \in Stats
             /\ WithDiscovered(s, n).discovered = s.discovered + n
             /\ WithDiscovered(s, n).downloaded = s.downloaded
  BY DEF WithDiscovered, Stats
<1>4. ASSUME NEW s \in Stats, NEW d \in Documents
      PROVE  /\ WithCompleted(s, d) \in Stats
             /\ WithCompleted(s, d).discovered = s.discovered
             /\ WithCompleted(s, d).downloaded = s.downloaded + 1
  <2>. DEFINE k == IF d \in EmptyPages THEN 0 ELSE 1
  <2>1. k \in Nat OBVIOUS
  <2>2. WithCompleted(s, d) = [s EXCEPT !.downloaded = @ + 1, !.bytes = @ + k] BY DEF WithCompleted
  <2>. HIDE DEF k
  <2>3. s \in [discovered : Nat, downloaded : Nat, bytes : Nat] BY DEF Stats
  <2>4. WithCompleted(s, d) = [discovered |-> s.discovered, downloaded |-> s.downloaded + 1,
                               bytes |-> s.bytes + k]
    BY <2>2, <2>3
  <2>. QED BY <1>2, <2>1, <2>4 DEF Stats
<1>5. ASSUME NEW s \in Stats, NEW t \in Stats
      PROVE  /\ Merge(s, t) \in Stats
             /\ Merge(s, t).discovered = s.discovered + t.discovered
             /\ Merge(s, t).downloaded = s.downloaded + t.downloaded
  BY <1>2 DEF Merge, Stats
<1>. QED BY <1>1, <1>2, <1>3, <1>4, <1>5

-----------------------------------------------------------------------------
(* The router. *)

\* What routing adds to the weight of what is under way to the coordinators.
RouteAdds(w, first, second) ==
  \E g \in [Coordinators -> Nat] :
    /\ \A c \in Coordinators : Total(routed'[c], w) = Total(routed[c], w) + g[c]
    /\ SumOf(g) <= w[first] + w[second]
    /\ pool # <<>> /\ ToSet(pool) \subseteq alive => SumOf(g) = w[first] + w[second]

LEMMA RouteeType ==
  ASSUME TypeOK, pool # <<>>, NEW k \in Nat
  PROVE  Routee(k) \in Coordinators /\ Routee(k) \in ToSet(pool)
<1>1. next \in Nat /\ pool \in Seq(Coordinators)
  <2>1. Period \in Nat BY ScenarioFacts DEF TypeOK
  <2>. QED BY <2>1 DEF TypeOK
<1>. DEFINE n == Len(pool)
            i == ((next + k) % n) + 1
<1>2. n \in Nat /\ n > 0 /\ DOMAIN pool = 1..n BY <1>1
<1>3. next + k \in Nat BY <1>1
<1>. HIDE DEF n
<1>4. (next + k) % n \in 0..(n - 1) BY <1>2, <1>3
<1>5. i \in 1..n BY <1>2, <1>4
<1>6. pool[i] \in Coordinators /\ pool[i] \in ToSet(pool) BY <1>1, <1>2, <1>5 DEF ToSet
<1>. QED BY <1>6 DEF Routee, n

LEMMA GivenType ==
  ASSUME NEW k, NEW msg \in Messages, NEW c \in Coordinators
  PROVE  /\ Given(k, msg, c) \in Seq(Messages)
         /\ ToSet(Given(k, msg, c)) \subseteq {msg}
         /\ c \notin alive => Given(k, msg, c) = <<>>
<1>1. <<>> \in Seq(Messages) /\ ToSet(<<>>) = {}
  <2>1. DOMAIN <<>> = {} OBVIOUS
  <2>. QED BY <2>1 DEF ToSet
<1>2. <<msg>> \in Seq(Messages) /\ ToSet(<<msg>>) \subseteq {msg} BY DEF ToSet
<1>. QED BY <1>1, <1>2 DEF Given

LEMMA RouteFacts ==
  ASSUME TypeOK, NEW first \in Messages, NEW second \in Messages, Route(first, second)
  PROVE  /\ routed' \in [Coordinators -> Seq(Messages)]
         /\ next' \in 0..(Period - 1)
         /\ \A c \in Coordinators : /\ ToSet(routed'[c]) \subseteq ToSet(routed[c]) \cup {first, second}
                                    /\ c \notin alive => routed'[c] = routed[c]
<1>1. routed \in [Coordinators -> Seq(Messages)] /\ next \in 0..(Period - 1) BY DEF TypeOK
<1>2. Period \in Nat /\ Period > 0 BY ScenarioFacts DEF TypeOK
<1>3. CASE pool = <<>>
  BY <1>1, <1>3 DEF Route
<1>4. CASE pool # <<>>
  <2>1. /\ routed' = [c \in Coordinators |->
                        routed[c] \o Given(0, first, c) \o Given(1, second, c)]
        /\ next' = (next + 2) % Period
    BY <1>4 DEF Route
  <2>2. ASSUME NEW c \in Coordinators
        PROVE  /\ routed'[c] \in Seq(Messages)
               /\ ToSet(routed'[c]) \subseteq ToSet(routed[c]) \cup {first, second}
               /\ c \notin alive => routed'[c] = routed[c]
    <3>. DEFINE r == routed[c]
                g == Given(0, first, c)
                h == Given(1, second, c)
    <3>1. routed'[c] = r \o g \o h BY <2>1
    <3>2. /\ r \in Seq(Messages) /\ g \in Seq(Messages) /\ h \in Seq(Messages)
          /\ ToSet(g) \subseteq {first} /\ ToSet(h) \subseteq {second}
          /\ c \notin alive => g = <<>> /\ h = <<>>
      BY <1>1, GivenType
    <3>. HIDE DEF r, g, h
    <3>3. r \o g \in Seq(Messages) /\ ToSet(r \o g) = ToSet(r) \cup ToSet(g) BY <3>2, ElementsOf
    <3>4. c \notin alive => r \o g \o h = r BY <3>2, ConcatEmptySeq
    <3>. DEFINE u == r \o g
    <3>5. u \in Seq(Messages) /\ ToSet(u) = ToSet(r) \cup ToSet(g) /\ routed'[c] = u \o h
          /\ (c \notin alive => u \o h = r)
      BY <3>1, <3>3, <3>4
    <3>. HIDE DEF u
    <3>6. u \o h \in Seq(Messages) /\ ToSet(u \o h) = ToSet(u) \cup ToSet(h)
      BY <3>2, <3>5, ElementsOf
    <3>. QED BY <3>2, <3>5, <3>6 DEF r
  <2>3. next + 2 \in Nat BY <1>1, <1>2
  <2>4. (next + 2) % Period \in 0..(Period - 1) BY <1>2, <2>3
  <2>. QED BY <2>1, <2>2, <2>4
<1>. QED BY <1>3, <1>4

LEMMA RouteTotals ==
  ASSUME TypeOK, NEW first \in Messages, NEW second \in Messages, Route(first, second),
         NEW w \in [Messages -> Nat]
  PROVE  RouteAdds(w, first, second)
<1>1. /\ routed \in [Coordinators -> Seq(Messages)] /\ IsFiniteSet(Coordinators)
      /\ w[first] \in Nat /\ w[second] \in Nat
      /\ pool \in Seq(Coordinators)
  BY ScenarioFacts DEF TypeOK
<1>2. CASE pool = <<>>
  <2>. DEFINE g == [c \in Coordinators |-> 0]
  <2>1. g \in [Coordinators -> Nat] /\ \A c \in Coordinators : g[c] = 0 OBVIOUS
  <2>2. routed' = routed BY <1>2 DEF Route
  <2>. HIDE DEF g
  <2>3. SumOf(g) = 0 BY <2>1, SumZero
  <2>4. \A c \in Coordinators : Total(routed[c], w) \in Nat BY <1>1, TotalType
  <2>5. \A c \in Coordinators : Total(routed'[c], w) = Total(routed[c], w) + g[c]
    BY <2>1, <2>2, <2>4
  <2>6. SumOf(g) <= w[first] + w[second] BY <1>1, <2>3
  <2>. QED BY <1>2, <2>1, <2>5, <2>6 DEF RouteAdds
<1>3. CASE pool # <<>>
  <2>. DEFINE a == Routee(0)
              b == Routee(1)
              f == [c \in Coordinators |-> IF a = c /\ c \in alive THEN w[first] ELSE 0]
              h == [c \in Coordinators |-> IF b = c /\ c \in alive THEN w[second] ELSE 0]
              g == [c \in Coordinators |-> f[c] + h[c]]
  <2>1. a \in Coordinators /\ b \in Coordinators /\ a \in ToSet(pool) /\ b \in ToSet(pool)
    BY <1>3, RouteeType
  <2>2. f \in [Coordinators -> Nat] /\ h \in [Coordinators -> Nat] BY <1>1
  <2>3. g \in [Coordinators -> Nat] /\ \A c \in Coordinators : g[c] = f[c] + h[c] BY <2>2
  <2>4. /\ \A c \in Coordinators : c # a => f[c] = 0
        /\ \A c \in Coordinators : c # b => h[c] = 0
        /\ f[a] = IF a \in alive THEN w[first] ELSE 0
        /\ h[b] = IF b \in alive THEN w[second] ELSE 0
    BY <2>1
  <2>5. ASSUME NEW c \in Coordinators
        PROVE  Total(routed'[c], w) = Total(routed[c], w) + g[c]
    <3>. DEFINE r == routed[c]
                x == Given(0, first, c)
                y == Given(1, second, c)
    <3>1. routed'[c] = r \o x \o y BY <1>3 DEF Route
    <3>2. r \in Seq(Messages) /\ x \in Seq(Messages) /\ y \in Seq(Messages)
      BY <1>1, GivenType
    <3>3. Total(<<>>, w) = 0 /\ Total(<<first>>, w) = w[first] /\ Total(<<second>>, w) = w[second]
      BY TotalEmpty, TotalOne
    <3>4. Total(x, w) = f[c] /\ Total(y, w) = h[c] BY <3>3 DEF Given
    <3>. HIDE DEF r, x, y, f, h, g
    <3>5. r \o x \in Seq(Messages) /\ Total(r, w) \in Nat /\ Total(x, w) \in Nat
          /\ Total(r \o x, w) = Total(r, w) + Total(x, w)
      BY <3>2, TotalConcat
    <3>. DEFINE u == r \o x
    <3>6. Splits(Messages, routed'[c], u, y) /\ Total(u, w) = Total(r, w) + f[c]
      BY <3>1, <3>2, <3>4, <3>5 DEF Splits
    <3>. HIDE DEF u
    <3>7. Total(routed'[c], w) = Total(u, w) + Total(y, w) BY <3>6, TotalSplit
    <3>8. f[c] \in Nat /\ h[c] \in Nat BY <2>2
    <3>9. Total(routed'[c], w) = Total(r, w) + g[c] BY <3>4, <3>5, <3>6, <3>7, <3>8, <2>3
    <3>. QED BY <3>9 DEF r
  <2>. HIDE DEF f, h, g, a, b
  <2>6. SumOf(f) = f[a] /\ SumOf(h) = h[b]
    BY <2>1, <2>2, <2>4, SumSingle
  <2>7. SumOf(g) = SumOf(f) + SumOf(h)
    <3>1. IsFiniteSet(Coordinators) BY <1>1
    <3>. QED BY <2>2, <2>3, <3>1, SumAdd
  <2>8. SumOf(g) <= w[first] + w[second] BY <1>1, <2>4, <2>6, <2>7
  <2>9. ToSet(pool) \subseteq alive => SumOf(g) = w[first] + w[second]
    BY <2>1, <2>4, <2>6, <2>7
  <2>. QED BY <2>3, <2>5, <2>8, <2>9 DEF RouteAdds
<1>. QED BY <1>2, <1>3

-----------------------------------------------------------------------------
(* The tracker. *)

LEMMA TrackerTypes ==
  TypeOK => /\ recorded \in [Documents -> Tracker!CrawlStatus \cup {Unrecorded}]
            /\ now \in Int /\ elapsed \in Nat
            /\ claim \in [Documents -> Tracker!Claim]
BY DEF TypeOK, Tracker!TypeOK

LEMMA TrackerUnchanged ==
  ASSUME TypeOK, ClaimsOK, UNCHANGED trackerVars
  PROVE  /\ Tracker!TypeOK' /\ ClaimsOK' /\ Recorded' = Recorded
         /\ now' = now /\ claim' = claim /\ recorded' = recorded
<1>1. recorded' = recorded /\ now' = now /\ elapsed' = elapsed /\ claim' = claim BY DEF trackerVars
<1>2. Tracker!TypeOK BY DEF TypeOK
<1>3. Tracker!TypeOK' BY <1>1, <1>2 DEF Tracker!TypeOK
<1>4. ClaimsOK' BY <1>1 DEF ClaimsOK
<1>. QED BY <1>1, <1>3, <1>4 DEF Recorded

\* What CheckDocuments does to the documents of a page.
LEMMA CheckFacts ==
  ASSUME TypeOK, ClaimsOK, NEW docs \in Seq(Documents),
         Tracker!CheckDocuments(ToSet(docs), Len(docs))
  PROVE  /\ Tracker!TypeOK' /\ ClaimsOK'
         /\ Tracker!Available(ToSet(docs)) \subseteq ToSet(docs)
         /\ \A d \in Documents :
              claim'[d].count = claim[d].count
                                + (IF d \in Tracker!Available(ToSet(docs)) THEN 1 ELSE 0)
         /\ now' = now
         /\ Recorded' = Recorded \cup ToSet(docs)
         /\ Cardinality(Tracker!Discovered(ToSet(docs))) \in Nat
         /\ Cardinality(Recorded') = Cardinality(Recorded)
                                     + Cardinality(Tracker!Discovered(ToSet(docs)))
<1>. DEFINE D    == ToSet(docs)
            A    == Tracker!Available(D)
            time == Tracker!CrawlTime(Len(docs))
            New  == Tracker!Discovered(D)
<1>1. /\ recorded \in [Documents -> Tracker!CrawlStatus \cup {Unrecorded}]
      /\ now \in Int /\ elapsed \in Nat /\ now \in Nat
      /\ claim \in [Documents -> Tracker!Claim]
  BY TrackerTypes DEF ClaimsOK
<1>2. D \subseteq Documents BY ElementsOf
<1>3. time \in Nat
  <2>1. Len(docs) \in Nat OBVIOUS
  <2>. QED BY <2>1 DEF Tracker!CrawlTime
<1>4. /\ recorded' = [d \in Documents |-> IF d \in A THEN [complete |-> FALSE, timeout |-> now + time]
                                                    ELSE recorded[d]]
      /\ claim' = [d \in Documents |->
                     IF d \in A THEN [count |-> claim[d].count + 1, at |-> elapsed, time |-> time]
                                ELSE claim[d]]
      /\ now' = now /\ elapsed' = elapsed
  BY DEF Tracker!CheckDocuments, Tracker!Claimed
<1>5. A = {d \in D : IF recorded[d] = Unrecorded THEN TRUE ELSE Tracker!CanProcess(recorded[d])}
  BY DEF Tracker!Available
<1>6. New = {d \in D : recorded[d] = Unrecorded} BY DEF Tracker!Discovered
<1>. HIDE DEF D, A, time, New
<1>7. A \subseteq D /\ A \subseteq Documents BY <1>2, <1>5
<1>8. /\ [complete |-> FALSE, timeout |-> now + time] \in Tracker!CrawlStatus
      /\ [complete |-> FALSE, timeout |-> now + time] # Unrecorded
      /\ now + time \in Nat
  <2>1. now + time \in Nat BY <1>1, <1>3
  <2>2. [complete |-> FALSE, timeout |-> now + time] \in [complete : {FALSE}, timeout : Int]
    BY <2>1
  <2>3. [complete |-> FALSE, timeout |-> now + time]
           \in [complete : BOOLEAN, timeout : Int \cup {NoTimeout}]
    BY <2>1
  <2>. QED BY <2>1, <2>2, <2>3, CrawlPipelineAssumption DEF Tracker!CrawlStatus
<1>9. \A d \in Documents : claim[d].count \in Nat /\ claim[d] \in Tracker!Claim
  BY <1>1 DEF Tracker!Claim
<1>10. recorded' \in [Documents -> Tracker!CrawlStatus \cup {Unrecorded}]
  BY <1>1, <1>4, <1>8
<1>11. claim' \in [Documents -> Tracker!Claim]
  <2>1. \A d \in Documents :
           [count |-> claim[d].count + 1, at |-> elapsed, time |-> time] \in Tracker!Claim
    BY <1>1, <1>3, <1>9 DEF Tracker!Claim
  <2>. QED BY <1>1, <1>4, <2>1
<1>12. Tracker!TypeOK' BY <1>1, <1>4, <1>10, <1>11 DEF Tracker!TypeOK
<1>13. \A d \in Documents : claim'[d].count = claim[d].count + (IF d \in A THEN 1 ELSE 0)
  BY <1>4, <1>9
<1>14. ClaimsOK'
  <2>1. ASSUME NEW d \in Documents
        PROVE  /\ claim'[d].count = 0 <=> recorded'[d] = Unrecorded
               /\ recorded'[d] # Unrecorded => ~recorded'[d].complete /\ recorded'[d].timeout \in Nat
               /\ now' = 0 => claim'[d].count <= 1
    <3>1. CASE d \in A
      <4>1. recorded'[d] = [complete |-> FALSE, timeout |-> now + time] BY <1>4, <3>1
      <4>2. recorded'[d] # Unrecorded /\ ~recorded'[d].complete /\ recorded'[d].timeout \in Nat
        BY <4>1, <1>8
      <4>3. claim'[d].count = claim[d].count + 1 BY <1>13, <3>1
      <4>4. claim'[d].count # 0 BY <4>3, <1>9
      <4>5. ASSUME now = 0 PROVE claim[d].count = 0
        <5>1. recorded[d] = Unrecorded \/ Tracker!CanProcess(recorded[d]) BY <1>5, <3>1
        <5>2. recorded[d] # Unrecorded => ~Tracker!CanProcess(recorded[d])
          <6>1. recorded[d] # Unrecorded => recorded[d].timeout \in Nat BY DEF ClaimsOK
          <6>2. recorded[d] # Unrecorded => recorded[d].timeout # NoTimeout
            BY <6>1, CrawlPipelineAssumption
          <6>3. recorded[d] # Unrecorded => ~(now > recorded[d].timeout) BY <6>1, <4>5
          <6>. QED BY <6>2, <6>3 DEF Tracker!CanProcess
        <5>. QED BY <5>1, <5>2 DEF ClaimsOK
      <4>6. now' = 0 => claim'[d].count <= 1 BY <1>4, <4>3, <4>5
      <4>. QED BY <4>2, <4>4, <4>6
    <3>2. CASE d \notin A
      <4>1. recorded'[d] = recorded[d] /\ claim'[d] = claim[d] /\ now' = now BY <1>4, <3>2
      <4>. QED BY <4>1 DEF ClaimsOK
    <3>. QED BY <3>1, <3>2
  <2>2. now' \in Nat BY <1>1, <1>4
  <2>. QED BY <2>1, <2>2 DEF ClaimsOK
<1>15. Recorded' = Recorded \cup D
  <2>1. ASSUME NEW d \in Documents
        PROVE  recorded'[d] # Unrecorded <=> recorded[d] # Unrecorded \/ d \in D
    <3>1. CASE d \in A
      <4>1. recorded'[d] # Unrecorded BY <1>4, <1>8, <3>1
      <4>. QED BY <4>1, <1>7, <3>1
    <3>2. CASE d \notin A
      <4>1. recorded'[d] = recorded[d] BY <1>4, <3>2
      <4>2. d \in D => recorded[d] # Unrecorded BY <1>5, <3>2
      <4>. QED BY <4>1, <4>2
    <3>. QED BY <3>1, <3>2
  <2>. QED BY <2>1, <1>2 DEF Recorded
<1>16. Cardinality(New) \in Nat /\ Cardinality(Recorded') = Cardinality(Recorded) + Cardinality(New)
  <2>1. IsFiniteSet(Documents) /\ Recorded \in SUBSET Documents /\ New \in SUBSET Documents
    BY CrawlPipelineAssumption, <1>2, <1>6 DEF Recorded
  <2>2. IsFiniteSet(Recorded) /\ IsFiniteSet(New) BY <2>1, FS_Subset
  <2>3. Recorded \cap New = {} BY <1>6 DEF Recorded
  <2>4. Recorded' = Recorded \cup New BY <1>2, <1>6, <1>15 DEF Recorded
  <2>5. Cardinality(Recorded \cup New)
          = Cardinality(Recorded) + Cardinality(New) - Cardinality(Recorded \cap New)
    BY <2>2, FS_Union
  <2>6. Cardinality(Recorded \cap New) = 0 BY <2>3, FS_EmptySet
  <2>7. Cardinality(New) \in Nat /\ Cardinality(Recorded) \in Nat BY <2>2, FS_CardinalityType
  <2>8. Cardinality(Recorded') = Cardinality(Recorded \cup New) BY <2>4
  <2>. QED BY <2>5, <2>6, <2>7, <2>8
<1>. QED BY <1>4, <1>7, <1>12, <1>13, <1>14, <1>15, <1>16 DEF D, A, New

LEMMA TrackerPassTime ==
  ASSUME TypeOK, ClaimsOK, Tracker!PassTime
  PROVE  /\ Tracker!TypeOK' /\ ClaimsOK' /\ Recorded' = Recorded
         /\ now' \in Nat /\ now' # 0 /\ recorded' = recorded /\ claim' = claim
<1>1. /\ recorded \in [Documents -> Tracker!CrawlStatus \cup {Unrecorded}]
      /\ now \in Nat /\ elapsed \in Nat
      /\ claim \in [Documents -> Tracker!Claim]
  BY TrackerTypes DEF ClaimsOK
<1>2. now' = now + 1 /\ elapsed' = elapsed + 1 /\ recorded' = recorded /\ claim' = claim
  BY DEF Tracker!PassTime
<1>3. now' \in Nat /\ now' # 0 /\ now' \in Int /\ elapsed' \in Nat BY <1>1, <1>2
<1>4. Tracker!TypeOK' BY <1>1, <1>2, <1>3 DEF Tracker!TypeOK
<1>5. ClaimsOK' BY <1>2, <1>3 DEF ClaimsOK
<1>. QED BY <1>2, <1>3, <1>4, <1>5 DEF Recorded

-----------------------------------------------------------------------------
(* Types. *)

\* The types of what the coordinators have.
StreamTypes ==
  /\ routed \in [Coordinators -> Seq(Messages)]
  /\ source \in [Coordinators -> Seq(Documents)]
  /\ \A c \in Coordinators : Len(source[c]) <= BufferSize
  /\ fetching \in [Coordinators -> [Documents -> Nat]]
  /\ done \in [Coordinators -> Seq(Documents)]
  /\ parsed \in [Coordinators -> Seq(Documents)]
  /\ asked \in [Coordinators -> Seq(Seq(Documents))]
  /\ stats \in [Coordinators -> Stats]
  /\ reports \in [Coordinators -> Seq(Stats)]
  /\ fetched \in [Documents -> Nat]

LEMMA TypesOfStreams == TypeOK => StreamTypes
BY DEF TypeOK, StreamTypes

\* A step in which the rest does not change.
LEMMA StreamStep ==
  ASSUME TypeOK, UNCHANGED <<setup, masterVars, poolVars, trackerVars>>, StreamTypes'
  PROVE  TypeOK'
<1>1. /\ setup' = setup /\ job' = job /\ total' = total /\ pool' = pool /\ next' = next
      /\ alive' = alive /\ crashes' = crashes
  BY DEF masterVars, poolVars
<1>2. Tracker!TypeOK'
  <2>1. recorded' = recorded /\ now' = now /\ elapsed' = elapsed /\ claim' = claim
    BY DEF trackerVars
  <2>. QED BY <2>1 DEF TypeOK, Tracker!TypeOK
<1>3. Period' = Period BY <1>1 DEF Period
<1>. QED BY <1>1, <1>2, <1>3 DEF TypeOK, StreamTypes

\* Of all coordinators only c may change.
SameAt(x) ==
  /\ routed'[x] = routed[x] /\ source'[x] = source[x] /\ fetching'[x] = fetching[x]
  /\ done'[x] = done[x] /\ parsed'[x] = parsed[x] /\ asked'[x] = asked[x]
  /\ stats'[x] = stats[x] /\ reports'[x] = reports[x]
Others(c) == \A x \in Coordinators \ {c} : SameAt(x)

\* What the steps of a coordinator do.
LEMMA OnRoutedDoes ==
  ASSUME TypeOK, NEW c \in Coordinators, OnRouted(c)
  PROVE  /\ TypeOK' /\ Others(c) /\ routed[c] # <<>>
         /\ routed'[c] = Tail(routed[c])
         /\ source'[c] = OfferAll(source[c], Head(routed[c]).docs)
         /\ stats'[c] = WithDiscovered(stats[c], Head(routed[c]).count)
<1>1. StreamTypes BY TypesOfStreams
<1>2. PICK msg : msg = Head(routed[c]) OBVIOUS
<1>3. /\ routed[c] # <<>>
      /\ routed' = [routed EXCEPT ![c] = Tail(routed[c])]
      /\ source' = [source EXCEPT ![c] = OfferAll(source[c], msg.docs)]
      /\ stats'  = [stats EXCEPT ![c] = WithDiscovered(stats[c], msg.count)]
      /\ UNCHANGED <<masterVars, poolVars, fetching, done, parsed, asked, reports, trackerVars,
                     fetched, setup>>
  BY <1>1, <1>2 DEF OnRouted, StreamTypes
<1>4. msg \in Messages /\ Tail(routed[c]) \in Seq(Messages)
  BY <1>1, <1>2, <1>3 DEF StreamTypes
<1>5. msg.docs \in Seq(Documents) /\ msg.count \in Nat BY <1>4 DEF Messages
<1>6. OfferAll(source[c], msg.docs) \in Seq(Documents) /\ Len(OfferAll(source[c], msg.docs)) <= BufferSize
  <2>1. setup \in Scenarios BY DEF TypeOK
  <2>2. source[c] \in Seq(Documents) /\ Len(source[c]) <= BufferSize BY <1>1 DEF StreamTypes
  <2>. QED BY <1>5, <2>1, <2>2, OfferAllKeeps
<1>7. WithDiscovered(stats[c], msg.count) \in Stats
  <2>1. stats[c] \in Stats BY <1>1 DEF StreamTypes
  <2>. QED BY <1>5, <2>1, StatsFacts
<1>8. routed' \in [Coordinators -> Seq(Messages)] BY <1>1, <1>3, <1>4 DEF StreamTypes
<1>9. source' \in [Coordinators -> Seq(Documents)] BY <1>1, <1>3, <1>6 DEF StreamTypes
<1>10. stats' \in [Coordinators -> Stats] BY <1>1, <1>3, <1>7 DEF StreamTypes
<1>11. \A x \in Coordinators : Len(source'[x]) <= BufferSize'
  <2>1. BufferSize' = BufferSize BY <1>3 DEF BufferSize
  <2>. QED BY <1>1, <1>3, <1>6, <2>1 DEF StreamTypes
<1>12. StreamTypes' BY <1>1, <1>3, <1>8, <1>9, <1>10, <1>11 DEF StreamTypes
<1>13. TypeOK' BY <1>3, <1>12, StreamStep
<1>14. Others(c) BY <1>1, <1>3 DEF StreamTypes, Others, SameAt
<1>15. /\ routed'[c] = Tail(routed[c]) /\ source'[c] = OfferAll(source[c], msg.docs)
       /\ stats'[c] = WithDiscovered(stats[c], msg.count)
  BY <1>1, <1>3 DEF StreamTypes
<1>. QED BY <1>2, <1>3, <1>13, <1>14, <1>15

LEMMA FetchDoes ==
  ASSUME TypeOK, NEW c \in Coordinators, Fetch(c)
  PROVE  /\ TypeOK' /\ Others(c) /\ source[c] # <<>>
         /\ source'[c] = Tail(source[c])
         /\ \A d \in Documents :
              fetching'[c][d] = fetching[c][d] + IF d = Head(source[c]) THEN 1 ELSE 0
<1>1. StreamTypes BY TypesOfStreams
<1>2. PICK h : h = Head(source[c]) OBVIOUS
<1>3. /\ source[c] # <<>>
      /\ source' = [source EXCEPT ![c] = Tail(source[c])]
      /\ fetching' = [fetching EXCEPT ![c][h] = @ + 1]
      /\ UNCHANGED <<masterVars, poolVars, routed, done, parsed, stats, asked, reports, trackerVars,
                     fetched, setup>>
  BY <1>1, <1>2 DEF Fetch, StreamTypes
<1>4. h \in Documents /\ Tail(source[c]) \in Seq(Documents) /\ Len(Tail(source[c])) <= BufferSize
  <2>1. source[c] \in Seq(Documents) /\ Len(source[c]) <= BufferSize BY <1>1 DEF StreamTypes
  <2>2. BufferSize \in Nat BY ScenarioFacts DEF TypeOK
  <2>3. Len(Tail(source[c])) = Len(source[c]) - 1 BY <1>3, <2>1
  <2>. QED BY <1>2, <1>3, <2>1, <2>2, <2>3
<1>5. fetching[c] \in [Documents -> Nat] BY <1>1 DEF StreamTypes
<1>6. [fetching[c] EXCEPT ![h] = @ + 1] \in [Documents -> Nat] BY <1>4, <1>5
<1>7. fetching' = [fetching EXCEPT ![c] = [fetching[c] EXCEPT ![h] = @ + 1]]
  BY <1>1, <1>3 DEF StreamTypes
<1>8. fetching' \in [Coordinators -> [Documents -> Nat]] BY <1>1, <1>6, <1>7 DEF StreamTypes
<1>9. source' \in [Coordinators -> Seq(Documents)] BY <1>1, <1>3, <1>4 DEF StreamTypes
<1>10. \A x \in Coordinators : Len(source'[x]) <= BufferSize'
  <2>1. BufferSize' = BufferSize BY <1>3 DEF BufferSize
  <2>. QED BY <1>1, <1>3, <1>4, <2>1 DEF StreamTypes
<1>11. StreamTypes' BY <1>1, <1>3, <1>8, <1>9, <1>10 DEF StreamTypes
<1>12. TypeOK' BY <1>3, <1>11, StreamStep
<1>13. Others(c) BY <1>1, <1>3, <1>7 DEF StreamTypes, Others, SameAt
<1>14. \A d \in Documents : fetching'[c][d] = fetching[c][d] + IF d = h THEN 1 ELSE 0
  <2>1. fetching'[c] = [fetching[c] EXCEPT ![h] = @ + 1] BY <1>1, <1>7 DEF StreamTypes
  <2>. QED BY <1>5, <2>1
<1>15. source'[c] = Tail(source[c]) BY <1>1, <1>3 DEF StreamTypes
<1>. QED BY <1>2, <1>3, <1>12, <1>13, <1>14, <1>15

LEMMA FetchDoneDoes ==
  ASSUME TypeOK, NEW c \in Coordinators, NEW e \in Documents, FetchDone(c, e)
  PROVE  /\ TypeOK' /\ Others(c) /\ fetching[c][e] > 0
         /\ \A d \in Documents :
              /\ fetching'[c][d] = fetching[c][d] - IF d = e THEN 1 ELSE 0
              /\ fetched'[d] = fetched[d] + IF d = e THEN 1 ELSE 0
         /\ done'[c] = Append(done[c], e)
         /\ parsed'[c] = Append(parsed[c], e)
<1>1. StreamTypes BY TypesOfStreams
<1>2. /\ fetching[c][e] > 0
      /\ fetching' = [fetching EXCEPT ![c][e] = @ - 1]
      /\ done'     = [done EXCEPT ![c] = Append(done[c], e)]
      /\ parsed'   = [parsed EXCEPT ![c] = Append(parsed[c], e)]
      /\ fetched'  = [fetched EXCEPT ![e] = @ + 1]
      /\ UNCHANGED <<masterVars, poolVars, routed, source, stats, asked, reports, trackerVars, setup>>
  BY <1>1 DEF FetchDone, StreamTypes
<1>3. /\ fetching[c] \in [Documents -> Nat] /\ done[c] \in Seq(Documents)
      /\ parsed[c] \in Seq(Documents) /\ fetched \in [Documents -> Nat]
  BY <1>1 DEF StreamTypes
<1>4. [fetching[c] EXCEPT ![e] = @ - 1] \in [Documents -> Nat] BY <1>2, <1>3
<1>5. fetching' = [fetching EXCEPT ![c] = [fetching[c] EXCEPT ![e] = @ - 1]]
  BY <1>1, <1>2 DEF StreamTypes
<1>6. fetching' \in [Coordinators -> [Documents -> Nat]] BY <1>1, <1>4, <1>5 DEF StreamTypes
<1>7. Append(done[c], e) \in Seq(Documents) /\ Append(parsed[c], e) \in Seq(Documents)
  BY <1>3, AppendProperties
<1>8. done' \in [Coordinators -> Seq(Documents)] BY <1>1, <1>2, <1>7 DEF StreamTypes
<1>9. parsed' \in [Coordinators -> Seq(Documents)] BY <1>1, <1>2, <1>7 DEF StreamTypes
<1>10. fetched' \in [Documents -> Nat] BY <1>2, <1>3
<1>11. BufferSize' = BufferSize BY <1>2 DEF BufferSize
<1>12. StreamTypes' BY <1>1, <1>2, <1>6, <1>8, <1>9, <1>10, <1>11 DEF StreamTypes
<1>13. TypeOK' BY <1>2, <1>12, StreamStep
<1>14. Others(c) BY <1>1, <1>2, <1>5 DEF StreamTypes, Others, SameAt
<1>15. \A d \in Documents : /\ fetching'[c][d] = fetching[c][d] - IF d = e THEN 1 ELSE 0
                            /\ fetched'[d] = fetched[d] + IF d = e THEN 1 ELSE 0
  <2>1. fetching'[c] = [fetching[c] EXCEPT ![e] = @ - 1] BY <1>1, <1>5 DEF StreamTypes
  <2>. QED BY <1>2, <1>3, <2>1
<1>16. done'[c] = Append(done[c], e) /\ parsed'[c] = Append(parsed[c], e)
  BY <1>1, <1>2 DEF StreamTypes
<1>. QED BY <1>2, <1>13, <1>14, <1>15, <1>16

LEMMA OnCompletedDoes ==
  ASSUME TypeOK, NEW c \in Coordinators, OnCompleted(c)
  PROVE  /\ TypeOK' /\ Others(c) /\ done[c] # <<>>
         /\ done'[c] = Tail(done[c])
         /\ stats'[c] = WithCompleted(stats[c], Head(done[c]))
<1>1. StreamTypes BY TypesOfStreams
<1>2. PICK h : h = Head(done[c]) OBVIOUS
<1>3. /\ done[c] # <<>>
      /\ done'  = [done EXCEPT ![c] = Tail(done[c])]
      /\ stats' = [stats EXCEPT ![c] = WithCompleted(stats[c], h)]
      /\ UNCHANGED <<masterVars, poolVars, routed, source, fetching, parsed, asked, reports,
                     trackerVars, fetched, setup>>
  BY <1>1, <1>2 DEF OnCompleted, StreamTypes
<1>4. h \in Documents /\ Tail(done[c]) \in Seq(Documents) /\ stats[c] \in Stats
  BY <1>1, <1>2, <1>3 DEF StreamTypes
<1>5. WithCompleted(stats[c], h) \in Stats BY <1>4, StatsFacts
<1>6. done' \in [Coordinators -> Seq(Documents)] BY <1>1, <1>3, <1>4 DEF StreamTypes
<1>7. stats' \in [Coordinators -> Stats] BY <1>1, <1>3, <1>5 DEF StreamTypes
<1>8. BufferSize' = BufferSize BY <1>3 DEF BufferSize
<1>9. StreamTypes' BY <1>1, <1>3, <1>6, <1>7, <1>8 DEF StreamTypes
<1>10. TypeOK' BY <1>3, <1>9, StreamStep
<1>11. Others(c) BY <1>1, <1>3 DEF StreamTypes, Others, SameAt
<1>12. done'[c] = Tail(done[c]) /\ stats'[c] = WithCompleted(stats[c], h)
  BY <1>1, <1>3 DEF StreamTypes
<1>. QED BY <1>2, <1>3, <1>10, <1>11, <1>12

LEMMA OnCheckDoes ==
  ASSUME TypeOK, NEW c \in Coordinators, OnCheck(c)
  PROVE  /\ TypeOK' /\ Others(c) /\ parsed[c] # <<>>
         /\ parsed'[c] = Tail(parsed[c])
         /\ asked'[c] = Append(asked[c], Links[Head(parsed[c])])
<1>1. StreamTypes BY TypesOfStreams
<1>2. PICK docs : docs = Links[Head(parsed[c])] OBVIOUS
<1>3. /\ parsed[c] # <<>>
      /\ parsed' = [parsed EXCEPT ![c] = Tail(parsed[c])]
      /\ asked'  = [asked EXCEPT ![c] = Append(asked[c], docs)]
      /\ UNCHANGED <<masterVars, poolVars, routed, source, fetching, done, stats, reports,
                     trackerVars, fetched, setup>>
  BY <1>1, <1>2 DEF OnCheck, StreamTypes
<1>4. Head(parsed[c]) \in Documents /\ Tail(parsed[c]) \in Seq(Documents)
  BY <1>1, <1>3 DEF StreamTypes
<1>5. docs \in Seq(Documents)
  <2>1. Links \in [Documents -> Seq(Documents)] BY ScenarioFacts DEF TypeOK
  <2>. QED BY <1>2, <1>4, <2>1
<1>6. Append(asked[c], docs) \in Seq(Seq(Documents))
  <2>1. asked[c] \in Seq(Seq(Documents)) BY <1>1 DEF StreamTypes
  <2>. QED BY <1>5, <2>1, AppendProperties
<1>7. parsed' \in [Coordinators -> Seq(Documents)] BY <1>1, <1>3, <1>4 DEF StreamTypes
<1>8. asked' \in [Coordinators -> Seq(Seq(Documents))] BY <1>1, <1>3, <1>6 DEF StreamTypes
<1>9. BufferSize' = BufferSize BY <1>3 DEF BufferSize
<1>10. StreamTypes' BY <1>1, <1>3, <1>7, <1>8, <1>9 DEF StreamTypes
<1>11. TypeOK' BY <1>3, <1>10, StreamStep
<1>12. Others(c) BY <1>1, <1>3 DEF StreamTypes, Others, SameAt
<1>13. parsed'[c] = Tail(parsed[c]) /\ asked'[c] = Append(asked[c], docs)
  BY <1>1, <1>3 DEF StreamTypes
<1>. QED BY <1>2, <1>3, <1>11, <1>12, <1>13

LEMMA PublishDoes ==
  ASSUME TypeOK, NEW c \in Coordinators, Publish(c)
  PROVE  /\ TypeOK' /\ Others(c)
         /\ reports'[c] = Append(reports[c], stats[c])
         /\ stats'[c] = Reset
<1>1. StreamTypes BY TypesOfStreams
<1>2. /\ reports' = [reports EXCEPT ![c] = Append(reports[c], stats[c])]
      /\ stats'   = [stats EXCEPT ![c] = Reset]
      /\ UNCHANGED <<masterVars, poolVars, routed, source, fetching, done, parsed, asked,
                     trackerVars, fetched, setup>>
  BY <1>1 DEF Publish, StreamTypes, AfterPublish
<1>3. Append(reports[c], stats[c]) \in Seq(Stats)
  <2>1. reports[c] \in Seq(Stats) /\ stats[c] \in Stats BY <1>1 DEF StreamTypes
  <2>. QED BY <2>1, AppendProperties
<1>4. reports' \in [Coordinators -> Seq(Stats)] BY <1>1, <1>2, <1>3 DEF StreamTypes
<1>5. stats' \in [Coordinators -> Stats] BY <1>1, <1>2, StatsFacts DEF StreamTypes
<1>6. BufferSize' = BufferSize BY <1>2 DEF BufferSize
<1>7. StreamTypes' BY <1>1, <1>2, <1>4, <1>5, <1>6 DEF StreamTypes
<1>8. TypeOK' BY <1>2, <1>7, StreamStep
<1>9. Others(c) BY <1>1, <1>2 DEF StreamTypes, Others, SameAt
<1>10. reports'[c] = Append(reports[c], stats[c]) /\ stats'[c] = Reset
  BY <1>1, <1>2 DEF StreamTypes
<1>. QED BY <1>8, <1>9, <1>10

\* What the tracker does with a request of c for the documents of a page.
Checks(c, docs) ==
  /\ docs \in Seq(Documents) /\ asked[c] # <<>> /\ docs = Head(asked[c])
  /\ Tracker!CheckDocuments(ToSet(docs), Len(docs))
  /\ HandOut(docs) \in Seq(Documents)
  /\ Route(Process(HandOut(docs)), Found(Cardinality(Tracker!Discovered(ToSet(docs)))))
  /\ asked'[c] = Tail(asked[c]) /\ \A x \in Coordinators \ {c} : asked'[x] = asked[x]
  /\ UNCHANGED <<setup, masterVars, pool, alive, crashes, source, fetching, done, parsed, stats,
                 reports, fetched>>

LEMMA OnTrackerCheckDoes ==
  ASSUME TypeOK, ClaimsOK, NEW c \in Coordinators, OnTrackerCheck(c)
  PROVE  TypeOK' /\ \E docs : Checks(c, docs)
<1>1. StreamTypes BY TypesOfStreams
<1>2. PICK docs : docs = Head(asked[c]) OBVIOUS
<1>3. /\ asked[c] # <<>>
      /\ Tracker!CheckDocuments(ToSet(docs), Len(docs))
      /\ Route(Process(HandOut(docs)), Found(Cardinality(Tracker!Discovered(ToSet(docs)))))
      /\ asked' = [asked EXCEPT ![c] = Tail(asked[c])]
      /\ UNCHANGED <<masterVars, pool, alive, crashes, source, fetching, done, parsed, stats,
                     reports, fetched, setup>>
  BY <1>1, <1>2 DEF OnTrackerCheck, StreamTypes
<1>4. docs \in Seq(Documents) /\ Tail(asked[c]) \in Seq(Seq(Documents))
  <2>1. asked[c] \in Seq(Seq(Documents)) BY <1>1 DEF StreamTypes
  <2>. QED BY <1>2, <1>3, <2>1
<1>5. HandOut(docs) \in Seq(Documents) BY <1>4, FilterKeeps DEF HandOut
<1>6. Tracker!TypeOK' /\ Cardinality(Tracker!Discovered(ToSet(docs))) \in Nat
  BY <1>3, <1>4, CheckFacts
<1>7. /\ routed' \in [Coordinators -> Seq(Messages)]
      /\ next' \in 0..(Period - 1)
  <2>. DEFINE first == Process(HandOut(docs))
              second == Found(Cardinality(Tracker!Discovered(ToSet(docs))))
  <2>1. first \in Messages /\ second \in Messages BY <1>5, <1>6, MessageFacts
  <2>2. Route(first, second) BY <1>3
  <2>. HIDE DEF first, second
  <2>. QED BY <2>1, <2>2, RouteFacts
<1>8. asked' \in [Coordinators -> Seq(Seq(Documents))] BY <1>1, <1>3, <1>4 DEF StreamTypes
<1>9. BufferSize' = BufferSize /\ Period' = Period BY <1>3 DEF BufferSize, Period
<1>10. job' = job /\ total' = total BY <1>3 DEF masterVars
<1>11. TypeOK' BY <1>3, <1>6, <1>7, <1>8, <1>9, <1>10 DEF TypeOK
<1>12. asked'[c] = Tail(asked[c]) /\ \A x \in Coordinators \ {c} : asked'[x] = asked[x]
  BY <1>1, <1>3 DEF StreamTypes
<1>13. Checks(c, docs) BY <1>2, <1>3, <1>4, <1>5, <1>12 DEF Checks
<1>. QED BY <1>11, <1>13

LEMMA OnReportDoes ==
  ASSUME TypeOK, NEW c \in Coordinators, OnReport(c)
  PROVE  /\ TypeOK' /\ Others(c) /\ reports[c] # <<>>
         /\ reports'[c] = Tail(reports[c])
         /\ total' = Merge(total, Head(reports[c]))
<1>1. StreamTypes BY TypesOfStreams
<1>2. PICK st : st = Head(reports[c]) OBVIOUS
<1>3. /\ reports[c] # <<>>
      /\ total' = Merge(total, st)
      /\ reports' = [reports EXCEPT ![c] = Tail(reports[c])]
      /\ UNCHANGED <<job, poolVars, routed, source, fetching, done, parsed, stats, asked,
                     trackerVars, fetched, setup>>
  BY <1>1, <1>2 DEF OnReport, StreamTypes, streamVars
<1>4. reports[c] \in Seq(Stats) BY <1>1 DEF StreamTypes
<1>5. st \in Stats /\ Tail(reports[c]) \in Seq(Stats) BY <1>2, <1>3, <1>4
<1>6. total' \in Stats
  <2>1. total \in Stats BY DEF TypeOK
  <2>. QED BY <1>3, <1>5, <2>1, StatsFacts
<1>7. reports' \in [Coordinators -> Seq(Stats)] BY <1>1, <1>3, <1>5 DEF StreamTypes
<1>8. BufferSize' = BufferSize /\ Period' = Period BY <1>3 DEF BufferSize, Period
<1>9. pool' = pool /\ next' = next /\ alive' = alive /\ crashes' = crashes
  BY <1>3 DEF poolVars
<1>10. Tracker!TypeOK'
  <2>1. recorded' = recorded /\ now' = now /\ elapsed' = elapsed /\ claim' = claim
    BY <1>3 DEF trackerVars
  <2>. QED BY <2>1 DEF TypeOK, Tracker!TypeOK
<1>11. TypeOK' BY <1>3, <1>6, <1>7, <1>8, <1>9, <1>10 DEF TypeOK
<1>12. Others(c) BY <1>1, <1>3 DEF StreamTypes, Others, SameAt
<1>13. reports'[c] = Tail(reports[c]) BY <1>1, <1>3 DEF StreamTypes
<1>. QED BY <1>2, <1>3, <1>11, <1>12, <1>13

LEMMA CrashDoes ==
  ASSUME TypeOK, NEW c \in Coordinators, Crash(c)
  PROVE  /\ TypeOK' /\ Others(c)
         /\ crashes' = crashes + 1 /\ alive' = alive \ {c}
         /\ routed'[c] = <<>> /\ source'[c] = <<>> /\ done'[c] = <<>> /\ parsed'[c] = <<>>
         /\ \A d \in Documents : fetching'[c][d] = 0
         /\ stats'[c] = Reset
         /\ \E i \in 0..Len(asked[c]) : asked'[c] = SubSeq(asked[c], 1, i)
         /\ \E j \in 0..Len(reports[c]) : reports'[c] = SubSeq(reports[c], 1, j)
<1>1. StreamTypes BY TypesOfStreams
<1>2. PICK i \in 0..Len(asked[c]), j \in 0..Len(reports[c]) :
         /\ asked'   = [asked EXCEPT ![c] = SubSeq(asked[c], 1, i)]
         /\ reports' = [reports EXCEPT ![c] = SubSeq(reports[c], 1, j)]
  BY <1>1 DEF Crash, StreamTypes
<1>3. /\ crashes < setup.maxCrashes
      /\ crashes' = crashes + 1
      /\ alive'   = alive \ {c}
      /\ routed'   = [routed EXCEPT ![c] = <<>>]
      /\ source'   = [source EXCEPT ![c] = <<>>]
      /\ fetching' = [fetching EXCEPT ![c] = [d \in Documents |-> 0]]
      /\ done'     = [done EXCEPT ![c] = <<>>]
      /\ parsed'   = [parsed EXCEPT ![c] = <<>>]
      /\ stats'    = [stats EXCEPT ![c] = Reset]
      /\ UNCHANGED <<job, total, pool, next, trackerVars, fetched, setup>>
  BY DEF Crash, masterVars
<1>4. SubSeq(asked[c], 1, i) \in Seq(Seq(Documents))
  <2>1. asked[c] \in Seq(Seq(Documents)) BY <1>1 DEF StreamTypes
  <2>. QED BY <2>1, ElementsOf
<1>5. SubSeq(reports[c], 1, j) \in Seq(Stats)
  <2>1. reports[c] \in Seq(Stats) BY <1>1 DEF StreamTypes
  <2>. QED BY <2>1, ElementsOf
<1>6. /\ <<>> \in Seq(Messages) /\ <<>> \in Seq(Documents) /\ Len(<<>>) = 0
      /\ [d \in Documents |-> 0] \in [Documents -> Nat] /\ Reset \in Stats
  BY StatsFacts
<1>7. routed' \in [Coordinators -> Seq(Messages)] BY <1>1, <1>3, <1>6 DEF StreamTypes
<1>8. source' \in [Coordinators -> Seq(Documents)] BY <1>1, <1>3, <1>6 DEF StreamTypes
<1>9. fetching' \in [Coordinators -> [Documents -> Nat]] BY <1>1, <1>3, <1>6 DEF StreamTypes
<1>10. done' \in [Coordinators -> Seq(Documents)] BY <1>1, <1>3, <1>6 DEF StreamTypes
<1>11. parsed' \in [Coordinators -> Seq(Documents)] BY <1>1, <1>3, <1>6 DEF StreamTypes
<1>12. stats' \in [Coordinators -> Stats] BY <1>1, <1>3, <1>6 DEF StreamTypes
<1>13. asked' \in [Coordinators -> Seq(Seq(Documents))] BY <1>1, <1>2, <1>4 DEF StreamTypes
<1>14. reports' \in [Coordinators -> Seq(Stats)] BY <1>1, <1>2, <1>5 DEF StreamTypes
<1>15. BufferSize' = BufferSize /\ Period' = Period BY <1>3 DEF BufferSize, Period
<1>16. \A x \in Coordinators : Len(source'[x]) <= BufferSize'
  <2>1. BufferSize \in Nat BY ScenarioFacts DEF TypeOK
  <2>. QED BY <1>1, <1>3, <1>6, <1>15, <2>1 DEF StreamTypes
<1>17. alive' \in SUBSET Coordinators BY <1>3 DEF TypeOK
<1>18. crashes' \in 0..setup'.maxCrashes
  <2>1. setup.maxCrashes \in Nat BY ScenarioFacts DEF TypeOK
  <2>2. crashes \in 0..setup.maxCrashes BY DEF TypeOK
  <2>. QED BY <1>3, <2>1, <2>2
<1>19. Tracker!TypeOK'
  <2>1. recorded' = recorded /\ now' = now /\ elapsed' = elapsed /\ claim' = claim
    BY <1>3 DEF trackerVars
  <2>. QED BY <2>1 DEF TypeOK, Tracker!TypeOK
<1>20. /\ setup' \in Scenarios /\ job' \in {"Started", "Finished"} /\ total' \in Stats
       /\ pool' \in Seq(Coordinators) /\ IsInjective(pool') /\ next' \in 0..(Period' - 1)
       /\ fetched' \in [Documents -> Nat]
  BY <1>3, <1>15 DEF TypeOK
<1>21. TypeOK'
  BY <1>7, <1>8, <1>9, <1>10, <1>11, <1>12, <1>13, <1>14, <1>16, <1>17, <1>18, <1>19, <1>20
  DEF TypeOK
<1>22. Others(c) BY <1>1, <1>2, <1>3 DEF StreamTypes, Others, SameAt
<1>23. /\ routed'[c] = <<>> /\ source'[c] = <<>> /\ done'[c] = <<>> /\ parsed'[c] = <<>>
       /\ \A d \in Documents : fetching'[c][d] = 0
       /\ stats'[c] = Reset
  BY <1>1, <1>3 DEF StreamTypes
<1>24. /\ asked'[c] = SubSeq(asked[c], 1, i)
       /\ reports'[c] = SubSeq(reports[c], 1, j)
  BY <1>1, <1>2 DEF StreamTypes
<1>. QED BY <1>3, <1>21, <1>22, <1>23, <1>24

\* A step that changes no more than the job, the pool, who is alive and the clock.
LEMMA QuietStep ==
  ASSUME TypeOK,
         UNCHANGED <<setup, total, next, crashes, streamVars, asked, reports, fetched>>,
         job' \in {"Started", "Finished"},
         pool' \in Seq(Coordinators), IsInjective(pool'), alive' \in SUBSET Coordinators,
         Tracker!TypeOK'
  PROVE  TypeOK'
<1>1. StreamTypes BY TypesOfStreams
<1>2. /\ setup' = setup /\ total' = total /\ next' = next /\ crashes' = crashes
      /\ routed' = routed /\ source' = source /\ fetching' = fetching /\ done' = done
      /\ parsed' = parsed /\ stats' = stats /\ asked' = asked /\ reports' = reports
      /\ fetched' = fetched
  BY DEF streamVars
<1>3. BufferSize' = BufferSize /\ Period' = Period BY <1>2 DEF BufferSize, Period
<1>4. StreamTypes' BY <1>1, <1>2, <1>3 DEF StreamTypes
<1>. QED BY <1>2, <1>3, <1>4 DEF TypeOK, StreamTypes

LEMMA ReceiveTimeoutTypes == TypeOK /\ ReceiveTimeout => TypeOK'
<1>. SUFFICES ASSUME TypeOK, ReceiveTimeout PROVE TypeOK' OBVIOUS
<1>1. /\ UNCHANGED <<setup, total, next, crashes, streamVars, asked, reports, fetched>>
      /\ job' \in {"Started", "Finished"} /\ pool' = pool /\ alive' = alive
      /\ recorded' = recorded /\ now' = now /\ elapsed' = elapsed /\ claim' = claim
  BY DEF ReceiveTimeout, poolVars, trackerVars
<1>2. Tracker!TypeOK' BY <1>1 DEF TypeOK, Tracker!TypeOK
<1>3. pool' \in Seq(Coordinators) /\ IsInjective(pool') /\ alive' \in SUBSET Coordinators
  BY <1>1 DEF TypeOK
<1>. QED BY <1>1, <1>2, <1>3, QuietStep

LEMMA PassTimeTypes ==
  ASSUME TypeOK, ClaimsOK, PassTime
  PROVE  /\ TypeOK' /\ ClaimsOK' /\ Recorded' = Recorded /\ claim' = claim
         /\ now' # 0
<1>1. /\ UNCHANGED <<setup, total, next, crashes, streamVars, asked, reports, fetched>>
      /\ job' = job /\ pool' = pool /\ alive' = alive /\ Tracker!PassTime
  BY DEF PassTime, poolVars, masterVars
<1>2. /\ Tracker!TypeOK' /\ ClaimsOK' /\ Recorded' = Recorded /\ claim' = claim
      /\ now' # 0
  BY <1>1, TrackerPassTime
<1>3. /\ pool' \in Seq(Coordinators) /\ IsInjective(pool') /\ alive' \in SUBSET Coordinators
      /\ job' \in {"Started", "Finished"}
  BY <1>1 DEF TypeOK
<1>. QED BY <1>1, <1>2, <1>3, QuietStep

LEMMA MemberRemovedDoes ==
  ASSUME TypeOK, NEW c \in Coordinators, MemberRemoved(c)
  PROVE  TypeOK' /\ c \notin alive /\ c \in ToSet(pool) /\ alive' = alive
<1>1. /\ UNCHANGED <<setup, total, next, crashes, streamVars, asked, reports, fetched>>
      /\ c \notin alive /\ c \in ToSet(pool)
      /\ job' = job /\ pool' = Filter(pool, Coordinators \ {c}) /\ alive' = alive
      /\ recorded' = recorded /\ now' = now /\ elapsed' = elapsed /\ claim' = claim
  BY DEF MemberRemoved, masterVars, trackerVars
<1>2. Tracker!TypeOK' BY <1>1 DEF TypeOK, Tracker!TypeOK
<1>3. pool' \in Seq(Coordinators) /\ IsInjective(pool')
  <2>1. pool \in Seq(Coordinators) /\ IsInjective(pool) BY DEF TypeOK
  <2>. QED BY <1>1, <2>1, FilterKeeps
<1>4. alive' \in SUBSET Coordinators /\ job' \in {"Started", "Finished"} BY <1>1 DEF TypeOK
<1>. QED BY <1>1, <1>2, <1>3, <1>4, QuietStep

LEMMA MemberUpDoes ==
  ASSUME TypeOK, NEW c \in Coordinators, MemberUp(c)
  PROVE  /\ TypeOK' /\ alive' = alive \cup {c} /\ pool' # <<>>
         /\ ToSet(pool') = ToSet(pool) \cup {c}
<1>1. /\ UNCHANGED <<setup, total, next, crashes, streamVars, asked, reports, fetched>>
      /\ c \notin ToSet(pool)
      /\ job' = job /\ pool' = Append(pool, c) /\ alive' = alive \cup {c}
      /\ recorded' = recorded /\ now' = now /\ elapsed' = elapsed /\ claim' = claim
  BY DEF MemberUp, masterVars, trackerVars
<1>2. Tracker!TypeOK' BY <1>1 DEF TypeOK, Tracker!TypeOK
<1>3. pool \in Seq(Coordinators) /\ IsInjective(pool) BY DEF TypeOK
<1>4. pool' \in Seq(Coordinators) /\ ToSet(pool') = ToSet(pool) \cup {c}
  BY <1>1, <1>3, ElementsOf
<1>5. /\ Len(pool) \in Nat /\ DOMAIN pool = 1..Len(pool) /\ DOMAIN pool' = 1..(Len(pool) + 1)
      /\ pool'[Len(pool) + 1] = c /\ \A i \in 1..Len(pool) : pool'[i] = pool[i]
      /\ \A i \in 1..Len(pool) : pool[i] # c
  BY <1>1, <1>3 DEF ToSet
<1>6. pool' # <<>>
  <2>1. Len(pool) + 1 \in DOMAIN pool' BY <1>5
  <2>2. DOMAIN <<>> = {} OBVIOUS
  <2>. QED BY <2>1, <2>2
<1>7. IsInjective(pool')
  <2>1. ASSUME NEW i \in DOMAIN pool', NEW j \in DOMAIN pool', pool'[i] = pool'[j] PROVE i = j
    <3>1. CASE i \in 1..Len(pool) /\ j \in 1..Len(pool) BY <1>3, <1>5, <2>1, <3>1 DEF IsInjective
    <3>2. CASE i = Len(pool) + 1 /\ j \in 1..Len(pool) BY <1>5, <2>1, <3>2
    <3>3. CASE i \in 1..Len(pool) /\ j = Len(pool) + 1 BY <1>5, <2>1, <3>3
    <3>. QED BY <1>5, <3>1, <3>2, <3>3
  <2>. QED BY <2>1 DEF IsInjective
<1>8. alive' \in SUBSET Coordinators /\ job' \in {"Started", "Finished"} BY <1>1 DEF TypeOK
<1>. QED BY <1>1, <1>2, <1>4, <1>6, <1>7, <1>8, QuietStep

-----------------------------------------------------------------------------
(* What a coordinator has counted, logged and copied. *)

LEMMA SumHas ==
  ASSUME NEW D, IsFiniteSet(D), NEW f \in [D -> Nat], NEW c \in D
  PROVE  SumOf(f) \in Nat /\ f[c] <= SumOf(f)
<1>. DEFINE g == [x \in D |-> IF x = c THEN f[c] ELSE 0]
<1>1. f[c] \in Nat OBVIOUS
<1>2. g \in [D -> Nat] BY <1>1
<1>3. (\A x \in D : x # c => g[x] = 0) /\ g[c] = f[c] OBVIOUS
<1>4. \A x \in D : g[x] <= f[x]
  <2>1. \A x \in D : f[x] \in Nat OBVIOUS
  <2>. QED BY <2>1
<1>. HIDE DEF g
<1>5. SumOf(g) = f[c] BY <1>2, <1>3, SumSingle
<1>6. SumOf(f) \in Nat /\ SumOf(g) <= SumOf(f) BY <1>2, <1>4, SumMonotone
<1>. QED BY <1>5, <1>6

LEMMA WeightTypes ==
  /\ CountOf \in [Messages -> Nat]
  /\ \A m \in Messages : CountOf[m] = m.count
  /\ \A d : Copied(d) \in [Messages -> Nat]
  /\ \A d : \A m \in Messages : Copied(d)[m] = Occurrences(m.docs, d)
  /\ Field("discovered") \in [Stats -> Nat] /\ Field("downloaded") \in [Stats -> Nat]
  /\ \A st \in Stats : /\ Field("discovered")[st] = st.discovered
                       /\ Field("downloaded")[st] = st.downloaded
<1>1. \A m \in Messages : m.count \in Nat /\ m.docs \in Seq(Documents) BY DEF Messages
<1>2. CountOf \in [Messages -> Nat] /\ \A m \in Messages : CountOf[m] = m.count
  BY <1>1 DEF CountOf
<1>3. ASSUME NEW d
      PROVE  Copied(d) \in [Messages -> Nat] /\ \A m \in Messages : Copied(d)[m] = Occurrences(m.docs, d)
  <2>1. \A m \in Messages : Occurrences(m.docs, d) \in Nat BY <1>1, OccurrencesAre
  <2>. QED BY <2>1 DEF Copied
<1>4. \A st \in Stats : st.discovered \in Nat /\ st.downloaded \in Nat BY DEF Stats
<1>5. /\ Field("discovered") \in [Stats -> Nat] /\ Field("downloaded") \in [Stats -> Nat]
      /\ \A st \in Stats : /\ Field("discovered")[st] = st.discovered
                           /\ Field("downloaded")[st] = st.downloaded
  BY <1>4 DEF Field
<1>. QED BY <1>2, <1>3, <1>5

LEMMA FoundType ==
  ASSUME NEW st \in Stats, NEW re \in Seq(Stats), NEW ro \in Seq(Messages)
  PROVE  /\ st.discovered \in Nat /\ Total(re, Field("discovered")) \in Nat
         /\ Total(ro, CountOf) \in Nat /\ FoundIn(st, re, ro) \in Nat
<1>1. Total(re, Field("discovered")) \in Nat BY WeightTypes, TotalType
<1>2. Total(ro, CountOf) \in Nat BY WeightTypes, TotalType
<1>3. st.discovered \in Nat BY StatsFacts
<1>. QED BY <1>1, <1>2, <1>3 DEF FoundIn

LEMMA LoggedType ==
  ASSUME NEW st \in Stats, NEW re \in Seq(Stats), NEW ds \in Seq(Documents)
  PROVE  /\ st.downloaded \in Nat /\ Total(re, Field("downloaded")) \in Nat
         /\ Len(ds) \in Nat /\ LoggedIn(st, re, ds) \in Nat
<1>1. Total(re, Field("downloaded")) \in Nat BY WeightTypes, TotalType
<1>2. st.downloaded \in Nat BY StatsFacts
<1>. QED BY <1>1, <1>2 DEF LoggedIn

LEMMA CopiesType ==
  ASSUME NEW ro \in Seq(Messages), NEW so \in Seq(Documents), NEW fe \in [Documents -> Nat],
         NEW d \in Documents
  PROVE  /\ Total(ro, Copied(d)) \in Nat /\ Occurrences(so, d) \in Nat /\ fe[d] \in Nat
         /\ CopiesOf(ro, so, fe, d) \in Nat
<1>1. Total(ro, Copied(d)) \in Nat BY WeightTypes, TotalType
<1>2. Occurrences(so, d) \in Nat BY OccurrencesAre
<1>. QED BY <1>1, <1>2 DEF CopiesOf

\* The measures are sums of natural numbers, before and after a step.
LEMMA Measures ==
  ASSUME TypeOK
  PROVE  /\ IsFiniteSet(Coordinators) /\ IsFiniteSet(Documents)
         /\ total.discovered \in Nat /\ total.downloaded \in Nat
         /\ [x \in Coordinators |-> FoundAt(x)] \in [Coordinators -> Nat]
         /\ [x \in Coordinators |-> LoggedAt(x)] \in [Coordinators -> Nat]
         /\ \A d \in Documents : [x \in Coordinators |-> CopiesAt(x, d)] \in [Coordinators -> Nat]
         /\ fetched \in [Documents -> Nat] /\ Downloads \in Nat
         /\ Cardinality(Recorded) \in Nat
         /\ \A d \in Documents : Claims(d) \in Nat
<1>1. StreamTypes BY TypesOfStreams
<1>2. IsFiniteSet(Coordinators) /\ IsFiniteSet(Documents) BY CrawlPipelineAssumption
<1>3. total.discovered \in Nat /\ total.downloaded \in Nat BY StatsFacts DEF TypeOK
<1>4. ASSUME NEW x \in Coordinators
      PROVE  FoundAt(x) \in Nat /\ LoggedAt(x) \in Nat /\ \A d \in Documents : CopiesAt(x, d) \in Nat
  <2>1. /\ stats[x] \in Stats /\ reports[x] \in Seq(Stats) /\ routed[x] \in Seq(Messages)
        /\ done[x] \in Seq(Documents) /\ source[x] \in Seq(Documents)
        /\ fetching[x] \in [Documents -> Nat]
    BY <1>1 DEF StreamTypes
  <2>2. FoundAt(x) \in Nat BY <2>1, FoundType DEF FoundAt
  <2>3. LoggedAt(x) \in Nat BY <2>1, LoggedType DEF LoggedAt
  <2>4. \A d \in Documents : CopiesAt(x, d) \in Nat BY <2>1, CopiesType DEF CopiesAt
  <2>. QED BY <2>2, <2>3, <2>4
<1>5. fetched \in [Documents -> Nat] /\ Downloads \in Nat
  <2>1. fetched \in [Documents -> Nat] BY DEF TypeOK
  <2>. QED BY <1>2, <2>1, SumType DEF Downloads
<1>6. Cardinality(Recorded) \in Nat
  <2>1. Recorded \in SUBSET Documents BY DEF Recorded
  <2>2. IsFiniteSet(Recorded) BY <1>2, <2>1, FS_Subset
  <2>. QED BY <2>2, FS_CardinalityType
<1>7. \A d \in Documents : Claims(d) \in Nat
  <2>1. \A d \in Documents : claim[d].count \in Nat BY TrackerTypes DEF Tracker!Claim
  <2>. QED BY <2>1 DEF Claims
<1>. QED BY <1>2, <1>3, <1>4, <1>5, <1>6, <1>7

LEMMA MeasuresNext ==
  ASSUME TypeOK'
  PROVE  /\ total'.discovered \in Nat /\ total'.downloaded \in Nat
         /\ [x \in Coordinators |-> FoundAt(x)'] \in [Coordinators -> Nat]
         /\ [x \in Coordinators |-> LoggedAt(x)'] \in [Coordinators -> Nat]
         /\ \A d \in Documents : [x \in Coordinators |-> CopiesAt(x, d)'] \in [Coordinators -> Nat]
         /\ fetched' \in [Documents -> Nat]
<1>1. StreamTypes' BY DEF TypeOK, StreamTypes
<1>2. total'.discovered \in Nat /\ total'.downloaded \in Nat BY StatsFacts DEF TypeOK
<1>3. ASSUME NEW x \in Coordinators
      PROVE  /\ FoundAt(x)' \in Nat /\ LoggedAt(x)' \in Nat
             /\ \A d \in Documents : CopiesAt(x, d)' \in Nat
  <2>1. /\ stats'[x] \in Stats /\ reports'[x] \in Seq(Stats) /\ routed'[x] \in Seq(Messages)
        /\ done'[x] \in Seq(Documents) /\ source'[x] \in Seq(Documents)
        /\ fetching'[x] \in [Documents -> Nat]
    BY <1>1 DEF StreamTypes
  <2>2. FoundAt(x)' \in Nat BY <2>1, FoundType DEF FoundAt
  <2>3. LoggedAt(x)' \in Nat BY <2>1, LoggedType DEF LoggedAt
  <2>4. \A d \in Documents : CopiesAt(x, d)' \in Nat BY <2>1, CopiesType DEF CopiesAt
  <2>. QED BY <2>2, <2>3, <2>4
<1>. QED BY <1>1, <1>2, <1>3 DEF StreamTypes

\* A step that changes nothing but c and the total: it moves the counts, with k
\* more downloads, and loses none as long as no coordinator is lost.
CountsStep(c, k) ==
  /\ setup' = setup /\ claim' = claim /\ Recorded' = Recorded /\ now' = now
  /\ crashes' = 0 => crashes = 0
  /\ Others(c)
  /\ total'.discovered + FoundAt(c)' <= total.discovered + FoundAt(c)
  /\ crashes' = 0 => total'.discovered + FoundAt(c)' = total.discovered + FoundAt(c)
  /\ Downloads' = Downloads + k
  /\ total'.downloaded + LoggedAt(c)' <= total.downloaded + LoggedAt(c) + k
  /\ crashes' = 0 => total'.downloaded + LoggedAt(c)' = total.downloaded + LoggedAt(c) + k
  /\ \A d \in Documents :
       /\ CopiesAt(c, d)' + fetched'[d] <= CopiesAt(c, d) + fetched[d]
       /\ Undisturbed' => CopiesAt(c, d)' + fetched'[d] = CopiesAt(c, d) + fetched[d]

LEMMA UndisturbedBefore ==
  ASSUME setup' = setup, crashes' = 0 => crashes = 0, now' = 0 => now = 0
  PROVE  Undisturbed' => Undisturbed
BY DEF Undisturbed, BufferSize

LEMMA CountsKept ==
  ASSUME TypeOK, TypeOK', CountsOK, NEW c \in Coordinators, NEW k \in Nat, CountsStep(c, k)
  PROVE  CountsOK'
<1>1. IsFiniteSet(Coordinators) BY Measures
<1>2. \A x \in Coordinators : x # c => /\ FoundAt(x)' = FoundAt(x) /\ LoggedAt(x)' = LoggedAt(x)
                                       /\ \A d : CopiesAt(x, d)' = CopiesAt(x, d)
  BY DEF CountsStep, Others, SameAt, FoundAt, LoggedAt, CopiesAt
<1>3. FoundOK'
  <2>1. PICK f, g : /\ f = [x \in Coordinators |-> FoundAt(x)]
                    /\ g = [x \in Coordinators |-> FoundAt(x)']
    OBVIOUS
  <2>2. f \in [Coordinators -> Nat] /\ g \in [Coordinators -> Nat]
    BY <2>1, Measures, MeasuresNext
  <2>3. (\A x \in Coordinators : x # c => f[x] = g[x]) /\ f[c] = FoundAt(c) /\ g[c] = FoundAt(c)'
    BY <2>1, <1>2
  <2>4. /\ SumOf(f) \in Nat /\ SumOf(g) \in Nat /\ f[c] \in Nat /\ g[c] \in Nat
        /\ SumOf(g) + f[c] = SumOf(f) + g[c]
    BY <1>1, <2>2, <2>3, SumAtOne
  <2>5. Discoveries = total.discovered + SumOf(f) /\ Discoveries' = total'.discovered + SumOf(g)
    BY <2>1 DEF Discoveries
  <2>6. total.discovered \in Nat /\ total'.discovered \in Nat BY Measures, MeasuresNext
  <2>7. /\ total'.discovered + g[c] <= total.discovered + f[c]
        /\ crashes' = 0 => total'.discovered + g[c] = total.discovered + f[c]
    BY <2>3 DEF CountsStep
  <2>8. Discoveries' <= Discoveries /\ (crashes' = 0 => Discoveries' = Discoveries)
        /\ Discoveries \in Nat /\ Discoveries' \in Nat
    BY <2>4, <2>5, <2>6, <2>7
  <2>9. Recorded' = Recorded /\ (crashes' = 0 => crashes = 0) BY DEF CountsStep
  <2>10. Cardinality(Recorded) \in Nat BY Measures
  <2>. QED BY <2>8, <2>9, <2>10 DEF CountsOK, FoundOK
<1>4. LoggedOK'
  <2>1. PICK f, g : /\ f = [x \in Coordinators |-> LoggedAt(x)]
                    /\ g = [x \in Coordinators |-> LoggedAt(x)']
    OBVIOUS
  <2>2. f \in [Coordinators -> Nat] /\ g \in [Coordinators -> Nat]
    BY <2>1, Measures, MeasuresNext
  <2>3. (\A x \in Coordinators : x # c => f[x] = g[x]) /\ f[c] = LoggedAt(c) /\ g[c] = LoggedAt(c)'
    BY <2>1, <1>2
  <2>4. /\ SumOf(f) \in Nat /\ SumOf(g) \in Nat /\ f[c] \in Nat /\ g[c] \in Nat
        /\ SumOf(g) + f[c] = SumOf(f) + g[c]
    BY <1>1, <2>2, <2>3, SumAtOne
  <2>5. Logs = total.downloaded + SumOf(f) /\ Logs' = total'.downloaded + SumOf(g)
    BY <2>1 DEF Logs
  <2>6. total.downloaded \in Nat /\ total'.downloaded \in Nat BY Measures, MeasuresNext
  <2>7. /\ total'.downloaded + g[c] <= total.downloaded + f[c] + k
        /\ crashes' = 0 => total'.downloaded + g[c] = total.downloaded + f[c] + k
    BY <2>3 DEF CountsStep
  <2>8. Logs' <= Logs + k /\ (crashes' = 0 => Logs' = Logs + k)
        /\ Logs \in Nat /\ Logs' \in Nat
    BY <2>4, <2>5, <2>6, <2>7
  <2>9. Downloads' = Downloads + k /\ (crashes' = 0 => crashes = 0) BY DEF CountsStep
  <2>10. Downloads \in Nat BY Measures
  <2>. QED BY <2>8, <2>9, <2>10 DEF CountsOK, LoggedOK
<1>5. ASSUME NEW d \in Documents
      PROVE  /\ AllCopies(d)' + fetched'[d] <= Claims(d)'
             /\ Undisturbed' => AllCopies(d)' + fetched'[d] = Claims(d)'
  <2>1. PICK f, g : /\ f = [x \in Coordinators |-> CopiesAt(x, d)]
                    /\ g = [x \in Coordinators |-> CopiesAt(x, d)']
    OBVIOUS
  <2>2. f \in [Coordinators -> Nat] /\ g \in [Coordinators -> Nat]
    BY <2>1, Measures, MeasuresNext
  <2>3. (\A x \in Coordinators : x # c => f[x] = g[x]) /\ f[c] = CopiesAt(c, d) /\ g[c] = CopiesAt(c, d)'
    BY <2>1, <1>2
  <2>4. /\ SumOf(f) \in Nat /\ SumOf(g) \in Nat /\ f[c] \in Nat /\ g[c] \in Nat
        /\ SumOf(g) + f[c] = SumOf(f) + g[c]
    BY <1>1, <2>2, <2>3, SumAtOne
  <2>5. AllCopies(d) = SumOf(f) /\ AllCopies(d)' = SumOf(g) BY <2>1 DEF AllCopies
  <2>6. fetched[d] \in Nat /\ fetched'[d] \in Nat BY Measures, MeasuresNext
  <2>7. /\ g[c] + fetched'[d] <= f[c] + fetched[d]
        /\ Undisturbed' => g[c] + fetched'[d] = f[c] + fetched[d]
    BY <2>3 DEF CountsStep
  <2>8. Undisturbed' => Undisturbed BY UndisturbedBefore DEF CountsStep
  <2>9. Claims(d)' = Claims(d) /\ Claims(d) \in Nat BY Measures DEF CountsStep, Claims
  <2>10. /\ SumOf(f) + fetched[d] <= Claims(d)
         /\ Undisturbed => SumOf(f) + fetched[d] = Claims(d)
    BY <2>5 DEF CountsOK, CopiesOK
  <2>11. SumOf(g) + fetched'[d] <= Claims(d) BY <2>4, <2>6, <2>7, <2>9, <2>10
  <2>12. Undisturbed' => SumOf(g) + fetched'[d] = Claims(d) BY <2>4, <2>6, <2>7, <2>8, <2>9, <2>10
  <2>. QED BY <2>5, <2>9, <2>11, <2>12
<1>. QED BY <1>3, <1>4, <1>5 DEF CountsOK, CopiesOK

\* A step that changes nothing that is counted.
LEMMA CountsSame ==
  ASSUME CountsOK, UNCHANGED <<setup, total, crashes, streamVars, reports, claim, fetched>>,
         Recorded' = Recorded, now' = 0 => now = 0
  PROVE  CountsOK'
<1>1. /\ setup' = setup /\ total' = total /\ crashes' = crashes /\ routed' = routed
      /\ source' = source /\ fetching' = fetching /\ done' = done /\ stats' = stats
      /\ reports' = reports /\ claim' = claim /\ fetched' = fetched
  BY DEF streamVars
<1>2. \A x \in Coordinators : /\ FoundAt(x)' = FoundAt(x) /\ LoggedAt(x)' = LoggedAt(x)
                              /\ \A d : CopiesAt(x, d)' = CopiesAt(x, d)
  BY <1>1 DEF FoundAt, LoggedAt, CopiesAt
<1>3. Discoveries' = Discoveries BY <1>1, <1>2 DEF Discoveries
<1>4. Logs' = Logs /\ Downloads' = Downloads BY <1>1, <1>2 DEF Logs, Downloads
<1>5. \A d : AllCopies(d)' = AllCopies(d) BY <1>2 DEF AllCopies
<1>6. \A d : Claims(d)' = Claims(d) BY <1>1 DEF Claims
<1>7. Undisturbed' => Undisturbed BY <1>1, UndisturbedBefore
<1>8. FoundOK' BY <1>1, <1>3 DEF CountsOK, FoundOK
<1>9. LoggedOK' BY <1>1, <1>4 DEF CountsOK, LoggedOK
<1>10. CopiesOK' BY <1>1, <1>5, <1>6, <1>7 DEF CountsOK, CopiesOK
<1>. QED BY <1>8, <1>9, <1>10 DEF CountsOK

-----------------------------------------------------------------------------
(* The steps of a coordinator, and reports, move counts and copies. *)

\* What c has, with its types.
LEMMA AtTypes ==
  ASSUME TypeOK, NEW c \in Coordinators
  PROVE  /\ routed[c] \in Seq(Messages) /\ source[c] \in Seq(Documents) /\ Len(source[c]) <= BufferSize
         /\ fetching[c] \in [Documents -> Nat] /\ done[c] \in Seq(Documents)
         /\ parsed[c] \in Seq(Documents) /\ asked[c] \in Seq(Seq(Documents))
         /\ stats[c] \in Stats /\ reports[c] \in Seq(Stats)
BY TypesOfStreams DEF StreamTypes

\* In an undisturbed crawl there is room for what is routed to a coordinator.
LEMMA RoomForAll ==
  ASSUME TypeOK, ClaimsOK, CopiesOK, Undisturbed, NEW c \in Coordinators, routed[c] # <<>>
  PROVE  Len(source[c]) + Len(Head(routed[c]).docs) <= BufferSize
<1>. DEFINE b == source[c]
            docs == Head(routed[c]).docs
            s == b \o docs
<1>1. /\ IsFiniteSet(Documents) /\ RootDocument \in Documents /\ Cardinality(Documents) \in Nat
      /\ BufferSize \in Nat /\ BufferSize > Cardinality(Documents)
  BY ScenarioFacts DEF TypeOK, Undisturbed
<1>2. routed[c] \in Seq(Messages) /\ b \in Seq(Documents) /\ fetching[c] \in [Documents -> Nat]
  BY AtTypes
<1>3. Head(routed[c]) \in Messages /\ docs \in Seq(Documents)
  <2>1. Head(routed[c]) \in Messages BY <1>2
  <2>. QED BY <2>1 DEF Messages
<1>4. s \in Seq(Documents) /\ Len(s) = Len(b) + Len(docs)
  <2>. HIDE DEF b, docs
  <2>. QED BY <1>2, <1>3, ConcatProperties
<1>5. ASSUME NEW d \in Documents PROVE Occurrences(s, d) <= Claims(d) /\ Occurrences(s, d) \in Nat
  <2>1. Is(d) \in [Documents -> Nat] BY DEF Is
  <2>2. Total(s, Is(d)) = Total(b, Is(d)) + Total(docs, Is(d))
    <3>. HIDE DEF b, docs
    <3>. QED BY <1>2, <1>3, <2>1, TotalConcat
  <2>3. /\ Occurrences(s, d) = Occurrences(b, d) + Occurrences(docs, d)
        /\ Occurrences(b, d) \in Nat /\ Occurrences(docs, d) \in Nat
    <3>. HIDE DEF b, docs
    <3>1. Occurrences(b, d) = Total(b, Is(d)) /\ Occurrences(b, d) \in Nat BY <1>2, OccurrencesAre
    <3>2. Occurrences(docs, d) = Total(docs, Is(d)) /\ Occurrences(docs, d) \in Nat
      BY <1>3, OccurrencesAre
    <3>3. Occurrences(s, d) = Total(s, Is(d)) BY <1>4, OccurrencesAre
    <3>. QED BY <2>2, <3>1, <3>2, <3>3
  <2>4. Total(routed[c], Copied(d)) >= Occurrences(docs, d)
    <3>1. Copied(d) \in [Messages -> Nat] /\ Copied(d)[Head(routed[c])] = Occurrences(docs, d)
      BY <1>3, WeightTypes
    <3>2. PICK msg, rest : msg = Head(routed[c]) /\ rest = Tail(routed[c]) OBVIOUS
    <3>3. Starts(Messages, routed[c], msg, rest) BY <1>2, <3>2 DEF Starts
    <3>4. /\ Total(rest, Copied(d)) \in Nat
          /\ Total(routed[c], Copied(d)) = Copied(d)[msg] + Total(rest, Copied(d))
      BY <3>1, <3>3, TotalTail
    <3>. QED BY <2>3, <3>1, <3>2, <3>4
  <2>5. Total(routed[c], Copied(d)) \in Nat /\ fetching[c][d] \in Nat
        /\ CopiesAt(c, d) = Total(routed[c], Copied(d)) + Occurrences(b, d) + fetching[c][d]
    BY <1>2, CopiesType DEF CopiesAt, CopiesOf
  <2>6. Occurrences(s, d) <= CopiesAt(c, d) BY <2>3, <2>4, <2>5
  <2>7. CopiesAt(c, d) <= AllCopies(d) /\ AllCopies(d) \in Nat
    <3>1. PICK f : f = [x \in Coordinators |-> CopiesAt(x, d)] OBVIOUS
    <3>2. f \in [Coordinators -> Nat] /\ IsFiniteSet(Coordinators) BY <3>1, Measures
    <3>3. SumOf(f) \in Nat /\ f[c] <= SumOf(f) BY <3>2, SumHas
    <3>. QED BY <3>1, <3>3 DEF AllCopies
  <2>8. AllCopies(d) + fetched[d] <= Claims(d) BY DEF CopiesOK
  <2>9. fetched[d] \in Nat /\ Claims(d) \in Nat BY Measures
  <2>10. CopiesAt(c, d) \in Nat BY <2>3, <2>5
  <2>11. Occurrences(s, d) \in Nat BY <2>3
  <2>. QED BY <2>6, <2>7, <2>8, <2>9, <2>10, <2>11
<1>6. ASSUME NEW d \in Documents PROVE Claims(d) <= 1 + IF d = RootDocument THEN 1 ELSE 0
  <2>1. claim[d].count <= 1 BY DEF ClaimsOK, Undisturbed
  <2>2. claim[d].count \in Nat BY TrackerTypes DEF Tracker!Claim
  <2>. QED BY <2>1, <2>2 DEF Claims
<1>7. \A d \in Documents : Claims(d) \in Nat BY Measures
<1>. HIDE DEF s, b, docs
<1>8. Occurrences(s, RootDocument) <= 2 BY <1>1, <1>5, <1>6, <1>7
<1>9. \A d \in Documents : d # RootDocument => Occurrences(s, d) <= 1
  BY <1>5, <1>6, <1>7
<1>10. Len(s) <= Cardinality(Documents) + 1 BY <1>1, <1>4, <1>8, <1>9, FewCopies
<1>11. Len(b) + Len(docs) <= BufferSize
  <2>1. Len(s) \in Nat BY <1>4
  <2>. QED BY <1>1, <1>4, <1>10, <2>1
<1>. QED BY <1>11 DEF b, docs

\* What does not change when c does a step of its own.
LEMMA Steady ==
  ASSUME UNCHANGED <<setup, poolVars, trackerVars>>
  PROVE  /\ setup' = setup /\ claim' = claim /\ Recorded' = Recorded /\ now' = now
         /\ crashes' = crashes /\ alive' = alive /\ pool' = pool /\ recorded' = recorded
BY DEF poolVars, trackerVars, Recorded

LEMMA OnRoutedCounts ==
  ASSUME TypeOK, ClaimsOK, CopiesOK, NEW c \in Coordinators, OnRouted(c)
  PROVE  CountsStep(c, 0)
<1>1. PICK msg, rest : msg = Head(routed[c]) /\ rest = Tail(routed[c]) OBVIOUS
<1>2. /\ Others(c) /\ routed[c] # <<>> /\ routed'[c] = rest
      /\ source'[c] = OfferAll(source[c], msg.docs)
      /\ stats'[c] = WithDiscovered(stats[c], msg.count)
  BY <1>1, OnRoutedDoes
<1>3. /\ setup' = setup /\ total' = total /\ fetching' = fetching /\ done' = done
      /\ reports' = reports /\ fetched' = fetched /\ UNCHANGED <<poolVars, trackerVars>>
  BY DEF OnRouted, masterVars
<1>4. /\ routed[c] \in Seq(Messages) /\ source[c] \in Seq(Documents) /\ Len(source[c]) <= BufferSize
      /\ stats[c] \in Stats /\ reports[c] \in Seq(Stats) /\ done[c] \in Seq(Documents)
      /\ fetching[c] \in [Documents -> Nat]
  BY AtTypes
<1>5. msg \in Messages /\ rest \in Seq(Messages) BY <1>1, <1>2, <1>4
<1>6. msg.docs \in Seq(Documents) /\ msg.count \in Nat BY <1>5 DEF Messages
<1>7. ASSUME NEW w \in [Messages -> Nat]
      PROVE  /\ Total(rest, w) \in Nat /\ w[msg] \in Nat
             /\ Total(routed[c], w) = w[msg] + Total(rest, w)
  <2>1. Starts(Messages, routed[c], msg, rest) BY <1>1, <1>2, <1>4 DEF Starts
  <2>. QED BY <2>1, TotalTail
<1>8. FoundAt(c)' = FoundAt(c)
  <2>1. Total(routed[c], CountOf) = msg.count + Total(rest, CountOf) /\ Total(rest, CountOf) \in Nat
    BY <1>5, <1>7, WeightTypes
  <2>2. stats'[c].discovered = stats[c].discovered + msg.count
    <3>1. WithDiscovered(stats[c], msg.count).discovered = stats[c].discovered + msg.count
      BY <1>4, <1>6, StatsFacts
    <3>. QED BY <1>2, <3>1
  <2>3. stats[c].discovered \in Nat /\ Total(reports[c], Field("discovered")) \in Nat
    BY <1>4, FoundType
  <2>4. FoundAt(c)' = stats'[c].discovered + Total(reports[c], Field("discovered"))
                      + Total(rest, CountOf)
    BY <1>2, <1>3 DEF FoundAt, FoundIn
  <2>5. FoundAt(c) = stats[c].discovered + Total(reports[c], Field("discovered"))
                     + Total(routed[c], CountOf)
    BY DEF FoundAt, FoundIn
  <2>. QED BY <1>6, <2>1, <2>2, <2>3, <2>4, <2>5
<1>9. LoggedAt(c)' = LoggedAt(c)
  <2>1. stats'[c].downloaded = stats[c].downloaded
    <3>1. WithDiscovered(stats[c], msg.count).downloaded = stats[c].downloaded
      BY <1>4, <1>6, StatsFacts
    <3>. QED BY <1>2, <3>1
  <2>. QED BY <1>3, <2>1 DEF LoggedAt, LoggedIn
<1>10. ASSUME NEW d \in Documents
       PROVE  /\ CopiesAt(c, d)' + fetched'[d] <= CopiesAt(c, d) + fetched[d]
              /\ Undisturbed' => CopiesAt(c, d)' + fetched'[d] = CopiesAt(c, d) + fetched[d]
  <2>. DEFINE o == Occurrences(OfferAll(source[c], msg.docs), d)
              m == Occurrences(source[c], d)
              n == Occurrences(msg.docs, d)
              t == Total(rest, Copied(d))
  <2>1. Total(routed[c], Copied(d)) = n + t /\ t \in Nat
    BY <1>5, <1>7, WeightTypes
  <2>2. /\ o \in Nat /\ m \in Nat /\ n \in Nat /\ o <= m + n
        /\ Len(source[c]) + Len(msg.docs) <= BufferSize => o = m + n
    <3>1. setup \in Scenarios BY DEF TypeOK
    <3>2. PICK b, docs : b = source[c] /\ docs = msg.docs OBVIOUS
    <3>3. b \in Seq(Documents) /\ Len(b) <= BufferSize /\ docs \in Seq(Documents)
      BY <1>4, <1>6, <3>2
    <3>4. \A e : /\ Occurrences(b, e) \in Nat /\ Occurrences(docs, e) \in Nat
                 /\ Occurrences(OfferAll(b, docs), e) \in Nat
                 /\ Occurrences(OfferAll(b, docs), e) <= Occurrences(b, e) + Occurrences(docs, e)
                 /\ Len(b) + Len(docs) <= BufferSize =>
                      Occurrences(OfferAll(b, docs), e) = Occurrences(b, e) + Occurrences(docs, e)
      BY <3>1, <3>3, OfferAllKeeps
    <3>. QED BY <3>2, <3>4
  <2>3. Undisturbed' => Len(source[c]) + Len(msg.docs) <= BufferSize
    <3>1. Undisturbed' => Undisturbed BY <1>3, Steady, UndisturbedBefore
    <3>. QED BY <1>1, <1>2, <3>1, RoomForAll
  <2>4. CopiesAt(c, d)' = t + o + fetching[c][d] BY <1>2, <1>3 DEF CopiesAt, CopiesOf
  <2>5. CopiesAt(c, d) = (n + t) + m + fetching[c][d] BY <2>1 DEF CopiesAt, CopiesOf
  <2>6. fetching[c][d] \in Nat /\ fetched[d] \in Nat /\ fetched'[d] = fetched[d]
    BY <1>3, <1>4, Measures
  <2>. DEFINE k == fetching[c][d]
  <2>7. /\ o \in Nat /\ m \in Nat /\ n \in Nat /\ t \in Nat /\ k \in Nat
        /\ CopiesAt(c, d)' = t + o + k /\ CopiesAt(c, d) = (n + t) + m + k
    BY <2>1, <2>2, <2>4, <2>5, <2>6
  <2>8. o <= m + n /\ (Undisturbed' => o = m + n) BY <2>2, <2>3
  <2>9. fetched[d] \in Nat /\ fetched'[d] = fetched[d] BY <2>6
  <2>. HIDE DEF o, m, n, t, k
  <2>10. CopiesAt(c, d)' + fetched'[d] <= CopiesAt(c, d) + fetched[d] BY <2>7, <2>8, <2>9
  <2>11. ASSUME Undisturbed' PROVE CopiesAt(c, d)' + fetched'[d] = CopiesAt(c, d) + fetched[d]
    BY <2>7, <2>8, <2>9, <2>11
  <2>. QED BY <2>10, <2>11
<1>11. /\ FoundAt(c) \in Nat /\ LoggedAt(c) \in Nat /\ total.discovered \in Nat
       /\ total.downloaded \in Nat /\ Downloads \in Nat /\ Downloads' = Downloads
  BY <1>3, <1>4, FoundType, LoggedType, Measures DEF FoundAt, LoggedAt, Downloads
<1>12. /\ setup' = setup /\ claim' = claim /\ Recorded' = Recorded /\ now' = now
       /\ crashes' = crashes
  BY <1>3, Steady
<1>. QED BY <1>2, <1>3, <1>8, <1>9, <1>10, <1>11, <1>12 DEF CountsStep

\* A step of c that leaves what c counted, logged and copied as it is.
LEMMA NothingMoves ==
  ASSUME TypeOK, NEW c \in Coordinators, Others(c),
         UNCHANGED <<setup, total, poolVars, trackerVars, fetched>>,
         FoundAt(c)' = FoundAt(c), LoggedAt(c)' = LoggedAt(c),
         \A d \in Documents : CopiesAt(c, d)' = CopiesAt(c, d)
  PROVE  CountsStep(c, 0)
<1>1. /\ setup' = setup /\ claim' = claim /\ Recorded' = Recorded /\ now' = now
      /\ crashes' = crashes
  BY Steady
<1>2. /\ stats[c] \in Stats /\ reports[c] \in Seq(Stats) /\ done[c] \in Seq(Documents)
      /\ routed[c] \in Seq(Messages) /\ source[c] \in Seq(Documents)
      /\ fetching[c] \in [Documents -> Nat]
  BY AtTypes
<1>3. /\ FoundAt(c) \in Nat /\ LoggedAt(c) \in Nat
      /\ total.discovered \in Nat /\ total.downloaded \in Nat /\ Downloads \in Nat
  BY <1>2, FoundType, LoggedType, Measures DEF FoundAt, LoggedAt
<1>4. \A d \in Documents : CopiesAt(c, d) + fetched[d] \in Nat
  <2>1. ASSUME NEW d \in Documents PROVE CopiesAt(c, d) \in Nat /\ fetched[d] \in Nat
    BY <1>2, CopiesType, Measures DEF CopiesAt
  <2>. QED BY <2>1
<1>5. total' = total /\ fetched' = fetched /\ Downloads' = Downloads BY DEF Downloads
<1>6. \A d \in Documents : /\ CopiesAt(c, d)' + fetched'[d] <= CopiesAt(c, d) + fetched[d]
                           /\ CopiesAt(c, d)' + fetched'[d] = CopiesAt(c, d) + fetched[d]
  BY <1>4, <1>5
<1>. QED BY <1>1, <1>3, <1>5, <1>6 DEF CountsStep

LEMMA FetchCounts ==
  ASSUME TypeOK, NEW c \in Coordinators, Fetch(c)
  PROVE  CountsStep(c, 0)
<1>1. PICK h, rest : h = Head(source[c]) /\ rest = Tail(source[c]) OBVIOUS
<1>2. /\ Others(c) /\ source[c] # <<>> /\ source'[c] = rest
      /\ \A d \in Documents : fetching'[c][d] = fetching[c][d] + IF d = h THEN 1 ELSE 0
  BY <1>1, FetchDoes
<1>3. /\ setup' = setup /\ total' = total /\ done' = done /\ stats' = stats /\ routed' = routed
      /\ reports' = reports /\ fetched' = fetched /\ UNCHANGED <<poolVars, trackerVars>>
  BY DEF Fetch, masterVars
<1>4. /\ routed[c] \in Seq(Messages) /\ source[c] \in Seq(Documents)
      /\ fetching[c] \in [Documents -> Nat]
  BY AtTypes
<1>5. FoundAt(c)' = FoundAt(c) /\ LoggedAt(c)' = LoggedAt(c)
  BY <1>3 DEF FoundAt, LoggedAt
<1>6. ASSUME NEW d \in Documents PROVE CopiesAt(c, d)' = CopiesAt(c, d)
  <2>1. Is(d) \in [Documents -> Nat] BY DEF Is
  <2>2. ASSUME NEW w \in [Documents -> Nat]
        PROVE  /\ h \in Documents /\ rest \in Seq(Documents) /\ Total(rest, w) \in Nat
               /\ Total(source[c], w) = w[h] + Total(rest, w)
    <3>1. Starts(Documents, source[c], h, rest) BY <1>1, <1>2, <1>4 DEF Starts
    <3>. QED BY <3>1, TotalTail
  <2>3. /\ h \in Documents /\ rest \in Seq(Documents) /\ Total(rest, Is(d)) \in Nat
        /\ Total(source[c], Is(d)) = Is(d)[h] + Total(rest, Is(d))
    BY <2>2, <2>1
  <2>4. Is(d)[h] = IF d = h THEN 1 ELSE 0 BY <2>3 DEF Is
  <2>5. Occurrences(source[c], d) = Total(source[c], Is(d)) /\ Occurrences(rest, d) = Total(rest, Is(d))
    BY <1>4, <2>3, OccurrencesAre
  <2>6. Total(routed[c], Copied(d)) \in Nat /\ fetching[c][d] \in Nat
    BY <1>4, CopiesType
  <2>7. CopiesAt(c, d)' = Total(routed[c], Copied(d)) + Occurrences(rest, d) + fetching'[c][d]
    BY <1>2, <1>3 DEF CopiesAt, CopiesOf
  <2>8. CopiesAt(c, d) = Total(routed[c], Copied(d)) + Occurrences(source[c], d) + fetching[c][d]
    BY DEF CopiesAt, CopiesOf
  <2>9. fetching'[c][d] = fetching[c][d] + IF d = h THEN 1 ELSE 0 BY <1>2
  <2>. QED BY <2>3, <2>4, <2>5, <2>6, <2>7, <2>8, <2>9
<1>. QED BY <1>2, <1>3, <1>5, <1>6, NothingMoves

LEMMA OnCompletedCounts ==
  ASSUME TypeOK, NEW c \in Coordinators, OnCompleted(c)
  PROVE  CountsStep(c, 0)
<1>1. PICK h, rest : h = Head(done[c]) /\ rest = Tail(done[c]) OBVIOUS
<1>2. /\ Others(c) /\ done[c] # <<>> /\ done'[c] = rest
      /\ stats'[c] = WithCompleted(stats[c], h)
  BY <1>1, OnCompletedDoes
<1>3. /\ setup' = setup /\ total' = total /\ source' = source /\ fetching' = fetching
      /\ routed' = routed /\ reports' = reports /\ fetched' = fetched
      /\ UNCHANGED <<poolVars, trackerVars>>
  BY DEF OnCompleted, masterVars
<1>4. done[c] \in Seq(Documents) /\ stats[c] \in Stats /\ reports[c] \in Seq(Stats) BY AtTypes
<1>5. h \in Documents /\ rest \in Seq(Documents) /\ Len(done[c]) = Len(rest) + 1 /\ Len(rest) \in Nat
  BY <1>1, <1>2, <1>4
<1>6. /\ stats'[c].discovered = stats[c].discovered
      /\ stats'[c].downloaded = stats[c].downloaded + 1
  <2>1. /\ WithCompleted(stats[c], h).discovered = stats[c].discovered
        /\ WithCompleted(stats[c], h).downloaded = stats[c].downloaded + 1
    BY <1>4, <1>5, StatsFacts
  <2>. QED BY <1>2, <2>1
<1>7. FoundAt(c)' = FoundAt(c) BY <1>3, <1>6 DEF FoundAt, FoundIn
<1>8. LoggedAt(c)' = LoggedAt(c)
  <2>1. stats[c].downloaded \in Nat /\ Total(reports[c], Field("downloaded")) \in Nat
    BY <1>4, LoggedType
  <2>2. LoggedAt(c)' = stats'[c].downloaded + Total(reports[c], Field("downloaded")) + Len(rest)
    BY <1>2, <1>3 DEF LoggedAt, LoggedIn
  <2>3. LoggedAt(c) = stats[c].downloaded + Total(reports[c], Field("downloaded")) + Len(done[c])
    BY DEF LoggedAt, LoggedIn
  <2>4. stats'[c].downloaded = stats[c].downloaded + 1 BY <1>6
  <2>5. PICK n \in Nat : Len(done[c]) = n + 1 /\ Len(rest) = n BY <1>5
  <2>6. PICK x \in Nat, t \in Nat :
           x = stats[c].downloaded /\ t = Total(reports[c], Field("downloaded"))
    BY <2>1
  <2>7. LoggedAt(c)' = (x + 1) + t + n BY <2>2, <2>4, <2>5, <2>6
  <2>8. LoggedAt(c) = x + t + (n + 1) BY <2>3, <2>5, <2>6
  <2>9. (x + 1) + t + n = x + t + (n + 1) OBVIOUS
  <2>. QED BY <2>7, <2>8, <2>9
<1>9. \A d \in Documents : CopiesAt(c, d)' = CopiesAt(c, d) BY <1>3 DEF CopiesAt
<1>. QED BY <1>2, <1>3, <1>7, <1>8, <1>9, NothingMoves

LEMMA OnCheckCounts ==
  ASSUME TypeOK, NEW c \in Coordinators, OnCheck(c)
  PROVE  CountsStep(c, 0)
<1>1. Others(c) BY OnCheckDoes
<1>2. /\ setup' = setup /\ total' = total /\ source' = source /\ fetching' = fetching
      /\ routed' = routed /\ reports' = reports /\ fetched' = fetched /\ done' = done
      /\ stats' = stats /\ UNCHANGED <<poolVars, trackerVars>>
  BY DEF OnCheck, masterVars
<1>3. FoundAt(c)' = FoundAt(c) /\ LoggedAt(c)' = LoggedAt(c) BY <1>2 DEF FoundAt, LoggedAt
<1>4. \A d \in Documents : CopiesAt(c, d)' = CopiesAt(c, d) BY <1>2 DEF CopiesAt
<1>. QED BY <1>1, <1>2, <1>3, <1>4, NothingMoves

LEMMA PublishCounts ==
  ASSUME TypeOK, NEW c \in Coordinators, Publish(c)
  PROVE  CountsStep(c, 0)
<1>1. /\ Others(c) /\ reports'[c] = Append(reports[c], stats[c]) /\ stats'[c] = Reset
  BY PublishDoes
<1>2. /\ setup' = setup /\ total' = total /\ source' = source /\ fetching' = fetching
      /\ routed' = routed /\ fetched' = fetched /\ done' = done
      /\ UNCHANGED <<poolVars, trackerVars>>
  BY DEF Publish, masterVars
<1>3. /\ stats[c] \in Stats /\ reports[c] \in Seq(Stats) /\ routed[c] \in Seq(Messages)
      /\ done[c] \in Seq(Documents)
  BY AtTypes
<1>4. ASSUME NEW w \in [Stats -> Nat]
      PROVE  /\ Total(reports[c], w) \in Nat
             /\ Total(reports'[c], w) = Total(reports[c], w) + w[stats[c]]
  <2>1. Ends(Stats, reports'[c], reports[c], stats[c]) BY <1>1, <1>3 DEF Ends
  <2>. QED BY <2>1, TotalAppend
<1>5. /\ Total(reports'[c], Field("discovered"))
            = Total(reports[c], Field("discovered")) + stats[c].discovered
      /\ Total(reports'[c], Field("downloaded"))
            = Total(reports[c], Field("downloaded")) + stats[c].downloaded
  BY <1>3, <1>4, WeightTypes
<1>6. stats'[c].discovered = 0 /\ stats'[c].downloaded = 0 BY <1>1, StatsFacts
<1>7. FoundAt(c)' = FoundAt(c)
  <2>1. /\ stats[c].discovered \in Nat /\ Total(reports[c], Field("discovered")) \in Nat
        /\ Total(routed[c], CountOf) \in Nat
    BY <1>3, FoundType
  <2>2. FoundAt(c)' = stats'[c].discovered + Total(reports'[c], Field("discovered"))
                      + Total(routed[c], CountOf)
    BY <1>2 DEF FoundAt, FoundIn
  <2>3. FoundAt(c) = stats[c].discovered + Total(reports[c], Field("discovered"))
                     + Total(routed[c], CountOf)
    BY DEF FoundAt, FoundIn
  <2>. QED BY <1>5, <1>6, <2>1, <2>2, <2>3
<1>8. LoggedAt(c)' = LoggedAt(c)
  <2>1. /\ stats[c].downloaded \in Nat /\ Total(reports[c], Field("downloaded")) \in Nat
        /\ Len(done[c]) \in Nat
    BY <1>3, LoggedType
  <2>2. LoggedAt(c)' = stats'[c].downloaded + Total(reports'[c], Field("downloaded")) + Len(done[c])
    BY <1>2 DEF LoggedAt, LoggedIn
  <2>3. LoggedAt(c) = stats[c].downloaded + Total(reports[c], Field("downloaded")) + Len(done[c])
    BY DEF LoggedAt, LoggedIn
  <2>. QED BY <1>5, <1>6, <2>1, <2>2, <2>3
<1>9. \A d \in Documents : CopiesAt(c, d)' = CopiesAt(c, d) BY <1>2 DEF CopiesAt
<1>. QED BY <1>1, <1>2, <1>7, <1>8, <1>9, NothingMoves

LEMMA FetchDoneCounts ==
  ASSUME TypeOK, NEW c \in Coordinators, NEW e \in Documents, FetchDone(c, e)
  PROVE  CountsStep(c, 1)
<1>1. /\ Others(c) /\ fetching[c][e] > 0
      /\ \A d \in Documents :
           /\ fetching'[c][d] = fetching[c][d] - IF d = e THEN 1 ELSE 0
           /\ fetched'[d] = fetched[d] + IF d = e THEN 1 ELSE 0
      /\ done'[c] = Append(done[c], e)
  BY FetchDoneDoes
<1>2. /\ setup' = setup /\ total' = total /\ source' = source /\ stats' = stats
      /\ routed' = routed /\ reports' = reports /\ UNCHANGED <<poolVars, trackerVars>>
  BY DEF FetchDone, masterVars
<1>3. /\ stats[c] \in Stats /\ reports[c] \in Seq(Stats) /\ routed[c] \in Seq(Messages)
      /\ done[c] \in Seq(Documents) /\ source[c] \in Seq(Documents)
      /\ fetching[c] \in [Documents -> Nat]
  BY AtTypes
<1>4. FoundAt(c)' = FoundAt(c) BY <1>2 DEF FoundAt
<1>5. LoggedAt(c)' = LoggedAt(c) + 1
  <2>1. Len(done'[c]) = Len(done[c]) + 1 BY <1>1, <1>3, AppendProperties
  <2>2. /\ stats[c].downloaded \in Nat /\ Total(reports[c], Field("downloaded")) \in Nat
        /\ Len(done[c]) \in Nat
    BY <1>3, LoggedType
  <2>3. PICK x \in Nat, t \in Nat, n \in Nat :
           x = stats[c].downloaded /\ t = Total(reports[c], Field("downloaded")) /\ n = Len(done[c])
    BY <2>2
  <2>4. LoggedAt(c) = x + t + n BY <2>3 DEF LoggedAt, LoggedIn
  <2>5. LoggedAt(c)' = x + t + (n + 1) BY <1>2, <2>1, <2>3 DEF LoggedAt, LoggedIn
  <2>. QED BY <2>4, <2>5
<1>6. Downloads' = Downloads + 1 /\ Downloads \in Nat
  <2>1. fetched \in [Documents -> Nat] /\ IsFiniteSet(Documents) BY Measures
  <2>2. TypeOK' BY FetchDoneDoes
  <2>3. fetched' \in [Documents -> Nat] BY <2>2, MeasuresNext
  <2>4. \A x \in Documents : x # e => fetched[x] = fetched'[x] BY <1>1, <2>1
  <2>5. /\ SumOf(fetched) \in Nat /\ SumOf(fetched') \in Nat
        /\ SumOf(fetched') + fetched[e] = SumOf(fetched) + fetched'[e]
    BY <2>1, <2>3, <2>4, SumAtOne
  <2>6. fetched'[e] = fetched[e] + 1 /\ fetched[e] \in Nat BY <1>1, <2>1
  <2>7. SumOf(fetched') = SumOf(fetched) + 1 BY <2>5, <2>6
  <2>. QED BY <2>5, <2>7 DEF Downloads
<1>7. ASSUME NEW d \in Documents
      PROVE  /\ CopiesAt(c, d)' + fetched'[d] <= CopiesAt(c, d) + fetched[d]
             /\ CopiesAt(c, d)' + fetched'[d] = CopiesAt(c, d) + fetched[d]
  <2>1. /\ Total(routed[c], Copied(d)) \in Nat /\ fetching[c][d] \in Nat
        /\ Occurrences(source[c], d) \in Nat
    BY <1>3, CopiesType
  <2>2. CopiesAt(c, d)' = Total(routed[c], Copied(d)) + Occurrences(source[c], d) + fetching'[c][d]
    BY <1>2 DEF CopiesAt, CopiesOf
  <2>3. CopiesAt(c, d) = Total(routed[c], Copied(d)) + Occurrences(source[c], d) + fetching[c][d]
    BY DEF CopiesAt, CopiesOf
  <2>4. fetched[d] \in Nat BY Measures
  <2>5. /\ fetching'[c][d] = fetching[c][d] - IF d = e THEN 1 ELSE 0
        /\ fetched'[d] = fetched[d] + IF d = e THEN 1 ELSE 0
    BY <1>1
  <2>. QED BY <2>1, <2>2, <2>3, <2>4, <2>5
<1>8. /\ FoundAt(c) \in Nat /\ LoggedAt(c) \in Nat
      /\ total.discovered \in Nat /\ total.downloaded \in Nat
  BY <1>3, FoundType, LoggedType, Measures DEF FoundAt, LoggedAt
<1>9. /\ setup' = setup /\ claim' = claim /\ Recorded' = Recorded /\ now' = now
      /\ crashes' = crashes
  BY <1>2, Steady
<1>10. total'.downloaded + LoggedAt(c)' = total.downloaded + LoggedAt(c) + 1 BY <1>2, <1>5, <1>8
<1>. QED BY <1>1, <1>2, <1>4, <1>6, <1>7, <1>8, <1>9, <1>10 DEF CountsStep

LEMMA OnReportCounts ==
  ASSUME TypeOK, NEW c \in Coordinators, OnReport(c)
  PROVE  CountsStep(c, 0)
<1>1. PICK st, rest : st = Head(reports[c]) /\ rest = Tail(reports[c]) OBVIOUS
<1>2. Others(c) /\ reports[c] # <<>> /\ reports'[c] = rest /\ total' = Merge(total, st)
  BY <1>1, OnReportDoes
<1>3. /\ setup' = setup /\ source' = source /\ fetching' = fetching /\ stats' = stats
      /\ routed' = routed /\ done' = done /\ fetched' = fetched
      /\ UNCHANGED <<poolVars, trackerVars>>
  BY DEF OnReport, streamVars
<1>4. /\ stats[c] \in Stats /\ reports[c] \in Seq(Stats) /\ routed[c] \in Seq(Messages)
      /\ done[c] \in Seq(Documents) /\ source[c] \in Seq(Documents)
      /\ fetching[c] \in [Documents -> Nat] /\ total \in Stats
  BY AtTypes DEF TypeOK
<1>5. st \in Stats BY <1>1, <1>2, <1>4
<1>6. ASSUME NEW w \in [Stats -> Nat]
      PROVE  /\ Total(rest, w) \in Nat /\ Total(reports[c], w) = w[st] + Total(rest, w)
  <2>1. Starts(Stats, reports[c], st, rest) BY <1>1, <1>2, <1>4 DEF Starts
  <2>. QED BY <2>1, TotalTail
<1>7. /\ Total(reports[c], Field("discovered")) = st.discovered + Total(rest, Field("discovered"))
      /\ Total(reports[c], Field("downloaded")) = st.downloaded + Total(rest, Field("downloaded"))
      /\ Total(rest, Field("discovered")) \in Nat /\ Total(rest, Field("downloaded")) \in Nat
  BY <1>5, <1>6, WeightTypes
<1>8. /\ total'.discovered = total.discovered + st.discovered
      /\ total'.downloaded = total.downloaded + st.downloaded
      /\ total.discovered \in Nat /\ total.downloaded \in Nat
      /\ st.discovered \in Nat /\ st.downloaded \in Nat
  BY <1>2, <1>4, <1>5, StatsFacts
<1>9. total'.discovered + FoundAt(c)' = total.discovered + FoundAt(c) /\ FoundAt(c) \in Nat
  <2>1. stats[c].discovered \in Nat /\ Total(routed[c], CountOf) \in Nat BY <1>4, FoundType
  <2>2. FoundAt(c)' = stats[c].discovered + Total(rest, Field("discovered")) + Total(routed[c], CountOf)
    BY <1>2, <1>3 DEF FoundAt, FoundIn
  <2>3. FoundAt(c) = stats[c].discovered + Total(reports[c], Field("discovered"))
                     + Total(routed[c], CountOf)
    BY DEF FoundAt, FoundIn
  <2>4. /\ Total(reports[c], Field("discovered")) = st.discovered + Total(rest, Field("discovered"))
        /\ Total(rest, Field("discovered")) \in Nat
    BY <1>7
  <2>5. /\ total'.discovered = total.discovered + st.discovered
        /\ total.discovered \in Nat /\ st.discovered \in Nat
    BY <1>8
  <2>6. PICK m \in Nat, n \in Nat, x \in Nat, t \in Nat, l \in Nat :
           /\ m = total.discovered /\ n = st.discovered /\ x = stats[c].discovered
           /\ t = Total(rest, Field("discovered")) /\ l = Total(routed[c], CountOf)
    BY <2>1, <2>4, <2>5
  <2>7. FoundAt(c)' = x + t + l /\ FoundAt(c) = x + (n + t) + l /\ total'.discovered = m + n
    BY <2>2, <2>3, <2>4, <2>5, <2>6
  <2>8. x + (n + t) + l \in Nat /\ (m + n) + (x + t + l) = m + (x + (n + t) + l) OBVIOUS
  <2>. QED BY <2>6, <2>7, <2>8
<1>10. total'.downloaded + LoggedAt(c)' = total.downloaded + LoggedAt(c) /\ LoggedAt(c) \in Nat
  <2>1. stats[c].downloaded \in Nat /\ Len(done[c]) \in Nat BY <1>4, LoggedType
  <2>2. LoggedAt(c)' = stats[c].downloaded + Total(rest, Field("downloaded")) + Len(done[c])
    BY <1>2, <1>3 DEF LoggedAt, LoggedIn
  <2>3. LoggedAt(c) = stats[c].downloaded + Total(reports[c], Field("downloaded")) + Len(done[c])
    BY DEF LoggedAt, LoggedIn
  <2>4. /\ Total(reports[c], Field("downloaded")) = st.downloaded + Total(rest, Field("downloaded"))
        /\ Total(rest, Field("downloaded")) \in Nat
    BY <1>7
  <2>5. /\ total'.downloaded = total.downloaded + st.downloaded
        /\ total.downloaded \in Nat /\ st.downloaded \in Nat
    BY <1>8
  <2>6. PICK m \in Nat, n \in Nat, x \in Nat, t \in Nat, l \in Nat :
           /\ m = total.downloaded /\ n = st.downloaded /\ x = stats[c].downloaded
           /\ t = Total(rest, Field("downloaded")) /\ l = Len(done[c])
    BY <2>1, <2>4, <2>5
  <2>7. LoggedAt(c)' = x + t + l /\ LoggedAt(c) = x + (n + t) + l /\ total'.downloaded = m + n
    BY <2>2, <2>3, <2>4, <2>5, <2>6
  <2>8. x + (n + t) + l \in Nat /\ (m + n) + (x + t + l) = m + (x + (n + t) + l) OBVIOUS
  <2>. QED BY <2>6, <2>7, <2>8
<1>11. ASSUME NEW d \in Documents
       PROVE  CopiesAt(c, d)' = CopiesAt(c, d) /\ CopiesAt(c, d) \in Nat /\ fetched[d] \in Nat
  BY <1>3, <1>4, CopiesType, Measures DEF CopiesAt
<1>12. \A d \in Documents : /\ CopiesAt(c, d)' + fetched'[d] <= CopiesAt(c, d) + fetched[d]
                            /\ CopiesAt(c, d)' + fetched'[d] = CopiesAt(c, d) + fetched[d]
  BY <1>3, <1>11
<1>13. /\ setup' = setup /\ claim' = claim /\ Recorded' = Recorded /\ now' = now
       /\ crashes' = crashes
  BY <1>3, Steady
<1>14. Downloads' = Downloads /\ Downloads \in Nat BY <1>3, Measures DEF Downloads
<1>. QED BY <1>2, <1>8, <1>9, <1>10, <1>12, <1>13, <1>14 DEF CountsStep

LEMMA CrashCounts ==
  ASSUME TypeOK, NEW c \in Coordinators, Crash(c)
  PROVE  CountsStep(c, 0)
<1>1. /\ TypeOK' /\ Others(c) /\ crashes' = crashes + 1
      /\ routed'[c] = <<>> /\ source'[c] = <<>> /\ done'[c] = <<>>
      /\ \A d \in Documents : fetching'[c][d] = 0
      /\ stats'[c] = Reset
  BY CrashDoes
<1>2. PICK j \in 0..Len(reports[c]) : reports'[c] = SubSeq(reports[c], 1, j) BY CrashDoes
<1>3. setup' = setup /\ total' = total /\ fetched' = fetched /\ UNCHANGED trackerVars
  BY DEF Crash, masterVars
<1>4. /\ stats[c] \in Stats /\ reports[c] \in Seq(Stats) /\ routed[c] \in Seq(Messages)
      /\ done[c] \in Seq(Documents) /\ source[c] \in Seq(Documents)
      /\ fetching[c] \in [Documents -> Nat]
  BY AtTypes
<1>5. ASSUME NEW w \in [Stats -> Nat]
      PROVE  /\ Total(reports'[c], w) \in Nat /\ Total(reports[c], w) \in Nat
             /\ Total(reports'[c], w) <= Total(reports[c], w)
  <2>1. Begins(Stats, reports[c], j, reports'[c]) BY <1>2, <1>4 DEF Begins
  <2>. QED BY <2>1, TotalSubSeq
<1>6. stats'[c].discovered = 0 /\ stats'[c].downloaded = 0 BY <1>1, StatsFacts
<1>7. Total(<<>>, CountOf) = 0 /\ Len(<<>>) = 0 /\ \A d : Total(<<>>, Copied(d)) = 0 /\ Total(<<>>, Is(d)) = 0
  BY TotalEmpty
<1>8. FoundAt(c)' <= FoundAt(c) /\ FoundAt(c)' \in Nat /\ FoundAt(c) \in Nat
  <2>1. /\ stats[c].discovered \in Nat /\ Total(reports[c], Field("discovered")) \in Nat
        /\ Total(routed[c], CountOf) \in Nat
    BY <1>4, FoundType
  <2>2. FoundAt(c)' = 0 + Total(reports'[c], Field("discovered")) + 0
    BY <1>1, <1>6, <1>7 DEF FoundAt, FoundIn
  <2>3. FoundAt(c) = stats[c].discovered + Total(reports[c], Field("discovered"))
                     + Total(routed[c], CountOf)
    BY DEF FoundAt, FoundIn
  <2>4. /\ Total(reports'[c], Field("discovered")) \in Nat
        /\ Total(reports'[c], Field("discovered")) <= Total(reports[c], Field("discovered"))
    BY <1>5, WeightTypes
  <2>. QED BY <2>1, <2>2, <2>3, <2>4
<1>9. LoggedAt(c)' <= LoggedAt(c) /\ LoggedAt(c)' \in Nat /\ LoggedAt(c) \in Nat
  <2>1. /\ stats[c].downloaded \in Nat /\ Total(reports[c], Field("downloaded")) \in Nat
        /\ Len(done[c]) \in Nat
    BY <1>4, LoggedType
  <2>2. LoggedAt(c)' = 0 + Total(reports'[c], Field("downloaded")) + 0
    BY <1>1, <1>6, <1>7 DEF LoggedAt, LoggedIn
  <2>3. LoggedAt(c) = stats[c].downloaded + Total(reports[c], Field("downloaded")) + Len(done[c])
    BY DEF LoggedAt, LoggedIn
  <2>4. /\ Total(reports'[c], Field("downloaded")) \in Nat
        /\ Total(reports'[c], Field("downloaded")) <= Total(reports[c], Field("downloaded"))
    BY <1>5, WeightTypes
  <2>. QED BY <2>1, <2>2, <2>3, <2>4
<1>10. ASSUME NEW d \in Documents
       PROVE  CopiesAt(c, d)' + fetched'[d] <= CopiesAt(c, d) + fetched[d]
  <2>1. CopiesAt(c, d)' = 0 + 0 + 0
    <3>1. Occurrences(<<>>, d) = 0 BY <1>7 DEF Occurrences, Is
    <3>. QED BY <1>1, <1>7, <3>1 DEF CopiesAt, CopiesOf
  <2>2. CopiesAt(c, d) \in Nat /\ fetched[d] \in Nat
    BY <1>4, CopiesType, Measures DEF CopiesAt
  <2>. QED BY <1>3, <2>1, <2>2
<1>11. crashes \in Nat /\ crashes' # 0
  <2>1. crashes \in Nat
    <3>1. setup.maxCrashes \in Nat BY ScenarioFacts DEF TypeOK
    <3>. QED BY <3>1 DEF TypeOK
  <2>. QED BY <1>1, <2>1
<1>12. claim' = claim /\ Recorded' = Recorded /\ now' = now BY <1>3 DEF trackerVars, Recorded
<1>13. total.discovered \in Nat /\ total.downloaded \in Nat /\ Downloads \in Nat /\ Downloads' = Downloads
  BY <1>3, Measures DEF Downloads
<1>14. ~Undisturbed' BY <1>11 DEF Undisturbed
<1>. QED BY <1>1, <1>3, <1>8, <1>9, <1>10, <1>11, <1>12, <1>13, <1>14 DEF CountsStep

-----------------------------------------------------------------------------
(* The answer of the tracker becomes counts and copies. *)

\* Each page names a document once.
LEMMA AskedAreInjective ==
  ASSUME TypeOK, ReachOK, NEW c \in Coordinators, NEW docs, Checks(c, docs)
  PROVE  IsInjective(docs) /\ docs \in {Links[d] : d \in Reachable}
<1>1. asked[c] \in Seq(Seq(Documents)) /\ asked[c] # <<>> /\ docs = Head(asked[c])
  BY AtTypes DEF Checks
<1>2. Head(asked[c]) \in ToSet(asked[c]) BY <1>1, ElementsOf
<1>3. docs \in {Links[d] : d \in Reachable} BY <1>1, <1>2 DEF ReachOK, ReachAt
<1>4. PICK d \in Reachable : docs = Links[d] BY <1>3
<1>5. d \in Documents BY DEF Reachable
<1>. QED BY <1>3, <1>4, <1>5, ScenarioFacts DEF TypeOK

\* What the answer to c adds to the weight of what the router has given out.
LEMMA CheckAdds ==
  ASSUME TypeOK, ClaimsOK, PoolOK, NEW c \in Coordinators, NEW docs, Checks(c, docs),
         NEW w \in [Messages -> Nat]
  PROVE  \E g \in [Coordinators -> Nat], m \in Nat :
           /\ m = w[Process(HandOut(docs))] + w[Found(Cardinality(Tracker!Discovered(ToSet(docs))))]
           /\ \A x \in Coordinators : /\ Total(routed[x], w) \in Nat
                                      /\ Total(routed'[x], w) = Total(routed[x], w) + g[x]
           /\ SumOf(g) \in Nat /\ SumOf(g) <= m
           /\ crashes = 0 => SumOf(g) = m
<1>. DEFINE first == Process(HandOut(docs))
            second == Found(Cardinality(Tracker!Discovered(ToSet(docs))))
<1>1. /\ docs \in Seq(Documents) /\ HandOut(docs) \in Seq(Documents)
      /\ Tracker!CheckDocuments(ToSet(docs), Len(docs)) /\ Route(first, second)
  BY DEF Checks
<1>2. Cardinality(Tracker!Discovered(ToSet(docs))) \in Nat BY <1>1, CheckFacts
<1>3. first \in Messages /\ second \in Messages BY <1>1, <1>2, MessageFacts
<1>. HIDE DEF first, second
<1>4. RouteAdds(w, first, second) BY <1>1, <1>3, RouteTotals
<1>5. PICK g \in [Coordinators -> Nat] :
         /\ \A x \in Coordinators : Total(routed'[x], w) = Total(routed[x], w) + g[x]
         /\ SumOf(g) <= w[first] + w[second]
         /\ pool # <<>> /\ ToSet(pool) \subseteq alive => SumOf(g) = w[first] + w[second]
  BY <1>4 DEF RouteAdds
<1>6. SumOf(g) \in Nat
  <2>1. IsFiniteSet(Coordinators) BY Measures
  <2>. QED BY <2>1, SumType
<1>7. w[first] + w[second] \in Nat BY <1>3
<1>8. \A x \in Coordinators : Total(routed[x], w) \in Nat
  <2>1. \A x \in Coordinators : routed[x] \in Seq(Messages) BY AtTypes
  <2>. QED BY <2>1, TotalType
<1>9. crashes = 0 => SumOf(g) = w[first] + w[second] BY <1>5 DEF PoolOK
<1>. QED BY <1>5, <1>6, <1>7, <1>8, <1>9 DEF first, second

LEMMA TrackerCheckCounts ==
  ASSUME TypeOK, ClaimsOK, PoolOK, ReachOK, CountsOK, NEW c \in Coordinators, NEW docs, Checks(c, docs)
  PROVE  CountsOK'
<1>1. /\ docs \in Seq(Documents) /\ HandOut(docs) \in Seq(Documents)
      /\ Tracker!CheckDocuments(ToSet(docs), Len(docs))
      /\ setup' = setup /\ total' = total /\ crashes' = crashes /\ source' = source
      /\ fetching' = fetching /\ done' = done /\ stats' = stats /\ reports' = reports
      /\ fetched' = fetched
  BY DEF Checks, masterVars
<1>2. PICK A : A = Tracker!Available(ToSet(docs)) OBVIOUS
<1>3. PICK n \in Nat : n = Cardinality(Tracker!Discovered(ToSet(docs))) BY <1>1, CheckFacts
<1>4. /\ A \subseteq ToSet(docs) /\ now' = now
      /\ \A d \in Documents : claim'[d].count = claim[d].count + IF d \in A THEN 1 ELSE 0
      /\ Cardinality(Recorded') = Cardinality(Recorded) + n
  BY <1>1, <1>2, <1>3, CheckFacts
<1>5. IsFiniteSet(Coordinators) BY Measures
<1>6. FoundOK'
  <2>1. PICK g \in [Coordinators -> Nat], m \in Nat :
           /\ m = CountOf[Process(HandOut(docs))] + CountOf[Found(n)]
           /\ \A x \in Coordinators : /\ Total(routed[x], CountOf) \in Nat
                                      /\ Total(routed'[x], CountOf) = Total(routed[x], CountOf) + g[x]
           /\ SumOf(g) \in Nat /\ SumOf(g) <= m
           /\ crashes = 0 => SumOf(g) = m
    BY <1>3, WeightTypes, CheckAdds
  <2>2. m = n
    <3>1. Process(HandOut(docs)) \in Messages /\ Process(HandOut(docs)).count = 0
          /\ Found(n) \in Messages /\ Found(n).count = n
      BY <1>1, MessageFacts
    <3>2. CountOf[Process(HandOut(docs))] = 0 /\ CountOf[Found(n)] = n BY <3>1, WeightTypes
    <3>. QED BY <2>1, <3>2
  <2>3. PICK f, h : /\ f = [x \in Coordinators |-> FoundAt(x)]
                    /\ h = [x \in Coordinators |-> FoundAt(x)']
    OBVIOUS
  <2>4. f \in [Coordinators -> Nat] BY <2>3, Measures
  <2>5. \A x \in Coordinators : h[x] = f[x] + g[x]
    <3>1. ASSUME NEW x \in Coordinators PROVE FoundAt(x)' = FoundAt(x) + g[x]
      <4>1. stats[x] \in Stats /\ reports[x] \in Seq(Stats) /\ routed[x] \in Seq(Messages) BY AtTypes
      <4>2. /\ stats[x].discovered \in Nat /\ Total(reports[x], Field("discovered")) \in Nat
            /\ Total(routed[x], CountOf) \in Nat
        BY <4>1, FoundType
      <4>3. Total(routed'[x], CountOf) = Total(routed[x], CountOf) + g[x] /\ g[x] \in Nat BY <2>1
      <4>4. FoundAt(x)' = stats[x].discovered + Total(reports[x], Field("discovered"))
                          + Total(routed'[x], CountOf)
        BY <1>1 DEF FoundAt, FoundIn
      <4>5. FoundAt(x) = stats[x].discovered + Total(reports[x], Field("discovered"))
                         + Total(routed[x], CountOf)
        BY DEF FoundAt, FoundIn
      <4>. QED BY <4>2, <4>3, <4>4, <4>5
    <3>. QED BY <2>3, <3>1
  <2>6. h \in [Coordinators -> Nat] BY <2>3, <2>4, <2>5
  <2>7. SumOf(h) = SumOf(f) + SumOf(g) /\ SumOf(f) \in Nat BY <1>5, <2>1, <2>4, <2>5, <2>6, SumAdd, SumType
  <2>8. Discoveries = total.discovered + SumOf(f) /\ Discoveries' = total.discovered + SumOf(h)
    BY <1>1, <2>3 DEF Discoveries
  <2>9. total.discovered \in Nat /\ Cardinality(Recorded) \in Nat BY Measures
  <2>10. /\ Discoveries <= 1 + Cardinality(Recorded)
         /\ crashes = 0 => Discoveries = 1 + Cardinality(Recorded)
    BY DEF CountsOK, FoundOK
  <2>11. SumOf(g) \in Nat /\ SumOf(g) <= n /\ (crashes = 0 => SumOf(g) = n) BY <2>1, <2>2
  <2>12. Discoveries' = Discoveries + SumOf(g) /\ Discoveries \in Nat BY <2>7, <2>8, <2>9, <2>11
  <2>13. Discoveries' <= 1 + Cardinality(Recorded') BY <1>4, <2>9, <2>10, <2>11, <2>12
  <2>14. crashes' = 0 => Discoveries' = 1 + Cardinality(Recorded')
    BY <1>1, <1>4, <2>9, <2>10, <2>11, <2>12
  <2>. QED BY <2>13, <2>14 DEF FoundOK
<1>7. LoggedOK'
  <2>1. \A x \in Coordinators : LoggedAt(x)' = LoggedAt(x) BY <1>1 DEF LoggedAt
  <2>2. Logs' = Logs /\ Downloads' = Downloads BY <1>1, <2>1 DEF Logs, Downloads
  <2>. QED BY <1>1, <2>2 DEF CountsOK, LoggedOK
<1>8. ASSUME NEW d \in Documents
      PROVE  /\ AllCopies(d)' + fetched'[d] <= Claims(d)'
             /\ Undisturbed' => AllCopies(d)' + fetched'[d] = Claims(d)'
  <2>. DEFINE k == IF d \in A THEN 1 ELSE 0
  <2>1. PICK g \in [Coordinators -> Nat], m \in Nat :
           /\ m = Copied(d)[Process(HandOut(docs))] + Copied(d)[Found(n)]
           /\ \A x \in Coordinators :
                /\ Total(routed[x], Copied(d)) \in Nat
                /\ Total(routed'[x], Copied(d)) = Total(routed[x], Copied(d)) + g[x]
           /\ SumOf(g) \in Nat /\ SumOf(g) <= m
           /\ crashes = 0 => SumOf(g) = m
    BY <1>3, WeightTypes, CheckAdds
  <2>2. m = k
    <3>1. /\ Process(HandOut(docs)) \in Messages /\ Process(HandOut(docs)).docs = HandOut(docs)
          /\ Found(n) \in Messages /\ Found(n).docs = <<>>
      BY <1>1, MessageFacts
    <3>2. /\ Copied(d)[Process(HandOut(docs))] = Occurrences(HandOut(docs), d)
          /\ Copied(d)[Found(n)] = Occurrences(<<>>, d)
      BY <3>1, WeightTypes
    <3>3. Occurrences(<<>>, d) = 0 BY TotalEmpty DEF Occurrences
    <3>4. IsInjective(docs) BY AskedAreInjective
    <3>5. HandOut(docs) = Filter(docs, A) BY <1>2 DEF HandOut
    <3>6. IsInjective(HandOut(docs)) /\ ToSet(HandOut(docs)) = ToSet(docs) \cap A
      BY <1>1, <3>4, <3>5, FilterKeeps
    <3>7. Occurrences(HandOut(docs), d) = IF d \in ToSet(HandOut(docs)) THEN 1 ELSE 0
      BY <1>1, <3>6, OccurrencesOnce
    <3>8. Occurrences(HandOut(docs), d) = k BY <1>4, <3>6, <3>7
    <3>. QED BY <2>1, <3>2, <3>3, <3>8
  <2>. HIDE DEF k
  <2>3. PICK f, h : /\ f = [x \in Coordinators |-> CopiesAt(x, d)]
                    /\ h = [x \in Coordinators |-> CopiesAt(x, d)']
    OBVIOUS
  <2>4. f \in [Coordinators -> Nat] BY <2>3, Measures
  <2>5. \A x \in Coordinators : h[x] = f[x] + g[x]
    <3>1. ASSUME NEW x \in Coordinators PROVE CopiesAt(x, d)' = CopiesAt(x, d) + g[x]
      <4>1. /\ routed[x] \in Seq(Messages) /\ source[x] \in Seq(Documents)
            /\ fetching[x] \in [Documents -> Nat]
        BY AtTypes
      <4>2. /\ Total(routed[x], Copied(d)) \in Nat /\ Occurrences(source[x], d) \in Nat
            /\ fetching[x][d] \in Nat
        BY <4>1, CopiesType
      <4>3. Total(routed'[x], Copied(d)) = Total(routed[x], Copied(d)) + g[x] /\ g[x] \in Nat BY <2>1
      <4>4. CopiesAt(x, d)' = Total(routed'[x], Copied(d)) + Occurrences(source[x], d)
                              + fetching[x][d]
        BY <1>1 DEF CopiesAt, CopiesOf
      <4>5. CopiesAt(x, d) = Total(routed[x], Copied(d)) + Occurrences(source[x], d) + fetching[x][d]
        BY DEF CopiesAt, CopiesOf
      <4>. QED BY <4>2, <4>3, <4>4, <4>5
    <3>. QED BY <2>3, <3>1
  <2>6. h \in [Coordinators -> Nat] BY <2>3, <2>4, <2>5
  <2>7. SumOf(h) = SumOf(f) + SumOf(g) /\ SumOf(f) \in Nat BY <1>5, <2>1, <2>4, <2>5, <2>6, SumAdd, SumType
  <2>8. AllCopies(d) = SumOf(f) /\ AllCopies(d)' = SumOf(h) BY <2>3 DEF AllCopies
  <2>9. fetched[d] \in Nat /\ fetched'[d] = fetched[d] /\ Claims(d) \in Nat BY <1>1, Measures
  <2>10. /\ AllCopies(d) + fetched[d] <= Claims(d)
         /\ Undisturbed => AllCopies(d) + fetched[d] = Claims(d)
    BY DEF CountsOK, CopiesOK
  <2>11. SumOf(g) \in Nat /\ SumOf(g) <= k /\ (crashes = 0 => SumOf(g) = k) /\ k \in Nat
    BY <2>1, <2>2
  <2>12. Claims(d)' = Claims(d) + k
    <3>1. claim'[d].count = claim[d].count + k BY <1>4 DEF k
    <3>2. claim[d].count \in Nat BY TrackerTypes DEF Tracker!Claim
    <3>. QED BY <2>11, <3>1, <3>2 DEF Claims
  <2>13. Undisturbed' => Undisturbed /\ crashes = 0
    BY <1>1, <1>4, UndisturbedBefore DEF Undisturbed
  <2>14. AllCopies(d)' = AllCopies(d) + SumOf(g) /\ AllCopies(d) \in Nat BY <2>7, <2>8, <2>11
  <2>15. AllCopies(d)' + fetched'[d] <= Claims(d)' BY <2>9, <2>10, <2>11, <2>12, <2>14
  <2>16. Undisturbed' => AllCopies(d)' + fetched'[d] = Claims(d)'
    BY <2>9, <2>10, <2>11, <2>12, <2>13, <2>14
  <2>. QED BY <2>15, <2>16
<1>. QED BY <1>6, <1>7, <1>8 DEF CountsOK, CopiesOK

-----------------------------------------------------------------------------
(* What is under way can be reached, and is followed. *)

LEMMA GoneKept ==
  ASSUME GoneAreEmpty, NEW c \in Coordinators, Others(c), c \in alive, alive' = alive
  PROVE  GoneAreEmpty'
<1>1. ASSUME NEW x \in Coordinators \ alive'
      PROVE  /\ routed'[x] = <<>> /\ source'[x] = <<>> /\ done'[x] = <<>> /\ parsed'[x] = <<>>
             /\ \A d \in Documents : fetching'[x][d] = 0
             /\ stats'[x] = Reset
  <2>1. x \in Coordinators \ alive /\ x \in Coordinators \ {c} OBVIOUS
  <2>2. SameAt(x) BY <2>1 DEF Others
  <2>. QED BY <2>1, <2>2 DEF GoneAreEmpty, SameAt
<1>. QED BY <1>1 DEF GoneAreEmpty

LEMMA GoneSame ==
  ASSUME GoneAreEmpty, UNCHANGED streamVars, alive \subseteq alive'
  PROVE  GoneAreEmpty'
<1>1. /\ routed' = routed /\ source' = source /\ fetching' = fetching /\ done' = done
      /\ parsed' = parsed /\ stats' = stats
  BY DEF streamVars
<1>. QED BY <1>1 DEF GoneAreEmpty

\* What can be reached depends on the site only.
LEMMA SameSite ==
  ASSUME setup' = setup
  PROVE  Links' = Links /\ Reachable' = Reachable /\ Named' = Named
<1>1. Links' = Links BY DEF Links
<1>2. Reachable' = Reachable BY <1>1 DEF Reachable
<1>. QED BY <1>1, <1>2 DEF Named

LEMMA ReachKept ==
  ASSUME ReachOK, setup' = setup, Recorded' = Recorded, NEW c \in Coordinators, Others(c), ReachAt(c)'
  PROVE  ReachOK'
<1>1. Links' = Links /\ Reachable' = Reachable /\ Named' = Named BY SameSite
<1>2. ASSUME NEW x \in Coordinators \ {c} PROVE ReachAt(x)'
  <2>1. SameAt(x) BY DEF Others
  <2>2. ReachAt(x) BY DEF ReachOK
  <2>. QED BY <1>1, <2>1, <2>2 DEF ReachAt, SameAt
<1>3. Recorded' \subseteq Named' BY <1>1 DEF ReachOK
<1>. QED BY <1>2, <1>3 DEF ReachOK

LEMMA ReachSame ==
  ASSUME ReachOK, UNCHANGED <<setup, streamVars, asked>>, Recorded' = Recorded
  PROVE  ReachOK'
<1>1. Links' = Links /\ Reachable' = Reachable /\ Named' = Named BY SameSite
<1>2. /\ routed' = routed /\ source' = source /\ fetching' = fetching /\ parsed' = parsed
      /\ asked' = asked
  BY DEF streamVars
<1>3. \A x \in Coordinators : ReachAt(x)' BY <1>1, <1>2 DEF ReachOK, ReachAt
<1>4. Recorded' \subseteq Named' BY <1>1 DEF ReachOK
<1>. QED BY <1>3, <1>4 DEF ReachOK

LEMMA OnRoutedReach ==
  ASSUME TypeOK, ReachOK, NEW c \in Coordinators, OnRouted(c)
  PROVE  ReachAt(c)'
<1>1. PICK msg, rest : msg = Head(routed[c]) /\ rest = Tail(routed[c]) OBVIOUS
<1>2. /\ routed[c] # <<>> /\ routed'[c] = rest /\ source'[c] = OfferAll(source[c], msg.docs)
  BY <1>1, OnRoutedDoes
<1>3. setup' = setup /\ fetching' = fetching /\ parsed' = parsed /\ asked' = asked
  BY DEF OnRouted
<1>4. routed[c] \in Seq(Messages) /\ source[c] \in Seq(Documents) /\ Len(source[c]) <= BufferSize
  BY AtTypes
<1>5. msg \in Messages /\ ToSet(routed[c]) = {msg} \cup ToSet(rest) BY <1>1, <1>2, <1>4, ElementsOf
<1>6. msg.docs \in Seq(Documents) BY <1>5 DEF Messages
<1>7. ToSet(source'[c]) \subseteq ToSet(source[c]) \cup ToSet(msg.docs)
  <2>1. setup \in Scenarios BY DEF TypeOK
  <2>. QED BY <1>2, <1>4, <1>6, <2>1, OfferAllKeeps
<1>8. ReachAt(c) BY DEF ReachOK
<1>9. Links' = Links /\ Reachable' = Reachable BY <1>3, SameSite
<1>. QED BY <1>2, <1>3, <1>5, <1>7, <1>8, <1>9 DEF ReachAt

LEMMA FetchReach ==
  ASSUME TypeOK, ReachOK, NEW c \in Coordinators, Fetch(c)
  PROVE  ReachAt(c)'
<1>1. PICK h, rest : h = Head(source[c]) /\ rest = Tail(source[c]) OBVIOUS
<1>2. /\ source[c] # <<>> /\ source'[c] = rest
      /\ \A d \in Documents : fetching'[c][d] = fetching[c][d] + IF d = h THEN 1 ELSE 0
  BY <1>1, FetchDoes
<1>3. setup' = setup /\ routed' = routed /\ parsed' = parsed /\ asked' = asked
  BY DEF Fetch
<1>4. source[c] \in Seq(Documents) /\ fetching[c] \in [Documents -> Nat] BY AtTypes
<1>5. ToSet(source[c]) = {h} \cup ToSet(rest) BY <1>1, <1>2, <1>4, ElementsOf
<1>6. ReachAt(c) BY DEF ReachOK
<1>7. Links' = Links /\ Reachable' = Reachable BY <1>3, SameSite
<1>8. ASSUME NEW d \in Documents, fetching'[c][d] > 0 PROVE d \in Reachable
  <2>1. CASE d = h BY <1>5, <1>6, <2>1 DEF ReachAt
  <2>2. CASE d # h
    <3>1. fetching[c][d] \in Nat BY <1>4
    <3>2. fetching[c][d] > 0 BY <1>2, <1>8, <2>2, <3>1
    <3>. QED BY <1>6, <3>2 DEF ReachAt
  <2>. QED BY <2>1, <2>2
<1>9. ToSet(source'[c]) \subseteq Reachable BY <1>2, <1>5, <1>6 DEF ReachAt
<1>. QED BY <1>3, <1>6, <1>7, <1>8, <1>9 DEF ReachAt

LEMMA FetchDoneReach ==
  ASSUME TypeOK, ReachOK, NEW c \in Coordinators, NEW e \in Documents, FetchDone(c, e)
  PROVE  ReachAt(c)'
<1>1. /\ fetching[c][e] > 0
      /\ \A d \in Documents : fetching'[c][d] = fetching[c][d] - IF d = e THEN 1 ELSE 0
      /\ parsed'[c] = Append(parsed[c], e)
  BY FetchDoneDoes
<1>2. setup' = setup /\ routed' = routed /\ source' = source /\ asked' = asked
  BY DEF FetchDone
<1>3. parsed[c] \in Seq(Documents) /\ fetching[c] \in [Documents -> Nat] BY AtTypes
<1>4. ReachAt(c) BY DEF ReachOK
<1>5. Links' = Links /\ Reachable' = Reachable BY <1>2, SameSite
<1>6. ASSUME NEW d \in Documents, fetching'[c][d] > 0 PROVE d \in Reachable
  <2>1. fetching[c][d] \in Nat BY <1>3
  <2>2. fetching[c][d] > 0 BY <1>1, <1>6, <2>1
  <2>. QED BY <1>4, <2>2 DEF ReachAt
<1>7. ToSet(parsed'[c]) \subseteq Reachable
  <2>1. ToSet(Append(parsed[c], e)) = ToSet(parsed[c]) \cup {e} BY <1>3, ElementsOf
  <2>2. e \in Reachable BY <1>1, <1>4 DEF ReachAt
  <2>. QED BY <1>1, <1>4, <2>1, <2>2 DEF ReachAt
<1>. QED BY <1>2, <1>4, <1>5, <1>6, <1>7 DEF ReachAt

LEMMA OnCheckReach ==
  ASSUME TypeOK, ReachOK, NEW c \in Coordinators, OnCheck(c)
  PROVE  ReachAt(c)'
<1>1. PICK h, rest : h = Head(parsed[c]) /\ rest = Tail(parsed[c]) OBVIOUS
<1>2. /\ parsed[c] # <<>> /\ parsed'[c] = rest /\ asked'[c] = Append(asked[c], Links[h])
  BY <1>1, OnCheckDoes
<1>3. setup' = setup /\ routed' = routed /\ source' = source /\ fetching' = fetching
  BY DEF OnCheck
<1>4. parsed[c] \in Seq(Documents) /\ asked[c] \in Seq(Seq(Documents)) BY AtTypes
<1>5. h \in Documents /\ ToSet(parsed[c]) = {h} \cup ToSet(rest) BY <1>1, <1>2, <1>4, ElementsOf
<1>6. ReachAt(c) BY DEF ReachOK
<1>7. Links' = Links /\ Reachable' = Reachable BY <1>3, SameSite
<1>8. h \in Reachable /\ ToSet(parsed'[c]) \subseteq Reachable BY <1>2, <1>5, <1>6 DEF ReachAt
<1>9. ToSet(asked'[c]) = ToSet(asked[c]) \cup {Links[h]}
  <2>1. PICK docs : docs = Links[h] OBVIOUS
  <2>2. docs \in Seq(Documents)
    <3>1. Links \in [Documents -> Seq(Documents)] BY ScenarioFacts DEF TypeOK
    <3>. QED BY <1>5, <2>1, <3>1
  <2>3. ToSet(Append(asked[c], docs)) = ToSet(asked[c]) \cup {docs} BY <1>4, <2>2, ElementsOf
  <2>. QED BY <1>2, <2>1, <2>3
<1>10. ToSet(asked'[c]) \subseteq {Links[d] : d \in Reachable} BY <1>6, <1>8, <1>9 DEF ReachAt
<1>. QED BY <1>3, <1>6, <1>7, <1>8, <1>10 DEF ReachAt

\* A step that leaves what c has to do as it is, or makes it stop.
LEMMA ReachAtSame ==
  ASSUME ReachOK, NEW c \in Coordinators, setup' = setup,
         UNCHANGED <<routed, source, fetching, parsed, asked>>
  PROVE  ReachAt(c)'
<1>1. Links' = Links /\ Reachable' = Reachable BY SameSite
<1>2. ReachAt(c) BY DEF ReachOK
<1>. QED BY <1>1, <1>2 DEF ReachAt

LEMMA CrashReach ==
  ASSUME TypeOK, ReachOK, NEW c \in Coordinators, Crash(c)
  PROVE  ReachAt(c)'
<1>1. /\ routed'[c] = <<>> /\ source'[c] = <<>> /\ parsed'[c] = <<>>
      /\ \A d \in Documents : fetching'[c][d] = 0
  BY CrashDoes
<1>2. PICK i \in 0..Len(asked[c]) : asked'[c] = SubSeq(asked[c], 1, i) BY CrashDoes
<1>3. Links' = Links /\ Reachable' = Reachable
  <2>1. setup' = setup BY DEF Crash
  <2>. QED BY <2>1, SameSite
<1>4. ToSet(asked'[c]) \subseteq ToSet(asked[c])
  <2>1. asked[c] \in Seq(Seq(Documents)) BY AtTypes
  <2>. QED BY <1>2, <2>1, ElementsOf
<1>5. ToSet(<<>>) = {}
  <2>1. DOMAIN <<>> = {} OBVIOUS
  <2>. QED BY <2>1 DEF ToSet
<1>6. ReachAt(c) BY DEF ReachOK
<1>7. \A d \in Documents : ~(fetching'[c][d] > 0) BY <1>1
<1>. QED BY <1>1, <1>3, <1>4, <1>5, <1>6, <1>7 DEF ReachAt

LEMMA TrackerCheckReach ==
  ASSUME TypeOK, ClaimsOK, ReachOK, NEW c \in Coordinators, NEW docs, Checks(c, docs)
  PROVE  ReachOK' /\ ToSet(docs) \subseteq Recorded' /\ Recorded \subseteq Recorded'
<1>1. /\ docs \in Seq(Documents) /\ HandOut(docs) \in Seq(Documents)
      /\ Tracker!CheckDocuments(ToSet(docs), Len(docs))
      /\ asked[c] # <<>> /\ docs = Head(asked[c])
      /\ Route(Process(HandOut(docs)), Found(Cardinality(Tracker!Discovered(ToSet(docs)))))
      /\ asked'[c] = Tail(asked[c]) /\ \A x \in Coordinators \ {c} : asked'[x] = asked[x]
      /\ setup' = setup /\ source' = source /\ fetching' = fetching /\ parsed' = parsed
  BY DEF Checks
<1>2. Links' = Links /\ Reachable' = Reachable /\ Named' = Named BY <1>1, SameSite
<1>3. ToSet(docs) \subseteq Named /\ ToSet(docs) \subseteq Reachable
  <2>1. PICK d \in Reachable : docs = Links[d] BY AskedAreInjective
  <2>2. ToSet(docs) \subseteq Named BY <2>1 DEF Named
  <2>3. ToSet(docs) \subseteq Reachable
    <3>1. setup \in Scenarios BY DEF TypeOK
    <3>. QED BY <2>1, <3>1, ReachableFacts
  <2>. QED BY <2>2, <2>3
<1>4. Recorded' = Recorded \cup ToSet(docs) BY <1>1, CheckFacts
<1>5. Recorded' \subseteq Named' BY <1>2, <1>3, <1>4 DEF ReachOK
<1>6. PICK first, second :
         /\ first = Process(HandOut(docs))
         /\ second = Found(Cardinality(Tracker!Discovered(ToSet(docs))))
  OBVIOUS
<1>7. /\ first \in Messages /\ first.docs = HandOut(docs)
      /\ second \in Messages /\ second.docs = <<>>
  <2>1. Cardinality(Tracker!Discovered(ToSet(docs))) \in Nat BY <1>1, CheckFacts
  <2>. QED BY <1>1, <1>6, <2>1, MessageFacts
<1>8. ToSet(first.docs) \subseteq Reachable /\ ToSet(second.docs) \subseteq Reachable
  <2>1. ToSet(HandOut(docs)) \subseteq ToSet(docs) BY <1>1, FilterKeeps DEF HandOut
  <2>2. ToSet(<<>>) = {}
    <3>1. DOMAIN <<>> = {} OBVIOUS
    <3>. QED BY <3>1 DEF ToSet
  <2>. QED BY <1>3, <1>7, <2>1, <2>2
<1>9. Route(first, second) BY <1>1, <1>6
<1>10. \A x \in Coordinators : ToSet(routed'[x]) \subseteq ToSet(routed[x]) \cup {first, second}
  BY <1>7, <1>9, RouteFacts
<1>11. \A x \in Coordinators : ToSet(asked'[x]) \subseteq ToSet(asked[x])
  <2>1. asked[c] \in Seq(Seq(Documents)) BY AtTypes
  <2>2. ToSet(asked[c]) = {docs} \cup ToSet(Tail(asked[c])) BY <1>1, <2>1, ElementsOf
  <2>. QED BY <1>1, <2>2
<1>12. ASSUME NEW x \in Coordinators PROVE ReachAt(x)'
  <2>1. ReachAt(x) BY DEF ReachOK
  <2>2. \A msg \in ToSet(routed'[x]) : ToSet(msg.docs) \subseteq Reachable
    BY <1>8, <1>10, <2>1 DEF ReachAt
  <2>3. ToSet(asked'[x]) \subseteq {Links[d] : d \in Reachable} BY <1>11, <2>1 DEF ReachAt
  <2>. QED BY <1>1, <1>2, <2>1, <2>2, <2>3 DEF ReachAt
<1>. QED BY <1>4, <1>5, <1>12 DEF ReachOK

\* A step after which the links of downloaded pages are still followed.
FollowStep ==
  /\ setup' = setup
  /\ crashes' = 0 => crashes = 0
  /\ Recorded \subseteq Recorded'
  /\ \A d \in Documents : fetched'[d] > 0 =>
       fetched[d] > 0 \/ \E x \in Coordinators : d \in ToSet(parsed'[x])
  /\ \A x \in Coordinators : \A d \in ToSet(parsed[x]) :
       d \in ToSet(parsed'[x]) \/ Links[d] \in ToSet(asked'[x])
  /\ \A x \in Coordinators : \A docs \in ToSet(asked[x]) :
       docs \in ToSet(asked'[x]) \/ ToSet(docs) \subseteq Recorded'

LEMMA FollowedKept ==
  ASSUME Followed, FollowStep
  PROVE  Followed'
<1>1. Links' = Links BY SameSite DEF FollowStep
<1>2. ASSUME crashes' = 0, NEW d \in Documents, fetched'[d] > 0
      PROVE  \/ ToSet(Links[d]) \subseteq Recorded'
             \/ \E x \in Coordinators : d \in ToSet(parsed'[x]) \/ Links[d] \in ToSet(asked'[x])
  <2>1. CASE fetched[d] > 0
    <3>1. \/ ToSet(Links[d]) \subseteq Recorded
          \/ \E x \in Coordinators : d \in ToSet(parsed[x]) \/ Links[d] \in ToSet(asked[x])
      BY <1>2, <2>1 DEF Followed, FollowStep
    <3>2. CASE ToSet(Links[d]) \subseteq Recorded BY <3>2 DEF FollowStep
    <3>3. CASE \E x \in Coordinators : d \in ToSet(parsed[x]) \/ Links[d] \in ToSet(asked[x])
      BY <3>3 DEF FollowStep
    <3>. QED BY <3>1, <3>2, <3>3
  <2>2. CASE \E x \in Coordinators : d \in ToSet(parsed'[x]) BY <2>2
  <2>. QED BY <1>2, <2>1, <2>2 DEF FollowStep
<1>. QED BY <1>1, <1>2 DEF Followed

\* Steps that download nothing, and neither ask nor answer.
LEMMA FollowedSame ==
  ASSUME Followed, UNCHANGED <<setup, parsed, asked, fetched>>, crashes' = 0 => crashes = 0,
         Recorded' = Recorded
  PROVE  Followed'
<1>1. FollowStep BY DEF FollowStep
<1>. QED BY <1>1, FollowedKept

LEMMA FetchDoneFollowed ==
  ASSUME TypeOK, Followed, NEW c \in Coordinators, NEW e \in Documents, FetchDone(c, e)
  PROVE  Followed'
<1>1. /\ Others(c) /\ parsed'[c] = Append(parsed[c], e)
      /\ \A d \in Documents : fetched'[d] = fetched[d] + IF d = e THEN 1 ELSE 0
  BY FetchDoneDoes
<1>2. /\ setup' = setup /\ asked' = asked /\ UNCHANGED <<poolVars, trackerVars>>
  BY DEF FetchDone
<1>3. crashes' = crashes /\ Recorded' = Recorded BY <1>2, Steady
<1>4. ToSet(parsed'[c]) = ToSet(parsed[c]) \cup {e}
  <2>1. parsed[c] \in Seq(Documents) BY AtTypes
  <2>. QED BY <1>1, <2>1, ElementsOf
<1>5. ASSUME NEW d \in Documents, fetched'[d] > 0
      PROVE  fetched[d] > 0 \/ \E x \in Coordinators : d \in ToSet(parsed'[x])
  <2>1. CASE d = e BY <1>4, <2>1
  <2>2. CASE d # e
    <3>1. fetched[d] \in Nat BY Measures
    <3>2. fetched'[d] = fetched[d] BY <1>1, <2>2, <3>1
    <3>. QED BY <1>5, <3>2
  <2>. QED BY <2>1, <2>2
<1>6. ASSUME NEW x \in Coordinators PROVE ToSet(parsed[x]) \subseteq ToSet(parsed'[x])
  <2>1. CASE x = c BY <1>4, <2>1
  <2>2. CASE x # c BY <1>1, <2>2 DEF Others, SameAt
  <2>. QED BY <2>1, <2>2
<1>7. FollowStep BY <1>2, <1>3, <1>5, <1>6 DEF FollowStep
<1>. QED BY <1>7, FollowedKept

LEMMA OnCheckFollowed ==
  ASSUME TypeOK, Followed, NEW c \in Coordinators, OnCheck(c)
  PROVE  Followed'
<1>1. PICK h, rest : h = Head(parsed[c]) /\ rest = Tail(parsed[c]) OBVIOUS
<1>2. /\ Others(c) /\ parsed[c] # <<>> /\ parsed'[c] = rest
      /\ asked'[c] = Append(asked[c], Links[h])
  BY <1>1, OnCheckDoes
<1>3. /\ setup' = setup /\ fetched' = fetched /\ UNCHANGED <<poolVars, trackerVars>>
  BY DEF OnCheck
<1>4. crashes' = crashes /\ Recorded' = Recorded BY <1>3, Steady
<1>5. parsed[c] \in Seq(Documents) /\ asked[c] \in Seq(Seq(Documents)) BY AtTypes
<1>6. h \in Documents /\ ToSet(parsed[c]) = {h} \cup ToSet(parsed'[c])
  BY <1>1, <1>2, <1>5, ElementsOf
<1>7. ToSet(asked'[c]) = ToSet(asked[c]) \cup {Links[h]}
  <2>1. PICK docs : docs = Links[h] OBVIOUS
  <2>2. docs \in Seq(Documents)
    <3>1. Links \in [Documents -> Seq(Documents)] BY ScenarioFacts DEF TypeOK
    <3>. QED BY <1>6, <2>1, <3>1
  <2>3. ToSet(Append(asked[c], docs)) = ToSet(asked[c]) \cup {docs} BY <1>5, <2>2, ElementsOf
  <2>. QED BY <1>2, <2>1, <2>3
<1>8. \A x \in Coordinators \ {c} : parsed'[x] = parsed[x] /\ asked'[x] = asked[x]
  BY <1>2 DEF Others, SameAt
<1>9. \A x \in Coordinators : \A d \in ToSet(parsed[x]) :
         d \in ToSet(parsed'[x]) \/ Links[d] \in ToSet(asked'[x])
  BY <1>6, <1>7, <1>8
<1>10. \A x \in Coordinators : \A docs \in ToSet(asked[x]) : docs \in ToSet(asked'[x])
  BY <1>7, <1>8
<1>11. FollowStep BY <1>3, <1>4, <1>9, <1>10 DEF FollowStep
<1>. QED BY <1>11, FollowedKept

LEMMA TrackerCheckFollowed ==
  ASSUME TypeOK, ClaimsOK, ReachOK, Followed, NEW c \in Coordinators, NEW docs, Checks(c, docs)
  PROVE  Followed'
<1>1. /\ asked[c] # <<>> /\ docs = Head(asked[c])
      /\ asked'[c] = Tail(asked[c]) /\ \A x \in Coordinators \ {c} : asked'[x] = asked[x]
      /\ setup' = setup /\ parsed' = parsed /\ fetched' = fetched /\ crashes' = crashes
  BY DEF Checks
<1>2. ToSet(docs) \subseteq Recorded' /\ Recorded \subseteq Recorded' BY TrackerCheckReach
<1>3. ToSet(asked[c]) = {docs} \cup ToSet(asked'[c])
  <2>1. asked[c] \in Seq(Seq(Documents)) BY AtTypes
  <2>. QED BY <1>1, <2>1, ElementsOf
<1>4. \A x \in Coordinators : \A r \in ToSet(asked[x]) :
         r \in ToSet(asked'[x]) \/ ToSet(r) \subseteq Recorded'
  BY <1>1, <1>2, <1>3
<1>5. FollowStep BY <1>1, <1>2, <1>4 DEF FollowStep
<1>. QED BY <1>5, FollowedKept

-----------------------------------------------------------------------------
(* The pool, and the coordinators that are gone. *)

LEMMA PoolSame ==
  ASSUME PoolOK, pool' = pool, crashes' = crashes, alive' = alive
  PROVE  PoolOK'
BY DEF PoolOK

LEMMA CrashGone ==
  ASSUME TypeOK, GoneAreEmpty, NEW c \in Coordinators, Crash(c)
  PROVE  GoneAreEmpty'
<1>1. /\ Others(c) /\ alive' = alive \ {c}
      /\ routed'[c] = <<>> /\ source'[c] = <<>> /\ done'[c] = <<>> /\ parsed'[c] = <<>>
      /\ \A d \in Documents : fetching'[c][d] = 0
      /\ stats'[c] = Reset
  BY CrashDoes
<1>2. ASSUME NEW x \in Coordinators, x \notin alive'
      PROVE  /\ routed'[x] = <<>> /\ source'[x] = <<>> /\ done'[x] = <<>> /\ parsed'[x] = <<>>
             /\ \A d \in Documents : fetching'[x][d] = 0
             /\ stats'[x] = Reset
  <2>1. CASE x = c BY <1>1, <2>1
  <2>2. CASE x # c
    <3>1. x \notin alive BY <1>1, <1>2, <2>2
    <3>2. SameAt(x) BY <1>1, <2>2 DEF Others
    <3>. QED BY <3>1, <3>2 DEF SameAt, GoneAreEmpty
  <2>. QED BY <2>1, <2>2
<1>3. Reset' = Reset BY DEF Reset
<1>. QED BY <1>2, <1>3 DEF GoneAreEmpty

LEMMA TrackerCheckGone ==
  ASSUME TypeOK, ClaimsOK, GoneAreEmpty, NEW c \in Coordinators, NEW docs, Checks(c, docs)
  PROVE  GoneAreEmpty'
<1>. DEFINE first == Process(HandOut(docs))
            n     == Cardinality(Tracker!Discovered(ToSet(docs)))
            second == Found(n)
<1>1. n \in Nat BY CheckFacts DEF Checks
<1>2. first \in Messages /\ second \in Messages BY <1>1, MessageFacts DEF Checks
<1>3. Route(first, second) BY DEF Checks
<1>. HIDE DEF first, second
<1>4. \A x \in Coordinators : x \notin alive => routed'[x] = routed[x]
  BY <1>2, <1>3, RouteFacts
<1>5. UNCHANGED <<alive, source, fetching, done, parsed, stats>> BY DEF Checks
<1>. QED BY <1>4, <1>5 DEF GoneAreEmpty

-----------------------------------------------------------------------------
(* A crawl that has gone quiet has found everything. *)

LEMMA NothingLeft ==
  ASSUME TypeOK, GoneAreEmpty, Quiet, NEW c \in Coordinators
  PROVE  /\ routed[c] = <<>> /\ source[c] = <<>> /\ parsed[c] = <<>> /\ asked[c] = <<>>
         /\ FoundAt(c) = 0
         /\ \A d \in Documents : CopiesAt(c, d) = 0
<1>1. asked[c] = <<>> /\ reports[c] = <<>> BY DEF Quiet
<1>2. /\ routed[c] = <<>> /\ source[c] = <<>> /\ parsed[c] = <<>>
      /\ \A d \in Documents : fetching[c][d] = 0
      /\ stats[c].discovered = 0
  <2>1. CASE c \in alive BY <2>1 DEF Quiet, IsEmpty
  <2>2. CASE c \notin alive BY <2>2, StatsFacts DEF GoneAreEmpty
  <2>. QED BY <2>1, <2>2
<1>3. FoundAt(c) = 0 + 0 + 0 BY <1>1, <1>2, TotalEmpty DEF FoundAt, FoundIn
<1>4. ASSUME NEW d \in Documents PROVE CopiesAt(c, d) = 0 + 0 + 0
  <2>1. Occurrences(<<>>, d) = 0 BY TotalEmpty DEF Occurrences
  <2>. QED BY <1>2, <2>1, TotalEmpty DEF CopiesAt, CopiesOf
<1>. QED BY <1>1, <1>2, <1>3, <1>4

LEMMA QuietIsComplete ==
  ASSUME WorkOK, Quiet, Undisturbed
  PROVE  /\ \A d \in Reachable : fetched[d] > 0
         /\ total.discovered = 1 + Cardinality(Named)
<1>. DEFINE S == {d \in Documents : fetched[d] > 0}
<1>1. TypeOK /\ ClaimsOK /\ GoneAreEmpty /\ ReachOK /\ Followed /\ CountsOK BY DEF WorkOK
<1>2. crashes = 0 BY DEF Undisturbed
<1>3. setup \in Scenarios BY <1>1 DEF TypeOK
<1>4. total.discovered = 1 + Cardinality(Recorded)
  <2>1. \A x \in Coordinators : FoundAt(x) = 0 BY <1>1, NothingLeft
  <2>2. [x \in Coordinators |-> FoundAt(x)] \in [Coordinators -> Nat] BY <1>1, Measures
  <2>3. SumOf([x \in Coordinators |-> FoundAt(x)]) = 0 BY <2>1, <2>2, SumZero
  <2>4. Discoveries = 1 + Cardinality(Recorded) BY <1>1, <1>2 DEF CountsOK, FoundOK
  <2>5. total.discovered \in Nat BY <1>1, Measures
  <2>6. Discoveries = total.discovered + 0 BY <2>3 DEF Discoveries
  <2>. QED BY <2>4, <2>5, <2>6
<1>5. ASSUME NEW d \in Documents PROVE fetched[d] = Claims(d) /\ Claims(d) \in Nat
  <2>1. \A x \in Coordinators : CopiesAt(x, d) = 0 BY <1>1, NothingLeft
  <2>2. [x \in Coordinators |-> CopiesAt(x, d)] \in [Coordinators -> Nat] BY <1>1, Measures
  <2>3. AllCopies(d) = 0
    <3>1. SumOf([x \in Coordinators |-> CopiesAt(x, d)]) = 0 BY <2>1, <2>2, SumZero
    <3>. QED BY <3>1 DEF AllCopies
  <2>4. AllCopies(d) + fetched[d] = Claims(d) BY <1>1 DEF CountsOK, CopiesOK
  <2>5. fetched[d] \in Nat /\ Claims(d) \in Nat BY <1>1, Measures
  <2>. QED BY <2>3, <2>4, <2>5
<1>6. \A d \in Documents : claim[d].count \in Nat BY <1>1, TrackerTypes DEF Tracker!Claim
<1>7. RootDocument \in S
  <2>1. RootDocument \in Documents BY <1>3, ScenarioFacts
  <2>2. Claims(RootDocument) = claim[RootDocument].count + 1 BY DEF Claims
  <2>. QED BY <1>5, <1>6, <2>1, <2>2
<1>8. Recorded \subseteq S
  <2>1. SUFFICES ASSUME NEW d \in Recorded PROVE d \in S OBVIOUS
  <2>2. d \in Documents /\ recorded[d] # Unrecorded BY DEF Recorded
  <2>3. claim[d].count # 0 BY <1>1, <2>2 DEF ClaimsOK
  <2>4. Claims(d) = claim[d].count + (IF d = RootDocument THEN 1 ELSE 0) BY DEF Claims
  <2>. QED BY <1>5, <1>6, <2>2, <2>3, <2>4
<1>9. \A d \in S : ToSet(Links[d]) \subseteq Recorded
  <2>1. SUFFICES ASSUME NEW d \in S PROVE ToSet(Links[d]) \subseteq Recorded OBVIOUS
  <2>2. \/ ToSet(Links[d]) \subseteq Recorded
        \/ \E x \in Coordinators : d \in ToSet(parsed[x]) \/ Links[d] \in ToSet(asked[x])
    BY <1>1, <1>2 DEF Followed
  <2>3. ToSet(<<>>) = {} BY DEF ToSet
  <2>4. \A x \in Coordinators : parsed[x] = <<>> /\ asked[x] = <<>> BY <1>1, NothingLeft
  <2>. QED BY <2>2, <2>3, <2>4
<1>10. Reachable \subseteq S
  <2>1. S \in SUBSET Documents OBVIOUS
  <2>2. \A d \in S : ToSet(Links[d]) \subseteq S BY <1>8, <1>9
  <2>. HIDE DEF S
  <2>. QED BY <1>3, <1>7, <2>1, <2>2, ReachableFacts
<1>11. Recorded = Named
  <2>1. Recorded \subseteq Named BY <1>1 DEF ReachOK
  <2>2. Named \subseteq Recorded BY <1>9, <1>10 DEF Named
  <2>. QED BY <2>1, <2>2
<1>. QED BY <1>4, <1>10, <1>11

-----------------------------------------------------------------------------
(* Every action keeps the invariant. *)

LEMMA NotFinished ==
  ASSUME job = "Started", job' = job
  PROVE  FinishedIsComplete'
BY DEF FinishedIsComplete

\* A step of a coordinator keeps what it is shown to keep at this coordinator.
LEMMA CoordinatorKeeps ==
  ASSUME IInv, TypeOK', NEW c \in Coordinators, job = "Started", c \in alive,
         UNCHANGED <<setup, masterVars, poolVars, trackerVars>>, Others(c),
         NEW k \in Nat, CountsStep(c, k), ReachAt(c)', Followed'
  PROVE  IInv'
<1>1. /\ TypeOK /\ ClaimsOK /\ PoolOK /\ GoneAreEmpty /\ ReachOK /\ CountsOK
  BY DEF IInv, WorkOK
<1>2. /\ setup' = setup /\ job' = job /\ pool' = pool /\ alive' = alive /\ crashes' = crashes
      /\ UNCHANGED trackerVars
  BY DEF masterVars, poolVars
<1>3. ClaimsOK' /\ Recorded' = Recorded BY <1>1, <1>2, TrackerUnchanged
<1>4. PoolOK' BY <1>1, <1>2, PoolSame
<1>5. GoneAreEmpty' BY <1>1, <1>2, GoneKept
<1>6. ReachOK' BY <1>1, <1>2, <1>3, ReachKept
<1>7. CountsOK' BY <1>1, CountsKept
<1>8. FinishedIsComplete' BY <1>2, NotFinished
<1>. QED BY <1>3, <1>4, <1>5, <1>6, <1>7, <1>8 DEF IInv, WorkOK

LEMMA OnRoutedKeeps ==
  ASSUME IInv, NEW c \in Coordinators, job = "Started", c \in alive, OnRouted(c)
  PROVE  IInv'
<1>1. TypeOK /\ ClaimsOK /\ ReachOK /\ CopiesOK /\ Followed BY DEF IInv, WorkOK, CountsOK
<1>2. TypeOK' /\ Others(c) BY <1>1, OnRoutedDoes
<1>3. CountsStep(c, 0) BY <1>1, OnRoutedCounts
<1>4. ReachAt(c)' BY <1>1, OnRoutedReach
<1>5. /\ UNCHANGED <<setup, masterVars, poolVars, trackerVars>>
      /\ UNCHANGED <<setup, parsed, asked, fetched>>
  BY DEF OnRouted
<1>6. Followed'
  <2>1. crashes' = crashes /\ Recorded' = Recorded BY <1>5, Steady
  <2>. QED BY <1>1, <1>5, <2>1, FollowedSame
<1>. QED BY <1>2, <1>3, <1>4, <1>5, <1>6, CoordinatorKeeps

LEMMA FetchKeeps ==
  ASSUME IInv, NEW c \in Coordinators, job = "Started", c \in alive, Fetch(c)
  PROVE  IInv'
<1>1. TypeOK /\ ReachOK /\ Followed BY DEF IInv, WorkOK
<1>2. TypeOK' /\ Others(c) BY <1>1, FetchDoes
<1>3. CountsStep(c, 0) BY <1>1, FetchCounts
<1>4. ReachAt(c)' BY <1>1, FetchReach
<1>5. /\ UNCHANGED <<setup, masterVars, poolVars, trackerVars>>
      /\ UNCHANGED <<setup, parsed, asked, fetched>>
  BY DEF Fetch
<1>6. Followed'
  <2>1. crashes' = crashes /\ Recorded' = Recorded BY <1>5, Steady
  <2>. QED BY <1>1, <1>5, <2>1, FollowedSame
<1>. QED BY <1>2, <1>3, <1>4, <1>5, <1>6, CoordinatorKeeps

LEMMA FetchDoneKeeps ==
  ASSUME IInv, NEW c \in Coordinators, job = "Started", c \in alive,
         NEW e \in Documents, FetchDone(c, e)
  PROVE  IInv'
<1>1. TypeOK /\ ReachOK /\ Followed BY DEF IInv, WorkOK
<1>2. TypeOK' /\ Others(c) BY <1>1, FetchDoneDoes
<1>3. CountsStep(c, 1) BY <1>1, FetchDoneCounts
<1>4. ReachAt(c)' BY <1>1, FetchDoneReach
<1>5. Followed' BY <1>1, FetchDoneFollowed
<1>6. UNCHANGED <<setup, masterVars, poolVars, trackerVars>> BY DEF FetchDone
<1>. QED BY <1>2, <1>3, <1>4, <1>5, <1>6, CoordinatorKeeps

LEMMA OnCompletedKeeps ==
  ASSUME IInv, NEW c \in Coordinators, job = "Started", c \in alive, OnCompleted(c)
  PROVE  IInv'
<1>1. TypeOK /\ ReachOK /\ Followed BY DEF IInv, WorkOK
<1>2. TypeOK' /\ Others(c) BY <1>1, OnCompletedDoes
<1>3. CountsStep(c, 0) BY <1>1, OnCompletedCounts
<1>4. /\ UNCHANGED <<setup, masterVars, poolVars, trackerVars>>
      /\ UNCHANGED <<setup, parsed, asked, fetched>>
      /\ UNCHANGED <<routed, source, fetching, parsed, asked>>
  BY DEF OnCompleted
<1>5. ReachAt(c)' BY <1>1, <1>4, ReachAtSame
<1>6. Followed'
  <2>1. crashes' = crashes /\ Recorded' = Recorded BY <1>4, Steady
  <2>. QED BY <1>1, <1>4, <2>1, FollowedSame
<1>. QED BY <1>2, <1>3, <1>4, <1>5, <1>6, CoordinatorKeeps

LEMMA OnCheckKeeps ==
  ASSUME IInv, NEW c \in Coordinators, job = "Started", c \in alive, OnCheck(c)
  PROVE  IInv'
<1>1. TypeOK /\ ReachOK /\ Followed BY DEF IInv, WorkOK
<1>2. TypeOK' /\ Others(c) BY <1>1, OnCheckDoes
<1>3. CountsStep(c, 0) BY <1>1, OnCheckCounts
<1>4. ReachAt(c)' BY <1>1, OnCheckReach
<1>5. Followed' BY <1>1, OnCheckFollowed
<1>6. UNCHANGED <<setup, masterVars, poolVars, trackerVars>> BY DEF OnCheck
<1>. QED BY <1>2, <1>3, <1>4, <1>5, <1>6, CoordinatorKeeps

LEMMA PublishKeeps ==
  ASSUME IInv, NEW c \in Coordinators, job = "Started", c \in alive, Publish(c)
  PROVE  IInv'
<1>1. TypeOK /\ ReachOK /\ Followed BY DEF IInv, WorkOK
<1>2. TypeOK' /\ Others(c) BY <1>1, PublishDoes
<1>3. CountsStep(c, 0) BY <1>1, PublishCounts
<1>4. /\ UNCHANGED <<setup, masterVars, poolVars, trackerVars>>
      /\ UNCHANGED <<setup, parsed, asked, fetched>>
      /\ UNCHANGED <<routed, source, fetching, parsed, asked>>
  BY DEF Publish
<1>5. ReachAt(c)' BY <1>1, <1>4, ReachAtSame
<1>6. Followed'
  <2>1. crashes' = crashes /\ Recorded' = Recorded BY <1>4, Steady
  <2>. QED BY <1>1, <1>4, <2>1, FollowedSame
<1>. QED BY <1>2, <1>3, <1>4, <1>5, <1>6, CoordinatorKeeps

LEMMA CoordinateKeeps ==
  ASSUME IInv, NEW c \in Coordinators, Coordinate(c)
  PROVE  IInv'
<1>1. /\ job = "Started" /\ c \in alive
      /\ \/ OnRouted(c) \/ Fetch(c) \/ OnCompleted(c) \/ OnCheck(c) \/ Publish(c)
         \/ \E d \in Documents : FetchDone(c, d)
  BY DEF Coordinate
<1>. QED BY <1>1, OnRoutedKeeps, FetchKeeps, OnCompletedKeeps, OnCheckKeeps, PublishKeeps,
            FetchDoneKeeps

LEMMA OnTrackerCheckKeeps ==
  ASSUME IInv, NEW c \in Coordinators, OnTrackerCheck(c)
  PROVE  IInv'
<1>1. /\ TypeOK /\ ClaimsOK /\ PoolOK /\ GoneAreEmpty /\ ReachOK /\ Followed /\ CountsOK
  BY DEF IInv, WorkOK
<1>2. TypeOK' BY <1>1, OnTrackerCheckDoes
<1>3. PICK docs : Checks(c, docs) BY <1>1, OnTrackerCheckDoes
<1>4. ClaimsOK' BY <1>1, <1>3, CheckFacts DEF Checks
<1>5. job = "Started" /\ job' = job /\ pool' = pool /\ crashes' = crashes /\ alive' = alive
  BY <1>3 DEF OnTrackerCheck, Checks, masterVars
<1>6. PoolOK' BY <1>1, <1>5, PoolSame
<1>7. GoneAreEmpty' BY <1>1, <1>3, TrackerCheckGone
<1>8. ReachOK' BY <1>1, <1>3, TrackerCheckReach
<1>9. Followed' BY <1>1, <1>3, TrackerCheckFollowed
<1>10. CountsOK' BY <1>1, <1>3, TrackerCheckCounts
<1>11. FinishedIsComplete' BY <1>5, NotFinished
<1>. QED BY <1>2, <1>4, <1>6, <1>7, <1>8, <1>9, <1>10, <1>11 DEF IInv, WorkOK

LEMMA OnReportKeeps ==
  ASSUME IInv, NEW c \in Coordinators, OnReport(c)
  PROVE  IInv'
<1>1. /\ TypeOK /\ ClaimsOK /\ PoolOK /\ GoneAreEmpty /\ ReachOK /\ Followed /\ CountsOK
  BY DEF IInv, WorkOK
<1>2. TypeOK' /\ Others(c) BY <1>1, OnReportDoes
<1>3. CountsStep(c, 0) BY <1>1, OnReportCounts
<1>4. /\ job = "Started" /\ job' = job /\ UNCHANGED streamVars /\ UNCHANGED trackerVars
      /\ setup' = setup /\ asked' = asked /\ fetched' = fetched
      /\ pool' = pool /\ alive' = alive /\ crashes' = crashes
  BY DEF OnReport, poolVars
<1>5. parsed' = parsed BY <1>4 DEF streamVars
<1>6. ClaimsOK' /\ Recorded' = Recorded BY <1>1, <1>4, TrackerUnchanged
<1>7. PoolOK' BY <1>1, <1>4, PoolSame
<1>8. GoneAreEmpty' BY <1>1, <1>4, GoneSame
<1>9. ReachOK' BY <1>1, <1>4, <1>6, ReachSame
<1>10. Followed' BY <1>1, <1>4, <1>5, <1>6, FollowedSame
<1>11. CountsOK' BY <1>1, <1>2, <1>3, CountsKept
<1>12. FinishedIsComplete' BY <1>4, NotFinished
<1>. QED BY <1>2, <1>6, <1>7, <1>8, <1>9, <1>10, <1>11, <1>12 DEF IInv, WorkOK

LEMMA CrashKeeps ==
  ASSUME IInv, NEW c \in Coordinators, Crash(c)
  PROVE  IInv'
<1>1. /\ TypeOK /\ ClaimsOK /\ GoneAreEmpty /\ ReachOK /\ Followed /\ CountsOK
  BY DEF IInv, WorkOK
<1>2. TypeOK' /\ Others(c) /\ crashes' = crashes + 1 BY <1>1, CrashDoes
<1>3. CountsStep(c, 0) BY <1>1, CrashCounts
<1>4. job = "Started" /\ job' = job /\ setup' = setup /\ UNCHANGED trackerVars
  BY DEF Crash, masterVars
<1>5. ClaimsOK' /\ Recorded' = Recorded BY <1>1, <1>4, TrackerUnchanged
<1>6. crashes' # 0
  <2>1. crashes \in Nat
    <3>1. setup.maxCrashes \in Nat BY <1>1, ScenarioFacts DEF TypeOK
    <3>. QED BY <1>1, <3>1 DEF TypeOK
  <2>. QED BY <1>2, <2>1
<1>7. PoolOK' /\ Followed' BY <1>6 DEF PoolOK, Followed
<1>8. GoneAreEmpty' BY <1>1, CrashGone
<1>9. ReachOK'
  <2>1. ReachAt(c)' BY <1>1, CrashReach
  <2>. QED BY <1>1, <1>2, <1>4, <1>5, <2>1, ReachKept
<1>10. CountsOK' BY <1>1, <1>2, <1>3, CountsKept
<1>11. FinishedIsComplete' BY <1>4, NotFinished
<1>. QED BY <1>2, <1>5, <1>7, <1>8, <1>9, <1>10, <1>11 DEF IInv, WorkOK

\* A step that leaves the work alone.
LEMMA IdleKeeps ==
  ASSUME WorkOK, TypeOK', ClaimsOK', PoolOK', alive \subseteq alive',
         UNCHANGED <<setup, total, crashes, streamVars, asked, reports, fetched>>,
         claim' = claim, Recorded' = Recorded, now' = 0 => now = 0
  PROVE  WorkOK'
<1>1. GoneAreEmpty /\ ReachOK /\ Followed /\ CountsOK BY DEF WorkOK
<1>2. parsed' = parsed BY DEF streamVars
<1>3. GoneAreEmpty' BY <1>1, GoneSame
<1>4. ReachOK' BY <1>1, ReachSame
<1>5. Followed' BY <1>1, <1>2, FollowedSame
<1>6. CountsOK' BY <1>1, CountsSame
<1>. QED BY <1>3, <1>4, <1>5, <1>6 DEF WorkOK

LEMMA MemberRemovedKeeps ==
  ASSUME IInv, NEW c \in Coordinators, MemberRemoved(c)
  PROVE  IInv'
<1>1. WorkOK /\ TypeOK /\ ClaimsOK /\ PoolOK BY DEF IInv, WorkOK
<1>2. TypeOK' /\ c \notin alive /\ c \in ToSet(pool) /\ alive' = alive BY <1>1, MemberRemovedDoes
<1>3. /\ job = "Started" /\ job' = job /\ UNCHANGED trackerVars
      /\ UNCHANGED <<setup, total, crashes, streamVars, asked, reports, fetched>>
  BY DEF MemberRemoved, masterVars
<1>4. ClaimsOK' /\ Recorded' = Recorded /\ now' = now /\ claim' = claim
  BY <1>1, <1>3, TrackerUnchanged
<1>5. PoolOK' BY <1>1, <1>2, <1>3 DEF PoolOK
<1>6. WorkOK' BY <1>1, <1>2, <1>3, <1>4, <1>5, IdleKeeps
<1>7. FinishedIsComplete' BY <1>3, NotFinished
<1>. QED BY <1>6, <1>7 DEF IInv

LEMMA MemberUpKeeps ==
  ASSUME IInv, NEW c \in Coordinators, MemberUp(c)
  PROVE  IInv'
<1>1. WorkOK /\ TypeOK /\ ClaimsOK /\ PoolOK BY DEF IInv, WorkOK
<1>2. /\ TypeOK' /\ alive' = alive \cup {c} /\ pool' # <<>>
      /\ ToSet(pool') = ToSet(pool) \cup {c}
  BY <1>1, MemberUpDoes
<1>3. /\ job = "Started" /\ job' = job /\ UNCHANGED trackerVars
      /\ UNCHANGED <<setup, total, crashes, streamVars, asked, reports, fetched>>
  BY DEF MemberUp, masterVars
<1>4. ClaimsOK' /\ Recorded' = Recorded /\ now' = now /\ claim' = claim
  BY <1>1, <1>3, TrackerUnchanged
<1>5. PoolOK'
  <2>1. PICK q : q = pool' OBVIOUS
  <2>2. q # <<>> /\ ToSet(q) = ToSet(pool) \cup {c} BY <1>2, <2>1
  <2>3. crashes' = 0 => ToSet(q) \subseteq alive' BY <1>1, <1>2, <1>3, <2>2 DEF PoolOK
  <2>. QED BY <2>1, <2>2, <2>3 DEF PoolOK
<1>6. WorkOK' BY <1>1, <1>2, <1>3, <1>4, <1>5, IdleKeeps
<1>7. FinishedIsComplete' BY <1>3, NotFinished
<1>. QED BY <1>6, <1>7 DEF IInv

LEMMA PassTimeKeeps ==
  ASSUME IInv, PassTime
  PROVE  IInv'
<1>1. WorkOK /\ TypeOK /\ ClaimsOK /\ PoolOK BY DEF IInv, WorkOK
<1>2. TypeOK' /\ ClaimsOK' /\ Recorded' = Recorded /\ claim' = claim /\ now' # 0
  BY <1>1, PassTimeTypes
<1>3. /\ job = "Started" /\ job' = job /\ pool' = pool /\ alive' = alive
      /\ UNCHANGED <<setup, total, crashes, streamVars, asked, reports, fetched>>
  BY DEF PassTime, masterVars, poolVars
<1>4. PoolOK' BY <1>1, <1>3, PoolSame
<1>5. WorkOK' BY <1>1, <1>2, <1>3, <1>4, IdleKeeps
<1>6. FinishedIsComplete' BY <1>3, NotFinished
<1>. QED BY <1>5, <1>6 DEF IInv

\* The job ends: without a slow site, only when the crawl is quiet.
LEMMA ReceiveTimeoutKeeps ==
  ASSUME IInv, ReceiveTimeout
  PROVE  IInv'
<1>1. WorkOK /\ TypeOK /\ ClaimsOK /\ PoolOK BY DEF IInv, WorkOK
<1>2. TypeOK' BY <1>1, ReceiveTimeoutTypes
<1>3. /\ setup.slowSite \/ Quiet
      /\ pool' = pool /\ alive' = alive /\ UNCHANGED trackerVars
      /\ UNCHANGED <<setup, total, crashes, streamVars, asked, reports, fetched>>
  BY DEF ReceiveTimeout, poolVars
<1>4. ClaimsOK' /\ Recorded' = Recorded /\ now' = now /\ claim' = claim
  BY <1>1, <1>3, TrackerUnchanged
<1>5. PoolOK' BY <1>1, <1>3, PoolSame
<1>6. WorkOK' BY <1>1, <1>2, <1>3, <1>4, <1>5, IdleKeeps
<1>7. FinishedIsComplete'
  <2>1. Links' = Links /\ Reachable' = Reachable /\ Named' = Named BY <1>3, SameSite
  <2>2. SUFFICES ASSUME Undisturbed', ~setup'.slowSite
                 PROVE  /\ \A d \in Reachable : fetched[d] > 0
                        /\ total.discovered = 1 + Cardinality(Named)
    <3>1. total'.discovered = total.discovered BY <1>3
    <3>2. (UNION {ToSet(Links[d]) : d \in Reachable})' = Named BY <2>1 DEF Named
    <3>. QED BY <1>3, <2>1, <2>2, <3>1, <3>2 DEF FinishedIsComplete
  <2>3. Quiet BY <1>3, <2>2
  <2>4. Undisturbed
    <3>1. BufferSize' = BufferSize BY <1>3 DEF BufferSize
    <3>. QED BY <1>3, <1>4, <2>2, <3>1 DEF Undisturbed
  <2>. QED BY <1>1, <2>3, <2>4, QuietIsComplete
<1>. QED BY <1>6, <1>7 DEF IInv

LEMMA StutterKeeps ==
  ASSUME IInv, UNCHANGED vars
  PROVE  IInv'
<1>1. WorkOK /\ TypeOK /\ ClaimsOK /\ PoolOK BY DEF IInv, WorkOK
<1>2. /\ setup' = setup /\ job' = job /\ total' = total /\ fetched' = fetched
      /\ pool' = pool /\ next' = next /\ alive' = alive /\ crashes' = crashes
      /\ asked' = asked /\ reports' = reports
      /\ UNCHANGED streamVars /\ UNCHANGED trackerVars
  BY DEF vars, masterVars, poolVars
<1>3. TypeOK'
  <2>1. Tracker!TypeOK' BY <1>1, <1>2, TrackerUnchanged
  <2>2. /\ pool' \in Seq(Coordinators) /\ IsInjective(pool') /\ alive' \in SUBSET Coordinators
        /\ job' \in {"Started", "Finished"}
    BY <1>1, <1>2 DEF TypeOK
  <2>. QED BY <1>1, <1>2, <2>1, <2>2, QuietStep
<1>4. ClaimsOK' /\ Recorded' = Recorded /\ now' = now /\ claim' = claim
  BY <1>1, <1>2, TrackerUnchanged
<1>5. PoolOK' BY <1>1, <1>2, PoolSame
<1>6. WorkOK' BY <1>1, <1>2, <1>3, <1>4, <1>5, IdleKeeps
<1>7. FinishedIsComplete'
  <2>1. Links' = Links /\ Reachable' = Reachable /\ Named' = Named BY <1>2, SameSite
  <2>2. BufferSize' = BufferSize BY <1>2 DEF BufferSize
  <2>3. Undisturbed' = Undisturbed BY <1>2, <1>4, <2>2 DEF Undisturbed
  <2>4. FinishedIsComplete BY DEF IInv
  <2>. QED BY <1>2, <2>1, <2>3, <2>4 DEF FinishedIsComplete
<1>. QED BY <1>6, <1>7 DEF IInv

LEMMA NextKeeps ==
  ASSUME IInv, [Next]_vars
  PROVE  IInv'
<1>1. ASSUME NEW c \in Coordinators,
             \/ Coordinate(c) \/ OnTrackerCheck(c) \/ OnReport(c)
             \/ Crash(c) \/ MemberRemoved(c) \/ MemberUp(c)
      PROVE  IInv'
  BY <1>1, CoordinateKeeps, OnTrackerCheckKeeps, OnReportKeeps, CrashKeeps, MemberRemovedKeeps,
     MemberUpKeeps
<1>. QED BY <1>1, ReceiveTimeoutKeeps, PassTimeKeeps, StutterKeeps DEF Next

-----------------------------------------------------------------------------
(* The invariant holds at the start. *)

LEMMA InitTracker ==
  ASSUME Init
  PROVE  /\ Tracker!TypeOK /\ ClaimsOK /\ Recorded = {}
         /\ \A d \in Documents : claim[d].count = 0
<1>1. /\ recorded = [d \in Documents |-> Unrecorded] /\ now = 0 /\ elapsed = 0
      /\ claim = [d \in Documents |-> [count |-> 0, at |-> 0, time |-> 0]]
  BY DEF Init, Tracker!Init
<1>2. [count |-> 0, at |-> 0, time |-> 0] \in Tracker!Claim BY DEF Tracker!Claim
<1>3. Tracker!TypeOK BY <1>1, <1>2 DEF Tracker!TypeOK
<1>4. Recorded = {} BY <1>1 DEF Recorded
<1>5. \A d \in Documents : claim[d].count = 0 /\ recorded[d] = Unrecorded BY <1>1
<1>6. ClaimsOK BY <1>1, <1>5 DEF ClaimsOK
<1>. QED BY <1>3, <1>4, <1>5, <1>6

\* At the start only the first routee has something: the root to download.
LEMMA InitStreams ==
  ASSUME Init
  PROVE  /\ setup \in Scenarios /\ setup.initialPool[1] \in alive /\ alive \subseteq Coordinators
         /\ \A c \in Coordinators :
              /\ routed[c] = IF c = setup.initialPool[1] THEN <<Download(RootDocument)>> ELSE <<>>
              /\ source[c] = <<>> /\ done[c] = <<>> /\ parsed[c] = <<>>
              /\ asked[c] = <<>> /\ reports[c] = <<>> /\ stats[c] = Reset
              /\ \A d \in Documents : fetching[c][d] = 0
         /\ \A d \in Documents : fetched[d] = 0
<1>1. setup \in Scenarios BY DEF Init
<1>2. setup.initialPool \in Seq(Coordinators) /\ setup.initialPool # <<>> BY <1>1, ScenarioFacts
<1>3. setup.initialPool[1] \in ToSet(setup.initialPool) BY <1>2 DEF ToSet
<1>4. ToSet(setup.initialPool) \subseteq Coordinators BY <1>2, ElementsOf
<1>. QED BY <1>1, <1>3, <1>4 DEF Init

LEMMA InitTypes ==
  ASSUME Init
  PROVE  TypeOK
<1>1. setup \in Scenarios BY DEF Init
<1>2. RootDocument \in Documents BY <1>1, ScenarioFacts
<1>3. /\ setup.initialPool \in Seq(Coordinators) /\ IsInjective(setup.initialPool)
      /\ Period \in Nat /\ Period > 0 /\ BufferSize \in Nat /\ setup.maxCrashes \in Nat
  BY <1>1, ScenarioFacts
<1>4. total \in Stats BY DEF Init, Stats
<1>5. next \in 0..(Period - 1)
  <2>1. next = 1 % Period BY DEF Init
  <2>. QED BY <1>3, <2>1
<1>6. alive \in SUBSET Coordinators BY InitStreams
<1>7. crashes \in 0..setup.maxCrashes BY <1>3 DEF Init
<1>8. routed \in [Coordinators -> Seq(Messages)]
  <2>1. Download(RootDocument) \in Messages BY <1>2, MessageFacts
  <2>2. <<Download(RootDocument)>> \in Seq(Messages) /\ <<>> \in Seq(Messages) BY <2>1
  <2>. QED BY <2>2 DEF Init
<1>9. <<>> \in Seq(Documents) /\ Len(<<>>) = 0 /\ <<>> \in Seq(Seq(Documents)) /\ <<>> \in Seq(Stats)
  OBVIOUS
<1>10. /\ source \in [Coordinators -> Seq(Documents)] /\ done \in [Coordinators -> Seq(Documents)]
       /\ parsed \in [Coordinators -> Seq(Documents)]
       /\ asked \in [Coordinators -> Seq(Seq(Documents))]
       /\ reports \in [Coordinators -> Seq(Stats)]
  BY <1>9 DEF Init
<1>11. \A c \in Coordinators : Len(source[c]) <= BufferSize BY <1>3, <1>9, InitStreams
<1>12. fetching \in [Coordinators -> [Documents -> Nat]] /\ fetched \in [Documents -> Nat]
  BY DEF Init
<1>13. stats \in [Coordinators -> Stats] BY StatsFacts DEF Init
<1>14. pool \in Seq(Coordinators) /\ IsInjective(pool) /\ job \in {"Started", "Finished"}
  BY <1>3 DEF Init
<1>. QED BY <1>1, <1>4, <1>5, <1>6, <1>7, <1>8, <1>10, <1>11, <1>12, <1>13, <1>14, InitTracker
         DEF TypeOK

LEMMA InitCounts ==
  ASSUME Init
  PROVE  CountsOK
<1>1. TypeOK BY InitTypes
<1>2. RootDocument \in Documents BY InitStreams, ScenarioFacts
<1>. DEFINE first == setup.initialPool[1]
            msg   == Download(RootDocument)
<1>3. msg \in Messages /\ msg.docs = <<RootDocument>> /\ msg.count = 0 BY <1>2, MessageFacts
<1>4. first \in Coordinators BY InitStreams
<1>5. \A c \in Coordinators : routed[c] = IF c = first THEN <<msg>> ELSE <<>> BY InitStreams
<1>. HIDE DEF first, msg
<1>6. ASSUME NEW w \in [Messages -> Nat], NEW c \in Coordinators
      PROVE  Total(routed[c], w) = IF c = first THEN w[msg] ELSE 0
  BY <1>3, <1>5, TotalEmpty, TotalOne
<1>7. Len(<<>>) = 0 OBVIOUS
<1>8. ASSUME NEW c \in Coordinators PROVE FoundAt(c) = 0 /\ LoggedAt(c) = 0
  <2>1. stats[c].discovered = 0 /\ stats[c].downloaded = 0 BY StatsFacts, InitStreams
  <2>2. reports[c] = <<>> /\ done[c] = <<>> BY InitStreams
  <2>3. Total(routed[c], CountOf) = 0 BY <1>3, <1>6, WeightTypes
  <2>4. FoundAt(c) = 0 + 0 + 0 BY <2>1, <2>2, <2>3, TotalEmpty DEF FoundAt, FoundIn
  <2>5. LoggedAt(c) = 0 + 0 + 0 BY <1>7, <2>1, <2>2, TotalEmpty DEF LoggedAt, LoggedIn
  <2>. QED BY <2>4, <2>5
<1>9. FoundOK
  <2>1. [c \in Coordinators |-> FoundAt(c)] \in [Coordinators -> Nat] BY <1>1, Measures
  <2>2. SumOf([c \in Coordinators |-> FoundAt(c)]) = 0 BY <1>8, <2>1, SumZero
  <2>3. total.discovered = 1 BY DEF Init
  <2>4. Cardinality(Recorded) = 0 BY InitTracker, FS_EmptySet
  <2>5. Discoveries = 1 + 0 BY <2>2, <2>3 DEF Discoveries
  <2>. QED BY <2>4, <2>5 DEF FoundOK
<1>10. LoggedOK
  <2>1. [c \in Coordinators |-> LoggedAt(c)] \in [Coordinators -> Nat] BY <1>1, Measures
  <2>2. SumOf([c \in Coordinators |-> LoggedAt(c)]) = 0 BY <1>8, <2>1, SumZero
  <2>3. total.downloaded = 0 BY DEF Init
  <2>4. Downloads = 0
    <3>1. fetched \in [Documents -> Nat] /\ \A d \in Documents : fetched[d] = 0
      BY <1>1, InitStreams, Measures
    <3>. QED BY <3>1, SumZero DEF Downloads
  <2>5. Logs = 0 + 0 BY <2>2, <2>3 DEF Logs
  <2>. QED BY <2>4, <2>5 DEF LoggedOK
<1>11. ASSUME NEW d \in Documents PROVE AllCopies(d) + fetched[d] = Claims(d) /\ Claims(d) \in Nat
  <2>1. Occurrences(<<>>, d) = 0 BY TotalEmpty DEF Occurrences
  <2>2. Occurrences(<<RootDocument>>, d) = IF d = RootDocument THEN 1 ELSE 0
    <3>1. Is(d) \in [Documents -> Nat] /\ Is(d)[RootDocument] = IF d = RootDocument THEN 1 ELSE 0
      BY <1>2 DEF Is
    <3>2. Total(<<RootDocument>>, Is(d)) = Is(d)[RootDocument] BY <1>2, <3>1, TotalOne
    <3>. QED BY <3>1, <3>2 DEF Occurrences, Is
  <2>3. Copied(d) \in [Messages -> Nat] /\ Copied(d)[msg] = Occurrences(<<RootDocument>>, d)
    BY <1>3, WeightTypes
  <2>4. ASSUME NEW c \in Coordinators
        PROVE  CopiesAt(c, d) = IF c = first /\ d = RootDocument THEN 1 ELSE 0
    <3>1. source[c] = <<>> /\ fetching[c][d] = 0 BY InitStreams
    <3>2. Total(routed[c], Copied(d)) = IF c = first /\ d = RootDocument THEN 1 ELSE 0
      BY <1>6, <2>2, <2>3
    <3>3. CopiesAt(c, d) = Total(routed[c], Copied(d)) + 0 + 0 BY <2>1, <3>1 DEF CopiesAt, CopiesOf
    <3>. QED BY <3>2, <3>3
  <2>. DEFINE f == [c \in Coordinators |-> CopiesAt(c, d)]
  <2>5. f \in [Coordinators -> Nat] BY <1>1, Measures
  <2>6. f[first] = (IF d = RootDocument THEN 1 ELSE 0) /\ \A c \in Coordinators : c # first => f[c] = 0
    BY <1>4, <2>4
  <2>7. AllCopies(d) = SumOf(f) BY DEF AllCopies
  <2>. HIDE DEF f
  <2>8. SumOf(f) = f[first] BY <1>4, <2>5, <2>6, SumSingle
  <2>9. claim[d].count = 0 /\ fetched[d] = 0 BY InitTracker, InitStreams
  <2>10. Claims(d) = 0 + (IF d = RootDocument THEN 1 ELSE 0) BY <2>9 DEF Claims
  <2>. QED BY <2>6, <2>7, <2>8, <2>9, <2>10
<1>. QED BY <1>9, <1>10, <1>11 DEF CountsOK, CopiesOK

LEMMA InitIInv == Init => IInv
<1>. SUFFICES ASSUME Init PROVE IInv OBVIOUS
<1>1. setup \in Scenarios BY InitStreams
<1>2. PoolOK
  <2>1. setup.initialPool # <<>> BY <1>1, ScenarioFacts
  <2>. QED BY <2>1 DEF PoolOK, Init
<1>3. GoneAreEmpty BY InitStreams DEF GoneAreEmpty
<1>4. ReachOK
  <2>1. RootDocument \in Reachable /\ RootDocument \in Documents BY <1>1, ReachableFacts, ScenarioFacts
  <2>2. ToSet(<<>>) = {} BY DEF ToSet
  <2>3. ToSet(<<RootDocument>>) = {RootDocument} BY DEF ToSet
  <2>4. Download(RootDocument).docs = <<RootDocument>> BY <2>1, MessageFacts
  <2>5. ToSet(<<Download(RootDocument)>>) = {Download(RootDocument)} BY DEF ToSet
  <2>6. ASSUME NEW c \in Coordinators PROVE ReachAt(c)
    <3>1. /\ source[c] = <<>> /\ parsed[c] = <<>> /\ asked[c] = <<>>
          /\ \A d \in Documents : fetching[c][d] = 0
          /\ routed[c] = <<Download(RootDocument)>> \/ routed[c] = <<>>
      BY InitStreams
    <3>2. \A msg \in ToSet(routed[c]) : ToSet(msg.docs) \subseteq Reachable
      BY <2>1, <2>2, <2>3, <2>4, <2>5, <3>1
    <3>. QED BY <2>2, <3>1, <3>2 DEF ReachAt
  <2>. QED BY <2>6, InitTracker DEF ReachOK
<1>5. Followed BY InitStreams DEF Followed
<1>6. FinishedIsComplete BY DEF FinishedIsComplete, Init
<1>. QED BY <1>2, <1>3, <1>4, <1>5, <1>6, InitTypes, InitTracker, InitCounts DEF IInv, WorkOK

-----------------------------------------------------------------------------
(* The measures are those of the properties. *)

LEMMA CountedIs ==
  ASSUME TypeOK
  PROVE  /\ Counted("discovered") + Uncounted = Discoveries
         /\ Counted("downloaded") + NotLogged = Logs
<1>1. IsFiniteSet(Coordinators) BY CrawlPipelineAssumption
<1>2. total.discovered \in Nat /\ total.downloaded \in Nat BY Measures
<1>. DEFINE fd == [c \in Coordinators |->
                     Field("discovered")[stats[c]] + Total(reports[c], Field("discovered"))]
            fu == [c \in Coordinators |-> Total(routed[c], CountOf)]
            fs == [c \in Coordinators |-> FoundAt(c)]
            ld == [c \in Coordinators |->
                     Field("downloaded")[stats[c]] + Total(reports[c], Field("downloaded"))]
            lu == [c \in Coordinators |-> Len(done[c])]
            ls == [c \in Coordinators |-> LoggedAt(c)]
<1>3. ASSUME NEW c \in Coordinators
      PROVE  /\ fd[c] \in Nat /\ fu[c] \in Nat /\ fs[c] = fd[c] + fu[c]
             /\ ld[c] \in Nat /\ lu[c] \in Nat /\ ls[c] = ld[c] + lu[c]
  <2>1. /\ stats[c] \in Stats /\ reports[c] \in Seq(Stats) /\ routed[c] \in Seq(Messages)
        /\ done[c] \in Seq(Documents)
    BY AtTypes
  <2>2. /\ Field("discovered")[stats[c]] = stats[c].discovered
        /\ Field("downloaded")[stats[c]] = stats[c].downloaded
    BY <2>1, WeightTypes
  <2>3. /\ stats[c].discovered \in Nat /\ Total(reports[c], Field("discovered")) \in Nat
        /\ Total(routed[c], CountOf) \in Nat
    BY <2>1, FoundType
  <2>4. /\ stats[c].downloaded \in Nat /\ Total(reports[c], Field("downloaded")) \in Nat
        /\ Len(done[c]) \in Nat
    BY <2>1, LoggedType
  <2>. QED BY <2>2, <2>3, <2>4 DEF FoundAt, FoundIn, LoggedAt, LoggedIn
<1>4. /\ fd \in [Coordinators -> Nat] /\ fu \in [Coordinators -> Nat] /\ fs \in [Coordinators -> Nat]
      /\ ld \in [Coordinators -> Nat] /\ lu \in [Coordinators -> Nat] /\ ls \in [Coordinators -> Nat]
  BY <1>3, Measures
<1>5. /\ Counted("discovered") = total.discovered + SumOf(fd) /\ Uncounted = SumOf(fu)
      /\ Discoveries = total.discovered + SumOf(fs)
  BY DEF Counted, Field, Uncounted, CountOf, Discoveries
<1>6. /\ Counted("downloaded") = total.downloaded + SumOf(ld) /\ NotLogged = SumOf(lu)
      /\ Logs = total.downloaded + SumOf(ls)
  BY DEF Counted, Field, NotLogged, Logs
<1>. HIDE DEF fd, fu, fs, ld, lu, ls
<1>7. SumOf(fs) = SumOf(fd) + SumOf(fu) BY <1>1, <1>3, <1>4, SumAdd
<1>8. SumOf(ls) = SumOf(ld) + SumOf(lu) BY <1>1, <1>3, <1>4, SumAdd
<1>9. SumOf(fd) \in Nat /\ SumOf(fu) \in Nat /\ SumOf(ld) \in Nat /\ SumOf(lu) \in Nat
  BY <1>1, <1>4, SumType
<1>. QED BY <1>2, <1>5, <1>6, <1>7, <1>8, <1>9

-----------------------------------------------------------------------------
(* The theorems. *)

\* In every crawl IInv holds: claims and records agree, only what can be reached
\* is under way, what a downloaded page names is recorded or asked about, and the
\* counts and copies balance.
THEOREM CrawlInvariant == Spec => []IInv
<1>1. IInv /\ [Next]_vars => IInv' BY NextKeeps
<1>. QED BY InitIInv, <1>1, PTL DEF Spec

\* Every variable keeps its type, and no stream buffers more than its capacity
\* (Source.ActorRef with DropTail).
THEOREM TypeCorrect == Spec => []TypeOK
<1>1. IInv => TypeOK BY DEF IInv, WorkOK
<1>. QED BY CrawlInvariant, <1>1, PTL

\* As long as no coordinator is lost, CrawlJobStats loses no discovery and no
\* download on the way to the CrawlMaster and counts none twice.
THEOREM CountsConserved == Spec => []CountsAreConserved
<1>1. IInv => CountsAreConserved
  BY CountedIs DEF IInv, WorkOK, CountsOK, FoundOK, LoggedOK, CountsAreConserved
<1>. QED BY CrawlInvariant, <1>1, PTL

\* Whatever coordinators are lost, the user is never shown more discoveries or
\* downloads than there were.
THEOREM NothingOvercounted == Spec => []NeverOvercounted
<1>1. IInv => NeverOvercounted
  BY CountedIs DEF IInv, WorkOK, CountsOK, FoundOK, LoggedOK, NeverOvercounted
<1>. QED BY CrawlInvariant, <1>1, PTL

\* No document is put to work more often than the tracker handed it out, the root
\* once more; and exactly as often when nothing disturbs the crawl.
THEOREM CopiesPerClaim == Spec => []OneCopyPerClaim
<1>1. IInv => OneCopyPerClaim
  <2>1. SUFFICES ASSUME IInv, NEW d \in Documents
                 PROVE  /\ Copies(d) + fetched[d] <= Claims(d)
                        /\ Undisturbed => Copies(d) + fetched[d] = Claims(d)
    BY DEF OneCopyPerClaim, Claims
  <2>2. Copies(d) = AllCopies(d) BY DEF Copies, AllCopies, CopiesAt, CopiesOf, Copied
  <2>. QED BY <2>1, <2>2 DEF IInv, WorkOK, CountsOK, CopiesOK
<1>. QED BY CrawlInvariant, <1>1, PTL

\* A job that ended for want of work, and that nothing disturbed, has downloaded
\* every document that can be reached from its root and counted each one.
THEOREM FinishedCrawlIsComplete == Spec => []FinishedIsComplete
<1>1. IInv => FinishedIsComplete BY DEF IInv
<1>. QED BY CrawlInvariant, <1>1, PTL

=============================================================================
