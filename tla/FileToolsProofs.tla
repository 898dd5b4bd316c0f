-------------------------- MODULE FileToolsProofs --------------------------
(***************************************************************************)
(* Theorems about FileTools: what a conversation can do to the files of a  *)
(* workspace, for every workspace, file system, text and request.          *)
(***************************************************************************)
EXTENDS FileTools, SequenceTheorems, WellFoundedInduction, TLAPS

(* Recursion over the places of a sequence.  What is defined place by place  *)
(* exists, and what holds before the first place and is handed on from each  *)
(* to the next holds at all of them: there is no first place to fail at.     *)

LEMMA LeastPlace ==
    ASSUME NEW T \in SUBSET Nat, T # {}
    PROVE  \E x \in T : \A y \in T : x <= y
<1>1. PICK x \in T : \A y \in T : ~ (<<y, x>> \in OpToRel(<, Nat))
    BY NatLessThanWellFounded, WFMin
<1>2. \A y \in T : <<y, x>> \in Nat \X Nat /\ <<y, x>>[1] = y /\ <<y, x>>[2] = x
    BY <1>1
<1>3. \A y \in T : ~ (y < x)
    BY <1>1, <1>2 DEF OpToRel
<1>4. \A y \in T : x <= y
    BY <1>3
<1> QED
    BY <1>4

LEMMA PlaceByPlace ==
    ASSUME NEW L \in Nat, NEW B, B \subseteq 0..L, 0 \in B,
           \A n \in 1..L : n - 1 \in B => n \in B
    PROVE  B = 0..L
<1> SUFFICES ASSUME NEW k \in 0..L, k \notin B PROVE FALSE
  <2>1. (\A k \in 0..L : k \in B) => B = 0..L
      OBVIOUS
  <2> QED
      BY <2>1
<1> DEFINE T == {n \in Nat : n <= L /\ n \notin B}
<1>1. T \in SUBSET Nat /\ k \in T
    OBVIOUS
<1> HIDE DEF T
<1>2. PICK x \in T : \A y \in T : x <= y
    BY <1>1, LeastPlace
<1>3. x \in Nat /\ x <= L /\ x \notin B /\ x # 0
    BY <1>2 DEF T
<1>4. x \in 1..L /\ x - 1 \in Nat /\ x - 1 <= L /\ ~ (x <= x - 1)
    BY <1>3
<1>5. x - 1 \notin B
    BY <1>3, <1>4
<1>6. x - 1 \in T
    BY <1>4, <1>5 DEF T
<1> QED
    BY <1>2, <1>4, <1>6

\* g starts with b and goes on by F.
Recursion(L, S, b, F, g) ==
    g \in [0..L -> S] /\ g[0] = b /\ \A n \in 1..L : g[n] = F[<<g[n - 1], n>>]

LEMMA RecursionExists ==
    ASSUME NEW L \in Nat, NEW S, NEW b \in S, NEW F \in [S \X (1..L) -> S]
    PROVE  \E g : Recursion(L, S, b, F, g)
<1> DEFINE Upto(g, m) == g = [n \in 0..m |-> IF n = 0 THEN b ELSE F[<<g[n - 1], n>>]]
           B == {m \in 0..L : \E g \in [0..m -> S] : Upto(g, m)}
<1>1. 0 \in B
  <2> DEFINE g == [n \in 0..0 |-> b]
  <2>1. g \in [0..0 -> S] /\ Upto(g, 0) /\ 0 \in 0..L
      OBVIOUS
  <2> HIDE DEF g, Upto
  <2> QED
      BY <2>1
<1>2. ASSUME NEW m \in 1..L, m - 1 \in B
      PROVE  m \in B
  <2>1. PICK g \in [0..m - 1 -> S] : Upto(g, m - 1)
      BY <1>2
  <2> DEFINE h == [n \in 0..m |-> IF n < m THEN g[n] ELSE F[<<g[m - 1], m>>]]
  <2>2. g[m - 1] \in S /\ <<g[m - 1], m>> \in S \X (1..L)
      BY <2>1
  <2>3. F[<<g[m - 1], m>>] \in S
      BY <2>2
  <2>4. h \in [0..m -> S]
      BY <2>1, <2>3
  <2>5. ASSUME NEW n \in 0..m
        PROVE  h[n] = IF n = 0 THEN b ELSE F[<<h[n - 1], n>>]
    <3>1. CASE n < m
        BY <2>1, <2>5, <3>1
    <3>2. CASE n = m
        BY <2>5, <3>2
    <3> QED
        BY <3>1, <3>2
  <2>6. Upto(h, m)
      BY <2>5
  <2> HIDE DEF h, Upto
  <2> QED
      BY <2>4, <2>6
<1> HIDE DEF Upto
<1>3. B \subseteq 0..L
    OBVIOUS
<1> HIDE DEF B
<1>4. B = 0..L
    BY <1>1, <1>2, <1>3, PlaceByPlace
<1>5. L \in B
    BY <1>4
<1>6. PICK g \in [0..L -> S] : Upto(g, L)
    BY <1>5 DEF B
<1>7. g[0] = b /\ \A n \in 1..L : g[n] = F[<<g[n - 1], n>>]
    BY <1>6 DEF Upto
<1> QED
    BY <1>6, <1>7 DEF Recursion

-----------------------------------------------------------------------------
(* Paths *)

LEMMA PrefixPath ==
    ASSUME NEW p \in Paths, NEW n \in 0..Len(p)
    PROVE  /\ SubSeq(p, 1, n) \in Paths
           /\ Len(SubSeq(p, 1, n)) = n
           /\ \A i \in 1..n : SubSeq(p, 1, n)[i] = p[i]
           /\ \A m \in 0..n : SubSeq(SubSeq(p, 1, n), 1, m) = SubSeq(p, 1, m)
<1>1. Len(p) \in Nat /\ \A i \in 1..Len(p) : p[i] \in Names
    BY LenProperties, ElementOfSeq DEF Paths
<1>2. \A m \in 0..Len(p) :
          /\ SubSeq(p, 1, m) \in Seq(Names)
          /\ Len(SubSeq(p, 1, m)) = m
          /\ \A i \in 1..m : SubSeq(p, 1, m)[i] = p[i]
  <2> TAKE m \in 0..Len(p)
  <2>1. \A i \in 1..m : p[i] \in Names
      BY <1>1
  <2> QED
      BY <2>1, SubSeqProperties, <1>1
<1>3. ASSUME NEW m \in 0..n
      PROVE  SubSeq(SubSeq(p, 1, n), 1, m) = SubSeq(p, 1, m)
  <2> DEFINE q == SubSeq(p, 1, n)
  <2>1. n \in 0..Len(p) /\ m \in 0..Len(p) /\ Len(p) \in Nat
      BY <1>1
  <2>2. q \in Seq(Names) /\ Len(q) = n /\ \A i \in 1..n : q[i] = p[i] /\ q[i] \in Names
      BY <1>1, <1>2, <2>1
  <2> HIDE DEF q
  <2>3. /\ SubSeq(q, 1, m) \in Seq(Names)
        /\ Len(SubSeq(q, 1, m)) = m
        /\ \A i \in 1..m : SubSeq(q, 1, m)[i] = q[i]
    <3>1. \A i \in 1..m : q[i] \in Names
        BY <2>1, <2>2
    <3> QED
        BY <3>1, SubSeqProperties, <2>1
  <2>4. SubSeq(q, 1, m) = SubSeq(p, 1, m)
      BY <1>2, <2>1, <2>2, <2>3, SeqEqual
  <2> QED
      BY <2>4 DEF q
<1> QED
    BY <1>2, <1>3 DEF Paths

LEMMA WholePath ==
    ASSUME NEW p \in Paths
    PROVE  SubSeq(p, 1, Len(p)) = p /\ Len(p) \in Nat
BY SubSeqFull, LenProperties DEF Paths

LEMMA UnderPrefix ==
    ASSUME NEW p \in Paths, NEW d \in Paths
    PROVE  Under(p, d) <=> Len(d) <= Len(p) /\ d = SubSeq(p, 1, Len(d))
BY WholePath DEF Under, CO!IsPrefix

\* What is below a path below d is below d.
LEMMA UnderTransitive ==
    ASSUME NEW p \in Paths, NEW q \in Paths, NEW d \in Paths, Under(p, q), Under(q, d)
    PROVE  Under(p, d)
<1>1. Len(p) \in Nat /\ Len(q) \in Nat /\ Len(d) \in Nat
    BY WholePath
<1>2. Len(q) <= Len(p) /\ q = SubSeq(p, 1, Len(q)) /\ Len(d) <= Len(q) /\ d = SubSeq(q, 1, Len(d))
    BY UnderPrefix
<1>3. d = SubSeq(p, 1, Len(d))
    BY <1>1, <1>2, PrefixPath
<1> QED
    BY <1>1, <1>2, <1>3, UnderPrefix

\* The paths below d and above p lie on the way from d to p.
LEMMA PrefixUnder ==
    ASSUME NEW p \in Paths, NEW d \in Paths, Under(p, d), NEW n \in Len(d)..Len(p)
    PROVE  Under(SubSeq(p, 1, n), d)
<1>1. Len(p) \in Nat /\ Len(d) \in Nat /\ n \in Nat /\ Len(d) <= n
    BY WholePath
<1>2. Len(d) <= Len(p) /\ d = SubSeq(p, 1, Len(d))
    BY UnderPrefix
<1>3. /\ SubSeq(p, 1, n) \in Paths /\ Len(SubSeq(p, 1, n)) = n
      /\ SubSeq(SubSeq(p, 1, n), 1, Len(d)) = SubSeq(p, 1, Len(d))
    BY <1>1, <1>2, PrefixPath
<1> DEFINE q == SubSeq(p, 1, n)
<1> HIDE DEF q
<1>4. q \in Paths /\ Len(d) <= Len(q) /\ d = SubSeq(q, 1, Len(d))
    BY <1>1, <1>2, <1>3 DEF q
<1>5. Under(q, d)
    BY <1>4, UnderPrefix
<1> QED
    BY <1>5 DEF q

\* A path that is not denied has no denied path above it.
LEMMA DeniedAbove ==
    ASSUME NEW p \in Paths, NEW n \in 0..Len(p), Denied(SubSeq(p, 1, n))
    PROVE  Denied(p)
<1>1. Len(p) \in Nat /\ Len(Root) \in Nat
    BY WholePath, PathAssumption
<1> QED
    BY <1>1, PrefixPath DEF Denied

-----------------------------------------------------------------------------
(* Leaving units out of a text *)

\* rest[n] is what is left of the first n units.
Leaving(s, I, T, rest) ==
    /\ rest \in [0..Len(s) -> Seq(T)]
    /\ rest[0] = <<>>
    /\ \A n \in 1..Len(s) :
          rest[n] = IF n \in I THEN rest[n - 1] ELSE Append(rest[n - 1], s[n])
    /\ Without(s, I) = rest[Len(s)]

LEMMA WithoutSteps ==
    ASSUME NEW T, NEW s \in Seq(T), NEW I
    PROVE  \E rest : Leaving(s, I, T, rest)
<1> DEFINE S == Seq(T)
           L == Len(s)
           F == [x \in S \X (1..L) |-> IF x[2] \in I THEN x[1] ELSE Append(x[1], s[x[2]])]
           E(rest, n) == IF n \in I THEN rest[n - 1] ELSE Append(rest[n - 1], s[n])
           P(rest) == rest = [n \in 0..L |-> IF n = 0 THEN <<>> ELSE E(rest, n)]
<1>1. L \in Nat /\ <<>> \in S
    BY LenProperties, EmptySeq
<1>2. \A n \in 1..L : s[n] \in T /\ n \in 0..L /\ n # 0 /\ n - 1 \in 0..L
    BY ElementOfSeq, LenProperties
<1>3. F \in [S \X (1..L) -> S]
  <2>1. ASSUME NEW x \in S \X (1..L)
        PROVE  (IF x[2] \in I THEN x[1] ELSE Append(x[1], s[x[2]])) \in S
    <3>1. x[1] \in S /\ x[2] \in 1..L /\ s[x[2]] \in T
        BY <1>1
    <3> QED
        BY <3>1, AppendProperties
  <2> QED
      BY <2>1
<1>4. \A r \in S, n \in 1..L :
          F[<<r, n>>] = IF n \in I THEN r ELSE Append(r, s[n])
    OBVIOUS
<1> HIDE DEF F, S, L
<1>5. PICK g : Recursion(L, S, <<>>, F, g)
    BY <1>1, <1>3, RecursionExists
<1>6. /\ g \in [0..L -> S] /\ g[0] = <<>>
      /\ \A n \in 1..L : g[n] = F[<<g[n - 1], n>>]
    BY <1>5 DEF Recursion
<1>7. \A n \in 1..L : g[n - 1] \in S
    BY <1>1, <1>6
<1>8. \A n \in 1..L : F[<<g[n - 1], n>>] = E(g, n)
    BY <1>4, <1>7
<1> HIDE DEF E
<1>9. P(g)
  <2>1. g = [n \in 0..L |-> g[n]]
      BY <1>6
  <2>2. \A n \in 0..L : n = 0 \/ n \in 1..L
      BY <1>1
  <2>3. \A n \in 0..L : g[n] = IF n = 0 THEN <<>> ELSE E(g, n)
      BY <1>6, <1>8, <2>2
  <2> QED
      BY <2>1, <2>3
<1>10. Without(s, I) = (CHOOSE r : P(r))[L]
    BY DEF Without, P, L, E
<1> HIDE DEF P
<1> DEFINE rest == CHOOSE r : P(r)
<1>11. P(rest)
    BY <1>9
<1>12. Without(s, I) = rest[L]
    BY <1>10
<1> HIDE DEF rest
<1>13. 0 \in 0..L
    BY <1>1
<1>14. rest = [n \in 0..L |-> rest[n]] /\ rest[0] = <<>>
    BY <1>11, <1>13 DEF P
<1>15. ASSUME NEW n \in 1..L
       PROVE  rest[n] = E(rest, n)
    BY <1>2, <1>11 DEF P
<1> DEFINE B == {n \in 0..L : rest[n] \in S}
<1>16. 0 \in B /\ B \subseteq 0..L
    BY <1>1, <1>13, <1>14
<1>17. ASSUME NEW n \in 1..L, n - 1 \in B
       PROVE  n \in B
  <2>1. rest[n - 1] \in S /\ s[n] \in T
      BY <1>2, <1>17
  <2>2. Append(rest[n - 1], s[n]) \in S
      BY <2>1, AppendProperties DEF S
  <2>3. rest[n] \in S
      BY <1>15, <2>1, <2>2 DEF E
  <2> QED
      BY <1>2, <2>3
<1> HIDE DEF B
<1>18. B = 0..L
    BY <1>1, <1>16, <1>17, PlaceByPlace
<1>19. \A n \in 0..L : rest[n] \in S
    BY <1>18 DEF B
<1>20. rest \in [0..L -> S]
    BY <1>14, <1>19
<1>21. \A n \in 1..L : rest[n] = E(rest, n)
    BY <1>15
<1> QED
    BY <1>12, <1>14, <1>20, <1>21 DEF S, L, E, Leaving

LEMMA WithoutSeq ==
    ASSUME NEW T, NEW s \in Seq(T), NEW I
    PROVE  Without(s, I) \in Seq(T)
<1>1. PICK rest : Leaving(s, I, T, rest)
    BY WithoutSteps
<1> QED
    BY <1>1, LenProperties DEF Leaving

LEMMA WithoutNothing ==
    ASSUME NEW T, NEW s \in Seq(T), NEW I, I \cap (1..Len(s)) = {}
    PROVE  Without(s, I) = s
<1> DEFINE L == Len(s)
<1>1. PICK rest : Leaving(s, I, T, rest)
    BY WithoutSteps
<1>2. /\ rest \in [0..L -> Seq(T)] /\ rest[0] = <<>> /\ Without(s, I) = rest[L]
      /\ \A n \in 1..L : rest[n] = IF n \in I THEN rest[n - 1] ELSE Append(rest[n - 1], s[n])
    BY <1>1 DEF Leaving
<1>3. L \in Nat /\ \A n \in 1..L : s[n] \in T
    BY LenProperties, ElementOfSeq
<1> DEFINE B == {n \in 0..L : Len(rest[n]) = n /\ \A i \in 1..n : rest[n][i] = s[i]}
<1>4. 0 \in B /\ B \subseteq 0..L
    BY <1>2, <1>3, EmptySeq
<1>5. ASSUME NEW n \in 1..L, n - 1 \in B
      PROVE  n \in B
  <2>1. /\ rest[n - 1] \in Seq(T) /\ Len(rest[n - 1]) = n - 1 /\ s[n] \in T
        /\ \A i \in 1..n - 1 : rest[n - 1][i] = s[i]
      BY <1>2, <1>3, <1>5
  <2>2. rest[n] = Append(rest[n - 1], s[n])
      BY <1>2
  <2>3. Len(rest[n]) = n /\ \A i \in 1..n : rest[n][i] = s[i]
      BY <2>1, <2>2, AppendProperties
  <2> QED
      BY <2>3
<1> HIDE DEF B
<1>6. B = 0..L
    BY <1>3, <1>4, <1>5, PlaceByPlace
<1>7. L \in B
    BY <1>3, <1>6
<1>8. rest[L] \in Seq(T) /\ Len(rest[L]) = L /\ \A i \in 1..L : rest[L][i] = s[i]
    BY <1>2, <1>3, <1>7 DEF B
<1> QED
    BY <1>2, <1>8, SeqEqual

\* Some of the places of a list, in their order.
Ascending(places, n) ==
    /\ places \in Seq(1..n)
    /\ \A i, j \in 1..Len(places) : i < j => places[i] < places[j]

LEMMA PlacesAscend ==
    ASSUME NEW L \in Nat, NEW I
    PROVE  Ascending(Without([i \in 1..L |-> i], I), L)
<1> DEFINE s == [i \in 1..L |-> i]
<1>1. s \in Seq(Nat) /\ Len(s) = L
    OBVIOUS
<1>2. \A n \in 1..L : s[n] = n
    OBVIOUS
<1> HIDE DEF s
<1>3. PICK rest : Leaving(s, I, Nat, rest)
    BY <1>1, WithoutSteps
<1>4. /\ rest \in [0..L -> Seq(Nat)] /\ rest[0] = <<>> /\ Without(s, I) = rest[L]
      /\ \A n \in 1..L : rest[n] = IF n \in I THEN rest[n - 1] ELSE Append(rest[n - 1], s[n])
    BY <1>3, <1>1 DEF Leaving
<1> DEFINE B == {n \in 0..L : Ascending(rest[n], n)}
<1>5. 0 \in B /\ B \subseteq 0..L
    BY <1>4, EmptySeq DEF Ascending
<1>6. ASSUME NEW n \in 1..L, n - 1 \in B
      PROVE  n \in B
  <2> DEFINE r == rest[n - 1]
             q == rest[n]
  <2>1. Ascending(r, n - 1) /\ n \in Nat /\ n > 0 /\ n \in 0..L
      BY <1>6
  <2>2. q = IF n \in I THEN r ELSE Append(r, n)
      BY <1>2, <1>4
  <2> HIDE DEF r, q, B
  <2>3. /\ r \in Seq(1..n) /\ Len(r) \in Nat /\ n \in 1..n
        /\ \A i \in 1..Len(r) : r[i] \in 1..n - 1
        /\ \A i, j \in 1..Len(r) : i < j => r[i] < r[j]
      BY <2>1, LenProperties, ElementOfSeq DEF Ascending
  <2>4. CASE n \in I
      BY <2>1, <2>2, <2>3, <2>4 DEF Ascending, B, q
  <2>5. CASE n \notin I
    <3>1. /\ q \in Seq(1..n) /\ Len(q) = Len(r) + 1 /\ q[Len(r) + 1] = n
          /\ \A i \in 1..Len(r) : q[i] = r[i]
        BY <2>2, <2>3, <2>5, AppendProperties
    <3>2. ASSUME NEW i \in 1..Len(q), NEW j \in 1..Len(q), i < j
          PROVE  q[i] < q[j]
      <4>1. Len(r) \in Nat /\ Len(q) = Len(r) + 1
          BY <2>3, <3>1
      <4>2. i \in 1..Len(r) /\ (j \in 1..Len(r) \/ j = Len(r) + 1)
          BY <3>2, <4>1
      <4>3. CASE j \in 1..Len(r)
          BY <2>3, <3>1, <3>2, <4>2, <4>3
      <4>4. CASE j = Len(r) + 1
          BY <2>1, <2>3, <3>1, <4>2, <4>4
      <4> QED
          BY <4>2, <4>3, <4>4
    <3>3. Ascending(q, n)
        BY <3>1, <3>2 DEF Ascending
    <3> QED
        BY <2>1, <3>3 DEF B, q
  <2> QED
      BY <2>4, <2>5
<1> HIDE DEF B
<1>7. B = 0..L
    BY <1>5, <1>6, PlaceByPlace
<1>8. L \in B
    BY <1>7
<1> QED
    BY <1>4, <1>8 DEF B, s

-----------------------------------------------------------------------------
(* Lines *)

LEMMA NewlinedText ==
    ASSUME NEW s \in AllTexts
    PROVE  Newlined(s) \in AllTexts
<1> DEFINE rest == Without(s, {i \in DOMAIN s : i > 1 /\ s[i - 1] = "CR" /\ s[i] = "LF"})
<1>1. rest \in Seq(Units)
    BY WithoutSeq DEF AllTexts
<1>2. Newlined(s) = [i \in DOMAIN rest |-> IF rest[i] = "CR" THEN "LF" ELSE rest[i]]
    BY DEF Newlined
<1> HIDE DEF rest
<1>3. DOMAIN rest = 1..Len(rest) /\ Len(rest) \in Nat /\ \A i \in 1..Len(rest) : rest[i] \in Units
    BY <1>1, LenProperties, ElementOfSeq
<1>4. ASSUME NEW i \in 1..Len(rest)
      PROVE  (IF rest[i] = "CR" THEN "LF" ELSE rest[i]) \in Units
    BY <1>3 DEF Units
<1> QED
    BY <1>2, <1>3, <1>4 DEF AllTexts

\* Where line k of a text ends.
LineEnd(s, k) == IF k = Len(Starts(s)) THEN Len(s) ELSE Starts(s)[k + 1] - 1

\* The lines of a text follow each other, and none is empty.
LEMMA LineShape ==
    ASSUME NEW s \in AllTexts
    PROVE  /\ DOMAIN Lines(s) = 1..Len(Starts(s)) /\ Len(Starts(s)) \in Nat /\ Len(s) \in Nat
           /\ Lines(s) \in Seq(AllTexts) /\ Len(Lines(s)) = Len(Starts(s))
           /\ \A k \in 1..Len(Starts(s)) :
                 /\ Lines(s)[k] = SubSeq(s, Starts(s)[k], LineEnd(s, k))
                 /\ Starts(s)[k] \in 1..Len(s) /\ LineEnd(s, k) \in Starts(s)[k]..Len(s)
                 /\ k + 1 \in 1..Len(Starts(s)) => Starts(s)[k + 1] = LineEnd(s, k) + 1
<1> DEFINE st == Starts(s)
<1>1. DOMAIN s = 1..Len(s) /\ Len(s) \in Nat /\ s \in Seq(Units)
    BY LenProperties DEF AllTexts
<1>2. Ascending(st, Len(s))
    BY <1>1, PlacesAscend DEF Starts
<1>3. /\ st \in Seq(1..Len(s)) /\ Len(st) \in Nat /\ DOMAIN st = 1..Len(st)
      /\ \A k \in 1..Len(st) : st[k] \in 1..Len(s)
    BY <1>2, LenProperties, ElementOfSeq DEF Ascending
<1>4. Lines(s) = [k \in 1..Len(st) |-> SubSeq(s, st[k], LineEnd(s, k))]
    BY <1>3 DEF Lines, LineEnd
<1> HIDE DEF st
<1>5. ASSUME NEW k \in 1..Len(st)
      PROVE  /\ st[k] \in 1..Len(s) /\ LineEnd(s, k) \in st[k]..Len(s)
             /\ k + 1 \in 1..Len(st) => st[k + 1] = LineEnd(s, k) + 1
             /\ SubSeq(s, st[k], LineEnd(s, k)) \in AllTexts
  <2>1. st[k] \in 1..Len(s)
      BY <1>3
  <2>2. CASE k = Len(st)
    <3>1. LineEnd(s, k) = Len(s)
        BY <2>2 DEF LineEnd, st
    <3> QED
        BY <1>1, <1>3, <2>1, <2>2, <3>1, SubSeqProperties, ElementOfSeq DEF AllTexts
  <2>3. CASE k # Len(st)
    <3>1. LineEnd(s, k) = st[k + 1] - 1
        BY <2>3 DEF LineEnd, st
    <3>2. k + 1 \in 1..Len(st) /\ k < k + 1
      <4>1. Len(st) \in Nat
          BY <1>3
      <4> QED
          BY <2>3, <4>1
    <3>3. st[k] < st[k + 1] /\ st[k + 1] \in 1..Len(s)
        BY <1>2, <1>3, <3>2 DEF Ascending
    <3>4. LineEnd(s, k) \in st[k]..Len(s) /\ st[k + 1] = LineEnd(s, k) + 1
        BY <1>1, <2>1, <3>1, <3>3
    <3>5. \A i \in st[k]..LineEnd(s, k) : s[i] \in Units
        BY <1>1, <2>1, <3>4, ElementOfSeq
    <3>6. SubSeq(s, st[k], LineEnd(s, k)) \in AllTexts
        BY <1>1, <2>1, <3>4, <3>5, SubSeqProperties DEF AllTexts
    <3> QED
        BY <2>1, <3>4, <3>6
  <2> QED
      BY <2>2, <2>3
<1>6. Lines(s) \in Seq(AllTexts) /\ Len(Lines(s)) = Len(st)
    BY <1>3, <1>4, <1>5
<1> QED
    BY <1>1, <1>3, <1>4, <1>5, <1>6 DEF st

\* What puts a list of texts together one by one is FlattenSeq.
LEMMA Flattened ==
    ASSUME NEW seqs \in Seq(AllTexts), Len(seqs) > 0,
           NEW g, g[1] = seqs[1],
           \A i \in 1..Len(seqs) : i > 1 => g[i] = g[i - 1] \o seqs[i]
    PROVE  CO!FlattenSeq(seqs) = g[Len(seqs)]
<1> DEFINE L == Len(seqs)
           E(f, i) == f[i - 1] \o seqs[i]
           P(f) == f = [i \in 1..L |-> IF i = 1 THEN seqs[i] ELSE E(f, i)]
           f0 == [i \in 1..L |-> g[i]]
           h == CHOOSE f : P(f)
<1>1. L \in Nat /\ 1 \in 1..L /\ L # 0 /\ L \in 1..L
    BY LenProperties
<1>2. P(f0)
  <2>1. \A i \in 1..L : f0[i] = IF i = 1 THEN seqs[i] ELSE E(f0, i)
    <3>1. TAKE i \in 1..L
    <3>2. CASE i = 1
        BY <3>2
    <3>3. CASE i # 1
      <4>1. i > 1 /\ i - 1 \in 1..L
          BY <1>1, <3>3
      <4> QED
          BY <3>3, <4>1
    <3> QED
        BY <3>2, <3>3
  <2>2. f0 = [i \in 1..L |-> f0[i]]
      OBVIOUS
  <2> HIDE DEF f0, E
  <2> QED
      BY <2>1, <2>2
<1>3. CO!FlattenSeq(seqs) = h[L]
    BY <1>1 DEF CO!FlattenSeq
<1> HIDE DEF P
<1>4. P(h)
    BY <1>2
<1> HIDE DEF h, f0, L, E
<1>5. \A i \in 1..L : h[i] = IF i = 1 THEN seqs[i] ELSE E(h, i)
    BY <1>4 DEF P
<1> DEFINE B == {i \in 0..L : i # 0 => h[i] = g[i]}
<1>6. 0 \in B /\ B \subseteq 0..L
    BY <1>1
<1>7. ASSUME NEW i \in 1..L, i - 1 \in B
      PROVE  i \in B
  <2>1. CASE i = 1
      BY <1>1, <1>5, <2>1
  <2>2. CASE i # 1
    <3>1. i > 1 /\ i - 1 # 0 /\ i \in 0..L
        BY <1>1, <2>2
    <3>2. h[i - 1] = g[i - 1]
        BY <1>7, <3>1
    <3>3. h[i] = g[i]
        BY <1>5, <2>2, <3>1, <3>2 DEF E, L
    <3> QED
        BY <3>1, <3>3
  <2> QED
      BY <2>1, <2>2
<1> HIDE DEF B
<1>8. B = 0..L
    BY <1>1, <1>6, <1>7, PlaceByPlace
<1>9. L \in B
    BY <1>1, <1>8
<1> QED
    BY <1>1, <1>3, <1>9 DEF B, L

\* A range of lines is the text from where the first begins to where the last
\* ends.
LEMMA LinesAreText ==
    ASSUME NEW s \in AllTexts, NEW from \in DOMAIN Lines(s), NEW to \in DOMAIN Lines(s), from <= to
    PROVE  CO!FlattenSeq(SubSeq(Lines(s), from, to)) = SubSeq(s, Starts(s)[from], LineEnd(s, to))
<1> DEFINE N == Len(Starts(s))
           seqs == SubSeq(Lines(s), from, to)
           L == to - from + 1
           g == [i \in 1..L |-> SubSeq(s, Starts(s)[from], LineEnd(s, from + i - 1))]
<1>1. /\ N \in Nat /\ Len(s) \in Nat /\ from \in 1..N /\ to \in 1..N
      /\ Lines(s) \in Seq(AllTexts) /\ Len(Lines(s)) = N
    BY LineShape
<1>2. \A k \in 1..N :
         /\ Lines(s)[k] = SubSeq(s, Starts(s)[k], LineEnd(s, k))
         /\ Starts(s)[k] \in 1..Len(s) /\ LineEnd(s, k) \in Starts(s)[k]..Len(s)
         /\ k + 1 \in 1..N => Starts(s)[k + 1] = LineEnd(s, k) + 1
    BY LineShape
<1> HIDE DEF N
<1>3. L \in Nat /\ L > 0 /\ \A i \in 1..L : from + i - 1 \in 1..N
    BY <1>1
<1>4. seqs \in Seq(AllTexts) /\ Len(seqs) = L /\ \A i \in 1..L : seqs[i] = Lines(s)[from + i - 1]
  <2>1. \A i \in from..to : Lines(s)[i] \in AllTexts
      BY <1>1, ElementOfSeq
  <2> QED
      BY <1>1, <2>1, SubSeqProperties
<1>5. g[1] = seqs[1]
  <2>1. 1 \in 1..L /\ from + 1 - 1 = from
      BY <1>1, <1>3
  <2>2. seqs[1] = Lines(s)[from]
      BY <1>4, <2>1
  <2>3. g[1] = SubSeq(s, Starts(s)[from], LineEnd(s, from))
      BY <2>1
  <2> QED
      BY <1>1, <1>2, <2>2, <2>3
\* The ends do not decrease: each line ends after it begins, where the last ended.
<1>6. \A i \in 1..L : LineEnd(s, from + i - 1) >= Starts(s)[from]
  <2> DEFINE B == {i \in 0..L : i # 0 => LineEnd(s, from + i - 1) >= Starts(s)[from]}
  <2>1. 0 \in B /\ B \subseteq 0..L
      BY <1>3
  <2>2. ASSUME NEW i \in 1..L, i - 1 \in B
        PROVE  i \in B
    <3>1. from + i - 1 \in 1..N /\ Starts(s)[from] \in 1..Len(s) /\ i \in 0..L
        BY <1>1, <1>2, <1>3
    <3>2. CASE i = 1
        BY <1>1, <1>2, <3>1, <3>2
    <3>3. CASE i # 1
      <4>1. i - 1 \in 1..L /\ i - 1 # 0 /\ from + (i - 1) - 1 + 1 = from + i - 1
          BY <1>1, <3>3
      <4>2. LineEnd(s, from + (i - 1) - 1) >= Starts(s)[from]
          BY <2>2, <4>1
      <4> DEFINE k == from + (i - 1) - 1
      <4>3. k \in 1..N /\ k + 1 = from + i - 1
          BY <1>3, <4>1
      <4> HIDE DEF k
      <4>4. Starts(s)[k + 1] = LineEnd(s, k) + 1 /\ LineEnd(s, k) \in Starts(s)[k]..Len(s)
            /\ Starts(s)[k] \in 1..Len(s)
            /\ LineEnd(s, k + 1) \in Starts(s)[k + 1]..Len(s)
          BY <1>2, <3>1, <4>3
      <4>5. LineEnd(s, k) >= Starts(s)[from]
          BY <4>2 DEF k
      <4>6. LineEnd(s, k + 1) >= Starts(s)[from]
          BY <3>1, <4>4, <4>5
      <4> QED
          BY <3>1, <4>3, <4>6
    <3> QED
        BY <3>2, <3>3
  <2> HIDE DEF B
  <2>3. B = 0..L
      BY <1>3, <2>1, <2>2, PlaceByPlace
  <2> QED
      BY <2>3 DEF B
<1>7. ASSUME NEW i \in 1..L, i > 1
      PROVE  g[i] = g[i - 1] \o seqs[i]
  <2> DEFINE k == from + (i - 1) - 1
             m == Starts(s)[from]
  <2>1. i - 1 \in 1..L /\ k + 1 = from + i - 1
      BY <1>1, <1>7
  <2>2. k \in 1..N /\ k + 1 \in 1..N
      BY <1>3, <2>1
  <2>3. g[i] = SubSeq(s, m, LineEnd(s, k + 1)) /\ g[i - 1] = SubSeq(s, m, LineEnd(s, k))
      BY <2>1
  <2>4. seqs[i] = SubSeq(s, Starts(s)[k + 1], LineEnd(s, k + 1))
      BY <1>2, <1>4, <2>1, <2>2
  <2>5. LineEnd(s, k) >= m
      BY <1>6, <2>1
  <2> HIDE DEF g, k, seqs, L
  <2>6. /\ m \in 1..Len(s) /\ Starts(s)[k] \in 1..Len(s)
        /\ LineEnd(s, k) \in Starts(s)[k]..Len(s)
        /\ Starts(s)[k + 1] = LineEnd(s, k) + 1
        /\ LineEnd(s, k + 1) \in Starts(s)[k + 1]..Len(s)
      BY <1>1, <1>2, <2>2
  <2> HIDE DEF m
  <2>7. /\ m \in 1..Len(s) /\ LineEnd(s, k) \in 1..Len(s)
        /\ Starts(s)[k + 1] = LineEnd(s, k) + 1
        /\ LineEnd(s, k + 1) \in LineEnd(s, k) + 1..Len(s)
      BY <1>1, <2>6
  <2>8. SubSeq(s, m, LineEnd(s, k)) \o SubSeq(s, LineEnd(s, k) + 1, LineEnd(s, k + 1))
           = SubSeq(s, m, LineEnd(s, k + 1))
    <3> DEFINE a == LineEnd(s, k)
               b == LineEnd(s, k + 1)
    <3>1. m \in 1..Len(s) + 1 /\ a \in m - 1..Len(s) /\ b \in a..Len(s) /\ s \in Seq(Units)
        BY <1>1, <2>5, <2>7 DEF AllTexts
    <3> HIDE DEF a, b
    <3>2. SubSeq(s, m, a) \o SubSeq(s, a + 1, b) = SubSeq(s, m, b)
        BY <3>1, ConcatAdjacentSubSeq
    <3> QED
        BY <3>2 DEF a, b
  <2> QED
      BY <2>3, <2>4, <2>7, <2>8
<1>8. g[L] = SubSeq(s, Starts(s)[from], LineEnd(s, to))
  <2>1. L \in 1..L /\ from + L - 1 = to
      BY <1>1, <1>3
  <2> QED
      BY <2>1
<1> HIDE DEF g, seqs, L
<1>9. CO!FlattenSeq(seqs) = g[L]
    BY <1>3, <1>4, <1>5, <1>7, Flattened
<1> QED
    BY <1>8, <1>9 DEF seqs

-----------------------------------------------------------------------------
(* Reading, searching and editing see the same text *)

LEMMA OneText ==
    ASSUME NEW s \in AllTexts, Decodes(s)
    PROVE  /\ Newlined(s) \in AllTexts
           /\ ReadText(s) = Newlined(s) /\ SearchText(s) = Newlined(s) /\ EditText(s) = Newlined(s)
<1>1. s \in Seq(Units) /\ DOMAIN s = 1..Len(s) /\ \A i \in DOMAIN s : s[i] # "BAD"
    BY LenProperties DEF AllTexts, Decodes
<1>2. [i \in DOMAIN s |-> IF s[i] = "BAD" THEN "U+FFFD" ELSE s[i]] = s
    BY <1>1
<1>3. Without(s, {i \in DOMAIN s : s[i] = "BAD"}) = s
  <2>1. {i \in DOMAIN s : s[i] = "BAD"} \cap (1..Len(s)) = {}
      BY <1>1
  <2> QED
      BY <1>1, <2>1, WithoutNothing
<1> QED
    BY <1>2, <1>3, NewlinedText DEF ReadText, SearchText, EditText

\* A range of lines that read_file shows is found where its first line begins.
LEMMA ReadIsFound ==
    ASSUME NEW s \in AllTexts, Decodes(s),
           NEW from \in DOMAIN Lines(ReadText(s)), NEW to \in DOMAIN Lines(ReadText(s)), from <= to
    PROVE  Places(EditText(s), ReadLines(s, from, to)) # {}
<1> DEFINE x == Newlined(s)
           a == Starts(x)[from]
           b == LineEnd(x, to)
           part == SubSeq(x, a, b)
<1>1. x \in AllTexts /\ ReadText(s) = x /\ EditText(s) = x
    BY OneText
<1> HIDE DEF x
<1>2. ReadLines(s, from, to) = part
    BY <1>1, LinesAreText DEF ReadLines
<1>3. /\ Len(x) \in Nat /\ Len(Starts(x)) \in Nat
      /\ from \in 1..Len(Starts(x)) /\ to \in 1..Len(Starts(x))
      /\ a \in 1..Len(x) /\ b \in Starts(x)[to]..Len(x) /\ Starts(x)[to] \in 1..Len(x)
    BY <1>1, LineShape
<1>4. a <= Starts(x)[to]
  <2>1. DOMAIN x = 1..Len(x)
      BY <1>1, LenProperties DEF AllTexts
  <2>2. Ascending(Starts(x), Len(x))
      BY <1>3, <2>1, PlacesAscend DEF Starts
  <2>3. CASE from = to
      BY <1>3, <2>3
  <2>4. CASE from # to
    <3>1. from < to
        BY <1>3, <2>4
    <3>2. Starts(x)[from] < Starts(x)[to]
        BY <1>3, <2>2, <3>1 DEF Ascending
    <3> QED
        BY <1>3, <3>2
  <2> QED
      BY <2>3, <2>4
<1> HIDE DEF a, b
<1>5. a \in 1..Len(x) /\ b \in a..Len(x)
    BY <1>3, <1>4
<1>6. Len(part) = b - a + 1
  <2>1. \A i \in a..b : x[i] \in Units
      BY <1>1, <1>3, <1>5, ElementOfSeq DEF AllTexts
  <2> QED
      BY <1>3, <1>5, <2>1, SubSeqProperties
<1>7. a \in 1..Len(x) - Len(part) + 1 /\ a + Len(part) - 1 = b
    BY <1>3, <1>5, <1>6
<1>8. a \in Places(x, part)
    BY <1>7 DEF Places
<1> QED
    BY <1>1, <1>2, <1>8

\* Read one by one, the lines are the text's lines.
LEMMA OneLine ==
    ASSUME NEW s \in AllTexts, NEW k \in DOMAIN Lines(s)
    PROVE  /\ CO!FlattenSeq(SubSeq(Lines(s), k, k)) = Lines(s)[k]
           /\ Lines(s)[k] \in AllTexts /\ Len(Lines(s)[k]) \in Nat \ {0}
<1>1. /\ Len(Starts(s)) \in Nat /\ k \in 1..Len(Starts(s)) /\ Len(s) \in Nat
      /\ Lines(s)[k] = SubSeq(s, Starts(s)[k], LineEnd(s, k))
      /\ Starts(s)[k] \in 1..Len(s) /\ LineEnd(s, k) \in Starts(s)[k]..Len(s)
    BY LineShape
<1>2. CO!FlattenSeq(SubSeq(Lines(s), k, k)) = Lines(s)[k]
    BY <1>1, LinesAreText
<1>3. \A i \in Starts(s)[k]..LineEnd(s, k) : s[i] \in Units
    BY <1>1, ElementOfSeq DEF AllTexts
<1>4. Lines(s)[k] \in AllTexts /\ Len(Lines(s)[k]) = LineEnd(s, k) - Starts(s)[k] + 1
    BY <1>1, <1>3, SubSeqProperties DEF AllTexts
<1> QED
    BY <1>1, <1>2, <1>4

\* What is found in a line as search_code has it is in the line, and only a line
\* end can be found there alone.
LEMMA StrippedLine ==
    ASSUME NEW line \in AllTexts, Len(line) \in Nat \ {0}, NEW query \in AllTexts
    PROVE  /\ Places(Stripped(line), query) # {} => Places(line, query) # {}
           /\ \/ Places(line, query) # {} => Places(Stripped(line), query) # {}
              \/ \E i \in DOMAIN query : query[i] = "LF"
<1> DEFINE L == Len(line)
           M == Len(query)
           short == SubSeq(line, 1, L - 1)
<1>1. L \in Nat /\ L > 0 /\ M \in Nat /\ DOMAIN query = 1..M /\ query \in Seq(Units)
    BY LenProperties DEF AllTexts
<1>2. CASE line[L] # "LF"
    BY <1>2 DEF Stripped
<1>3. CASE line[L] = "LF"
  <2>1. Stripped(line) = short
      BY <1>3 DEF Stripped
  <2>2. \A i \in 1..L : line[i] \in Units
      BY ElementOfSeq DEF AllTexts
  <2> HIDE DEF L, M
  <2>3. \A i \in 1..L - 1 : line[i] \in Units
      BY <1>1, <2>2
  <2>4. short \in Seq(Units) /\ Len(short) = L - 1 /\ \A i \in 1..L - 1 : short[i] = line[i]
      BY <1>1, <2>3, SubSeqProperties
  <2> HIDE DEF short
  <2>5. ASSUME NEW i \in 1..L - 1 - M + 1
        PROVE  SubSeq(short, i, i + M - 1) = SubSeq(line, i, i + M - 1)
    <3>1. \A j \in i..i + M - 1 : j \in 1..L - 1 /\ short[j] = line[j] /\ short[j] \in Units
        BY <1>1, <2>3, <2>4
    <3>2. i \in Int /\ i + M - 1 \in Int
        BY <1>1
    <3>3. \A j \in 1..(i + M - 1) - i + 1 : i + j - 1 \in i..i + M - 1
        BY <1>1
    <3>4. /\ SubSeq(short, i, i + M - 1) \in Seq(Units)
          /\ Len(SubSeq(short, i, i + M - 1)) = M
          /\ \A j \in 1..(i + M - 1) - i + 1 : SubSeq(short, i, i + M - 1)[j] = short[i + j - 1]
        BY <1>1, <3>1, <3>2, SubSeqProperties
    <3>5. /\ SubSeq(line, i, i + M - 1) \in Seq(Units)
          /\ Len(SubSeq(line, i, i + M - 1)) = M
          /\ \A j \in 1..(i + M - 1) - i + 1 : SubSeq(line, i, i + M - 1)[j] = line[i + j - 1]
        BY <1>1, <3>1, <3>2, SubSeqProperties
    <3>6. M = (i + M - 1) - i + 1
        BY <1>1
    <3> QED
        BY <3>1, <3>3, <3>4, <3>5, <3>6, SeqEqual
  <2>6. Places(short, query) # {} => Places(line, query) # {}
    <3>1. SUFFICES ASSUME NEW i \in Places(short, query) PROVE i \in Places(line, query)
        OBVIOUS
    <3>2. i \in 1..L - 1 - M + 1 /\ SubSeq(short, i, i + M - 1) = query
        BY <2>4 DEF Places, M
    <3>3. i \in 1..L - M + 1
        BY <1>1, <3>2
    <3> QED
        BY <2>5, <3>2, <3>3 DEF Places, L, M
  <2>7. ASSUME NEW i \in Places(line, query), Places(short, query) = {}
        PROVE  \E j \in DOMAIN query : query[j] = "LF"
    <3>1. i \in 1..L - M + 1 /\ SubSeq(line, i, i + M - 1) = query
        BY DEF Places, L, M
    <3>2. i \notin 1..L - 1 - M + 1
        BY <2>4, <2>5, <2>7, <3>1 DEF Places, M
    <3>3. i + M - 1 = L /\ i \in 1..L + 1
        BY <1>1, <3>1, <3>2
    <3>4. CASE M = 0
      \* the empty text is found in any line
      <4>1. 1 \in 1..L - 1 - M + 1 /\ 1 \in 1..L - M + 1
          BY <1>1, <3>4
      <4>2. SubSeq(short, 1, 1 + M - 1) = <<>> /\ query = <<>>
          BY <1>1, <3>4, SubSeqEmpty, EmptySeq DEF M
      <4>3. 1 \in Places(short, query)
          BY <2>4, <4>1, <4>2 DEF Places, M
      <4> QED
          BY <2>7, <4>3
    <3>5. CASE M # 0
      <4>1. M \in 1..M /\ i \in Int /\ i + M - 1 \in Int /\ (i + M - 1) - i + 1 = M
          BY <1>1, <3>3, <3>5
      <4>2. \A j \in i..i + M - 1 : line[j] \in Units
          BY <1>1, <2>2, <3>1
      <4>3. \A j \in 1..(i + M - 1) - i + 1 : SubSeq(line, i, i + M - 1)[j] = line[i + j - 1]
          BY <4>1, <4>2, SubSeqProperties
      <4>4. query[M] = line[i + M - 1]
          BY <3>1, <4>1, <4>3
      <4>5. query[M] = "LF"
          BY <1>3, <3>3, <4>4
      <4> QED
          BY <1>1, <4>1, <4>5
    <3> QED
        BY <3>4, <3>5
  <2> QED
      BY <2>1, <2>6, <2>7
<1> QED
    BY <1>2, <1>3

-----------------------------------------------------------------------------
(* Counting and replacing *)

Founds == [n : Nat, free : Nat]

\* found[i] is what str.count has found when it has looked at the places up to i.
Counting(s, part, found) ==
    /\ found \in [0..Len(s) + 1 -> Founds]
    /\ found[0] = [n |-> 0, free |-> 1]
    /\ \A i \in 1..Len(s) + 1 :
          found[i] = IF i \in Places(s, part) /\ i >= found[i - 1].free
                     THEN [n |-> found[i - 1].n + 1, free |-> i + Len(part)]
                     ELSE found[i - 1]
    /\ Count(s, part) = found[Len(s) + 1].n

LEMMA CountSteps ==
    ASSUME NEW s \in AllTexts, NEW part \in AllTexts
    PROVE  \E found : Counting(s, part, found)
<1> DEFINE L == Len(s) + 1
           M == Len(part)
           Some(i, r) == IF i \in Places(s, part) /\ i >= r.free
                         THEN [n |-> r.n + 1, free |-> i + M] ELSE r
           F == [x \in Founds \X (1..L) |-> Some(x[2], x[1])]
           b == [n |-> 0, free |-> 1]
           E(found, i) == IF i \in Places(s, part) /\ i >= found[i - 1].free
                          THEN [n |-> found[i - 1].n + 1, free |-> i + M]
                          ELSE found[i - 1]
           P(found) == found = [i \in 0..L |-> IF i = 0 THEN b ELSE E(found, i)]
<1>1. L \in Nat /\ b \in Founds /\ M \in Nat /\ 0 \in 0..L
    BY LenProperties DEF AllTexts, Founds
<1>2. \A n \in 1..L : n \in 0..L /\ n # 0 /\ n - 1 \in 0..L /\ n \in Nat
    BY <1>1
<1>3. \A r \in Founds, i \in 1..L : Some(i, r) \in Founds
    BY <1>1, <1>2 DEF Founds
<1>4. \A found, i : E(found, i) = Some(i, found[i - 1])
    OBVIOUS
<1> HIDE DEF Some, L, M, b
<1>5. F \in [Founds \X (1..L) -> Founds] /\ \A r \in Founds, i \in 1..L : F[<<r, i>>] = Some(i, r)
    BY <1>3
<1> HIDE DEF F
<1>6. PICK g : Recursion(L, Founds, b, F, g)
    BY <1>1, <1>5, RecursionExists
<1>7. /\ g \in [0..L -> Founds] /\ g[0] = b
      /\ \A n \in 1..L : g[n] = F[<<g[n - 1], n>>]
    BY <1>6 DEF Recursion
<1>8. \A n \in 1..L : g[n - 1] \in Founds
    BY <1>2, <1>7
<1>9. \A n \in 1..L : F[<<g[n - 1], n>>] = E(g, n)
    BY <1>4, <1>5, <1>8
<1> HIDE DEF E
<1>10. P(g)
  <2>1. g = [n \in 0..L |-> g[n]]
      BY <1>7
  <2>2. \A n \in 0..L : n = 0 \/ n \in 1..L
      BY <1>1
  <2>3. \A n \in 0..L : g[n] = IF n = 0 THEN b ELSE E(g, n)
      BY <1>7, <1>9, <2>2
  <2> QED
      BY <2>1, <2>3
<1> DEFINE found == CHOOSE f : P(f)
<1>11. Count(s, part) = found[L].n
    BY DEF Count, E, L, M, b
<1> HIDE DEF P
<1>12. P(found)
    BY <1>10
<1> HIDE DEF found
<1>13. found = [n \in 0..L |-> found[n]] /\ found[0] = b
    BY <1>1, <1>12 DEF P
<1>14. ASSUME NEW n \in 1..L
       PROVE  found[n] = E(found, n)
    BY <1>2, <1>12 DEF P
<1> DEFINE B == {n \in 0..L : found[n] \in Founds}
<1>15. 0 \in B /\ B \subseteq 0..L
    BY <1>1, <1>13
<1>16. ASSUME NEW n \in 1..L, n - 1 \in B
       PROVE  n \in B
    BY <1>2, <1>3, <1>4, <1>14, <1>16
<1> HIDE DEF B
<1>17. B = 0..L
    BY <1>1, <1>15, <1>16, PlaceByPlace
<1>18. \A n \in 0..L : found[n] \in Founds
    BY <1>17 DEF B
<1>19. found \in [0..L -> Founds]
    BY <1>13, <1>18
<1>20. \A n \in 1..L : found[n] = E(found, n)
    BY <1>14
<1> QED
    BY <1>11, <1>13, <1>19, <1>20 DEF Counting, E, L, M, b

LEMMA PlacesAre ==
    ASSUME NEW s \in AllTexts, NEW part \in AllTexts
    PROVE  \A i \in Places(s, part) : i \in 1..Len(s) + 1 /\ i + Len(part) - 1 <= Len(s)
BY LenProperties DEF Places, AllTexts

\* What is counted once is found first somewhere.
LEMMA CountedIsFound ==
    ASSUME NEW s \in AllTexts, NEW part \in AllTexts, Places(s, part) = {}
    PROVE  Count(s, part) = 0
<1> DEFINE L == Len(s) + 1
<1>1. PICK found : Counting(s, part, found)
    BY CountSteps
<1>2. L \in Nat
    BY LenProperties DEF AllTexts
<1> DEFINE B == {i \in 0..L : found[i].n = 0}
<1>3. 0 \in B /\ B \subseteq 0..L
    BY <1>1, <1>2 DEF Counting
<1>4. ASSUME NEW i \in 1..L, i - 1 \in B
      PROVE  i \in B
    BY <1>1, <1>2, <1>4 DEF Counting
<1> HIDE DEF B
<1>5. B = 0..L
    BY <1>2, <1>3, <1>4, PlaceByPlace
<1> QED
    BY <1>1, <1>2, <1>5 DEF B, Counting

\* A text that is counted once is at its first place, and elsewhere only over it.
LEMMA CountedOnce ==
    ASSUME NEW s \in AllTexts, NEW part \in AllTexts,
           NEW i \in Places(s, part), \A k \in Places(s, part) : i <= k,
           NEW j \in Places(s, part), j >= i + Len(part), j # i
    PROVE  Count(s, part) # 1
<1> DEFINE L == Len(s) + 1
           M == Len(part)
<1>1. PICK found : Counting(s, part, found)
    BY CountSteps
<1>2. L \in Nat /\ M \in Nat /\ i \in 1..L /\ j \in 1..L /\ j > i
    BY LenProperties, PlacesAre DEF AllTexts
<1>3. /\ found[0] = [n |-> 0, free |-> 1]
      /\ \A k \in 0..L : found[k].n \in Nat /\ found[k].free \in Nat
      /\ \A k \in 1..L :
            found[k] = IF k \in Places(s, part) /\ k >= found[k - 1].free
                       THEN [n |-> found[k - 1].n + 1, free |-> k + M]
                       ELSE found[k - 1]
      /\ Count(s, part) = found[L].n
    BY <1>1 DEF Counting, Founds
<1> HIDE DEF L, M
<1> DEFINE Good(r, k) == /\ k < i => r.n = 0 /\ r.free = 1
                         /\ k >= i => r.n >= 1 /\ (r.n = 1 => r.free = i + M)
                         /\ k >= j => r.n >= 2
           B == {k \in 0..L : Good(found[k], k)}
<1>4. 0 \in B /\ B \subseteq 0..L
    BY <1>2, <1>3
<1>5. ASSUME NEW k \in 1..L, k - 1 \in B
      PROVE  k \in B
  <2> DEFINE r == found[k - 1]
             q == found[k]
  <2>1. Good(r, k - 1) /\ r.n \in Nat /\ r.free \in Nat /\ k \in Nat /\ k >= 1 /\ k \in 0..L
      BY <1>2, <1>3, <1>5
  <2>2. q = IF k \in Places(s, part) /\ k >= r.free
            THEN [n |-> r.n + 1, free |-> k + M] ELSE r
      BY <1>3
  <2> HIDE DEF r, q, B
  <2>3. \/ /\ k \in Places(s, part) /\ k >= r.free
           /\ q.n = r.n + 1 /\ q.free = k + M
        \/ /\ k \notin Places(s, part) \/ k < r.free
           /\ q.n = r.n /\ q.free = r.free
    <3>1. CASE k \in Places(s, part) /\ k >= r.free
        BY <2>2, <3>1
    <3>2. CASE ~ (k \in Places(s, part) /\ k >= r.free)
        BY <2>1, <2>2, <3>2
    <3> QED
        BY <3>1, <3>2
  <2>4. CASE k < i
      BY <1>2, <2>1, <2>3, <2>4 DEF B, q
  <2>5. CASE k = i
      BY <1>2, <2>1, <2>3, <2>5 DEF B, q
  <2>6. CASE k > i
    <3>1. k - 1 >= i /\ r.n >= 1 /\ (r.n = 1 => r.free = i + M)
        BY <1>2, <2>1, <2>6
    <3>2. q.n >= 1 /\ (q.n = 1 => q.free = i + M)
        BY <1>2, <2>1, <2>3, <3>1
    <3>3. k >= j => q.n >= 2
      <4>1. CASE k = j
          BY <1>2, <2>1, <2>3, <3>1, <4>1 DEF M
      <4>2. CASE k > j
          BY <1>2, <2>1, <2>3, <4>2
      <4> QED
          BY <1>2, <2>1, <4>1, <4>2
    <3> QED
        BY <1>2, <2>1, <2>6, <3>2, <3>3 DEF B, q
  <2> QED
      BY <1>2, <2>1, <2>4, <2>5, <2>6
<1> HIDE DEF B
<1>6. B = 0..L
    BY <1>2, <1>4, <1>5, PlaceByPlace
<1>7. L \in B /\ L >= j
    BY <1>2, <1>6
<1>8. found[L].n >= 2
    BY <1>2, <1>7 DEF B
<1> QED
    BY <1>2, <1>3, <1>8

\* The place str.replace(old, new, 1) replaces, and what becomes of the text.
LEMMA ReplacedIsText ==
    ASSUME NEW s \in AllTexts, NEW old \in AllTexts, NEW new \in AllTexts, Unique(s, old)
    PROVE  /\ ReplacedFirst(s, old, new) \in AllTexts
           /\ \E i \in Places(s, old) :
                 /\ ReplacedFirst(s, old, new)
                       = SubSeq(s, 1, i - 1) \o new \o SubSeq(s, i + Len(old), Len(s))
                 /\ \A j \in Places(s, old) :
                       j = i \/ (j < i + Len(old) /\ i < j + Len(old))
<1> DEFINE P(i) == i \in Places(s, old) /\ \A j \in Places(s, old) : i <= j
           i == CHOOSE i \in Places(s, old) : \A j \in Places(s, old) : i <= j
           left == SubSeq(s, 1, i - 1)
           right == SubSeq(s, i + Len(old), Len(s))
<1>1. Len(s) \in Nat /\ Len(old) \in Nat /\ s \in Seq(Units) /\ new \in Seq(Units)
    BY LenProperties DEF AllTexts
<1>2. Places(s, old) # {} /\ Places(s, old) \in SUBSET Nat
    BY <1>1, CountedIsFound, PlacesAre DEF Unique
<1>3. i \in Places(s, old) /\ \A j \in Places(s, old) : i <= j
    BY <1>2, LeastPlace
<1>4. ReplacedFirst(s, old, new) = left \o new \o right
    BY DEF ReplacedFirst
<1> HIDE DEF i
<1>5. i \in 1..Len(s) + 1 /\ i + Len(old) - 1 <= Len(s)
    BY <1>3, PlacesAre
<1>6. left \in Seq(Units) /\ right \in Seq(Units)
  <2>1. (\A k \in 1..i - 1 : s[k] \in Units) /\ i - 1 \in Int
      BY <1>1, <1>5, ElementOfSeq
  <2>2. (\A k \in i + Len(old)..Len(s) : s[k] \in Units) /\ i + Len(old) \in Int
      BY <1>1, <1>5, ElementOfSeq
  <2> QED
      BY <1>1, <2>1, <2>2, SubSeqProperties
<1> HIDE DEF left, right
<1>7. left \o new \o right \in Seq(Units)
    BY <1>1, <1>6, ConcatProperties
<1>8. ASSUME NEW j \in Places(s, old), j # i
      PROVE  j < i + Len(old) /\ i < j + Len(old)
  <2>1. j \in Nat /\ i \in Nat /\ i <= j
      BY <1>2, <1>3, <1>5
  <2>2. ~ (j >= i + Len(old))
      BY <1>3, <1>8, CountedOnce DEF Unique
  <2> QED
      BY <1>1, <1>8, <2>1, <2>2
<1>9. ReplacedFirst(s, old, new) \in AllTexts
    BY <1>4, <1>7 DEF AllTexts
<1> QED
    BY <1>3, <1>4, <1>8, <1>9 DEF left, right

-----------------------------------------------------------------------------
(* The invariant *)

\* The directories the workspace is in are there, and it is one if it is there.
Placed(t) ==
    /\ \A n \in 0..Len(Root) - 1 : IsDir(t, SubSeq(Root, 1, n))
    /\ Root \in DOMAIN t => IsDir(t, Root)

WellPlaced(t) == TreeOK(t) /\ Placed(t)

IInv == TypeOK /\ Placed(tree)

LEMMA RootFacts ==
    /\ Root \in Paths /\ Len(Root) \in Nat /\ Len(Root) > 0
    /\ SubSeq(Root, 1, Len(Root)) = Root
<1>1. Root \in Paths /\ Root # <<>>
    BY PathAssumption
<1>2. Len(Root) \in Nat \ {0}
    BY <1>1, EmptySeq DEF Paths
<1> QED
    BY <1>1, <1>2, WholePath

LEMMA TreeFacts ==
    ASSUME NEW t, TreeOK(t), NEW p \in DOMAIN t
    PROVE  /\ p \in Paths /\ t[p] \in Entries
           /\ t[p].kind \in {"dir", "file", "link"} /\ t[p].text \in AllTexts /\ t[p].to \in Paths
BY DEF TreeOK, Entries

LEMMA TopIsLinkFree ==
    ASSUME NEW t, TreeOK(t)
    PROVE  <<>> \in Paths /\ LinkFree(t, <<>>)
<1>1. <<>> \in Paths /\ Len(<<>>) = 0 /\ SubSeq(<<>>, 1, 0) = <<>>
    BY EmptySeq, SubSeqEmpty DEF Paths
<1>2. t[<<>>].kind = "dir"
    BY DEF TreeOK, IsDir
<1>3. \A n \in 0..Len(<<>>) : SubSeq(<<>>, 1, n) = <<>>
    BY <1>1
<1>4. LinkFree(t, <<>>)
    BY <1>2, <1>3 DEF LinkFree
<1> QED
    BY <1>1, <1>4

LEMMA RootIsLinkFree ==
    ASSUME NEW t, WellPlaced(t)
    PROVE  LinkFree(t, Root)
<1>1. ASSUME NEW n \in 0..Len(Root), SubSeq(Root, 1, n) \in DOMAIN t
      PROVE  t[SubSeq(Root, 1, n)].kind # "link"
  <2>1. n \in 0..Len(Root) - 1 \/ n = Len(Root)
    <3>1. Len(Root) \in Nat
        BY RootFacts
    <3> QED
        BY <3>1
  <2>2. IsDir(t, SubSeq(Root, 1, n))
      BY <1>1, <2>1, RootFacts DEF WellPlaced, Placed
  <2> QED
      BY <2>2 DEF IsDir
<1> QED
    BY <1>1 DEF LinkFree

LEMMA PrefixLinkFree ==
    ASSUME NEW t, NEW p \in Paths, NEW n \in 0..Len(p), LinkFree(t, p)
    PROVE  LinkFree(t, SubSeq(p, 1, n))
<1> DEFINE q == SubSeq(p, 1, n)
<1>1. Len(p) \in Nat /\ Len(q) = n /\ \A m \in 0..n : SubSeq(q, 1, m) = SubSeq(p, 1, m)
    BY PrefixPath, WholePath
<1> HIDE DEF q
<1>2. \A m \in 0..Len(q) : m \in 0..Len(p) /\ SubSeq(q, 1, m) = SubSeq(p, 1, m)
    BY <1>1
<1>3. LinkFree(t, q)
    BY <1>2 DEF LinkFree
<1> QED
    BY <1>3 DEF q

\* One name more leads from a path without links to another one.
LEMMA FollowLinkFree ==
    ASSUME NEW t, TreeOK(t), NEW at \in Paths, LinkFree(t, at), NEW name \in Names
    PROVE  Follow(t, at, name) \in Paths /\ LinkFree(t, Follow(t, at, name))
<1>1. Len(at) \in Nat
    BY WholePath
<1>2. CASE name = ".."
  <2>1. Follow(t, at, name) = SubSeq(at, 1, Len(at) - 1)
      BY <1>2 DEF Follow
  <2>2. CASE Len(at) = 0
    <3>1. SubSeq(at, 1, Len(at) - 1) = <<>>
        BY <2>2, SubSeqEmpty
    <3> QED
        BY <2>1, <3>1, TopIsLinkFree
  <2>3. CASE Len(at) # 0
    <3>1. Len(at) - 1 \in 0..Len(at)
        BY <1>1, <2>3
    <3> QED
        BY <2>1, <3>1, PrefixPath, PrefixLinkFree
  <2> QED
      BY <2>2, <2>3
<1>3. CASE name # ".."
  <2> DEFINE p == Append(at, name)
  <2>1. p \in Paths /\ Len(p) = Len(at) + 1 /\ \A i \in 1..Len(at) : p[i] = at[i]
    <3>1. at \in Seq(Names)
        BY DEF Paths
    <3> QED
        BY <3>1, AppendProperties DEF Paths
  <2>2. Follow(t, at, name) = IF p \in DOMAIN t /\ t[p].kind = "link" THEN t[p].to ELSE p
      BY <1>3 DEF Follow
  <2> HIDE DEF p
  <2>3. CASE p \in DOMAIN t /\ t[p].kind = "link"
      BY <2>2, <2>3, TreeFacts DEF TreeOK
  <2>4. CASE ~ (p \in DOMAIN t /\ t[p].kind = "link")
    <3>1. \A n \in 0..Len(at) : SubSeq(p, 1, n) = SubSeq(at, 1, n)
      <4>1. TAKE n \in 0..Len(at)
      <4>2. n \in 0..Len(p)
          BY <1>1, <2>1
      <4>3. /\ SubSeq(p, 1, n) \in Paths /\ Len(SubSeq(p, 1, n)) = n
            /\ \A i \in 1..n : SubSeq(p, 1, n)[i] = p[i]
          BY <2>1, <4>2, PrefixPath
      <4>4. /\ SubSeq(at, 1, n) \in Paths /\ Len(SubSeq(at, 1, n)) = n
            /\ \A i \in 1..n : SubSeq(at, 1, n)[i] = at[i]
          BY PrefixPath
      <4>5. \A i \in 1..n : p[i] = at[i]
          BY <1>1, <2>1
      <4> QED
          BY <4>3, <4>4, <4>5, SeqEqual DEF Paths
    <3>2. SubSeq(p, 1, Len(p)) = p
        BY <2>1, WholePath
    <3>3. \A n \in 0..Len(p) : n \in 0..Len(at) \/ n = Len(p)
        BY <1>1, <2>1
    <3>4. LinkFree(t, p)
        BY <2>4, <3>1, <3>2, <3>3 DEF LinkFree
    <3> QED
        BY <2>1, <2>2, <2>4, <3>4
  <2> QED
      BY <2>3, <2>4
<1> QED
    BY <1>2, <1>3

\* What a request leads to is a path without links.
LEMMA ResolvedPath ==
    ASSUME NEW t, WellPlaced(t), NEW q \in Requests
    PROVE  Resolved(t, q) \in Paths /\ LinkFree(t, Resolved(t, q))
<1> DEFINE L == Len(q.parts)
           S == {p \in Paths : LinkFree(t, p)}
           b == IF q.absolute THEN <<>> ELSE Root
           F == [x \in S \X (1..L) |-> Follow(t, x[1], q.parts[x[2]])]
           E(at, n) == Follow(t, at[n - 1], q.parts[n])
           P(at) == at = [n \in 0..L |-> IF n = 0 THEN b ELSE E(at, n)]
<1>1. L \in Nat /\ q.parts \in Seq(Names) /\ \A n \in 1..L : q.parts[n] \in Names
    BY PathAssumption, LenProperties, ElementOfSeq DEF Paths
<1>2. b \in S
    BY TopIsLinkFree, RootIsLinkFree, RootFacts DEF WellPlaced
<1>3. \A p \in S, n \in 1..L : Follow(t, p, q.parts[n]) \in S
    BY <1>1, FollowLinkFree DEF WellPlaced
<1>4. \A n \in 1..L : n \in 0..L /\ n # 0 /\ n - 1 \in 0..L
    BY <1>1
<1>5. 0 \in 0..L /\ L \in 0..L /\ \A n \in 0..L : n = 0 \/ n \in 1..L
    BY <1>1
<1> HIDE DEF L, S, b
<1>6. F \in [S \X (1..L) -> S] /\ \A p \in S, n \in 1..L : F[<<p, n>>] = Follow(t, p, q.parts[n])
    BY <1>3
<1> HIDE DEF F
<1>7. PICK g : Recursion(L, S, b, F, g)
    BY <1>1, <1>2, <1>6, RecursionExists
<1>8. /\ g \in [0..L -> S] /\ g[0] = b
      /\ \A n \in 1..L : g[n] = F[<<g[n - 1], n>>]
    BY <1>7 DEF Recursion
<1>9. \A n \in 1..L : F[<<g[n - 1], n>>] = E(g, n)
  <2>1. \A n \in 1..L : g[n - 1] \in S
      BY <1>4, <1>8
  <2> QED
      BY <1>6, <2>1
<1> HIDE DEF E
<1>10. P(g)
  <2>1. g = [n \in 0..L |-> g[n]]
      BY <1>8
  <2>2. \A n \in 0..L : g[n] = IF n = 0 THEN b ELSE E(g, n)
      BY <1>5, <1>8, <1>9
  <2> QED
      BY <2>1, <2>2
<1> DEFINE at == CHOOSE f : P(f)
<1>11. Resolved(t, q) = at[L]
    BY DEF Resolved, E, L, b
<1> HIDE DEF P
<1>12. P(at)
    BY <1>10
<1> HIDE DEF at
<1>13. at[0] = b
    BY <1>5, <1>12 DEF P
<1>14. \A n \in 1..L : at[n] = E(at, n)
    BY <1>4, <1>12 DEF P
<1> DEFINE B == {n \in 0..L : at[n] \in S}
<1>15. 0 \in B /\ B \subseteq 0..L
    BY <1>2, <1>5, <1>13
<1>16. ASSUME NEW n \in 1..L, n - 1 \in B
       PROVE  n \in B
    BY <1>3, <1>4, <1>14, <1>16 DEF E
<1> HIDE DEF B
<1>17. B = 0..L
    BY <1>1, <1>15, <1>16, PlaceByPlace
<1>18. at[L] \in S
    BY <1>5, <1>17 DEF B
<1> QED
    BY <1>11, <1>18 DEF S

-----------------------------------------------------------------------------
(* What the tools make of a tree *)

\* p is what it was.
Alike(t, u, p) == (p \in DOMAIN t <=> p \in DOMAIN u) /\ (p \in DOMAIN t => u[p] = t[p])

\* The links of u are links of t.
LinksKept(t, u) == \A p \in DOMAIN u : u[p].kind = "link" => p \in DOMAIN t /\ u[p] = t[p]

LEMMA LinkFreeKept ==
    ASSUME NEW t, NEW u, LinksKept(t, u), NEW p, LinkFree(t, p)
    PROVE  LinkFree(u, p)
BY DEF LinkFree, LinksKept

LEMMA ParentPath ==
    ASSUME NEW p \in Paths, p # <<>>
    PROVE  /\ Len(p) \in Nat /\ Len(p) > 0 /\ Len(p) - 1 \in 0..Len(p)
           /\ SubSeq(p, 1, Len(p) - 1) \in Paths
           /\ Len(SubSeq(p, 1, Len(p) - 1)) = Len(p) - 1
<1>1. Len(p) \in Nat \ {0}
    BY EmptySeq DEF Paths
<1>2. Len(p) - 1 \in 0..Len(p) /\ Len(p) > 0
    BY <1>1
<1>3. SubSeq(p, 1, Len(p) - 1) \in Paths /\ Len(SubSeq(p, 1, Len(p) - 1)) = Len(p) - 1
    BY <1>2, PrefixPath
<1> QED
    BY <1>1, <1>2, <1>3

LEMMA UnderParent ==
    ASSUME NEW p \in Paths, p # <<>>
    PROVE  Under(p, SubSeq(p, 1, Len(p) - 1))
<1> DEFINE d == SubSeq(p, 1, Len(p) - 1)
<1>1. Len(p) \in Nat /\ d \in Paths /\ Len(d) = Len(p) - 1
    BY ParentPath
<1>2. d = SubSeq(p, 1, Len(d))
    BY <1>1
<1> HIDE DEF d
<1>3. Len(d) <= Len(p)
    BY <1>1
<1>4. Under(p, d)
    BY <1>1, <1>2, <1>3, UnderPrefix
<1> QED
    BY <1>4 DEF d

\* A tree that keeps the directories of another and has one above every new path
\* is as well placed.
LEMMA TreeGrown ==
    ASSUME NEW t, WellPlaced(t), NEW u, u \in [DOMAIN u -> Entries], DOMAIN u \subseteq Paths,
           DOMAIN t \subseteq DOMAIN u, LinksKept(t, u),
           \A p \in DOMAIN t : IsDir(t, p) => IsDir(u, p),
           \A p \in DOMAIN u \ DOMAIN t : p # <<>> => IsDir(u, SubSeq(p, 1, Len(p) - 1)),
           Root \in DOMAIN u => IsDir(u, Root)
    PROVE  WellPlaced(u)
<1>1. TreeOK(t) /\ Placed(t)
    BY DEF WellPlaced
<1>2. IsDir(u, <<>>)
    BY <1>1 DEF TreeOK, IsDir
<1>3. ASSUME NEW p \in DOMAIN u, p # <<>>
      PROVE  IsDir(u, SubSeq(p, 1, Len(p) - 1))
  <2>1. CASE p \in DOMAIN t
    <3>1. IsDir(t, SubSeq(p, 1, Len(p) - 1))
        BY <1>1, <1>3, <2>1 DEF TreeOK
    <3> QED
        BY <3>1 DEF IsDir
  <2>2. CASE p \notin DOMAIN t
      BY <1>3, <2>2
  <2> QED
      BY <2>1, <2>2
<1>4. ASSUME NEW p \in DOMAIN u, u[p].kind = "link"
      PROVE  LinkFree(u, u[p].to)
    BY <1>1, <1>4, LinkFreeKept DEF TreeOK, LinksKept
<1>5. \A n \in 0..Len(Root) - 1 : IsDir(u, SubSeq(Root, 1, n))
    BY <1>1 DEF Placed, IsDir
<1> QED
    BY <1>2, <1>3, <1>4, <1>5 DEF WellPlaced, TreeOK, Placed

LEMMA EntriesMade ==
    /\ Directory \in Entries /\ Directory.kind = "dir"
    /\ \A text \in AllTexts : File(text) \in Entries /\ File(text).kind = "file"
<1>1. <<>> \in AllTexts /\ <<>> \in Paths
    BY EmptySeq DEF AllTexts, Paths
<1> QED
    BY <1>1 DEF Directory, File, Entries

LEMMA EnsuredTree ==
    ASSUME WellPlaced(tree)
    PROVE  /\ WellPlaced(Ensured) /\ LinksKept(tree, Ensured) /\ IsDir(Ensured, Root)
           /\ DOMAIN Ensured = DOMAIN tree \cup {Root}
           /\ \A p \in DOMAIN tree : Ensured[p] = tree[p]
<1> DEFINE u == Ensured
<1>1. /\ DOMAIN u = DOMAIN tree \cup {Root}
      /\ \A p \in DOMAIN tree : u[p] = tree[p]
      /\ Root \notin DOMAIN tree => u[Root] = Directory
    BY DEF Ensured, Having
<1>2. u = [p \in DOMAIN u |-> u[p]]
    BY DEF Ensured, Having
<1> HIDE DEF u
<1>3. /\ TreeOK(tree) /\ Placed(tree) /\ tree \in [DOMAIN tree -> Entries]
      /\ DOMAIN tree \subseteq Paths
    BY DEF WellPlaced, TreeOK
<1>4. \A p \in DOMAIN u : u[p] \in Entries
    BY <1>1, <1>3, EntriesMade
<1>5. u \in [DOMAIN u -> Entries]
    BY <1>2, <1>4
<1>6. DOMAIN u \subseteq Paths /\ DOMAIN tree \subseteq DOMAIN u
    BY <1>1, <1>3, RootFacts
<1>7. LinksKept(tree, u)
    BY <1>1, EntriesMade DEF LinksKept
<1>8. IsDir(u, Root)
    BY <1>1, <1>3, EntriesMade DEF IsDir, Placed
<1>9. \A p \in DOMAIN tree : IsDir(tree, p) => IsDir(u, p)
    BY <1>1 DEF IsDir
<1>10. \A p \in DOMAIN u \ DOMAIN tree : IsDir(u, SubSeq(p, 1, Len(p) - 1))
  <2>1. SUFFICES ASSUME Root \notin DOMAIN tree
                 PROVE  IsDir(u, SubSeq(Root, 1, Len(Root) - 1))
      BY <1>1
  <2>2. Len(Root) - 1 \in 0..Len(Root) - 1
    <3>1. Len(Root) \in Nat /\ Len(Root) > 0
        BY RootFacts
    <3> QED
        BY <3>1
  <2>3. IsDir(tree, SubSeq(Root, 1, Len(Root) - 1))
      BY <1>3, <2>2 DEF Placed
  <2> QED
      BY <1>9, <2>3 DEF IsDir
<1>11. WellPlaced(u)
    BY <1>5, <1>6, <1>7, <1>8, <1>9, <1>10, TreeGrown
<1> QED
    BY <1>1, <1>7, <1>8, <1>11 DEF u

\* mkdir(parents=True) on the way to a path with no file and no link above it.
LEMMA ParentsMade ==
    ASSUME NEW t, WellPlaced(t), IsDir(t, Root), NEW p \in Paths, p # <<>>, LinkFree(t, p),
           \A n \in 1..Len(p) - 1 : ~ IsFile(t, SubSeq(p, 1, n))
    PROVE  LET u == WithParents(t, p)
           IN  /\ WellPlaced(u) /\ LinksKept(t, u)
               /\ DOMAIN u = DOMAIN t \cup {SubSeq(p, 1, n) : n \in 0..Len(p) - 1}
               /\ \A q \in DOMAIN t : u[q] = t[q]
               /\ IsDir(u, SubSeq(p, 1, Len(p) - 1))
<1> DEFINE u == WithParents(t, p)
           above == {SubSeq(p, 1, n) : n \in 0..Len(p) - 1}
<1>1. /\ DOMAIN u = DOMAIN t \cup above
      /\ \A q \in DOMAIN t : u[q] = t[q]
      /\ \A q \in above : q \notin DOMAIN t => u[q] = Directory
      /\ u = [q \in DOMAIN u |-> u[q]]
    BY DEF WithParents
<1> HIDE DEF u
<1>2. /\ TreeOK(t) /\ Placed(t) /\ t \in [DOMAIN t -> Entries] /\ DOMAIN t \subseteq Paths
      /\ IsDir(t, <<>>) /\ Len(p) \in Nat /\ Len(p) > 0
    BY ParentPath DEF WellPlaced, TreeOK
<1>3. ASSUME NEW n \in 0..Len(p) - 1
      PROVE  /\ SubSeq(p, 1, n) \in Paths /\ Len(SubSeq(p, 1, n)) = n
             /\ IsDir(u, SubSeq(p, 1, n))
             /\ n > 0 => /\ SubSeq(SubSeq(p, 1, n), 1, n - 1) = SubSeq(p, 1, n - 1)
                         /\ n - 1 \in 0..Len(p) - 1
  <2>1. n \in 0..Len(p) /\ (n > 0 => n - 1 \in 0..n /\ n - 1 \in 0..Len(p) - 1)
      BY <1>2
  <2>2. /\ SubSeq(p, 1, n) \in Paths /\ Len(SubSeq(p, 1, n)) = n
        /\ n > 0 => SubSeq(SubSeq(p, 1, n), 1, n - 1) = SubSeq(p, 1, n - 1)
      BY <2>1, PrefixPath
  <2>3. IsDir(u, SubSeq(p, 1, n))
    <3>1. CASE SubSeq(p, 1, n) \notin DOMAIN t
        BY <1>1, <3>1, EntriesMade DEF IsDir
    <3>2. CASE SubSeq(p, 1, n) \in DOMAIN t
      <4>1. t[SubSeq(p, 1, n)].kind \in {"dir", "file", "link"}
          BY <1>2, <3>2, TreeFacts
      <4>2. t[SubSeq(p, 1, n)].kind # "link"
          BY <2>1, <3>2 DEF LinkFree
      <4>3. t[SubSeq(p, 1, n)].kind # "file"
        <5>1. CASE n = 0
          <6>1. SubSeq(p, 1, n) = <<>>
              BY <5>1, SubSeqEmpty
          <6> QED
              BY <1>2, <6>1 DEF IsDir
        <5>2. CASE n # 0
          <6>1. n \in 1..Len(p) - 1
              BY <1>2, <5>2
          <6> QED
              BY <3>2, <6>1 DEF IsFile
        <5> QED
            BY <5>1, <5>2
      <4> QED
          BY <1>1, <3>2, <4>1, <4>2, <4>3 DEF IsDir
    <3> QED
        BY <3>1, <3>2
  <2> QED
      BY <2>1, <2>2, <2>3
<1>4. \A q \in DOMAIN u : u[q] \in Entries
    BY <1>1, <1>2, EntriesMade
<1>5. u \in [DOMAIN u -> Entries] /\ DOMAIN u \subseteq Paths /\ DOMAIN t \subseteq DOMAIN u
    BY <1>1, <1>2, <1>3, <1>4
<1>6. LinksKept(t, u)
    BY <1>1, EntriesMade DEF LinksKept
<1>7. \A q \in DOMAIN t : IsDir(t, q) => IsDir(u, q)
    BY <1>1 DEF IsDir
<1>8. ASSUME NEW q \in DOMAIN u \ DOMAIN t, q # <<>>
      PROVE  IsDir(u, SubSeq(q, 1, Len(q) - 1))
  <2>1. PICK n \in 0..Len(p) - 1 : q = SubSeq(p, 1, n)
      BY <1>1
  <2>2. n > 0
    <3>1. n = 0 => SubSeq(p, 1, n) = <<>>
        BY SubSeqEmpty
    <3> QED
        BY <1>2, <1>8, <2>1, <3>1
  <2>3. Len(q) = n /\ SubSeq(q, 1, n - 1) = SubSeq(p, 1, n - 1) /\ n - 1 \in 0..Len(p) - 1
      BY <1>3, <2>1, <2>2
  <2> QED
      BY <1>3, <2>3
<1>9. IsDir(u, Root)
    BY <1>7 DEF IsDir
<1>10. WellPlaced(u)
    BY <1>5, <1>6, <1>7, <1>8, <1>9, TreeGrown
<1>11. IsDir(u, SubSeq(p, 1, Len(p) - 1))
  <2>1. Len(p) - 1 \in 0..Len(p) - 1
      BY <1>2
  <2> QED
      BY <1>3, <2>1
<1> QED
    BY <1>1, <1>6, <1>10, <1>11 DEF u

\* A file is put where its directory is and no directory is.
LEMMA FilePut ==
    ASSUME NEW t, WellPlaced(t), NEW p \in Paths, p # <<>>, p # Root \/ p \in DOMAIN t,
           IsDir(t, SubSeq(p, 1, Len(p) - 1)), ~ IsDir(t, p), NEW text \in AllTexts
    PROVE  WellPlaced(Having(t, p, File(text)))
<1> DEFINE u == Having(t, p, File(text))
<1>1. /\ DOMAIN u = DOMAIN t \cup {p} /\ u[p] = File(text)
      /\ \A q \in DOMAIN t : q # p => u[q] = t[q]
      /\ u = [q \in DOMAIN u |-> u[q]]
    BY DEF Having
<1> HIDE DEF u
<1>2. TreeOK(t) /\ t \in [DOMAIN t -> Entries] /\ DOMAIN t \subseteq Paths
    BY DEF WellPlaced, TreeOK
<1>3. \A q \in DOMAIN u : u[q] \in Entries
    BY <1>1, <1>2, EntriesMade
<1>4. /\ u \in [DOMAIN u -> Entries] /\ DOMAIN u \subseteq Paths /\ DOMAIN t \subseteq DOMAIN u
    BY <1>1, <1>2, <1>3
<1>5. LinksKept(t, u)
    BY <1>1, EntriesMade DEF LinksKept
<1>6. \A q \in DOMAIN t : IsDir(t, q) => IsDir(u, q)
    BY <1>1 DEF IsDir
<1>7. \A q \in DOMAIN u \ DOMAIN t : IsDir(u, SubSeq(q, 1, Len(q) - 1))
    BY <1>1, <1>6 DEF IsDir
<1>8. Root \in DOMAIN u => IsDir(u, Root)
    BY <1>1, <1>6 DEF WellPlaced, Placed
<1>9. WellPlaced(u)
    BY <1>4, <1>5, <1>6, <1>7, <1>8, TreeGrown
<1> QED
    BY <1>9 DEF u

\* What goes takes along what is below it, and spares what the workspace is in.
LEMMA TreePruned ==
    ASSUME NEW t, WellPlaced(t), NEW gone,
           <<>> \notin gone,
           \A n \in 0..Len(Root) - 1 : SubSeq(Root, 1, n) \notin gone,
           \A p \in DOMAIN t \ gone : p # <<>> => SubSeq(p, 1, Len(p) - 1) \notin gone
    PROVE  WellPlaced([p \in DOMAIN t \ gone |-> t[p]])
<1> DEFINE u == [p \in DOMAIN t \ gone |-> t[p]]
<1>1. TreeOK(t) /\ Placed(t) /\ t \in [DOMAIN t -> Entries] /\ DOMAIN t \subseteq Paths
    BY DEF WellPlaced, TreeOK
<1>2. /\ DOMAIN u = DOMAIN t \ gone
      /\ \A p \in DOMAIN u : u[p] = t[p]
      /\ u \in [DOMAIN u -> Entries] /\ DOMAIN u \subseteq Paths
    BY <1>1
<1> HIDE DEF u
<1>3. \A p : p \notin gone /\ IsDir(t, p) => IsDir(u, p)
    BY <1>2 DEF IsDir
<1>4. LinksKept(t, u)
    BY <1>2 DEF LinksKept
<1>5. IsDir(u, <<>>)
    BY <1>1, <1>3 DEF TreeOK
<1>6. \A p \in DOMAIN u : p # <<>> => IsDir(u, SubSeq(p, 1, Len(p) - 1))
    BY <1>1, <1>2, <1>3 DEF TreeOK
<1>7. \A p \in DOMAIN u : u[p].kind = "link" => LinkFree(u, u[p].to)
    BY <1>1, <1>2, <1>4, LinkFreeKept DEF TreeOK
<1>8. TreeOK(u)
    BY <1>2, <1>5, <1>6, <1>7 DEF TreeOK
<1>9. Placed(u)
    BY <1>1, <1>2, <1>3 DEF Placed, IsDir
<1> QED
    BY <1>8, <1>9 DEF WellPlaced, u

-----------------------------------------------------------------------------
(* What each tool does to the tree *)

\* Only what is in the workspace and not denied becomes another.
Proper(t, u) ==
    \A p \in DOMAIN t \cup DOMAIN u : Alike(t, u, p) \/ (Under(p, Root) /\ ~ Denied(p))

LEMMA RootProper == Under(Root, Root) /\ ~ Denied(Root)
<1>1. Root \in Paths /\ Len(Root) \in Nat /\ SubSeq(Root, 1, Len(Root)) = Root
    BY RootFacts
<1> QED
    BY <1>1, UnderPrefix DEF Denied

LEMMA EnsuredKeeps ==
    ASSUME WellPlaced(tree)
    PROVE  WellPlaced(Ensured) /\ Proper(tree, Ensured)
BY EnsuredTree, RootProper DEF Proper, Alike

\* The paths on the way to a proper one.
LEMMA AboveProper ==
    ASSUME NEW t, Placed(t), NEW p \in Paths, Under(p, Root), ~ Denied(p),
           NEW n \in 0..Len(p), SubSeq(p, 1, n) \notin DOMAIN t
    PROVE  Under(SubSeq(p, 1, n), Root) /\ ~ Denied(SubSeq(p, 1, n))
<1>1. Len(p) \in Nat /\ Len(Root) \in Nat /\ Root \in Paths
    BY WholePath, RootFacts
<1>2. Len(Root) <= Len(p) /\ Root = SubSeq(p, 1, Len(Root))
    BY <1>1, UnderPrefix
<1>3. CASE n < Len(Root)
  <2>1. n \in 0..Len(Root) - 1 /\ n \in 0..Len(Root) /\ Len(Root) \in 0..Len(p)
      BY <1>1, <1>2, <1>3
  <2>2. SubSeq(Root, 1, n) = SubSeq(p, 1, n)
      BY <1>2, <2>1, PrefixPath
  <2> QED
      BY <2>1, <2>2 DEF Placed, IsDir
<1>4. CASE n >= Len(Root)
  <2>1. n \in Len(Root)..Len(p)
      BY <1>1, <1>4
  <2> QED
      BY <1>1, <2>1, PrefixUnder, DeniedAbove
<1> QED
    BY <1>1, <1>3, <1>4

\* What is safe is in the workspace, below where it is, and not denied.
LEMMA SafePath ==
    ASSUME NEW t, WellPlaced(t), NEW q \in Requests, Safe(t, q)
    PROVE  LET p == Resolved(t, q)
           IN  /\ p \in Paths /\ p # <<>> /\ LinkFree(t, p)
               /\ Under(p, Root) /\ ~ Denied(p)
<1> DEFINE p == Resolved(t, q)
<1>1. p \in Paths /\ LinkFree(t, p)
    BY ResolvedPath
<1>2. Under(p, Root) /\ ~ Denied(p)
    BY DEF Safe
<1> HIDE DEF p
<1>3. Len(Root) <= Len(p) /\ Len(Root) \in Nat /\ Len(Root) > 0
    BY <1>1, <1>2, UnderPrefix, RootFacts
<1>4. p # <<>>
    BY <1>3, EmptySeq
<1> QED
    BY <1>1, <1>2, <1>4 DEF p

\* Whatever write_text writes, it puts a file at p, or else has written nothing.
LEMMA WriteTextPuts ==
    ASSUME NEW tool, NEW p, NEW t, NEW text \in AllTexts, WriteText(tool, p, t, text)
    PROVE  /\ answer' \in [tool : {tool}, outcome : {"ok", "refused", "raised"}]
           /\ \/ tree' = t /\ answer'.outcome = "refused"
              \/ \E cut \in AllTexts :
                    /\ tree' = Having(t, p, File(cut))
                    /\ answer'.outcome = "ok" => cut = text
<1>1. <<>> \in AllTexts /\ \A n \in 0..Len(text) : SubSeq(text, 1, n) \in AllTexts
  <2>1. Len(text) \in Nat /\ \A i \in 1..Len(text) : text[i] \in Units
      BY LenProperties, ElementOfSeq DEF AllTexts
  <2>2. ASSUME NEW n \in 0..Len(text)
        PROVE  SubSeq(text, 1, n) \in AllTexts
    <3>1. \A i \in 1..n : text[i] \in Units
        BY <2>1
    <3> QED
        BY <2>1, <3>1, SubSeqProperties DEF AllTexts
  <2> QED
      BY <2>2, EmptySeq DEF AllTexts
<1> QED
    BY <1>1 DEF WriteText, Answer

Answers == [tool : {"read", "write_file", "edit_file", "delete_file"},
            outcome : {"ok", "refused", "raised"}]

LEMMA RefusesKeeps ==
    ASSUME WellPlaced(tree), NEW tool \in {"read", "write_file", "edit_file", "delete_file"},
           Refuses(tool)
    PROVE  WellPlaced(tree') /\ Proper(tree, tree') /\ answer' \in Answers
BY EnsuredKeeps DEF Refuses, Answer, Answers

LEMMA ReadsKeep ==
    ASSUME WellPlaced(tree), NEW q, ListFiles(q) \/ ReadFile(q) \/ SearchCode(q)
    PROVE  WellPlaced(tree') /\ Proper(tree, tree') /\ answer' \in Answers /\ answer'.tool = "read"
BY EnsuredKeeps DEF ListFiles, ReadFile, SearchCode, ReadOnly, Answer, Answers

LEMMA WriteKeeps ==
    ASSUME WellPlaced(tree), NEW q \in Requests, NEW text \in Texts, NEW overwrite,
           WriteFile(q, text, overwrite)
    PROVE  /\ WellPlaced(tree') /\ Proper(tree, tree')
           /\ answer' \in Answers /\ answer'.tool = "write_file"
<1> DEFINE p == Resolved(tree, q)
           v == WithParents(Ensured, p)
           refused == \/ ~ Safe(tree, q) \/ Obstructed(p)
                      \/ IsDir(Ensured, p) \/ (IsFile(tree, p) /\ ~ overwrite)
<1>1. CASE refused
  <2>1. Refuses("write_file")
      BY <1>1 DEF WriteFile
  <2> QED
      BY <2>1, RefusesKeeps DEF Refuses, Answer
<1>2. CASE ~ refused
  <2>1. WriteText("write_file", p, v, text)
      BY <1>2 DEF WriteFile
  <2>2. /\ p \in Paths /\ p # <<>> /\ LinkFree(tree, p) /\ Under(p, Root) /\ ~ Denied(p)
        /\ ~ Obstructed(p) /\ ~ IsDir(Ensured, p)
      BY <1>2, SafePath
  <2> HIDE DEF p
  <2>3. /\ WellPlaced(Ensured) /\ LinksKept(tree, Ensured) /\ IsDir(Ensured, Root)
        /\ DOMAIN Ensured = DOMAIN tree \cup {Root}
        /\ \A d \in DOMAIN tree : Ensured[d] = tree[d]
      BY EnsuredTree
  <2>4. LinkFree(Ensured, p)
      BY <2>2, <2>3, LinkFreeKept
  <2>5. \A n \in 1..Len(p) - 1 : ~ IsFile(Ensured, SubSeq(p, 1, n))
      BY <2>2, <2>3 DEF Obstructed, IsFile, IsDir
  <2>6. /\ WellPlaced(v)
        /\ DOMAIN v = DOMAIN Ensured \cup {SubSeq(p, 1, n) : n \in 0..Len(p) - 1}
        /\ \A d \in DOMAIN Ensured : v[d] = Ensured[d]
        /\ IsDir(v, SubSeq(p, 1, Len(p) - 1))
      BY <2>2, <2>3, <2>4, <2>5, ParentsMade
  <2>7. /\ Len(p) \in Nat /\ Len(p) > 0
        /\ \A n \in 0..Len(p) - 1 :
              n \in 0..Len(p) /\ Len(SubSeq(p, 1, n)) = n /\ SubSeq(p, 1, n) # p
    <3>1. Len(p) \in Nat /\ Len(p) > 0
        BY <2>2, ParentPath
    <3>2. ASSUME NEW n \in 0..Len(p) - 1
          PROVE  n \in 0..Len(p) /\ Len(SubSeq(p, 1, n)) = n /\ SubSeq(p, 1, n) # p
      <4>1. n \in 0..Len(p) /\ n # Len(p)
          BY <3>1
      <4>2. Len(SubSeq(p, 1, n)) = n
          BY <2>2, <4>1, PrefixPath
      <4> QED
          BY <4>1, <4>2
    <3> QED
        BY <3>1, <3>2
  <2> HIDE DEF v
  <2>8. ~ IsDir(v, p)
      BY <2>2, <2>6, <2>7 DEF IsDir
  <2>9. p # Root
      BY <2>3, <2>6, <2>8 DEF IsDir
  <2>10. /\ answer' \in [tool : {"write_file"}, outcome : {"ok", "refused", "raised"}]
         /\ tree' = v \/ \E cut \in AllTexts : tree' = Having(v, p, File(cut))
      BY <2>1, TextAssumption, WriteTextPuts
  <2>11. /\ WellPlaced(tree')
         /\ DOMAIN tree' \subseteq DOMAIN v \cup {p}
         /\ DOMAIN v \subseteq DOMAIN tree'
         /\ \A d \in DOMAIN v : d # p => tree'[d] = v[d]
    <3>1. CASE tree' = v
        BY <2>6, <3>1
    <3>2. CASE \E cut \in AllTexts : tree' = Having(v, p, File(cut))
      <4>1. PICK cut \in AllTexts : tree' = Having(v, p, File(cut))
          BY <3>2
      <4>2. WellPlaced(Having(v, p, File(cut)))
          BY <2>2, <2>6, <2>8, <2>9, FilePut
      <4> QED
          BY <4>1, <4>2 DEF Having
    <3> QED
        BY <2>10, <3>1, <3>2
  <2>12. ASSUME NEW d \in DOMAIN tree \cup DOMAIN tree'
         PROVE  Alike(tree, tree', d) \/ (Under(d, Root) /\ ~ Denied(d))
    <3>1. CASE d = p
        BY <2>2, <3>1
    <3>2. CASE d = Root
        BY <3>2, RootProper
    <3>3. CASE d \in DOMAIN tree /\ d # p
        BY <2>3, <2>6, <2>11, <3>3 DEF Alike
    <3>4. CASE d \notin DOMAIN tree /\ d # p /\ d # Root
      <4>1. PICK n \in 0..Len(p) - 1 : d = SubSeq(p, 1, n)
          BY <2>3, <2>6, <2>11, <3>4
      <4> QED
          BY <2>2, <2>7, <3>4, <4>1, AboveProper DEF WellPlaced
    <3> QED
        BY <3>1, <3>2, <3>3, <3>4
  <2> QED
      BY <2>10, <2>11, <2>12 DEF Proper, Answers
<1> QED
    BY <1>1, <1>2

\* edit_file leaves all but its file, and has replaced one place when it says so.
LEMMA EditKeeps ==
    ASSUME WellPlaced(tree), NEW q \in Requests, NEW old \in OldTexts, NEW new \in Texts,
           EditFile(q, old, new)
    PROVE  /\ WellPlaced(tree') /\ Proper(tree, tree')
           /\ answer' \in Answers /\ answer'.tool = "edit_file"
           /\ answer'.outcome = "ok" =>
                 LET p == Resolved(tree, q)
                     s == EditText(tree[p].text)
                 IN  /\ IsFile(tree, p) /\ s \in AllTexts /\ Unique(s, old)
                     /\ tree' = Having(tree, p, File(ReplacedFirst(s, old, new)))
<1> DEFINE p == Resolved(tree, q)
           s == EditText(tree[p].text)
           text == ReplacedFirst(s, old, new)
<1>1. CASE ~ Safe(tree, q) \/ ~ IsFile(tree, p)
  <2>1. Refuses("edit_file")
      BY <1>1 DEF EditFile
  <2> QED
      BY <2>1, RefusesKeeps DEF Refuses, Answer
<1>2. CASE Safe(tree, q) /\ IsFile(tree, p) /\ ~ Decodes(tree[p].text)
  <2>1. Answer("edit_file", "raised") /\ tree' = tree
      BY <1>2 DEF EditFile
  <2> QED
      BY <2>1 DEF Answer, Answers, Proper, Alike
<1>3. CASE Safe(tree, q) /\ IsFile(tree, p) /\ Decodes(tree[p].text) /\ ~ Unique(s, old)
  <2>1. Refuses("edit_file")
      BY <1>3 DEF EditFile
  <2> QED
      BY <2>1, RefusesKeeps DEF Refuses, Answer
<1>4. CASE Safe(tree, q) /\ IsFile(tree, p) /\ Decodes(tree[p].text) /\ Unique(s, old)
  <2>1. WriteText("edit_file", p, tree, text)
      BY <1>4 DEF EditFile
  <2>2. p \in Paths /\ p # <<>> /\ Under(p, Root) /\ ~ Denied(p)
      BY <1>4, SafePath
  <2>3. s \in AllTexts
      BY <1>4, TreeFacts, NewlinedText DEF WellPlaced, IsFile, EditText
  <2>4. text \in AllTexts
      BY <1>4, <2>3, TextAssumption, ReplacedIsText
  <2> HIDE DEF p
  <2>5. /\ answer' \in [tool : {"edit_file"}, outcome : {"ok", "refused", "raised"}]
        /\ \/ tree' = tree /\ answer'.outcome = "refused"
           \/ \E cut \in AllTexts :
                 /\ tree' = Having(tree, p, File(cut))
                 /\ answer'.outcome = "ok" => cut = text
      BY <2>1, <2>4, WriteTextPuts
  <2>6. /\ IsDir(tree, SubSeq(p, 1, Len(p) - 1)) /\ ~ IsDir(tree, p) /\ p \in DOMAIN tree
      BY <1>4, <2>2 DEF WellPlaced, TreeOK, IsFile, IsDir
  <2>7. ASSUME tree' = tree
        PROVE  WellPlaced(tree') /\ Proper(tree, tree')
      BY <2>7 DEF Proper, Alike
  <2> HIDE DEF text
  <2>8. ASSUME tree' # tree \/ answer'.outcome # "refused"
        PROVE  /\ WellPlaced(tree') /\ Proper(tree, tree')
               /\ answer'.outcome = "ok" => tree' = Having(tree, p, File(text))
    <3>1. PICK cut \in AllTexts :
             /\ tree' = Having(tree, p, File(cut))
             /\ answer'.outcome = "ok" => cut = text
        BY <2>5, <2>8
    <3>2. /\ DOMAIN tree' = DOMAIN tree \cup {p}
          /\ \A d \in DOMAIN tree : d # p => tree'[d] = tree[d]
        BY <3>1 DEF Having
    <3>3. Proper(tree, tree')
        BY <2>2, <2>6, <3>2 DEF Proper, Alike
    <3>4. WellPlaced(tree')
        BY <2>2, <2>6, <3>1, FilePut
    <3>5. answer'.outcome = "ok" => tree' = Having(tree, p, File(text))
        BY <3>1
    <3> QED
        BY <3>3, <3>4, <3>5
  <2>9. /\ WellPlaced(tree') /\ Proper(tree, tree')
        /\ answer'.outcome = "ok" => tree' = Having(tree, p, File(text))
      BY <2>7, <2>8
  <2>10. answer' \in Answers /\ answer'.tool = "edit_file"
      BY <2>5 DEF Answers
  <2> QED
      BY <1>4, <2>3, <2>9, <2>10 DEF p, text
<1> QED
    BY <1>1, <1>2, <1>3, <1>4

\* What delete_file does of q's path: it and what is below it goes, or some of
\* what is below it.
LEMMA DeleteKeeps ==
    ASSUME WellPlaced(tree), NEW q \in Requests, DeleteFile(q)
    PROVE  /\ WellPlaced(tree')
           /\ answer' \in Answers /\ answer'.tool = "delete_file"
           /\ \A d \in DOMAIN tree \cup DOMAIN tree' :
                 \/ Alike(tree, tree', d)
                 \/ d = Root
                 \/ /\ d \notin DOMAIN tree'
                    /\ Safe(tree, q) /\ Under(d, Resolved(tree, q))
<1> DEFINE p == Resolved(tree, q)
           below == {d \in DOMAIN tree : Under(d, p)}
<1>1. /\ WellPlaced(Ensured) /\ DOMAIN Ensured = DOMAIN tree \cup {Root}
      /\ \A d \in DOMAIN tree : Ensured[d] = tree[d]
    BY EnsuredTree
<1>2. CASE ~ Safe(tree, q) \/ p \notin DOMAIN Ensured
  <2>1. Refuses("delete_file")
      BY <1>2 DEF DeleteFile
  <2>2. WellPlaced(tree') /\ answer' \in Answers /\ tree' = Ensured /\ answer'.tool = "delete_file"
      BY <2>1, RefusesKeeps DEF Refuses, Answer
  <2> QED
      BY <1>1, <2>2 DEF Alike
<1>3. CASE Safe(tree, q) /\ p \in DOMAIN Ensured
  <2>1. p \in Paths /\ Under(p, Root)
      BY <1>3, SafePath
  <2>2. DOMAIN tree \subseteq Paths /\ DOMAIN Ensured \subseteq Paths
      BY <1>1 DEF WellPlaced, TreeOK
  <2> HIDE DEF p
  <2>3. /\ Len(Root) \in Nat /\ Len(Root) > 0 /\ Root \in Paths /\ Len(p) \in Nat
        /\ Len(Root) <= Len(p)
      BY <2>1, RootFacts, WholePath, UnderPrefix
  \* nothing shorter than the workspace's path is below p
  <2>4. \A n \in 0..Len(Root) - 1 : SubSeq(Root, 1, n) \notin below
    <3>1. TAKE n \in 0..Len(Root) - 1
    <3>2. n \in 0..Len(Root)
        BY <2>3
    <3>3. SubSeq(Root, 1, n) \in Paths /\ Len(SubSeq(Root, 1, n)) = n
        BY <2>3, <3>2, PrefixPath
    <3>4. ~ (Len(p) <= n)
        BY <2>3
    <3> QED
        BY <2>1, <3>3, <3>4, UnderPrefix
  <2>5. <<>> \notin below
    <3>1. SubSeq(Root, 1, 0) = <<>> /\ 0 \in 0..Len(Root) - 1
        BY <2>3, SubSeqEmpty
    <3> QED
        BY <2>4, <3>1
  \* what is not below p is not in a directory below p
  <2>6. \A d, g \in Paths : d # <<>> /\ Under(SubSeq(d, 1, Len(d) - 1), g) => Under(d, g)
    <3>1. TAKE d, g \in Paths
    <3>2. HAVE d # <<>> /\ Under(SubSeq(d, 1, Len(d) - 1), g)
    <3>3. /\ Len(d) \in Nat /\ Len(d) - 1 \in 0..Len(d) /\ SubSeq(d, 1, Len(d) - 1) \in Paths
          /\ Len(SubSeq(d, 1, Len(d) - 1)) = Len(d) - 1
        BY <3>2, ParentPath
    <3>4. Under(d, SubSeq(d, 1, Len(d) - 1))
        BY <3>2, UnderParent
    <3> QED
        BY <3>2, <3>3, <3>4, UnderTransitive
  <2>7. CASE /\ Answer("delete_file", "ok")
             /\ tree' = [d \in DOMAIN tree \ below |-> tree[d]]
    <3>1. \A d \in DOMAIN tree \ below : d # <<>> => SubSeq(d, 1, Len(d) - 1) \notin below
        BY <2>1, <2>2, <2>6
    <3> HIDE DEF below
    <3>2. WellPlaced(tree')
        BY <2>4, <2>5, <2>7, <3>1, TreePruned
    <3> QED
        BY <1>3, <2>7, <3>2 DEF Answer, Answers, Alike, below, p
  <2>8. CASE /\ Answer("delete_file", "refused")
             /\ \E gone \in SUBSET (below \ {p}) :
                   /\ \A g \in gone : {d \in below : Under(d, g)} \subseteq gone
                   /\ tree' = [d \in DOMAIN Ensured \ gone |-> Ensured[d]]
    <3>1. PICK gone \in SUBSET (below \ {p}) :
                   /\ \A g \in gone : {d \in below : Under(d, g)} \subseteq gone
                   /\ tree' = [d \in DOMAIN Ensured \ gone |-> Ensured[d]]
        BY <2>8
    <3>2. <<>> \notin gone /\ \A n \in 0..Len(Root) - 1 : SubSeq(Root, 1, n) \notin gone
        BY <2>4, <2>5, <3>1
    <3>3. ASSUME NEW d \in DOMAIN Ensured \ gone, d # <<>>
          PROVE  SubSeq(d, 1, Len(d) - 1) \notin gone
      <4>1. SUFFICES ASSUME SubSeq(d, 1, Len(d) - 1) \in gone PROVE FALSE
          OBVIOUS
      <4> DEFINE g == SubSeq(d, 1, Len(d) - 1)
      <4>2. d \in Paths /\ g \in below /\ g \in Paths /\ Len(d) \in Nat /\ Len(d) - 1 \in 0..Len(d)
          BY <2>2, <3>1, <3>3, <4>1, ParentPath
      <4>3. Under(d, p)
          BY <2>1, <2>6, <3>3, <4>2
      <4>4. CASE d \in DOMAIN tree
        <5>1. Under(g, g)
            BY <4>2, UnderPrefix, WholePath
        <5>2. Under(d, g)
            BY <2>6, <3>3, <4>2, <5>1
        <5> QED
            BY <3>1, <3>3, <4>1, <4>3, <4>4, <5>2
      <4>5. CASE d = Root
        <5>1. Len(Root) - 1 \in 0..Len(Root) - 1
            BY <2>3
        <5> QED
            BY <3>2, <4>1, <4>5, <5>1
      <4> QED
          BY <1>1, <3>3, <4>4, <4>5
    <3> HIDE DEF below
    <3>4. WellPlaced(tree')
        BY <1>1, <3>1, <3>2, <3>3, TreePruned
    <3>5. ASSUME NEW d \in DOMAIN tree \cup DOMAIN tree'
          PROVE  \/ Alike(tree, tree', d) \/ d = Root
                 \/ d \notin DOMAIN tree' /\ Safe(tree, q) /\ Under(d, p)
        BY <1>1, <1>3, <3>1 DEF Alike, below
    <3> QED
        BY <2>8, <3>4, <3>5 DEF Answer, Answers, p
  <2> QED
      BY <1>3, <2>7, <2>8 DEF DeleteFile, p
<1> QED
    BY <1>2, <1>3

-----------------------------------------------------------------------------
(* The theorems *)

LEMMA InitPlaced == Init => IInv
<1> SUFFICES ASSUME Init PROVE IInv
    OBVIOUS
<1> DEFINE L == Len(Root)
           B == {m \in 0..L : IsDir(tree, SubSeq(Root, 1, L - m))}
<1>1. TreeOK(tree) /\ IsDir(tree, Root)
    BY TreeAssumption DEF Init
<1>2. L \in Nat /\ SubSeq(Root, 1, L) = Root /\ Root \in Paths
    BY RootFacts
<1>3. 0 \in B /\ B \subseteq 0..L
  <2>1. 0 \in 0..L /\ L - 0 = L
      BY <1>2
  <2>2. IsDir(tree, SubSeq(Root, 1, L - 0))
      BY <1>1, <1>2, <2>1
  <2> QED
      BY <2>1, <2>2
<1>4. ASSUME NEW m \in 1..L, m - 1 \in B
      PROVE  m \in B
  <2> DEFINE d == SubSeq(Root, 1, L - (m - 1))
  <2>1. IsDir(tree, d)
      BY <1>4
  <2>2. /\ L - (m - 1) \in 0..L /\ L - m \in 0..L - (m - 1)
        /\ L - (m - 1) > 0 /\ L - (m - 1) - 1 = L - m
      BY <1>2
  <2>3. d \in Paths /\ Len(d) = L - (m - 1) /\ SubSeq(d, 1, L - m) = SubSeq(Root, 1, L - m)
      BY <1>2, <2>2, PrefixPath
  <2> HIDE DEF d
  <2>4. d # <<>>
      BY <2>2, <2>3, EmptySeq
  <2>5. IsDir(tree, SubSeq(d, 1, Len(d) - 1))
      BY <1>1, <2>1, <2>4 DEF TreeOK, IsDir
  <2>6. IsDir(tree, SubSeq(Root, 1, L - m))
      BY <2>2, <2>3, <2>5
  <2> QED
      BY <1>2, <2>6
<1> HIDE DEF B
<1>5. B = 0..L
    BY <1>2, <1>3, <1>4, PlaceByPlace
<1>6. ASSUME NEW n \in 0..L - 1
      PROVE  IsDir(tree, SubSeq(Root, 1, n))
  <2>1. L - n \in 0..L /\ L - (L - n) = n
      BY <1>2
  <2> QED
      BY <1>5, <2>1 DEF B
<1>7. Placed(tree)
    BY <1>1, <1>6 DEF Placed
<1>8. answer \in Answers
    BY DEF Init, Answers
<1> QED
    BY <1>1, <1>7, <1>8 DEF IInv, TypeOK, Answers

\* What any step does to the tree.
LEMMA StepKeeps ==
    ASSUME IInv, NEW q \in Requests,
           \/ ListFiles(q)
           \/ ReadFile(q)
           \/ SearchCode(q)
           \/ \E text \in Texts, overwrite \in BOOLEAN : WriteFile(q, text, overwrite)
           \/ \E old \in OldTexts, new \in Texts : EditFile(q, old, new)
           \/ DeleteFile(q)
    PROVE  /\ WellPlaced(tree') /\ answer' \in Answers
           /\ \/ Proper(tree, tree')
              \/ /\ DeleteFile(q)
                 /\ \A d \in DOMAIN tree \cup DOMAIN tree' :
                       \/ Alike(tree, tree', d)
                       \/ d = Root
                       \/ /\ d \notin DOMAIN tree'
                          /\ Safe(tree, q) /\ Under(d, Resolved(tree, q))
<1>1. WellPlaced(tree)
    BY DEF IInv, TypeOK, WellPlaced
<1>2. CASE ListFiles(q) \/ ReadFile(q) \/ SearchCode(q)
    BY <1>1, <1>2, ReadsKeep
<1>3. CASE \E text \in Texts, overwrite \in BOOLEAN : WriteFile(q, text, overwrite)
    BY <1>1, <1>3, WriteKeeps
<1>4. CASE \E old \in OldTexts, new \in Texts : EditFile(q, old, new)
    BY <1>1, <1>4, EditKeeps
<1>5. CASE DeleteFile(q)
    BY <1>1, <1>5, DeleteKeeps
<1> QED
    BY <1>2, <1>3, <1>4, <1>5

LEMMA NextPlaced == IInv /\ [Next]_vars => IInv'
<1> SUFFICES ASSUME IInv, [Next]_vars PROVE IInv'
    OBVIOUS
<1>1. CASE Next
  <2>1. WellPlaced(tree') /\ answer' \in Answers
      BY <1>1, StepKeeps DEF Next
  <2> QED
      BY <2>1 DEF IInv, TypeOK, WellPlaced, Answers
<1>2. CASE UNCHANGED vars
    BY <1>2 DEF vars, IInv, TypeOK, TreeOK, Placed, IsDir, LinkFree
<1> QED
    BY <1>1, <1>2

\* The files are a tree, with the workspace where it is meant to be, whatever
\* the tools are asked for.
THEOREM FileToolsInvariant == Spec => []IInv
BY InitPlaced, NextPlaced, PTL DEF Spec

\* Every tool leaves a tree, with texts of units.
THEOREM FileToolsTypeOK == Spec => []TypeOK
<1>1. IInv => TypeOK
    BY DEF IInv
<1> QED
    BY <1>1, FileToolsInvariant, PTL

\* No tool changes anything outside the workspace (resolve_safe_path).
THEOREM NothingOutside == Spec => OutsideKept
<1>1. ASSUME IInv, [Next]_vars
      PROVE  [\A p \in DOMAIN tree \cup DOMAIN tree' : Under(p, Root) \/ Same(p)]_tree
  <2>1. CASE Next
    <3>1. PICK q \in Requests :
             \/ Proper(tree, tree')
             \/ /\ DeleteFile(q)
                /\ \A d \in DOMAIN tree \cup DOMAIN tree' :
                      \/ Alike(tree, tree', d)
                      \/ d = Root
                      \/ /\ d \notin DOMAIN tree'
                         /\ Safe(tree, q) /\ Under(d, Resolved(tree, q))
        BY <1>1, <2>1, StepKeeps DEF Next
    <3>2. CASE Proper(tree, tree')
        BY <3>2 DEF Proper, Same, Alike
    <3>3. ASSUME NEW d \in DOMAIN tree \cup DOMAIN tree',
                 d \notin DOMAIN tree', Safe(tree, q), Under(d, Resolved(tree, q))
          PROVE  Under(d, Root)
      <4>1. WellPlaced(tree)
          BY <1>1 DEF IInv, TypeOK, WellPlaced
      <4>2. d \in Paths
          BY <3>3, <4>1 DEF WellPlaced, TreeOK
      <4>3. Resolved(tree, q) \in Paths /\ Under(Resolved(tree, q), Root) /\ Root \in Paths
          BY <3>3, <4>1, SafePath, RootFacts
      <4> QED
          BY <3>3, <4>2, <4>3, UnderTransitive
    <3> QED
        BY <3>1, <3>2, <3>3, RootProper DEF Same, Alike
  <2>2. CASE UNCHANGED vars
      BY <2>2 DEF vars
  <2> QED
      BY <1>1, <2>1, <2>2
<1> QED
    BY <1>1, FileToolsInvariant, PTL DEF Spec, OutsideKept

\* A denied path goes only with a directory above it, and is never written.
THEOREM NothingDenied == Spec => DeniedKept
<1>1. ASSUME IInv, [Next]_vars
      PROVE  [\A p \in DOMAIN tree \cup DOMAIN tree' :
                \/ ~Denied(p) \/ Same(p)
                \/ /\ p \notin DOMAIN tree'
                   /\ \E q \in Requests :
                         /\ DeleteFile(q)
                         /\ Under(p, Resolved(tree, q)) /\ ~Denied(Resolved(tree, q))]_tree
  <2>1. CASE Next
    <3>1. PICK q \in Requests :
             \/ Proper(tree, tree')
             \/ /\ DeleteFile(q)
                /\ \A d \in DOMAIN tree \cup DOMAIN tree' :
                      \/ Alike(tree, tree', d)
                      \/ d = Root
                      \/ /\ d \notin DOMAIN tree'
                         /\ Safe(tree, q) /\ Under(d, Resolved(tree, q))
        BY <1>1, <2>1, StepKeeps DEF Next
    <3>2. CASE Proper(tree, tree')
        BY <3>2 DEF Proper, Same, Alike
    <3>3. Safe(tree, q) => ~Denied(Resolved(tree, q))
        BY DEF Safe
    <3> QED
        BY <3>1, <3>2, <3>3, RootProper DEF Same, Alike
  <2>2. CASE UNCHANGED vars
      BY <2>2 DEF vars
  <2> QED
      BY <1>1, <2>1, <2>2
<1> QED
    BY <1>1, FileToolsInvariant, PTL DEF Spec, DeniedKept

\* An edit answered ok has replaced the only place of its old text, in the file
\* its path leads to (edit_file's count and replace).
THEOREM OneEditOnePlace == Spec => EditIsOnePlace
<1> DEFINE Edited(q, old, new) ==
       LET p == Resolved(tree, q)
           s == EditText(tree[p].text)
           u == tree'[p].text
       IN  /\ IsFile(tree, p) /\ IsFile(tree', p)
           /\ \A d \in DOMAIN tree \cup DOMAIN tree' : d = p \/ Same(d)
           /\ \E i \in Places(s, old) :
                 /\ u = SubSeq(s, 1, i - 1) \o new \o SubSeq(s, i + Len(old), Len(s))
                 /\ \A j \in Places(s, old) :
                       j = i \/ (j < i + Len(old) /\ i < j + Len(old))
<1>1. ASSUME IInv, NEW q \in Requests, NEW old \in OldTexts, NEW new \in Texts,
             EditFile(q, old, new), answer'.outcome = "ok"
      PROVE  Edited(q, old, new)
  <2> DEFINE p == Resolved(tree, q)
             s == EditText(tree[p].text)
             text == ReplacedFirst(s, old, new)
  <2>1. WellPlaced(tree)
      BY <1>1 DEF IInv, TypeOK, WellPlaced
  <2>2. /\ IsFile(tree, p) /\ s \in AllTexts /\ Unique(s, old)
        /\ tree' = Having(tree, p, File(text))
      BY <1>1, <2>1, EditKeeps
  <2>3. \E i \in Places(s, old) :
           /\ text = SubSeq(s, 1, i - 1) \o new \o SubSeq(s, i + Len(old), Len(s))
           /\ \A j \in Places(s, old) :
                 j = i \/ (j < i + Len(old) /\ i < j + Len(old))
      BY <2>2, TextAssumption, ReplacedIsText
  <2> HIDE DEF p, text
  <2>4. /\ p \in DOMAIN tree /\ IsFile(tree', p) /\ tree'[p].text = text
        /\ \A d \in DOMAIN tree \cup DOMAIN tree' : d = p \/ Same(d)
      BY <2>2 DEF Having, IsFile, File, Same
  <2> QED
      BY <2>2, <2>3, <2>4 DEF p
<1> HIDE DEF Edited
<1>2. ASSUME IInv
      PROVE  [(answer'.tool = "edit_file" /\ answer'.outcome = "ok") =>
                 \A q \in Requests, old \in OldTexts, new \in Texts :
                    EditFile(q, old, new) => Edited(q, old, new)]_vars
    BY <1>1, <1>2
<1> QED
    BY <1>2, FileToolsInvariant, PTL DEF Spec, EditIsOnePlace, Edited

LEMMA FileText ==
    ASSUME TypeOK, NEW p \in DOMAIN tree
    PROVE  tree[p].text \in AllTexts
BY TreeFacts DEF TypeOK

\* Any lines read_file shows of a file that is UTF-8 are found by edit_file.
THEOREM ReadsCanBeEdited == Spec => []ReadCanBeEdited
<1>1. TypeOK => ReadCanBeEdited
    BY FileText, ReadIsFound DEF ReadCanBeEdited
<1> QED
    BY <1>1, FileToolsTypeOK, PTL

\* search_code and read_file find the same lines, by the same numbers, of a file
\* that is UTF-8, but for line ends that are searched for.
THEOREM SearchesAgree == Spec => []SearchAgreesWithRead
<1>1. ASSUME TypeOK, NEW p \in DOMAIN tree, Decodes(tree[p].text), NEW query \in OldTexts
      PROVE  LET hits == SearchHits(tree[p].text, query)
                 reads == {k \in DOMAIN Lines(ReadText(tree[p].text)) :
                              Places(ReadLines(tree[p].text, k, k), query) # {}}
             IN  /\ hits \subseteq reads
                 /\ hits = reads \/ \E i \in DOMAIN query : query[i] = "LF"
  <2> DEFINE s == tree[p].text
             x == Newlined(s)
  <2>1. /\ x \in AllTexts /\ ReadText(s) = x /\ SearchText(s) = x
        /\ query \in AllTexts
      BY <1>1, FileText, OneText, TextAssumption
  <2> HIDE DEF s, x
  <2>2. SearchHits(s, query) = {k \in DOMAIN Lines(x) : Places(Stripped(Lines(x)[k]), query) # {}}
      BY <2>1 DEF SearchHits
  <2>3. ASSUME NEW k \in DOMAIN Lines(x)
        PROVE  /\ ReadLines(s, k, k) = Lines(x)[k]
               /\ Places(Stripped(Lines(x)[k]), query) # {} => Places(Lines(x)[k], query) # {}
               /\ \/ Places(Lines(x)[k], query) # {} => Places(Stripped(Lines(x)[k]), query) # {}
                  \/ \E i \in DOMAIN query : query[i] = "LF"
    <3>1. /\ CO!FlattenSeq(SubSeq(Lines(x), k, k)) = Lines(x)[k]
          /\ Lines(x)[k] \in AllTexts /\ Len(Lines(x)[k]) \in Nat \ {0}
        BY <2>1, OneLine
    <3> QED
        BY <2>1, <3>1, StrippedLine DEF ReadLines
  <2> QED
      BY <2>1, <2>2, <2>3 DEF s
<1>2. TypeOK => SearchAgreesWithRead
    BY <1>1 DEF SearchAgreesWithRead
<1> QED
    BY <1>2, FileToolsTypeOK, PTL
=============================================================================
