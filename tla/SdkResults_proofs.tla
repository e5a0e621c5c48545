------------------------- MODULE SdkResults_proofs -------------------------
(***************************************************************************)
(* What the invariants of SdkResults say, for documents of any length.     *)
(* ResultInv is inductive: a client is one its constructor has accepted,   *)
(* its call passed the checks made before anything is sent, and an answer  *)
(* is the result of that call on the document that was received.  Each     *)
(* invariant then follows from a fact about one of the functions of        *)
(* SdkDocuments:                                                           *)
(*   - a concatenation has the elements of its parts, each in one place:   *)
(*     FlattenSeq is a fold, so the length of a prefix is reasoned about   *)
(*     by a least counterexample (Upwards), not by induction;              *)
(*   - a stable descending sort is a bijection on places, so the matches   *)
(*     of a search stand one to one for the subjects that reach the        *)
(*     threshold, the best one first;                                      *)
(*   - the digits of Base64, taken four at a time, give back the bytes     *)
(*     and the bytes, four at a time, the words of the embedding.          *)
(***************************************************************************)
EXTENDS SdkResults, FiniteSetTheorems, NaturalsInduction, SequenceTheorems, TLAPS

\* A set of numbers that is not empty has a smallest member.
LEMMA Smallest ==
  ASSUME NEW D \in SUBSET Nat, D # {}
  PROVE  \E d \in D : \A e \in D : d <= e
<1>1. \E d \in D : \A e \in D : ~ (<<e, d>> \in OpToRel(<, Nat))
  BY WFMin, NatLessThanWellFounded, Zenon
<1>2. PICK d \in D : \A e \in D : ~ (<<e, d>> \in OpToRel(<, Nat))
  BY <1>1
<1>3. \A e \in D : ~ (e < d)
  BY <1>2 DEF OpToRel
<1> QED
  BY <1>3

\* A set of numbers that has 1 and with every other its predecessor's successor
\* has all of them: what stands for induction here.
LEMMA Upwards ==
  ASSUME NEW N \in Nat, NEW S, 1 \in S,
         \A n \in 2..N : n - 1 \in S => n \in S
  PROVE  1..N \subseteq S
<1> DEFINE D == {n \in 1..N : n \notin S}
<1> SUFFICES ASSUME D # {} PROVE FALSE
  OBVIOUS
<1>1. PICK d \in D : \A e \in D : d <= e
  <2>1. D \in SUBSET Nat OBVIOUS
  <2> HIDE DEF D
  <2>2. QED BY <2>1, Smallest
<1>2. d # 1 /\ d \in 2..N
  OBVIOUS
<1>3. d - 1 \in 1..N /\ d - 1 \notin D
  BY <1>1, <1>2
<1>4. QED BY <1>2, <1>3

\* f lists what is joined of the sequences up to each one.
Joins(f, seqs, n) ==
  /\ f = [i \in 1..n |-> f[i]]
  /\ \A i \in 1..n : f[i] = IF i = 1 THEN seqs[i] ELSE f[i - 1] \o seqs[i]

\* There is such a list for every sequence of sequences.
LEMMA JoinsExist ==
  ASSUME NEW seqs, NEW N \in Nat, N # 0
  PROVE  \E f : Joins(f, seqs, N)
<1> DEFINE S == {n \in 1..N : \E f : Joins(f, seqs, n)}
<1>1. 1 \in S
  <2>1. Joins([i \in 1..1 |-> seqs[i]], seqs, 1)
    BY DEF Joins
  <2>2. QED BY <2>1
<1>2. ASSUME NEW n \in 2..N, n - 1 \in S PROVE n \in S
  <2>1. PICK g : Joins(g, seqs, n - 1)
    BY <1>2
  <2> DEFINE f == [i \in 1..n |-> IF i = n THEN g[n - 1] \o seqs[n] ELSE g[i]]
  <2>2. \A i \in 1..n : f[i] = IF i = 1 THEN seqs[i] ELSE f[i - 1] \o seqs[i]
    <3> SUFFICES ASSUME NEW i \in 1..n
                 PROVE  f[i] = IF i = 1 THEN seqs[i] ELSE f[i - 1] \o seqs[i]
      OBVIOUS
    <3>1. CASE i = n
      <4>1. i # 1 /\ i - 1 \in 1..n /\ i - 1 # n
        BY <3>1
      <4>2. f[i] = g[n - 1] \o seqs[n]
        BY <3>1
      <4>3. f[i - 1] = g[n - 1]
        BY <3>1, <4>1
      <4>4. QED BY <3>1, <4>1, <4>2, <4>3
    <3>2. CASE i # n
      <4>1. i \in 1..(n - 1) /\ f[i] = g[i] /\ (i # 1 => i - 1 \in 1..n /\ f[i - 1] = g[i - 1])
        BY <3>2
      <4> HIDE DEF f
      <4>2. QED BY <2>1, <4>1 DEF Joins
    <3>3. QED BY <3>1, <3>2
  <2>3. Joins(f, seqs, n)
    BY <2>2, Zenon DEF Joins
  <2>4. QED BY <2>3
<1>3. 1..N \subseteq S
  <2> HIDE DEF S
  <2>1. QED BY <1>1, <1>2, Upwards
<1>4. QED BY <1>3

\* FlattenSeq is the last of them.
LEMMA FlattenJoins ==
  ASSUME NEW seqs, Len(seqs) \in Nat, Len(seqs) # 0
  PROVE  \E f : Joins(f, seqs, Len(seqs)) /\ FlattenSeq(seqs) = f[Len(seqs)]
<1> DEFINE Join(f) == [i \in 1..Len(seqs) |-> IF i = 1 THEN seqs[i] ELSE f[i - 1] \o seqs[i]]
           flat == CHOOSE f : f = Join(f)
<1>1. PICK g : Joins(g, seqs, Len(seqs))
  BY JoinsExist
<1>2. g = Join(g)
  BY <1>1 DEF Joins
<1>3. flat = Join(flat)
  BY <1>2, Zenon
<1>4. FlattenSeq(seqs) = flat[Len(seqs)]
  BY Zenon DEF FlattenSeq
<1>5. Joins(flat, seqs, Len(seqs))
  <2> HIDE DEF flat
  <2>1. QED BY <1>3 DEF Joins
<1>6. QED BY <1>4, <1>5, Zenon

\* The places of the members of the first n sequences.
Places(seqs, n) == UNION {{<<i, j>> : j \in DOMAIN seqs[i]} : i \in 1..n}

\* h says for each member of s which member of seqs it is, each one's turn.
Covers(h, s, seqs, n) ==
  /\ h \in Bijection(DOMAIN s, Places(seqs, n))
  /\ \A p \in DOMAIN s : s[p] = seqs[h[p][1]][h[p][2]]

\* Said without a union.
LEMMA PlaceIn ==
  ASSUME NEW seqs, NEW n, NEW c
  PROVE  c \in Places(seqs, n) <=> \E i \in 1..n : \E j \in DOMAIN seqs[i] : c = <<i, j>>
<1> DEFINE Of(i) == {<<i, j>> : j \in DOMAIN seqs[i]}
<1>1. c \in Places(seqs, n) <=> \E P \in {Of(i) : i \in 1..n} : c \in P
  BY DEF Places
<1>2. \A i : c \in Of(i) <=> \E j \in DOMAIN seqs[i] : c = <<i, j>>
  OBVIOUS
<1> HIDE DEF Of
<1>3. QED BY <1>1, <1>2

\* One more sequence is covered where it is appended.
LEMMA CoversNext ==
  ASSUME NEW X, NEW n \in Nat, NEW seqs, NEW s \in Seq(X), NEW h, Covers(h, s, seqs, n),
         seqs[n + 1] \in Seq(X)
  PROVE  \E k : Covers(k, s \o seqs[n + 1], seqs, n + 1)
<1> DEFINE t == seqs[n + 1]
           u == s \o t
           k == [p \in 1..(Len(s) + Len(t)) |-> IF p <= Len(s) THEN h[p] ELSE <<n + 1, p - Len(s)>>]
<1>1. /\ u \in Seq(X) /\ Len(s) \in Nat /\ Len(t) \in Nat /\ Len(u) = Len(s) + Len(t)
      /\ DOMAIN s = 1..Len(s) /\ DOMAIN t = 1..Len(t) /\ DOMAIN u = 1..(Len(s) + Len(t))
      /\ \A p \in 1..Len(s) : u[p] = s[p]
      /\ \A p \in (Len(s) + 1)..(Len(s) + Len(t)) : u[p] = t[p - Len(s)]
  OBVIOUS
<1>2. /\ h \in [1..Len(s) -> Places(seqs, n)]
      /\ \A p, q \in 1..Len(s) : h[p] = h[q] => p = q
      /\ \A c \in Places(seqs, n) : \E p \in 1..Len(s) : h[p] = c
      /\ \A p \in 1..Len(s) : s[p] = seqs[h[p][1]][h[p][2]]
  BY <1>1 DEF Covers, Bijection, Injection, Surjection, IsInjective
<1>3. Places(seqs, n + 1) = Places(seqs, n) \cup {<<n + 1, j>> : j \in DOMAIN t}
  <2>1. 1..(n + 1) = 1..n \cup {n + 1}
    OBVIOUS
  <2>2. \A c : c \in Places(seqs, n + 1) <=>
               c \in Places(seqs, n) \/ \E j \in DOMAIN seqs[n + 1] : c = <<n + 1, j>>
    BY <2>1, PlaceIn
  <2>3. QED BY <2>2
<1>4. \A c \in Places(seqs, n) : c[1] \in 1..n
  BY DEF Places
<1> HIDE DEF t, u
<1>5. /\ \A p \in 1..(Len(s) + Len(t)) : p <= Len(s) => p \in 1..Len(s) /\ k[p] = h[p] /\ k[p] \in Places(seqs, n)
      /\ \A p \in 1..(Len(s) + Len(t)) : ~(p <= Len(s)) =>
           p - Len(s) \in 1..Len(t) /\ k[p] = <<n + 1, p - Len(s)>>
  <2> SUFFICES ASSUME NEW p \in 1..(Len(s) + Len(t))
               PROVE  /\ p <= Len(s) =>
                           p \in 1..Len(s) /\ k[p] = h[p] /\ k[p] \in Places(seqs, n)
                      /\ ~(p <= Len(s)) =>
                           p - Len(s) \in 1..Len(t) /\ k[p] = <<n + 1, p - Len(s)>>
    OBVIOUS
  <2>1. CASE p <= Len(s)
    <3>1. p \in 1..Len(s) /\ k[p] = h[p]
      BY <1>1, <2>1
    <3>2. h[p] \in Places(seqs, n)
      BY <1>2, <3>1
    <3>3. QED BY <2>1, <3>1, <3>2
  <2>2. CASE ~(p <= Len(s))
    <3>1. p - Len(s) \in 1..Len(t) /\ k[p] = <<n + 1, p - Len(s)>>
      BY <1>1, <2>2
    <3>2. QED BY <2>2, <3>1
  <2>3. QED BY <2>1, <2>2
<1>6. DOMAIN k = 1..(Len(s) + Len(t)) /\ k = [p \in 1..(Len(s) + Len(t)) |-> k[p]]
  OBVIOUS
<1> HIDE DEF k
<1>7. \A p \in 1..(Len(s) + Len(t)) : k[p] \in Places(seqs, n + 1)
  BY <1>1, <1>3, <1>5
<1>8. ASSUME NEW p \in 1..(Len(s) + Len(t)), NEW q \in 1..(Len(s) + Len(t)), k[p] = k[q]
      PROVE  p = q
  <2>1. CASE p <= Len(s) /\ q <= Len(s)
    BY <1>2, <1>5, <1>8, <2>1
  <2>2. CASE ~(p <= Len(s)) /\ ~(q <= Len(s))
    <3>1. <<n + 1, p - Len(s)>> = <<n + 1, q - Len(s)>>
      BY <1>5, <1>8, <2>2
    <3>2. QED BY <1>1, <3>1
  <2>3. CASE p <= Len(s) /\ ~(q <= Len(s))
    <3>1. k[p][1] \in 1..n /\ k[q][1] = n + 1
      BY <1>4, <1>5, <2>3
    <3>2. QED BY <1>8, <3>1
  <2>4. CASE ~(p <= Len(s)) /\ q <= Len(s)
    <3>1. k[q][1] \in 1..n /\ k[p][1] = n + 1
      BY <1>4, <1>5, <2>4
    <3>2. QED BY <1>8, <3>1
  <2>5. QED BY <2>1, <2>2, <2>3, <2>4
<1>9. ASSUME NEW c \in Places(seqs, n + 1)
      PROVE  \E p \in 1..(Len(s) + Len(t)) : k[p] = c
  <2>1. CASE c \in Places(seqs, n)
    <3>1. PICK p \in 1..Len(s) : h[p] = c
      BY <1>2, <2>1
    <3>2. p \in 1..(Len(s) + Len(t)) /\ p <= Len(s)
      BY <1>1
    <3>3. QED BY <1>5, <3>1, <3>2
  <2>2. CASE c \in {<<n + 1, j>> : j \in DOMAIN t}
    <3>1. PICK j \in 1..Len(t) : c = <<n + 1, j>>
      BY <1>1, <2>2
    <3>2. Len(s) + j \in 1..(Len(s) + Len(t)) /\ ~(Len(s) + j <= Len(s)) /\ (Len(s) + j) - Len(s) = j
      BY <1>1
    <3>3. QED BY <1>5, <3>1, <3>2
  <2>3. QED BY <1>3, <2>1, <2>2
<1>10. \A p \in 1..(Len(s) + Len(t)) : u[p] = seqs[k[p][1]][k[p][2]]
  <2> SUFFICES ASSUME NEW p \in 1..(Len(s) + Len(t)) PROVE u[p] = seqs[k[p][1]][k[p][2]]
    OBVIOUS
  <2>1. CASE p <= Len(s)
    BY <1>1, <1>2, <1>5, <2>1
  <2>2. CASE ~(p <= Len(s))
    <3>1. k[p][1] = n + 1 /\ k[p][2] = p - Len(s)
      BY <1>5, <2>2
    <3>2. u[p] = t[p - Len(s)]
      BY <1>1, <2>2
    <3>3. QED BY <3>1, <3>2 DEF t
  <2>3. QED BY <2>1, <2>2
<1>11. k \in Bijection(DOMAIN u, Places(seqs, n + 1))
  <2>1. k \in [1..(Len(s) + Len(t)) -> Places(seqs, n + 1)]
    BY <1>6, <1>7
  <2>2. QED BY <1>1, <1>8, <1>9, <2>1 DEF Bijection, Injection, Surjection, IsInjective
<1>12. Covers(k, u, seqs, n + 1)
  BY <1>1, <1>10, <1>11 DEF Covers
<1>13. QED BY <1>12 DEF u, t

\* The first sequence covers itself.
LEMMA CoversFirst ==
  ASSUME NEW seqs
  PROVE  \E h : Covers(h, seqs[1], seqs, 1)
<1> DEFINE h == [p \in DOMAIN seqs[1] |-> <<1, p>>]
<1>1. Places(seqs, 1) = {<<1, j>> : j \in DOMAIN seqs[1]}
  <2>1. 1..1 = {1}
    OBVIOUS
  <2>2. QED BY <2>1, Zenon DEF Places
<1>2. h \in Bijection(DOMAIN seqs[1], Places(seqs, 1))
  BY <1>1 DEF Bijection, Injection, Surjection, IsInjective
<1>3. \A p \in DOMAIN seqs[1] : seqs[1][p] = seqs[h[p][1]][h[p][2]]
  OBVIOUS
<1>4. Covers(h, seqs[1], seqs, 1)
  BY <1>2, <1>3 DEF Covers
<1>5. QED BY <1>4

\* FlattenSeq has every member of every sequence once.
LEMMA FlattenCovers ==
  ASSUME NEW X, NEW seqs \in Seq(Seq(X))
  PROVE  /\ FlattenSeq(seqs) \in Seq(X)
         /\ \E h : Covers(h, FlattenSeq(seqs), seqs, Len(seqs))
<1>1. Len(seqs) \in Nat /\ \A i \in 1..Len(seqs) : seqs[i] \in Seq(X)
  OBVIOUS
<1>2. CASE Len(seqs) = 0
  <2>1. FlattenSeq(seqs) = seqs /\ seqs = <<>>
    BY <1>2 DEF FlattenSeq
  <2>2. Places(seqs, 0) = {}
    BY DEF Places
  <2>3. [p \in {} |-> p] \in Bijection({}, {})
    BY DEF Bijection, Injection, Surjection, IsInjective
  <2>4. Covers([p \in {} |-> p], <<>>, seqs, 0)
    <3>1. DOMAIN <<>> = {}
      OBVIOUS
    <3>2. QED BY <2>2, <2>3, <3>1, Zenon DEF Covers
  <2>5. QED BY <1>2, <2>1, <2>4
<1>3. CASE Len(seqs) # 0
  <2>1. PICK f : Joins(f, seqs, Len(seqs)) /\ FlattenSeq(seqs) = f[Len(seqs)]
    BY <1>1, <1>3, FlattenJoins
  <2> DEFINE S == {i \in 1..Len(seqs) : f[i] \in Seq(X) /\ \E h : Covers(h, f[i], seqs, i)}
  <2>2. 1 \in S
    <3>1. 1 \in 1..Len(seqs)
      BY <1>1, <1>3
    <3>2. f[1] = seqs[1]
      BY <2>1, <3>1, Zenon DEF Joins
    <3>3. QED BY <1>1, <3>1, <3>2, CoversFirst
  <2>3. ASSUME NEW i \in 2..Len(seqs), i - 1 \in S PROVE i \in S
    <3>0. i \in 1..Len(seqs) /\ i # 1 /\ i - 1 \in Nat /\ (i - 1) + 1 = i
      BY <1>1
    <3>1. f[i] = f[i - 1] \o seqs[i]
      BY <2>1, <3>0, Zenon DEF Joins
    <3>2. PICK h : Covers(h, f[i - 1], seqs, i - 1)
      BY <2>3
    <3>3. f[i - 1] \in Seq(X) /\ seqs[i] \in Seq(X)
      BY <1>1, <2>3, <3>0
    <3>4. \E k : Covers(k, f[i], seqs, i)
      BY <3>0, <3>1, <3>2, <3>3, CoversNext
    <3>5. f[i] \in Seq(X)
      BY <3>1, <3>3
    <3>6. QED BY <3>0, <3>4, <3>5
  <2>4. Len(seqs) \in S
    <3> HIDE DEF S
    <3>1. 1..Len(seqs) \subseteq S
      BY <1>1, <2>2, <2>3, Upwards
    <3>2. Len(seqs) \in 1..Len(seqs)
      BY <1>1, <1>3
    <3>3. QED BY <3>1, <3>2
  <2>5. QED BY <2>1, <2>4
<1>4. QED BY <1>2, <1>3


\* Bijections compose.
LEMMA Composed ==
  ASSUME NEW S, NEW T, NEW U, NEW h \in Bijection(S, T), NEW g \in Bijection(T, U)
  PROVE  [x \in S |-> g[h[x]]] \in Bijection(S, U)
<1>1. /\ h \in [S -> T] /\ \A x, y \in S : h[x] = h[y] => x = y
      /\ \A z \in T : \E x \in S : h[x] = z
  BY DEF Bijection, Injection, Surjection, IsInjective
<1>2. /\ g \in [T -> U] /\ \A x, y \in T : g[x] = g[y] => x = y
      /\ \A z \in U : \E x \in T : g[x] = z
  BY DEF Bijection, Injection, Surjection, IsInjective
<1>3. \A z \in U : \E x \in S : g[h[x]] = z
  BY <1>1, <1>2
<1>4. \A x, y \in S : g[h[x]] = g[h[y]] => x = y
  BY <1>1, <1>2
<1>5. QED BY <1>1, <1>2, <1>3, <1>4 DEF Bijection, Injection, Surjection, IsInjective

\* Parts that a bijection takes to each other are equally large.
LEMMA EquallyMany ==
  ASSUME NEW S, NEW T, NEW h \in Bijection(S, T), IsFiniteSet(S),
         NEW A \in SUBSET S, NEW B \in SUBSET T, \A x \in S : x \in A <=> h[x] \in B
  PROVE  Cardinality(A) = Cardinality(B)
<1> DEFINE k == [x \in A |-> h[x]]
<1>1. /\ h \in [S -> T] /\ \A x, y \in S : h[x] = h[y] => x = y
      /\ \A z \in T : \E x \in S : h[x] = z
  BY DEF Bijection, Injection, Surjection, IsInjective
<1>2. k \in [A -> B] /\ \A x, y \in A : k[x] = k[y] => x = y
  BY <1>1
<1>3. \A z \in B : \E x \in A : k[x] = z
  BY <1>1
<1>4. k \in Bijection(A, B)
  BY <1>2, <1>3 DEF Bijection, Injection, Surjection, IsInjective
<1>5. ExistsBijection(A, B) /\ IsFiniteSet(A)
  BY <1>4, FS_Subset DEF ExistsBijection
<1>6. QED BY <1>5, FS_Bijection

-----------------------------------------------------------------------------
(* Filtering and sorting                                                   *)

\* AtLeast has each match that reaches the threshold once.
LEMMA AtLeastCovers ==
  ASSUME NEW M, \A m \in M : m.similarity \in Int, NEW ms \in Seq(M), NEW t \in Int
  PROVE  /\ AtLeast(t, ms) \in Seq(M)
         /\ \E h \in Bijection(DOMAIN AtLeast(t, ms), {p \in DOMAIN ms : ms[p].similarity >= t}) :
              \A q \in DOMAIN AtLeast(t, ms) : AtLeast(t, ms)[q] = ms[h[q]]
<1> DEFINE seqs == [i \in DOMAIN ms |-> IF ms[i].similarity >= t THEN <<ms[i]>> ELSE <<>>]
           A == AtLeast(t, ms)
           R == {p \in DOMAIN ms : ms[p].similarity >= t}
<1>1. DOMAIN ms = 1..Len(ms) /\ Len(ms) \in Nat /\ \A i \in DOMAIN ms : ms[i] \in M
  OBVIOUS
<1>2. seqs \in Seq(Seq(M)) /\ Len(seqs) = Len(ms)
  <2>1. \A i \in 1..Len(ms) : seqs[i] \in Seq(M)
    BY <1>1
  <2>2. QED BY <1>1, <2>1, SeqDef
<1>3. A = FlattenSeq(seqs)
  BY DEF AtLeast
<1>4. \A i \in DOMAIN ms : /\ i \in R => seqs[i] = <<ms[i]>>
                           /\ i \notin R => seqs[i] = <<>>
  OBVIOUS
<1> HIDE DEF seqs, A
<1>5. A \in Seq(M) /\ \E g : Covers(g, A, seqs, Len(ms))
  BY <1>2, <1>3, FlattenCovers
<1>6. PICK g : Covers(g, A, seqs, Len(ms))
  BY <1>5
<1>7. \A c : c \in Places(seqs, Len(ms)) <=> \E i \in R : c = <<i, 1>>
  <2>1. \A i \in DOMAIN ms : \A j : j \in DOMAIN seqs[i] <=> i \in R /\ j = 1
    <3> SUFFICES ASSUME NEW i \in DOMAIN ms, NEW j
                 PROVE  j \in DOMAIN seqs[i] <=> i \in R /\ j = 1
      OBVIOUS
    <3>1. CASE i \in R
      <4>1. DOMAIN seqs[i] = {1}
        BY <1>4, <3>1
      <4>2. QED BY <3>1, <4>1
    <3>2. CASE i \notin R
      <4>1. DOMAIN seqs[i] = {}
        BY <1>4, <3>2
      <4>2. QED BY <3>2, <4>1
    <3>3. QED BY <3>1, <3>2
  <2>2. R \subseteq DOMAIN ms
    OBVIOUS
  <2> HIDE DEF R
  <2>3. QED BY <1>1, <2>1, <2>2, PlaceIn
<1> DEFINE h == [q \in DOMAIN A |-> g[q][1]]
<1>8. /\ g \in [DOMAIN A -> Places(seqs, Len(ms))]
      /\ \A p, q \in DOMAIN A : g[p] = g[q] => p = q
      /\ \A c \in Places(seqs, Len(ms)) : \E q \in DOMAIN A : g[q] = c
      /\ \A q \in DOMAIN A : A[q] = seqs[g[q][1]][g[q][2]]
  BY <1>6 DEF Covers, Bijection, Injection, Surjection, IsInjective
<1>9. \A q \in DOMAIN A : h[q] \in R /\ g[q] = <<h[q], 1>>
  BY <1>7, <1>8
<1>10. \A i \in R : \E q \in DOMAIN A : h[q] = i
  <2> SUFFICES ASSUME NEW i \in R PROVE \E q \in DOMAIN A : h[q] = i
    OBVIOUS
  <2>1. PICK q \in DOMAIN A : g[q] = <<i, 1>>
    BY <1>7, <1>8
  <2>2. QED BY <2>1
<1>11. h = [q \in DOMAIN A |-> h[q]]
  OBVIOUS
<1>12. R \subseteq DOMAIN ms
  OBVIOUS
<1> HIDE DEF h, R
<1>13. h \in Bijection(DOMAIN A, R)
  <2>1. h \in [DOMAIN A -> R]
    BY <1>9, <1>11
  <2>2. \A p, q \in DOMAIN A : h[p] = h[q] => p = q
    <3> SUFFICES ASSUME NEW p \in DOMAIN A, NEW q \in DOMAIN A, h[p] = h[q] PROVE p = q
      OBVIOUS
    <3>1. g[p] = g[q]
      BY <1>9
    <3>2. QED BY <1>8, <3>1
  <2>3. QED BY <1>10, <2>1, <2>2 DEF Bijection, Injection, Surjection, IsInjective
<1>14. \A q \in DOMAIN A : A[q] = ms[h[q]]
  BY <1>4, <1>8, <1>9, <1>12
<1>15. QED BY <1>5, <1>13, <1>14 DEF A, R

\* Descending has each match once, the best first.
LEMMA DescendingCovers ==
  ASSUME NEW M, \A m \in M : m.similarity \in Int, NEW ms \in Seq(M)
  PROVE  /\ Descending(ms) \in Seq(M) /\ DOMAIN Descending(ms) = DOMAIN ms
         /\ \E h \in Bijection(DOMAIN ms, DOMAIN ms) :
              \A p \in DOMAIN ms : Descending(ms)[p] = ms[h[p]]
         /\ \A p, q \in DOMAIN ms :
              p < q => Descending(ms)[p].similarity >= Descending(ms)[q].similarity
<1> DEFINE N == DOMAIN ms
           Ahead(i) == {j \in N : \/ ms[j].similarity > ms[i].similarity
                                  \/ ms[j].similarity = ms[i].similarity /\ j <= i}
           place == [i \in N |-> Place(ms, i)]
           h == [p \in N |-> CHOOSE i \in N : Place(ms, i) = p]
<1>1. N = 1..Len(ms) /\ Len(ms) \in Nat /\ \A i \in N : ms[i] \in M /\ ms[i].similarity \in Int
  OBVIOUS
<1>2. IsFiniteSet(N) /\ Cardinality(N) = Len(ms)
  BY <1>1, FS_Interval
<1>3. \A i \in N : /\ Ahead(i) \in SUBSET N /\ i \in Ahead(i)
                   /\ Place(ms, i) = Cardinality(Ahead(i))
  BY <1>1 DEF Place
<1>4. ASSUME NEW i \in N, NEW j \in N,
             \/ ms[j].similarity > ms[i].similarity
             \/ ms[j].similarity = ms[i].similarity /\ j < i
      PROVE  Ahead(j) \subseteq Ahead(i) /\ i \notin Ahead(j)
  BY <1>1, <1>4
<1> HIDE DEF Ahead
<1>5. \A i \in N : Place(ms, i) \in N
  <2> SUFFICES ASSUME NEW i \in N PROVE Place(ms, i) \in N
    OBVIOUS
  <2>1. IsFiniteSet(Ahead(i)) /\ Cardinality(Ahead(i)) <= Cardinality(N)
    BY <1>2, <1>3, FS_Subset
  <2>2. Cardinality(Ahead(i)) \in Nat /\ Cardinality(Ahead(i)) # 0
    BY <1>3, <2>1, FS_CardinalityType, FS_EmptySet
  <2>3. QED BY <1>1, <1>2, <1>3, <2>1, <2>2
<1>6. ASSUME NEW i \in N, NEW j \in N,
             \/ ms[j].similarity > ms[i].similarity
             \/ ms[j].similarity = ms[i].similarity /\ j < i
      PROVE  Place(ms, j) < Place(ms, i)
  <2>1. Ahead(j) \subseteq Ahead(i) /\ Ahead(j) # Ahead(i)
    BY <1>3, <1>4, <1>6
  <2>2. IsFiniteSet(Ahead(i))
    BY <1>2, <1>3, FS_Subset
  <2>3. Cardinality(Ahead(j)) <= Cardinality(Ahead(i)) /\ Cardinality(Ahead(j)) # Cardinality(Ahead(i))
    BY <2>1, <2>2, FS_Subset
  <2>4. Cardinality(Ahead(i)) = Place(ms, i) /\ Cardinality(Ahead(j)) = Place(ms, j)
    BY <1>3
  <2>5. Place(ms, i) \in Int /\ Place(ms, j) \in Int
    BY <1>1, <1>5
  <2>6. QED BY <2>3, <2>4, <2>5
<1> HIDE DEF N
<1>7. place \in Injection(N, N)
  <2>1. ASSUME NEW i \in N, NEW j \in N, place[i] = place[j] PROVE i = j
    <3>1. Place(ms, i) = Place(ms, j) /\ Place(ms, i) \in Int
      BY <1>1, <1>5, <2>1
    <3>2. \/ ms[j].similarity > ms[i].similarity
          \/ ms[j].similarity = ms[i].similarity /\ j < i
          \/ ms[i].similarity > ms[j].similarity
          \/ ms[i].similarity = ms[j].similarity /\ i < j
          \/ i = j
      BY <1>1
    <3>3. QED BY <1>6, <3>1, <3>2
  <2>2. place \in [N -> N]
    BY <1>5
  <2>3. QED BY <2>1, <2>2 DEF Injection, IsInjective
<1>8. place \in Surjection(N, N)
  BY <1>2, <1>7, FS_Injection
<1>9. \A p \in N : h[p] \in N /\ Place(ms, h[p]) = p
  <2> SUFFICES ASSUME NEW p \in N PROVE h[p] \in N /\ Place(ms, h[p]) = p
    OBVIOUS
  <2>1. \E i \in N : Place(ms, i) = p
    BY <1>8 DEF Surjection
  <2>2. h[p] = CHOOSE i \in N : Place(ms, i) = p
    OBVIOUS
  <2> HIDE DEF h
  <2>3. QED BY <2>1, <2>2
<1>10. \A i \in N : h[Place(ms, i)] = i
  <2> SUFFICES ASSUME NEW i \in N PROVE h[Place(ms, i)] = i
    OBVIOUS
  <2>1. Place(ms, i) \in N /\ h[Place(ms, i)] \in N /\ Place(ms, h[Place(ms, i)]) = Place(ms, i)
    BY <1>5, <1>9
  <2>2. QED BY <1>7, <2>1 DEF Injection, IsInjective
<1>11. \A p \in N : Descending(ms)[p] = ms[h[p]]
  BY DEF Descending, N
<1>12. DOMAIN Descending(ms) = N /\ Descending(ms) = [p \in N |-> Descending(ms)[p]]
  BY DEF Descending, N
<1>13. h = [p \in N |-> h[p]]
  OBVIOUS
<1> HIDE DEF h, place
<1>14. h \in Bijection(N, N)
  BY <1>5, <1>9, <1>10, <1>13 DEF Bijection, Injection, Surjection, IsInjective
<1>15. Descending(ms) \in Seq(M)
  <2>1. \A p \in 1..Len(ms) : Descending(ms)[p] \in M
    BY <1>1, <1>9, <1>11
  <2>2. Descending(ms) \in [1..Len(ms) -> M]
    BY <1>1, <1>12, <2>1
  <2>3. QED BY <1>1, <2>2, SeqDef
<1>16. ASSUME NEW p \in N, NEW q \in N, p < q
       PROVE  ms[h[p]].similarity >= ms[h[q]].similarity
  <2>1. h[p] \in N /\ h[q] \in N /\ Place(ms, h[p]) = p /\ Place(ms, h[q]) = q
    BY <1>9
  <2>2. ms[h[p]].similarity \in Int /\ ms[h[q]].similarity \in Int /\ p \in Int /\ q \in Int
    BY <1>1, <2>1
  <2>3. ms[h[q]].similarity > ms[h[p]].similarity => q < p
    BY <1>6, <2>1
  <2>4. QED BY <1>16, <2>2, <2>3
<1>17. QED BY <1>11, <1>12, <1>14, <1>15, <1>16 DEF N


-----------------------------------------------------------------------------
(* Searches                                                                *)

\* The subjects that reach a threshold, as Reaching names them.
ReachOf(faces, t) ==
  UNION {{<<i, j>> : j \in {k \in DOMAIN Get(faces[i].subjects, <<>>) :
                              faces[i].subjects[k].similarity >= t}} :
         i \in DOMAIN faces}

\* A place among those that reach t, in words.
LEMMA ReachIn ==
  ASSUME NEW faces, NEW t, NEW c
  PROVE  c \in ReachOf(faces, t) <=>
           \E i \in DOMAIN faces : \E j \in DOMAIN Get(faces[i].subjects, <<>>) :
             c = <<i, j>> /\ faces[i].subjects[j].similarity >= t
<1> DEFINE In(i) == {k \in DOMAIN Get(faces[i].subjects, <<>>) : faces[i].subjects[k].similarity >= t}
           Of(i) == {<<i, j>> : j \in In(i)}
<1>1. c \in ReachOf(faces, t) <=> \E P \in {Of(i) : i \in DOMAIN faces} : c \in P
  BY DEF ReachOf
<1>2. \A i : c \in Of(i) <=> \E j \in In(i) : c = <<i, j>>
  OBVIOUS
<1>3. \A i, j : j \in In(i) <=> /\ j \in DOMAIN Get(faces[i].subjects, <<>>)
                                /\ faces[i].subjects[j].similarity >= t
  OBVIOUS
<1> HIDE DEF Of, In
<1>4. c \in ReachOf(faces, t) <=> \E i \in DOMAIN faces : c \in Of(i)
  BY <1>1
<1>5. QED BY <1>2, <1>3, <1>4

\* The match m is that of the subject at c.
Same(m, faces, c) ==
  /\ m.subject = faces[c[1]].subjects[c[2]].subject
  /\ m.similarity = faces[c[1]].subjects[c[2]].similarity
  /\ m.match

\* The matches are those of the subjects that reach a threshold, one each.
Shows(ms, faces, t) ==
  \E h \in Bijection(DOMAIN ms, ReachOf(faces, t)) : \A p \in DOMAIN ms : Same(ms[p], faces, h[p])

\* The confidences a client shows with a match or a verdict, and its matches.
ConfidencesOf(sdk) == IF sdk = "web" THEN {Missing} ELSE Scores

MatchOf(sdk) ==
  [subject : STRING, similarity : Scores, match : BOOLEAN, confidence : ConfidencesOf(sdk)]

\* A face that lacks its confidence has a score all the same.
LEMMA ConfidenceType ==
  ASSUME NEW sdk \in SdkNames, NEW f,
         f.probability \in Optional(Scores), f.confidence \in Optional(Scores)
  PROVE  Confidence(sdk, f) \in Scores /\ Shown(sdk, f) \in ConfidencesOf(sdk)
<1>1. 0 \in Scores
  BY ScoreAssumption DEF Scores
<1>2. Get(f.probability, 0) \in Scores /\ Get(f.confidence, 0) \in Scores
  BY <1>1 DEF Get, Optional
<1>3. PythonConfidence(f) \in Scores /\ JavaConfidence(f) \in Scores /\ NodeConfidence(f) \in Scores
  BY <1>1, <1>2 DEF Get, Optional, PythonConfidence, JavaConfidence, NodeConfidence
<1>4. GoConfidence(f) \in Scores
  BY <1>1, <1>2 DEF Get, Optional, GoConfidence
<1>5. WebConfidence(f) \in Scores
  BY <1>1, <1>2 DEF Get, Optional, WebConfidence
<1>6. Confidence(sdk, f) \in Scores
  BY <1>3, <1>4, <1>5 DEF Confidence, SdkNames
<1>7. QED BY <1>6 DEF Shown, ConfidencesOf

\* Where the subjects of a face are.
LEMMA SubjectsType ==
  ASSUME NEW faces \in Seq(KnownFace), NEW i \in DOMAIN faces
  PROVE  /\ faces[i] \in KnownFace
         /\ Get(faces[i].subjects, <<>>) \in Seq(KnownSubject)
         /\ \A j \in DOMAIN Get(faces[i].subjects, <<>>) :
              /\ Get(faces[i].subjects, <<>>) = faces[i].subjects
              /\ faces[i].subjects[j].subject \in STRING
              /\ faces[i].subjects[j].similarity \in Scores
<1> DEFINE subjects == Get(faces[i].subjects, <<>>)
<1>1. faces[i] \in KnownFace
  OBVIOUS
<1>2. faces[i].subjects \in Optional(Seq(KnownSubject))
  BY <1>1 DEF KnownFace
<1>3. CASE faces[i].subjects = Missing
  <2>1. subjects = <<>>
    BY <1>3 DEF Get
  <2>2. <<>> \in Seq(KnownSubject) /\ DOMAIN <<>> = {}
    OBVIOUS
  <2> HIDE DEF subjects
  <2>3. QED BY <1>1, <2>1, <2>2 DEF subjects
<1>4. CASE faces[i].subjects # Missing
  <2>1. subjects = faces[i].subjects /\ subjects \in Seq(KnownSubject)
    BY <1>2, <1>4 DEF Get, Optional
  <2>2. \A j \in DOMAIN subjects : subjects[j] \in KnownSubject
    <3> HIDE DEF subjects
    <3>1. QED BY <2>1
  <2>3. \A r \in KnownSubject : r.subject \in STRING /\ r.similarity \in Scores
    BY DEF KnownSubject
  <2> HIDE DEF subjects
  <2>4. QED BY <1>1, <2>1, <2>2, <2>3 DEF subjects
<1>5. QED BY <1>3, <1>4

\* Candidates has a match of each subject of each face.
LEMMA CandidatesShow ==
  ASSUME NEW sdk \in SdkNames, NEW faces \in Seq(KnownFace)
  PROVE  Candidates(sdk, faces) \in Seq(MatchOf(sdk)) /\ Shows(Candidates(sdk, faces), faces, 0)
<1> DEFINE subjects(i) == Get(faces[i].subjects, <<>>)
           match(i, j) == [subject |-> subjects(i)[j].subject, similarity |-> subjects(i)[j].similarity,
                           match |-> TRUE, confidence |-> Shown(sdk, faces[i])]
           seqs == [i \in DOMAIN faces |-> [j \in DOMAIN subjects(i) |-> match(i, j)]]
           C == Candidates(sdk, faces)
<1>1. C = FlattenSeq(seqs)
  BY Zenon DEF Candidates
<1>2. DOMAIN faces = 1..Len(faces) /\ Len(faces) \in Nat
  OBVIOUS
<1>3. \A i \in DOMAIN faces : \A j \in DOMAIN subjects(i) : match(i, j) \in MatchOf(sdk)
  <2> SUFFICES ASSUME NEW i \in DOMAIN faces, NEW j \in DOMAIN subjects(i)
               PROVE  match(i, j) \in MatchOf(sdk)
    OBVIOUS
  <2>1. Shown(sdk, faces[i]) \in ConfidencesOf(sdk)
    BY SubjectsType, ConfidenceType DEF KnownFace
  <2>2. subjects(i)[j].subject \in STRING /\ subjects(i)[j].similarity \in Scores
    BY SubjectsType
  <2> HIDE DEF subjects
  <2>3. QED BY <2>1, <2>2 DEF MatchOf
<1>4. \A i \in DOMAIN faces : subjects(i) \in Seq(KnownSubject)
  BY SubjectsType
<1>5. \A i \in DOMAIN faces : /\ seqs[i] = [j \in DOMAIN subjects(i) |-> match(i, j)]
                              /\ DOMAIN seqs[i] = DOMAIN subjects(i)
  OBVIOUS
<1>6. \A i \in DOMAIN faces : seqs[i] \in Seq(MatchOf(sdk))
  <2> SUFFICES ASSUME NEW i \in DOMAIN faces PROVE seqs[i] \in Seq(MatchOf(sdk))
    OBVIOUS
  <2>1. DOMAIN subjects(i) = 1..Len(subjects(i)) /\ Len(subjects(i)) \in Nat
    BY <1>4
  <2>2. \A j \in 1..Len(subjects(i)) : match(i, j) \in MatchOf(sdk)
    BY <1>3, <2>1
  <2>3. seqs[i] = [j \in 1..Len(subjects(i)) |-> match(i, j)]
    BY <1>5, <2>1
  <2> HIDE DEF subjects, match, seqs
  <2>4. seqs[i] \in [1..Len(subjects(i)) -> MatchOf(sdk)]
    BY <2>2, <2>3
  <2>5. QED BY <2>1, <2>4, SeqDef
<1>7. seqs \in Seq(Seq(MatchOf(sdk))) /\ Len(seqs) = Len(faces)
  <2>1. DOMAIN seqs = 1..Len(faces) /\ seqs = [i \in 1..Len(faces) |-> seqs[i]]
    BY <1>2
  <2> HIDE DEF seqs
  <2>2. seqs \in [1..Len(faces) -> Seq(MatchOf(sdk))]
    BY <1>2, <1>6, <2>1
  <2>3. QED BY <1>2, <2>2, SeqDef
<1> HIDE DEF C, seqs
<1>8. C \in Seq(MatchOf(sdk)) /\ \E h : Covers(h, C, seqs, Len(faces))
  BY <1>1, <1>7, FlattenCovers
<1>9. PICK h : Covers(h, C, seqs, Len(faces))
  BY <1>8
<1>10. Places(seqs, Len(faces)) = ReachOf(faces, 0)
  <2>1. \A i \in DOMAIN faces : \A j \in DOMAIN subjects(i) : faces[i].subjects[j].similarity >= 0
    BY SubjectsType, ScoreAssumption DEF Scores
  <2>2. \A c : c \in Places(seqs, Len(faces)) <=>
                 \E i \in DOMAIN faces : \E j \in DOMAIN subjects(i) : c = <<i, j>>
    <3> SUFFICES ASSUME NEW c
                 PROVE  c \in Places(seqs, Len(faces)) <=>
                          \E i \in DOMAIN faces : \E j \in DOMAIN subjects(i) : c = <<i, j>>
      OBVIOUS
    <3>1. c \in Places(seqs, Len(faces)) <=>
            \E i \in DOMAIN faces : \E j \in DOMAIN seqs[i] : c = <<i, j>>
      BY <1>2, PlaceIn
    <3> HIDE DEF subjects
    <3>2. QED BY <1>5, <3>1
  <2>3. \A c : c \in ReachOf(faces, 0) <=>
                 \E i \in DOMAIN faces : \E j \in DOMAIN subjects(i) :
                    c = <<i, j>> /\ faces[i].subjects[j].similarity >= 0
    BY ReachIn
  <2> HIDE DEF subjects
  <2>4. \A c : c \in Places(seqs, Len(faces)) <=> c \in ReachOf(faces, 0)
    <3> SUFFICES ASSUME NEW c
                 PROVE  c \in Places(seqs, Len(faces)) <=> c \in ReachOf(faces, 0)
      OBVIOUS
    <3>1. CASE c \in Places(seqs, Len(faces))
      <4>1. PICK i \in DOMAIN faces : \E j \in DOMAIN subjects(i) : c = <<i, j>>
        BY <2>2, <3>1
      <4>2. PICK j \in DOMAIN subjects(i) : c = <<i, j>>
        BY <4>1
      <4>3. QED BY <2>1, <2>3, <3>1, <4>2
    <3>2. CASE c \in ReachOf(faces, 0)
      BY <2>2, <2>3, <3>2
    <3>3. QED BY <3>1, <3>2
  <2>5. Places(seqs, Len(faces)) \subseteq ReachOf(faces, 0)
    BY <2>4
  <2>6. ReachOf(faces, 0) \subseteq Places(seqs, Len(faces))
    BY <2>4
  <2>7. QED BY <2>5, <2>6
<1>11. \A p \in DOMAIN C : Same(C[p], faces, h[p])
  <2> SUFFICES ASSUME NEW p \in DOMAIN C PROVE Same(C[p], faces, h[p])
    OBVIOUS
  <2>1. h[p] \in Places(seqs, Len(faces)) /\ C[p] = seqs[h[p][1]][h[p][2]]
    BY <1>9 DEF Covers, Bijection, Injection
  <2>2. PICK i \in DOMAIN faces : \E j \in DOMAIN subjects(i) : h[p] = <<i, j>>
    <3>1. \E i \in DOMAIN faces : \E j \in DOMAIN seqs[i] : h[p] = <<i, j>>
      BY <1>2, <2>1, PlaceIn
    <3> HIDE DEF subjects
    <3>2. QED BY <1>5, <3>1
  <2>3. PICK j \in DOMAIN subjects(i) : h[p] = <<i, j>>
    BY <2>2
  <2>4. C[p] = match(i, j)
    <3>1. C[p] = seqs[i][j]
      BY <2>1, <2>3
    <3>2. seqs[i] = [k \in DOMAIN subjects(i) |-> match(i, k)]
      BY <1>5
    <3> HIDE DEF subjects, match
    <3>3. QED BY <3>1, <3>2
  <2>5. subjects(i) = faces[i].subjects
    BY SubjectsType
  <2>6. QED BY <2>3, <2>4, <2>5 DEF Same
<1>12. h \in Bijection(DOMAIN C, ReachOf(faces, 0))
  BY <1>9, <1>10 DEF Covers
<1>13. Shows(C, faces, 0)
  BY <1>11, <1>12 DEF Shows
<1>14. QED BY <1>8, <1>13 DEF C

\* Filtering the matches of all subjects leaves those of the subjects that
\* reach the threshold.
LEMMA FilteredShow ==
  ASSUME NEW sdk, NEW faces \in Seq(KnownFace), NEW ms \in Seq(MatchOf(sdk)),
         Shows(ms, faces, 0), NEW t \in Int
  PROVE  AtLeast(t, ms) \in Seq(MatchOf(sdk)) /\ Shows(AtLeast(t, ms), faces, t)
<1> DEFINE A == AtLeast(t, ms)
           R == {p \in DOMAIN ms : ms[p].similarity >= t}
<1>1. \A m \in MatchOf(sdk) : m.similarity \in Int
  BY ScoreAssumption DEF MatchOf, Scores
<1>2. /\ A \in Seq(MatchOf(sdk))
      /\ \E k \in Bijection(DOMAIN A, R) : \A q \in DOMAIN A : A[q] = ms[k[q]]
  BY <1>1, AtLeastCovers
<1>3. PICK k \in Bijection(DOMAIN A, R) : \A q \in DOMAIN A : A[q] = ms[k[q]]
  BY <1>2
<1>4. PICK h \in Bijection(DOMAIN ms, ReachOf(faces, 0)) :
        \A p \in DOMAIN ms : Same(ms[p], faces, h[p])
  BY DEF Shows
<1> DEFINE g == [p \in R |-> h[p]]
<1>5. /\ h \in [DOMAIN ms -> ReachOf(faces, 0)] /\ \A p, q \in DOMAIN ms : h[p] = h[q] => p = q
      /\ \A c \in ReachOf(faces, 0) : \E p \in DOMAIN ms : h[p] = c
  BY <1>4 DEF Bijection, Injection, Surjection, IsInjective
<1>6. \A c : c \in ReachOf(faces, t) <=>
               c \in ReachOf(faces, 0) /\ faces[c[1]].subjects[c[2]].similarity >= t
  <2>1. \A i \in DOMAIN faces : \A j \in DOMAIN Get(faces[i].subjects, <<>>) :
          faces[i].subjects[j].similarity >= 0
    BY SubjectsType, ScoreAssumption DEF Scores
  <2>2. QED BY <2>1, ReachIn
<1>7. \A p \in DOMAIN ms : p \in R <=> h[p] \in ReachOf(faces, t)
  BY <1>4, <1>5, <1>6 DEF Same
<1>8. R \subseteq DOMAIN ms
  OBVIOUS
<1> HIDE DEF R, A
<1>9. g \in Bijection(R, ReachOf(faces, t))
  <2>1. \A c \in ReachOf(faces, t) : \E p \in R : g[p] = c
    BY <1>5, <1>6, <1>7
  <2>2. g \in [R -> ReachOf(faces, t)] /\ \A p, q \in R : g[p] = g[q] => p = q
    BY <1>5, <1>7, <1>8
  <2>3. QED BY <2>1, <2>2 DEF Bijection, Injection, Surjection, IsInjective
<1>10. [q \in DOMAIN A |-> g[k[q]]] \in Bijection(DOMAIN A, ReachOf(faces, t))
  BY <1>3, <1>9, Composed
<1>11. \A q \in DOMAIN A : Same(A[q], faces, g[k[q]])
  <2> SUFFICES ASSUME NEW q \in DOMAIN A PROVE Same(A[q], faces, g[k[q]])
    OBVIOUS
  <2>1. k[q] \in R
    BY <1>3 DEF Bijection, Injection
  <2>2. QED BY <1>3, <1>4, <1>8, <2>1
<1>12. Shows(A, faces, t)
  <2> DEFINE b == [q \in DOMAIN A |-> g[k[q]]]
  <2>1. \A q \in DOMAIN A : Same(A[q], faces, b[q])
    BY <1>11
  <2> HIDE DEF g
  <2>2. QED BY <1>10, <2>1, Zenon DEF Shows
<1>13. QED BY <1>2, <1>12 DEF A


\* Filtering face by face leaves the same subjects, each in its own face.
LEMMA FaceByFace ==
  ASSUME NEW faces \in Seq(KnownFace), NEW t \in Int
  PROVE  /\ FilteredFaces(faces, t) \in Seq(KnownFace)
         /\ \A ms : Shows(ms, FilteredFaces(faces, t), 0) => Shows(ms, faces, t)
<1> DEFINE F == FilteredFaces(faces, t)
           old(i) == Get(faces[i].subjects, <<>>)
           kept(i) == {j \in DOMAIN old(i) : old(i)[j].similarity >= t}
           From(k, i) == /\ k \in Bijection(DOMAIN AtLeast(t, old(i)), kept(i))
                         /\ \A q \in DOMAIN AtLeast(t, old(i)) : AtLeast(t, old(i))[q] = old(i)[k[q]]
           K == [i \in DOMAIN faces |-> CHOOSE k : From(k, i)]
<1>1. DOMAIN faces = 1..Len(faces) /\ Len(faces) \in Nat
  OBVIOUS
<1>2. \A m \in KnownSubject : m.similarity \in Int
  BY ScoreAssumption DEF KnownSubject, Scores
<1>3. ASSUME NEW i \in DOMAIN faces
      PROVE  /\ AtLeast(t, old(i)) \in Seq(KnownSubject)
             /\ From(K[i], i)
  <2>1. old(i) \in Seq(KnownSubject)
    BY SubjectsType
  <2>2. AtLeast(t, old(i)) \in Seq(KnownSubject) /\ \E k : From(k, i)
    <3> HIDE DEF old
    <3>1. /\ AtLeast(t, old(i)) \in Seq(KnownSubject)
          /\ \E k \in Bijection(DOMAIN AtLeast(t, old(i)), kept(i)) :
               \A q \in DOMAIN AtLeast(t, old(i)) : AtLeast(t, old(i))[q] = old(i)[k[q]]
      BY <1>2, <2>1, AtLeastCovers
    <3> HIDE DEF kept
    <3>2. QED BY <3>1
  <2>3. K[i] = CHOOSE k : From(k, i)
    OBVIOUS
  <2> HIDE DEF K, From
  <2>4. QED BY <2>2, <2>3
<1> HIDE DEF K
<1>4. \A i \in DOMAIN faces : /\ F[i] = [faces[i] EXCEPT !.subjects = AtLeast(t, old(i))]
                              /\ faces[i] \in KnownFace
  BY SubjectsType DEF FilteredFaces
<1>5. ASSUME NEW i \in DOMAIN faces
      PROVE  F[i] \in KnownFace /\ F[i].subjects = AtLeast(t, old(i))
  <2>1. AtLeast(t, old(i)) \in Optional(Seq(KnownSubject))
    BY <1>3 DEF Optional
  <2> HIDE DEF F, old
  <2>2. F[i].subjects = AtLeast(t, old(i))
    BY <1>4 DEF KnownFace
  <2>3. F[i] \in KnownFace
    BY <1>4, <2>1 DEF KnownFace
  <2>4. QED BY <2>2, <2>3
<1>6. F \in Seq(KnownFace) /\ DOMAIN F = DOMAIN faces
  <2>1. DOMAIN F = 1..Len(faces) /\ F = [i \in 1..Len(faces) |-> F[i]]
    BY <1>1 DEF FilteredFaces
  <2> HIDE DEF F
  <2>2. F \in [1..Len(faces) -> KnownFace]
    BY <1>1, <1>5, <2>1
  <2>3. QED BY <1>1, <2>1, <2>2, SeqDef
<1> HIDE DEF F
<1>7. ASSUME NEW i \in DOMAIN faces
      PROVE  /\ Get(F[i].subjects, <<>>) = AtLeast(t, old(i))
             /\ \A j \in DOMAIN AtLeast(t, old(i)) : F[i].subjects[j].similarity >= 0
  <2>1. Get(F[i].subjects, <<>>) = AtLeast(t, old(i))
    <3>1. CASE F[i].subjects = Missing
      BY <1>3, <1>5, <3>1, MissingAssumption
    <3>2. CASE F[i].subjects # Missing
      BY <1>5, <3>2 DEF Get
    <3>3. QED BY <3>1, <3>2
  <2>2. \A j \in DOMAIN AtLeast(t, old(i)) : F[i].subjects[j].similarity \in Scores
    BY <1>6, <2>1, SubjectsType
  <2>3. QED BY <2>1, <2>2, ScoreAssumption DEF Scores
<1>8. ASSUME NEW ms, Shows(ms, F, 0)
      PROVE  Shows(ms, faces, t)
  <2>1. PICK h \in Bijection(DOMAIN ms, ReachOf(F, 0)) : \A p \in DOMAIN ms : Same(ms[p], F, h[p])
    BY <1>8 DEF Shows
  <2> DEFINE g == [c \in ReachOf(F, 0) |-> <<c[1], K[c[1]][c[2]]>>]
  <2>2. \A c : c \in ReachOf(F, 0) <=>
                 \E i \in DOMAIN faces : \E j \in DOMAIN AtLeast(t, old(i)) : c = <<i, j>>
    <3> SUFFICES ASSUME NEW c
                 PROVE  c \in ReachOf(F, 0) <=>
                          \E i \in DOMAIN faces : \E j \in DOMAIN AtLeast(t, old(i)) : c = <<i, j>>
      OBVIOUS
    <3>1. c \in ReachOf(F, 0) <=>
            \E i \in DOMAIN F : \E j \in DOMAIN Get(F[i].subjects, <<>>) :
              c = <<i, j>> /\ F[i].subjects[j].similarity >= 0
      BY ReachIn
    <3> HIDE DEF old
    <3>2. QED BY <1>6, <1>7, <3>1
  <2>3. \A c : c \in ReachOf(faces, t) <=>
                 \E i \in DOMAIN faces : \E j \in kept(i) : c = <<i, j>>
    <3> SUFFICES ASSUME NEW c
                 PROVE  c \in ReachOf(faces, t) <=>
                          \E i \in DOMAIN faces : \E j \in kept(i) : c = <<i, j>>
      OBVIOUS
    <3>1. \A i \in DOMAIN faces : \A j \in DOMAIN old(i) : old(i) = faces[i].subjects
      BY SubjectsType
    <3>2. c \in ReachOf(faces, t) <=>
            \E i \in DOMAIN faces : \E j \in DOMAIN old(i) :
              c = <<i, j>> /\ faces[i].subjects[j].similarity >= t
      BY ReachIn
    <3>3. \A i \in DOMAIN faces : \A j : j \in kept(i) <=>
            j \in DOMAIN old(i) /\ old(i)[j].similarity >= t
      OBVIOUS
    <3> HIDE DEF old, kept
    <3>4. QED BY <3>1, <3>2, <3>3
  <2>4. ASSUME NEW i \in DOMAIN faces
        PROVE  /\ K[i] \in [DOMAIN AtLeast(t, old(i)) -> kept(i)]
               /\ \A p, q \in DOMAIN AtLeast(t, old(i)) : K[i][p] = K[i][q] => p = q
               /\ \A j \in kept(i) : \E q \in DOMAIN AtLeast(t, old(i)) : K[i][q] = j
               /\ \A q \in DOMAIN AtLeast(t, old(i)) : AtLeast(t, old(i))[q] = old(i)[K[i][q]]
    <3>1. From(K[i], i)
      BY <1>3
    <3> HIDE DEF old, kept
    <3>2. QED BY <3>1 DEF Bijection, Injection, Surjection, IsInjective
  <2>5. g \in Bijection(ReachOf(F, 0), ReachOf(faces, t))
    <3> HIDE DEF old, kept
    <3>1. \A c \in ReachOf(F, 0) : g[c] \in ReachOf(faces, t)
      BY <2>2, <2>3, <2>4
    <3>2. ASSUME NEW c \in ReachOf(F, 0), NEW d \in ReachOf(F, 0), g[c] = g[d]
          PROVE  c = d
      <4>1. PICK i \in DOMAIN faces : \E j \in DOMAIN AtLeast(t, old(i)) : c = <<i, j>>
        BY <2>2
      <4>2. PICK j \in DOMAIN AtLeast(t, old(i)) : c = <<i, j>>
        BY <4>1
      <4>3. PICK k \in DOMAIN faces : \E l \in DOMAIN AtLeast(t, old(k)) : d = <<k, l>>
        BY <2>2
      <4>4. PICK l \in DOMAIN AtLeast(t, old(k)) : d = <<k, l>>
        BY <4>3
      <4>5. g[c] = <<i, K[i][j]>> /\ g[d] = <<k, K[k][l]>>
        BY <4>2, <4>4
      <4>6. i = k /\ K[i][j] = K[k][l]
        BY <3>2, <4>5
      <4>7. QED BY <2>4, <4>2, <4>4, <4>6
    <3>3. ASSUME NEW c \in ReachOf(faces, t)
          PROVE  \E d \in ReachOf(F, 0) : g[d] = c
      <4>1. PICK i \in DOMAIN faces : \E j \in kept(i) : c = <<i, j>>
        BY <2>3
      <4>2. PICK j \in kept(i) : c = <<i, j>>
        BY <4>1
      <4>3. PICK q \in DOMAIN AtLeast(t, old(i)) : K[i][q] = j
        BY <2>4
      <4>4. <<i, q>> \in ReachOf(F, 0)
        BY <2>2
      <4>5. g[<<i, q>>] = c
        BY <4>2, <4>3, <4>4
      <4>6. QED BY <4>4, <4>5
    <3>4. g \in [ReachOf(F, 0) -> ReachOf(faces, t)]
      BY <3>1
    <3> HIDE DEF g
    <3>5. QED BY <3>2, <3>3, <3>4 DEF Bijection, Injection, Surjection, IsInjective
  <2> DEFINE b == [p \in DOMAIN ms |-> g[h[p]]]
  <2>6. b \in Bijection(DOMAIN ms, ReachOf(faces, t))
    BY <2>1, <2>5, Composed
  <2>7. \A p \in DOMAIN ms : Same(ms[p], faces, b[p])
    <3> SUFFICES ASSUME NEW p \in DOMAIN ms PROVE Same(ms[p], faces, b[p])
      OBVIOUS
    <3>1. h[p] \in ReachOf(F, 0) /\ Same(ms[p], F, h[p])
      BY <2>1 DEF Bijection, Injection
    <3>2. PICK i \in DOMAIN faces : \E j \in DOMAIN AtLeast(t, old(i)) : h[p] = <<i, j>>
      BY <2>2, <3>1
    <3>3. PICK j \in DOMAIN AtLeast(t, old(i)) : h[p] = <<i, j>>
      BY <3>2
    <3>4. b[p] = <<i, K[i][j]>>
      BY <3>1, <3>3
    <3>5. F[i].subjects[j] = old(i)[K[i][j]] /\ K[i][j] \in kept(i)
      <4> HIDE DEF old, kept
      <4>1. QED BY <1>5, <2>4
    <3>6. old(i) = faces[i].subjects
      <4>1. K[i][j] \in DOMAIN old(i)
        BY <3>5
      <4>2. QED BY <4>1, SubjectsType
    <3>7. F[i].subjects[j] = faces[i].subjects[K[i][j]]
      BY <3>5, <3>6
    <3> HIDE DEF b, old, kept
    <3>8. QED BY <3>1, <3>3, <3>4, <3>7 DEF Same
  <2> HIDE DEF b
  <2>8. QED BY <2>6, <2>7 DEF Shows
<1>9. QED BY <1>6, <1>8 DEF F


\* Sorting, and marking each match as one, change nothing of that.
LEMMA SortedShow ==
  ASSUME NEW sdk, NEW ms \in Seq(MatchOf(sdk)), NEW faces, NEW t, Shows(ms, faces, t)
  PROVE  /\ Descending(ms) \in Seq(MatchOf(sdk))
         /\ Shows(Descending(ms), faces, t)
         /\ \A p, q \in DOMAIN Descending(ms) :
              p < q => Descending(ms)[p].similarity >= Descending(ms)[q].similarity
<1> DEFINE D == Descending(ms)
<1>1. \A m \in MatchOf(sdk) : m.similarity \in Int
  BY ScoreAssumption DEF MatchOf, Scores
<1>2. /\ D \in Seq(MatchOf(sdk)) /\ DOMAIN D = DOMAIN ms
      /\ \E h \in Bijection(DOMAIN ms, DOMAIN ms) : \A p \in DOMAIN ms : D[p] = ms[h[p]]
      /\ \A p, q \in DOMAIN ms : p < q => D[p].similarity >= D[q].similarity
  BY <1>1, DescendingCovers
<1> HIDE DEF D
<1>3. PICK h \in Bijection(DOMAIN ms, DOMAIN ms) : \A p \in DOMAIN ms : D[p] = ms[h[p]]
  BY <1>2
<1>4. PICK g \in Bijection(DOMAIN ms, ReachOf(faces, t)) :
        \A p \in DOMAIN ms : Same(ms[p], faces, g[p])
  BY DEF Shows
<1> DEFINE b == [p \in DOMAIN ms |-> g[h[p]]]
<1>5. b \in Bijection(DOMAIN D, ReachOf(faces, t))
  BY <1>2, <1>3, <1>4, Composed
<1>6. \A p \in DOMAIN D : Same(D[p], faces, b[p])
  <2> SUFFICES ASSUME NEW p \in DOMAIN D PROVE Same(D[p], faces, b[p])
    OBVIOUS
  <2>1. h[p] \in DOMAIN ms /\ b[p] = g[h[p]]
    BY <1>2, <1>3 DEF Bijection, Injection
  <2> HIDE DEF b
  <2>2. QED BY <1>2, <1>3, <1>4, <2>1
<1> HIDE DEF b
<1>7. Shows(D, faces, t)
  BY <1>5, <1>6 DEF Shows
<1>8. QED BY <1>2, <1>7 DEF D

\* The mark GoSearch sets hides no subject.
LEMMA MarkedShow ==
  ASSUME NEW sdk, NEW ms \in Seq(MatchOf(sdk))
  PROVE  LET marked == [i \in DOMAIN ms |-> [ms[i] EXCEPT !.match = TRUE]] IN
           /\ marked \in Seq(MatchOf(sdk))
           /\ \A faces, t : Shows(ms, faces, t) => Shows(marked, faces, t)
<1> DEFINE marked == [i \in DOMAIN ms |-> [ms[i] EXCEPT !.match = TRUE]]
<1>1. DOMAIN ms = 1..Len(ms) /\ Len(ms) \in Nat /\ \A i \in DOMAIN ms : ms[i] \in MatchOf(sdk)
  OBVIOUS
<1>2. \A m \in MatchOf(sdk) :
        LET n == [m EXCEPT !.match = TRUE] IN
          n \in MatchOf(sdk) /\ n.subject = m.subject /\ n.similarity = m.similarity /\ n.match
  BY DEF MatchOf
<1>3. /\ DOMAIN marked = DOMAIN ms /\ marked = [i \in 1..Len(ms) |-> marked[i]]
      /\ \A i \in DOMAIN ms : marked[i] = [ms[i] EXCEPT !.match = TRUE]
  BY <1>1
<1> HIDE DEF marked
<1>4. \A i \in DOMAIN ms : /\ marked[i] \in MatchOf(sdk) /\ marked[i].match
                           /\ marked[i].subject = ms[i].subject
                           /\ marked[i].similarity = ms[i].similarity
  <2> SUFFICES ASSUME NEW i \in DOMAIN ms
               PROVE  /\ marked[i] \in MatchOf(sdk) /\ marked[i].match
                      /\ marked[i].subject = ms[i].subject
                      /\ marked[i].similarity = ms[i].similarity
    OBVIOUS
  <2>1. ms[i] \in MatchOf(sdk) /\ marked[i] = [ms[i] EXCEPT !.match = TRUE]
    BY <1>1, <1>3
  <2>2. QED BY <1>2, <2>1
<1>5. marked \in Seq(MatchOf(sdk))
  <2>1. marked \in [1..Len(ms) -> MatchOf(sdk)]
    BY <1>1, <1>3, <1>4
  <2>2. QED BY <1>1, <2>1, SeqDef
<1>6. ASSUME NEW faces, NEW t, Shows(ms, faces, t) PROVE Shows(marked, faces, t)
  <2>1. PICK h \in Bijection(DOMAIN ms, ReachOf(faces, t)) : \A p \in DOMAIN ms : Same(ms[p], faces, h[p])
    BY <1>6 DEF Shows
  <2>2. \A p \in DOMAIN marked : Same(marked[p], faces, h[p])
    BY <1>3, <1>4, <2>1 DEF Same
  <2>3. QED BY <1>3, <2>1, <2>2 DEF Shows
<1>7. QED BY <1>5, <1>6 DEF marked

\* A result for which SearchRanked holds, of a list of faces and a threshold.
Ranked(r, faces, t) ==
  LET ms == r.matches IN
    /\ r.kind = "matches"
    /\ Len(ms) = Cardinality(ReachOf(faces, t))
    /\ \A p \in DOMAIN ms :
         /\ ms[p].match
         /\ \A q \in DOMAIN ms : p < q => ms[p].similarity >= ms[q].similarity
         /\ Cardinality({q \in DOMAIN ms : ms[q].subject = ms[p].subject
                                           /\ ms[q].similarity = ms[p].similarity})
              = Cardinality({c \in ReachOf(faces, t) :
                  LET s == faces[c[1]].subjects[c[2]] IN
                    ms[p].subject = s.subject /\ ms[p].similarity = s.similarity})

\* Matches that show the subjects and are sorted are ranked.
LEMMA ShownRanked ==
  ASSUME NEW sdk, NEW ms \in Seq(MatchOf(sdk)), NEW faces, NEW t, Shows(ms, faces, t),
         NEW count
  PROVE  Ranked(Found(Descending(ms), count), faces, t)
<1> DEFINE D == Descending(ms)
           T == ReachOf(faces, t)
<1>1. /\ D \in Seq(MatchOf(sdk)) /\ Shows(D, faces, t)
      /\ \A p, q \in DOMAIN D : p < q => D[p].similarity >= D[q].similarity
  BY SortedShow
<1> HIDE DEF D
<1>2. PICK h \in Bijection(DOMAIN D, T) : \A p \in DOMAIN D : Same(D[p], faces, h[p])
  BY <1>1 DEF Shows
<1> HIDE DEF T
<1>3. Len(D) \in Nat /\ DOMAIN D = 1..Len(D)
  BY <1>1
<1>4. IsFiniteSet(DOMAIN D) /\ Cardinality(DOMAIN D) = Len(D)
  <2>1. ASSUME NEW n \in Nat PROVE IsFiniteSet(1..n) /\ Cardinality(1..n) = n
    BY FS_Interval
  <2>2. QED BY <1>3, <2>1
<1>5. h \in [DOMAIN D -> T]
  BY <1>2 DEF Bijection, Injection
<1>6. Len(D) = Cardinality(T)
  BY <1>2, <1>4, <1>5, EquallyMany
<1>7. ASSUME NEW p \in DOMAIN D
      PROVE  Cardinality({q \in DOMAIN D : D[q].subject = D[p].subject
                                           /\ D[q].similarity = D[p].similarity})
               = Cardinality({c \in T : LET s == faces[c[1]].subjects[c[2]] IN
                                          D[p].subject = s.subject /\ D[p].similarity = s.similarity})
  <2> DEFINE A == {q \in DOMAIN D : D[q].subject = D[p].subject /\ D[q].similarity = D[p].similarity}
             B == {c \in T : LET s == faces[c[1]].subjects[c[2]] IN
                               D[p].subject = s.subject /\ D[p].similarity = s.similarity}
  <2>1. A \in SUBSET DOMAIN D /\ B \in SUBSET T
    OBVIOUS
  <2>2. \A q \in DOMAIN D : q \in A <=> h[q] \in B
    BY <1>2, <1>5 DEF Same
  <2> HIDE DEF A, B
  <2>3. Cardinality(A) = Cardinality(B)
    BY <1>2, <1>4, <2>1, <2>2, EquallyMany
  <2>4. QED BY <2>3 DEF A, B
<1>8. \A p \in DOMAIN D : D[p].match
  BY <1>2 DEF Same
<1>9. Found(D, count).kind = "matches" /\ Found(D, count).matches = D
  BY DEF Found
<1>10. Ranked(Found(D, count), faces, t)
  BY <1>1, <1>6, <1>7, <1>8, <1>9 DEF Ranked, T
<1>11. QED BY <1>10 DEF D

\* The client of each SDK, asked with a threshold as it takes one, ranks.
LEMMA SearchRanks ==
  ASSUME NEW c, c.sdk \in SdkNames, NEW d \in SearchDocument, d.result # Missing,
         NEW t \in Int \cup {Missing}, t = Missing => c.sdk \in {"python", "java", "node"}
  PROVE  Ranked(Search(c, d, t), d.result, Get(t, 0))
<1> DEFINE u == Get(t, 0)
           all == Candidates(c.sdk, d.result)
<1>1. u \in Int /\ d.result \in Seq(KnownFace)
  BY DEF Get, SearchDocument, Optional
<1>2. t # Missing => u = t
  BY DEF Get
<1> HIDE DEF u
<1>3. all \in Seq(MatchOf(c.sdk)) /\ Shows(all, d.result, 0)
  BY <1>1, CandidatesShow
<1>4. /\ AtLeast(u, all) \in Seq(MatchOf(c.sdk))
      /\ Shows(AtLeast(u, all), d.result, u)
  BY <1>1, <1>3, FilteredShow
<1>5. CASE c.sdk = "python"
  <2>1. Search(c, d, t) = Found(Descending(AtLeast(u, all)), Len(d.result))
    BY <1>5 DEF Search, PythonSearch, u
  <2>2. QED BY <1>4, <2>1, ShownRanked DEF u
<1>6. CASE c.sdk = "java"
  <2>1. Search(c, d, t) = Found(Descending(AtLeast(u, all)), Len(d.result))
    BY <1>6 DEF Search, JavaSearch, u
  <2>2. QED BY <1>4, <2>1, ShownRanked DEF u
<1>7. CASE c.sdk = "go"
  <2> DEFINE kept == AtLeast(u, all)
             marked == [i \in DOMAIN kept |-> [kept[i] EXCEPT !.match = TRUE]]
  <2>1. Search(c, d, t) = Found(Descending(marked), Len(d.result))
    BY <1>2, <1>7, Zenon DEF Search, GoSearch
  <2> HIDE DEF kept
  <2>2. marked \in Seq(MatchOf(c.sdk)) /\ Shows(marked, d.result, u)
    BY <1>4, MarkedShow DEF kept
  <2> HIDE DEF marked
  <2>3. QED BY <2>1, <2>2, ShownRanked DEF u
<1>8. ASSUME c.sdk \in {"node", "web"}
      PROVE  LET few == Candidates(c.sdk, FilteredFaces(d.result, u)) IN
               few \in Seq(MatchOf(c.sdk)) /\ Shows(few, d.result, u)
  BY <1>1, FaceByFace, CandidatesShow
<1>9. CASE c.sdk = "node"
  <2>1. Search(c, d, t) = Found(Descending(Candidates("node", FilteredFaces(d.result, u))), Len(d.result))
    BY <1>9 DEF Search, NodeSearch, u
  <2>2. QED BY <1>8, <1>9, <2>1, ShownRanked DEF u
<1>10. CASE c.sdk = "web"
  <2>1. Search(c, d, t) = Found(Descending(Candidates("web", FilteredFaces(d.result, u))), Missing)
    <3>1. Get(d.result, <<>>) = d.result /\ t = u
      BY <1>2, <1>10 DEF Get
    <3>2. QED BY <1>10, <3>1 DEF Search, WebSearch
  <2>2. QED BY <1>8, <1>10, <2>1, ShownRanked DEF u
<1>11. QED BY <1>5, <1>6, <1>7, <1>9, <1>10 DEF SdkNames


-----------------------------------------------------------------------------
(* Base64                                                                  *)

\* Digit r of the g-th group of three bytes, and what is missing of the last.
ByteAt(bytes, k) == IF k <= Len(bytes) THEN bytes[k] ELSE 0

DigitAt(bytes, g, r) ==
  CASE r = 0 -> ByteAt(bytes, 3*g + 1) \div 4
    [] r = 1 -> (ByteAt(bytes, 3*g + 1) % 4) * 16 + ByteAt(bytes, 3*g + 2) \div 16
    [] r = 2 -> IF 3*g + 2 > Len(bytes) THEN 64
                ELSE (ByteAt(bytes, 3*g + 2) % 16) * 4 + ByteAt(bytes, 3*g + 3) \div 64
    [] r = 3 -> IF 3*g + 3 > Len(bytes) THEN 64 ELSE ByteAt(bytes, 3*g + 3) % 64

\* A digit that there are no bytes for, of n.
Padded(n, g, r) == (r = 2 /\ 3*g + 2 > n) \/ (r = 3 /\ 3*g + 3 > n)

Groups(n) == (n + 2) \div 3
Padding(n) == 3 * Groups(n) - n

\* The arithmetic of groups.
LEMMA GroupBounds ==
  ASSUME NEW n \in Nat
  PROVE  /\ Groups(n) \in Nat /\ Padding(n) \in 0..2
         /\ n # 0 => Groups(n) # 0
         /\ n = 0 => Padding(n) = 0
         /\ ((4 * Groups(n) - Padding(n)) * 6) \div 8 = n
BY DEF Groups, Padding

\* Digit k is digit (k - 1) % 4 of its group.
LEMMA PositionInGroup ==
  ASSUME NEW k \in Nat, k # 0
  PROVE  /\ (k - 1) \div 4 \in Nat /\ (k - 1) % 4 \in 0..3
         /\ k = 4 * ((k - 1) \div 4) + ((k - 1) % 4) + 1
OBVIOUS

\* Byte k is byte (k - 1) % 3 of its group.
LEMMA ByteInGroup ==
  ASSUME NEW k \in Nat, k # 0
  PROVE  /\ (k - 1) \div 3 \in Nat /\ (k - 1) % 3 \in 0..2
         /\ k = 3 * ((k - 1) \div 3) + ((k - 1) % 3) + 1
OBVIOUS

\* The text, position by position.
LEMMA TextIs ==
  ASSUME NEW bytes \in Seq(0..255)
  PROVE  /\ DOMAIN Base64(bytes) = 1..(4 * Groups(Len(bytes)))
         /\ Base64(bytes) = [k \in 1..(4 * Groups(Len(bytes))) |->
                               DigitAt(bytes, (k - 1) \div 4, (k - 1) % 4)]
<1>1. Base64(bytes) = [k \in 1..(4 * Groups(Len(bytes))) |->
                         DigitAt(bytes, (k - 1) \div 4, (k - 1) % 4)]
  BY Zenon DEF Base64, DigitAt, ByteAt, Groups
<1> DEFINE f == [k \in 1..(4 * Groups(Len(bytes))) |->
                   DigitAt(bytes, (k - 1) \div 4, (k - 1) % 4)]
<1>2. DOMAIN f = 1..(4 * Groups(Len(bytes)))
  OBVIOUS
<1> HIDE DEF f
<1>3. DOMAIN Base64(bytes) = 1..(4 * Groups(Len(bytes)))
  BY <1>1, <1>2 DEF f
<1>4. QED BY <1>1, <1>3

\* A byte that is not there counts as 0.
LEMMA ByteType ==
  ASSUME NEW bytes \in Seq(0..255), NEW k \in Nat, k # 0
  PROVE  ByteAt(bytes, k) \in 0..255
<1>1. CASE k <= Len(bytes)
  <2>1. k \in 1..Len(bytes)
    BY <1>1
  <2>2. ByteAt(bytes, k) = bytes[k]
    BY <1>1 DEF ByteAt
  <2>3. bytes[k] \in 0..255
    BY <2>1, ElementOfSeq
  <2>4. QED BY <2>2, <2>3
<1>2. CASE ~(k <= Len(bytes))
  BY <1>2 DEF ByteAt
<1>3. QED BY <1>1, <1>2

\* Padding is what a group has no bytes for, and nothing else.
LEMMA DigitIs ==
  ASSUME NEW bytes \in Seq(0..255), NEW g \in Nat, 3 * g + 1 <= Len(bytes), NEW r \in 0..3
  PROVE  /\ ~Padded(Len(bytes), g, r) => DigitAt(bytes, g, r) \in 0..63
         /\ Padded(Len(bytes), g, r) => DigitAt(bytes, g, r) = 64
<1> DEFINE a == ByteAt(bytes, 3*g + 1)
           b == ByteAt(bytes, 3*g + 2)
           c == ByteAt(bytes, 3*g + 3)
<1>1. a \in 0..255 /\ b \in 0..255 /\ c \in 0..255
  <2>1. \A k \in {3*g + 1, 3*g + 2, 3*g + 3} : k \in Nat /\ k # 0
    OBVIOUS
  <2>2. QED BY <2>1, ByteType
<1>2. /\ r = 0 => DigitAt(bytes, g, r) = a \div 4
      /\ r = 1 => DigitAt(bytes, g, r) = (a % 4) * 16 + b \div 16
      /\ r = 2 => DigitAt(bytes, g, r) = IF 3*g + 2 > Len(bytes) THEN 64 ELSE (b % 16) * 4 + c \div 64
      /\ r = 3 => DigitAt(bytes, g, r) = IF 3*g + 3 > Len(bytes) THEN 64 ELSE c % 64
  BY DEF DigitAt
<1>3. Len(bytes) \in Nat
  OBVIOUS
<1> HIDE DEF a, b, c
<1>4. /\ a \div 4 \in 0..63 /\ (a % 4) * 16 + b \div 16 \in 0..63
      /\ (b % 16) * 4 + c \div 64 \in 0..63 /\ c % 64 \in 0..63
  <2>1. a \div 4 \in 0..63
    BY <1>1
  <2>2. (a % 4) * 16 + b \div 16 \in 0..63
    <3>1. a % 4 \in 0..3 /\ b \div 16 \in 0..15
      BY <1>1
    <3>2. QED BY <1>1, <3>1
  <2>3. (b % 16) * 4 + c \div 64 \in 0..63
    <3>1. b % 16 \in 0..15 /\ c \div 64 \in 0..3
      BY <1>1
    <3>2. QED BY <1>1, <3>1
  <2>4. c % 64 \in 0..63
    BY <1>1
  <2>5. QED BY <2>1, <2>2, <2>3, <2>4
<1>5. CASE r = 0
  BY <1>2, <1>4, <1>5 DEF Padded
<1>6. CASE r = 1
  BY <1>2, <1>4, <1>6 DEF Padded
<1>7. CASE r = 2
  BY <1>2, <1>4, <1>7 DEF Padded
<1>8. CASE r = 3
  BY <1>2, <1>4, <1>8 DEF Padded
<1>9. QED BY <1>5, <1>6, <1>7, <1>8

\* What Base64 writes is fours of digits, with the padding at the very end.
LEMMA TextShape ==
  ASSUME NEW bytes \in Seq(0..255)
  PROVE  LET n == Len(bytes)  text == Base64(bytes)  size == 4 * Groups(n) - Padding(n) IN
           /\ text \in Seq(0..64) /\ Len(text) = 4 * Groups(n)
           /\ \A k \in 1..Len(text) : /\ k <= size => text[k] \in 0..63
                                      /\ k > size => text[k] = 64
<1> DEFINE n == Len(bytes)
           text == Base64(bytes)
           m == Groups(n)
           size == 4 * m - Padding(n)
<1>1. n \in Nat /\ m \in Nat /\ Padding(n) \in 0..2 /\ n = 3 * m - Padding(n)
  <2>1. n \in Nat
    BY LenProperties
  <2> HIDE DEF n
  <2>2. Groups(n) \in Nat /\ Padding(n) \in 0..2
    BY <2>1, GroupBounds, Zenon
  <2>3. Padding(n) = 3 * m - n
    BY DEF Padding
  <2>4. n = 3 * m - Padding(n)
    BY <2>1, <2>2, <2>3
  <2>5. QED BY <2>1, <2>2, <2>4
<1>2. /\ DOMAIN text = 1..(4 * m)
      /\ text = [k \in 1..(4 * m) |-> DigitAt(bytes, (k - 1) \div 4, (k - 1) % 4)]
  BY TextIs
<1> HIDE DEF text, m, n
<1>3. \A k \in 1..(4 * m) : /\ k <= size => text[k] \in 0..63
                            /\ k > size => text[k] = 64
  <2> SUFFICES ASSUME NEW k \in 1..(4 * m)
               PROVE  (k <= size => text[k] \in 0..63) /\ (k > size => text[k] = 64)
    OBVIOUS
  <2> DEFINE g == (k - 1) \div 4
             r == (k - 1) % 4
  <2>1. g \in Nat /\ r \in 0..3 /\ k = 4 * g + r + 1
    BY <1>1, PositionInGroup
  <2>2. text[k] = DigitAt(bytes, g, r)
    BY <1>2
  <2> HIDE DEF g, r
  <2>3. g < m /\ 3 * g + 1 <= n
    BY <1>1, <2>1
  <2>4. Padded(n, g, r) <=> k > size
    BY <1>1, <2>1, <2>3 DEF Padded
  <2>5. (~Padded(n, g, r) => text[k] \in 0..63) /\ (Padded(n, g, r) => text[k] = 64)
    <3>1. 3 * g + 1 <= Len(bytes)
      BY <2>3 DEF n
    <3>2. /\ ~Padded(Len(bytes), g, r) => DigitAt(bytes, g, r) \in 0..63
          /\ Padded(Len(bytes), g, r) => DigitAt(bytes, g, r) = 64
      BY <2>1, <3>1, DigitIs, Zenon
    <3>3. QED BY <2>2, <3>2 DEF n
  <2>6. k <= size => ~(k > size)
    BY <1>1
  <2>7. QED BY <2>4, <2>5, <2>6
<1>4. text \in Seq(0..64) /\ Len(text) = 4 * m
  <2>1. \A k \in 1..(4 * m) : text[k] \in 0..64
    <3>1. size \in Int
      BY <1>1
    <3> HIDE DEF size
    <3>2. \A k \in 1..(4 * m) : k <= size \/ k > size
      BY <1>1, <3>1
    <3>3. \A x : x \in 0..63 \/ x = 64 => x \in 0..64
      OBVIOUS
    <3>4. QED BY <1>3, <3>2, <3>3
  <2>2. text = [k \in 1..(4 * m) |-> text[k]]
    BY <1>2
  <2>3. text \in [1..(4 * m) -> 0..64] /\ 4 * m \in Nat
    BY <1>1, <2>1, <2>2
  <2>4. text \in Seq(0..64)
    <3> DEFINE S == 0..64
    <3>1. text \in [1..(4 * m) -> S]
      BY <2>3
    <3> HIDE DEF S
    <3>2. text \in Seq(S)
      BY <2>3, <3>1, SeqDef
    <3>3. QED BY <3>2 DEF S
  <2>5. QED BY <1>2, <2>3, <2>4
<1>5. QED BY <1>3, <1>4 DEF m, n, text

\* Its digits are the text without the padding.
LEMMA DigitsAre ==
  ASSUME NEW bytes \in Seq(0..255)
  PROVE  LET n == Len(bytes)  text == Base64(bytes)  size == 4 * Groups(n) - Padding(n) IN
           /\ Len(Digits(text)) = size /\ DOMAIN Digits(text) = 1..size
           /\ \A k \in 1..size : Digits(text)[k] = text[k] /\ Digits(text)[k] \in 0..63
<1> DEFINE n == Len(bytes)
           text == Base64(bytes)
           L == 4 * Groups(n)
           size == L - Padding(n)
           pads == {k \in DOMAIN text : text[k] = 64}
<1>1. /\ L \in Nat /\ size \in Nat /\ size <= L /\ L - size = Padding(n) /\ Padding(n) \in 0..2
  <2>1. n \in Nat OBVIOUS
  <2> HIDE DEF n
  <2>2. Groups(n) \in Nat /\ Padding(n) \in 0..2 /\ (n # 0 => Groups(n) # 0) /\ (n = 0 => Padding(n) = 0)
    BY <2>1, GroupBounds
  <2>3. QED BY <2>2
<1>2. /\ text \in Seq(0..64) /\ Len(text) = L
      /\ \A k \in 1..L : (k <= size => text[k] \in 0..63) /\ (k > size => text[k] = 64)
  BY TextShape
<1> HIDE DEF text, size, L
<1>3. pads = (size + 1)..L
  <2>0. DOMAIN text = 1..L
    BY <1>2
  <2>1. \A x : x \in 0..63 => x # 64
    OBVIOUS
  <2>2. \A k \in 1..L : k <= size \/ k > size
    BY <1>1
  <2>3. \A k \in 1..L : text[k] = 64 <=> k > size
    BY <1>2, <2>1, <2>2
  <2>4. \A k : k \in (size + 1)..L <=> k \in 1..L /\ k > size
    BY <1>1
  <2>5. \A k : k \in pads <=> k \in (size + 1)..L
    BY <2>0, <2>3, <2>4
  <2> HIDE DEF pads
  <2>6. QED BY <2>5
<1>4. Cardinality(pads) = L - size
  <2>1. ASSUME NEW i \in Int, NEW j \in Int, i <= j
        PROVE  Cardinality((i + 1)..j) = j - i
    <3>1. Cardinality((i + 1)..j) = IF i + 1 > j THEN 0 ELSE j - (i + 1) + 1
      BY <2>1, FS_Interval
    <3>2. QED BY <2>1, <3>1
  <2>2. size \in Int /\ L \in Int /\ size <= L
    BY <1>1
  <2> HIDE DEF pads
  <2>3. QED BY <1>3, <2>1, <2>2
<1>5. Digits(text) = SubSeq(text, 1, size)
  <2>1. Len(text) - Cardinality(pads) = size
    BY <1>1, <1>2, <1>4
  <2>2. QED BY <2>1 DEF Digits
<1>6. /\ Len(SubSeq(text, 1, size)) = size /\ DOMAIN SubSeq(text, 1, size) = 1..size
      /\ \A k \in 1..size : SubSeq(text, 1, size)[k] = text[k]
  BY <1>1, <1>2
<1>7. \A k \in 1..size : text[k] \in 0..63
  BY <1>1, <1>2
<1>8. /\ Len(Digits(text)) = size /\ DOMAIN Digits(text) = 1..size
      /\ \A k \in 1..size : Digits(text)[k] = text[k] /\ Digits(text)[k] \in 0..63
  BY <1>5, <1>6, <1>7
<1>9. QED BY <1>8 DEF text, size, L


\* Decoding takes the bytes back out.
LEMMA Decoded ==
  ASSUME NEW bytes \in Seq(0..255), NEW k \in 1..Len(bytes)
  PROVE  DecodedByte(Digits(Base64(bytes)), k) = bytes[k]
<1> DEFINE n == Len(bytes)
           m == Groups(n)
           size == 4 * m - Padding(n)
           text == Base64(bytes)
           D == Digits(text)
           g == (k - 1) \div 3
           r == (k - 1) % 3
           a == ByteAt(bytes, 3*g + 1)
           b == ByteAt(bytes, 3*g + 2)
           c == ByteAt(bytes, 3*g + 3)
<1>1. n \in Nat /\ k \in Nat /\ k # 0 /\ k <= n
  OBVIOUS
<1>2. g \in Nat /\ r \in 0..2 /\ k = 3 * g + r + 1
  BY <1>1, ByteInGroup
<1>3. m \in Nat /\ Padding(n) \in 0..2 /\ n = 3 * m - Padding(n)
  <2>1. m \in Nat /\ Padding(n) \in 0..2
    BY <1>1, GroupBounds
  <2>2. Padding(n) = 3 * m - n
    BY DEF Padding
  <2> HIDE DEF m, n
  <2>3. QED BY <1>1, <2>1, <2>2
<1>4. \A j \in 1..size : D[j] = text[j]
  BY DigitsAre
<1>5. \A j \in 1..(4 * m) : text[j] = DigitAt(bytes, (j - 1) \div 4, (j - 1) % 4)
  BY TextIs
<1> HIDE DEF D, text
<1>6. ASSUME NEW i \in 0..3, 4 * g + i + 1 <= size
      PROVE  D[4 * g + i + 1] = DigitAt(bytes, g, i)
  <2> HIDE DEF m, n, g
  <2>1. 4 * g + i + 1 \in 1..size /\ 4 * g + i + 1 \in 1..(4 * m)
    BY <1>2, <1>3, <1>6
  <2>2. ((4 * g + i + 1) - 1) \div 4 = g /\ ((4 * g + i + 1) - 1) % 4 = i
    BY <1>2
  <2>3. text[4 * g + i + 1] = DigitAt(bytes, g, i)
    BY <1>5, <2>1, <2>2
  <2>4. D[4 * g + i + 1] = text[4 * g + i + 1]
    BY <1>4, <2>1
  <2>5. QED BY <2>3, <2>4
<1>7. a \in 0..255 /\ b \in 0..255 /\ c \in 0..255
  <2>1. \A j \in {3*g + 1, 3*g + 2, 3*g + 3} : j \in Nat /\ j # 0
    BY <1>2
  <2>2. QED BY <2>1, ByteType
<1> HIDE DEF m, n, g, r
<1>8. /\ DigitAt(bytes, g, 0) = a \div 4
      /\ DigitAt(bytes, g, 1) = (a % 4) * 16 + b \div 16
      /\ 3*g + 2 <= n => DigitAt(bytes, g, 2) = (b % 16) * 4 + c \div 64
      /\ 3*g + 3 <= n => DigitAt(bytes, g, 3) = c % 64
  <2>1. 3*g + 2 <= n => ~(3*g + 2 > Len(bytes))
    BY <1>1, <1>2 DEF n
  <2>2. 3*g + 3 <= n => ~(3*g + 3 > Len(bytes))
    BY <1>1, <1>2 DEF n
  <2>3. QED BY <2>1, <2>2 DEF DigitAt
<1> HIDE DEF a, b, c
<1>9. /\ (a \div 4) * 4 + ((a % 4) * 16 + b \div 16) \div 16 = a
      /\ (((a % 4) * 16 + b \div 16) % 16) * 16 + ((b % 16) * 4 + c \div 64) \div 4 = b
  <2>1. (a \div 4) * 4 + ((a % 4) * 16 + b \div 16) \div 16 = a
    <3>1. ((a % 4) * 16 + b \div 16) \div 16 = a % 4
      BY <1>7
    <3>2. (a \div 4) * 4 + (a % 4) = a
      BY <1>7
    <3>3. QED BY <3>1, <3>2
  <2>2. ((a % 4) * 16 + b \div 16) % 16 = b \div 16
    BY <1>7
  <2>3. ((b % 16) * 4 + c \div 64) \div 4 = b % 16
    BY <1>7
  <2>4. (b \div 16) * 16 + (b % 16) = b
    BY <1>7
  <2>5. QED BY <2>1, <2>2, <2>3, <2>4
<1>10. (((b % 16) * 4 + c \div 64) % 4) * 64 + (c % 64) = c
  <2>1. ((b % 16) * 4 + c \div 64) % 4 = c \div 64
    BY <1>7
  <2>2. (c \div 64) * 64 + (c % 64) = c
    BY <1>7
  <2>3. QED BY <2>1, <2>2
<1>11. DecodedByte(D, k) = CASE r = 0 -> D[4*g + 1] * 4 + D[4*g + 2] \div 16
                             [] r = 1 -> (D[4*g + 2] % 16) * 16 + D[4*g + 3] \div 4
                             [] r = 2 -> (D[4*g + 3] % 4) * 64 + D[4*g + 4]
  BY DEF DecodedByte, g, r
<1>12. CASE r = 0
  <2>1. 3*g + 1 <= n /\ 4*g + 2 <= size /\ bytes[k] = a
    <3>1. k = 3*g + 1
      BY <1>2, <1>12
    <3>2. bytes[k] = a
      BY <1>1, <3>1 DEF a, ByteAt, n
    <3>3. QED BY <1>1, <1>2, <1>3, <3>1, <3>2
  <2>2. D[4*g + 1] = a \div 4 /\ D[4*g + 2] = (a % 4) * 16 + b \div 16
    <3>1. D[4*g + 0 + 1] = DigitAt(bytes, g, 0)
      BY <1>2, <1>3, <1>6, <2>1
    <3>2. D[4*g + 1 + 1] = DigitAt(bytes, g, 1)
      BY <1>2, <1>3, <1>6, <2>1
    <3>3. 4*g + 0 + 1 = 4*g + 1 /\ 4*g + 1 + 1 = 4*g + 2
      BY <1>2
    <3>4. QED BY <1>8, <3>1, <3>2, <3>3
  <2>3. DecodedByte(D, k) = D[4*g + 1] * 4 + D[4*g + 2] \div 16
    BY <1>11, <1>12
  <2>4. QED BY <1>9, <2>1, <2>2, <2>3 DEF D, text
<1>13. CASE r = 1
  <2>1. 3*g + 2 <= n /\ 4*g + 3 <= size /\ bytes[k] = b
    <3>1. k = 3*g + 2
      BY <1>2, <1>13
    <3>2. bytes[k] = b
      BY <1>1, <3>1 DEF b, ByteAt, n
    <3>3. QED BY <1>1, <1>2, <1>3, <3>1, <3>2
  <2>2. D[4*g + 2] = (a % 4) * 16 + b \div 16 /\ D[4*g + 3] = (b % 16) * 4 + c \div 64
    <3>1. D[4*g + 1 + 1] = DigitAt(bytes, g, 1)
      BY <1>2, <1>3, <1>6, <2>1
    <3>2. D[4*g + 2 + 1] = DigitAt(bytes, g, 2)
      BY <1>2, <1>3, <1>6, <2>1
    <3>3. 4*g + 2 + 1 = 4*g + 3 /\ 4*g + 1 + 1 = 4*g + 2
      BY <1>2
    <3>4. QED BY <1>8, <2>1, <3>1, <3>2, <3>3
  <2>3. DecodedByte(D, k) = (D[4*g + 2] % 16) * 16 + D[4*g + 3] \div 4
    BY <1>11, <1>13
  <2>4. QED BY <1>9, <2>1, <2>2, <2>3 DEF D, text
<1>14. CASE r = 2
  <2>1. 3*g + 3 <= n /\ 3*g + 2 <= n /\ 4*g + 4 <= size /\ bytes[k] = c
    <3>1. k = 3*g + 3
      BY <1>2, <1>14
    <3>2. bytes[k] = c
      BY <1>1, <3>1 DEF c, ByteAt, n
    <3>3. QED BY <1>1, <1>2, <1>3, <3>1, <3>2
  <2>2. D[4*g + 3] = (b % 16) * 4 + c \div 64 /\ D[4*g + 4] = c % 64
    <3>1. D[4*g + 2 + 1] = DigitAt(bytes, g, 2)
      BY <1>2, <1>3, <1>6, <2>1
    <3>2. D[4*g + 3 + 1] = DigitAt(bytes, g, 3)
      BY <1>2, <1>3, <1>6, <2>1
    <3>3. 4*g + 2 + 1 = 4*g + 3 /\ 4*g + 3 + 1 = 4*g + 4
      BY <1>2
    <3>4. QED BY <1>8, <2>1, <3>1, <3>2, <3>3
  <2>3. DecodedByte(D, k) = (D[4*g + 3] % 4) * 64 + D[4*g + 4]
    BY <1>11, <1>14
  <2>4. QED BY <1>10, <2>1, <2>2, <2>3 DEF D, text
<1>15. QED BY <1>2, <1>12, <1>13, <1>14


-----------------------------------------------------------------------------
(* Features                                                                *)

\* Functions on the first numbers are sequences, and what appending is.
LEMMA AsSequence ==
  ASSUME NEW n \in Nat, NEW S, NEW s \in [1..n -> S]
  PROVE  s \in Seq(S) /\ Len(s) = n
BY SeqDef

\* What stands where in a concatenation of two.
LEMMA Appended ==
  ASSUME NEW S, NEW s \in Seq(S), NEW t \in Seq(S)
  PROVE  /\ s \o t \in Seq(S) /\ Len(s \o t) = Len(s) + Len(t)
         /\ \A p \in 1..Len(s) : (s \o t)[p] = s[p]
         /\ \A p \in 1..Len(t) : (s \o t)[Len(s) + p] = t[p]
OBVIOUS

\* Sequences of four each are found where their number says.
LEMMA FlattenFours ==
  ASSUME NEW X, NEW seqs \in Seq(Seq(X)), \A i \in 1..Len(seqs) : Len(seqs[i]) = 4
  PROVE  /\ FlattenSeq(seqs) \in Seq(X) /\ Len(FlattenSeq(seqs)) = 4 * Len(seqs)
         /\ \A i \in 1..Len(seqs), b \in 1..4 : FlattenSeq(seqs)[4 * (i - 1) + b] = seqs[i][b]
<1>1. Len(seqs) \in Nat /\ \A i \in 1..Len(seqs) : seqs[i] \in Seq(X)
  BY LenProperties, ElementOfSeq
<1>2. CASE Len(seqs) = 0
  <2>1. FlattenSeq(seqs) = seqs /\ seqs = <<>>
    BY <1>2 DEF FlattenSeq
  <2>2. QED BY <1>2, <2>1
<1>3. CASE Len(seqs) # 0
  <2>1. PICK f : Joins(f, seqs, Len(seqs)) /\ FlattenSeq(seqs) = f[Len(seqs)]
    BY <1>1, <1>3, FlattenJoins
  <2> DEFINE Fours(i) == /\ f[i] \in Seq(X) /\ Len(f[i]) = 4 * i
                         /\ \A j \in 1..i, b \in 1..4 : f[i][4 * (j - 1) + b] = seqs[j][b]
             S == {i \in 1..Len(seqs) : Fours(i)}
  <2>2. 1 \in S
    <3>1. 1 \in 1..Len(seqs)
      BY <1>1, <1>3
    <3>2. f[1] = seqs[1]
      BY <2>1, <3>1, Zenon DEF Joins
    <3>3. Fours(1)
      BY <1>1, <3>1, <3>2
    <3>4. QED BY <3>1, <3>3
  <2>3. ASSUME NEW i \in 2..Len(seqs), i - 1 \in S PROVE i \in S
    <3>1. i \in 1..Len(seqs) /\ i # 1 /\ i - 1 \in Nat
      BY <1>1
    <3>2. f[i] = f[i - 1] \o seqs[i]
      BY <2>1, <3>1, Zenon DEF Joins
    <3>3. /\ f[i - 1] \in Seq(X) /\ Len(f[i - 1]) = 4 * (i - 1)
          /\ \A j \in 1..(i - 1), b \in 1..4 : f[i - 1][4 * (j - 1) + b] = seqs[j][b]
      BY <2>3
    <3>4. seqs[i] \in Seq(X) /\ Len(seqs[i]) = 4
      BY <1>1, <3>1
    <3>5. /\ f[i] \in Seq(X) /\ Len(f[i]) = Len(f[i - 1]) + Len(seqs[i])
          /\ \A p \in 1..Len(f[i - 1]) : f[i][p] = f[i - 1][p]
          /\ \A p \in 1..Len(seqs[i]) : f[i][Len(f[i - 1]) + p] = seqs[i][p]
      <4> DEFINE s == f[i - 1]
                 t == seqs[i]
      <4>1. s \in Seq(X) /\ t \in Seq(X)
        BY <3>3, <3>4
      <4> HIDE DEF s, t
      <4>2. /\ s \o t \in Seq(X) /\ Len(s \o t) = Len(s) + Len(t)
            /\ \A p \in 1..Len(s) : (s \o t)[p] = s[p]
            /\ \A p \in 1..Len(t) : (s \o t)[Len(s) + p] = t[p]
        BY <4>1, Appended
      <4>3. QED BY <3>2, <4>2, Zenon DEF s, t
    <3>6. f[i] \in Seq(X) /\ Len(f[i]) = 4 * i
      BY <3>1, <3>3, <3>4, <3>5
    <3>7. ASSUME NEW j \in 1..i, NEW b \in 1..4
          PROVE  f[i][4 * (j - 1) + b] = seqs[j][b]
      <4>1. CASE j = i
        <5>1. 4 * (j - 1) + b = 4 * (i - 1) + b
          BY <4>1
        <5>2. f[i][4 * (i - 1) + b] = seqs[i][b]
          BY <3>3, <3>4, <3>5
        <5>3. QED BY <4>1, <5>1, <5>2
      <4>2. CASE j # i
        <5>1. j \in 1..(i - 1) /\ 4 * (j - 1) + b \in 1..(4 * (i - 1))
          BY <3>1, <4>2
        <5>2. f[i][4 * (j - 1) + b] = f[i - 1][4 * (j - 1) + b]
          BY <3>3, <3>5, <5>1
        <5>3. QED BY <3>3, <5>1, <5>2
      <4>3. QED BY <4>1, <4>2
    <3>8. QED BY <3>1, <3>6, <3>7
  <2>4. Len(seqs) \in S
    <3> HIDE DEF S
    <3>1. 1..Len(seqs) \subseteq S
      BY <1>1, <2>2, <2>3, Upwards
    <3>2. Len(seqs) \in 1..Len(seqs)
      BY <1>1, <1>3
    <3>3. QED BY <3>1, <3>2
  <2>5. Fours(Len(seqs))
    BY <2>4
  <2>6. QED BY <2>1, <2>5
<1>4. QED BY <1>2, <1>3

\* The bytes of a word, the least significant first, in every client.
LEMMA WordBytes ==
  ASSUME NEW sdk \in {"python", "go", "java", "node"}, NEW word \in [1..4 -> 0..255]
  PROVE  /\ Bytes(sdk, word) \in Seq(0..255) /\ Len(Bytes(sdk, word)) = 4
         /\ \A b \in 1..4 : Bytes(sdk, word)[b] = word[5 - b]
<1>1. Bytes(sdk, word) = Reverse(word)
  BY DEF Bytes, PythonBytes, GoBytes, JavaBytes, NodeBytes
<1>2. Len(word) = 4
  OBVIOUS
<1>3. Reverse(word) = [i \in 1..4 |-> word[(4 - i) + 1]]
  BY <1>2 DEF Reverse
<1>4. \A i \in 1..4 : (4 - i) + 1 \in 1..4 /\ (4 - i) + 1 = 5 - i
  OBVIOUS
<1>5. Reverse(word) \in [1..4 -> 0..255]
  BY <1>3, <1>4
<1>6. Reverse(word) \in Seq(0..255) /\ Len(Reverse(word)) = 4
  BY <1>5, AsSequence
<1>7. QED BY <1>1, <1>3, <1>4, <1>6

\* What FeatureDecodes says of the result r for a list of faces.
Recovered(r, faces) ==
  LET words == IF Len(faces) = 1 THEN Get(faces[1].embedding, <<>>) ELSE <<>>
      digits == Digits(r.text)
  IN /\ (r.kind = "feature") <=> (words # <<>>)
     /\ r.kind = "feature" =>
          /\ Len(r.text) % 4 = 0 /\ \A k \in DOMAIN digits : digits[k] < 64
          /\ (Len(digits) * 6) \div 8 = 4 * Len(words)
          /\ \A i \in DOMAIN words, b \in 1..4 :
               DecodedByte(digits, 4 * (i - 1) + b) = words[i][5 - b]

\* The four SDKs encode an embedding, in the one order.
LEMMA TextRecovers ==
  ASSUME NEW sdk \in {"python", "go", "java", "node"},
         NEW words \in Seq([1..4 -> 0..255])
  PROVE  LET text == Base64(FlattenSeq([i \in DOMAIN words |-> Bytes(sdk, words[i])]))
             digits == Digits(text)
         IN /\ text \in Seq(0..64)
            /\ Len(text) % 4 = 0 /\ \A k \in DOMAIN digits : digits[k] < 64
            /\ (Len(digits) * 6) \div 8 = 4 * Len(words)
            /\ \A i \in DOMAIN words, b \in 1..4 :
                 DecodedByte(digits, 4 * (i - 1) + b) = words[i][5 - b]
<1> DEFINE N == Len(words)
           Byte == 0..255
           seqs == [i \in DOMAIN words |-> Bytes(sdk, words[i])]
           bytes == FlattenSeq(seqs)
           text == Base64(bytes)
           digits == Digits(text)
<1>1. N \in Nat /\ DOMAIN words = 1..N /\ \A i \in 1..N : words[i] \in [1..4 -> 0..255]
  BY LenProperties, ElementOfSeq
<1>2. \A i \in 1..N : /\ seqs[i] \in Seq(Byte) /\ Len(seqs[i]) = 4
                      /\ \A b \in 1..4 : seqs[i][b] = words[i][5 - b]
  BY <1>1, WordBytes
<1>3. seqs \in Seq(Seq(Byte)) /\ Len(seqs) = N
  <2>1. seqs = [i \in 1..N |-> seqs[i]]
    BY <1>1
  <2> HIDE DEF seqs, Byte, N
  <2>2. seqs \in [1..N -> Seq(Byte)]
    BY <1>2, <2>1
  <2>3. QED BY <1>1, <2>2, AsSequence
<1> HIDE DEF seqs, Byte, N
<1>4. /\ bytes \in Seq(Byte) /\ Len(bytes) = 4 * N
      /\ \A i \in 1..N, b \in 1..4 : bytes[4 * (i - 1) + b] = seqs[i][b]
  <2>1. \A i \in 1..Len(seqs) : Len(seqs[i]) = 4
    BY <1>2, <1>3
  <2>2. /\ bytes \in Seq(Byte) /\ Len(bytes) = 4 * Len(seqs)
        /\ \A i \in 1..Len(seqs), b \in 1..4 : bytes[4 * (i - 1) + b] = seqs[i][b]
    BY <1>3, <2>1, FlattenFours
  <2>3. QED BY <1>3, <2>2
<1> HIDE DEF bytes
<1>5. bytes \in Seq(0..255)
  BY <1>4 DEF Byte
<1>6. /\ text \in Seq(0..64) /\ Len(text) = 4 * Groups(Len(bytes))
      /\ Len(digits) = 4 * Groups(Len(bytes)) - Padding(Len(bytes))
      /\ DOMAIN digits = 1..(4 * Groups(Len(bytes)) - Padding(Len(bytes)))
      /\ \A k \in DOMAIN digits : digits[k] \in 0..63
  <2>1. /\ text \in Seq(0..64) /\ Len(text) = 4 * Groups(Len(bytes))
    BY <1>5, TextShape
  <2>2. /\ Len(digits) = 4 * Groups(Len(bytes)) - Padding(Len(bytes))
        /\ DOMAIN digits = 1..(4 * Groups(Len(bytes)) - Padding(Len(bytes)))
        /\ \A k \in 1..(4 * Groups(Len(bytes)) - Padding(Len(bytes))) : digits[k] \in 0..63
    BY <1>5, DigitsAre
  <2> HIDE DEF text, digits
  <2>3. QED BY <2>1, <2>2
<1>7. Len(bytes) \in Nat
  BY <1>1, <1>4
<1>8. /\ Groups(Len(bytes)) \in Nat
      /\ ((4 * Groups(Len(bytes)) - Padding(Len(bytes))) * 6) \div 8 = Len(bytes)
  BY <1>7, GroupBounds
<1>9. \A k \in 1..Len(bytes) : DecodedByte(digits, k) = bytes[k]
  BY <1>5, Decoded
<1> HIDE DEF digits, text
<1>10. Len(text) % 4 = 0
  <2>1. \A m \in Nat : (4 * m) % 4 = 0
    OBVIOUS
  <2>2. QED BY <1>6, <1>8, <2>1
<1>11. \A k \in DOMAIN digits : digits[k] < 64
  <2>1. \A x \in 0..63 : x < 64
    OBVIOUS
  <2>2. QED BY <1>6, <2>1
<1>12. (Len(digits) * 6) \div 8 = 4 * N
  BY <1>4, <1>6, <1>8
<1>13. ASSUME NEW i \in 1..N, NEW b \in 1..4
       PROVE  DecodedByte(digits, 4 * (i - 1) + b) = words[i][5 - b]
  <2>1. 4 * (i - 1) + b \in 1..(4 * N)
    BY <1>1
  <2>2. DecodedByte(digits, 4 * (i - 1) + b) = bytes[4 * (i - 1) + b]
    BY <1>4, <1>9, <2>1
  <2>3. bytes[4 * (i - 1) + b] = seqs[i][b]
    BY <1>4
  <2>4. seqs[i][b] = words[i][5 - b]
    BY <1>2
  <2>5. QED BY <2>2, <2>3, <2>4
<1>14. QED BY <1>1, <1>6, <1>10, <1>11, <1>12, <1>13 DEF digits, text, bytes, seqs, N


-----------------------------------------------------------------------------
(* Comparisons                                                             *)

\* What Construct has looked at.
CheckedClient(c) ==
  /\ c.sdk \in SdkNames
  /\ c.threshold \in Int
  /\ c.sdk # "go" => InRange(c.threshold)
  /\ c.sdk = "web" => c.threshold = WebThreshold

\* What OneToOne says of the result r of a comparison by threshold t.
Faithful(d, t, r) ==
  /\ (r.kind = "verdict") <=> (OneEach(d) /\ InRange(t))
  /\ r.kind = "verdict" =>
       /\ r.threshold = t
       /\ r.similarity = d.result[1].face_matches[1].similarity
       /\ r.match = (r.similarity >= t)

\* One face each is a target face.
LEMMA SomeTarget ==
  ASSUME NEW d, OneEach(d)
  PROVE  Targets(d) # 0
BY DEF OneEach

\* The verdict the parsers share is faithful when there is to be one.
LEMMA JudgedFaithful ==
  ASSUME NEW sdk, NEW d, NEW t, OneEach(d), InRange(t)
  PROVE  Faithful(d, t, Judged(sdk, d, t))
<1> DEFINE score == d.result[1].face_matches[1].similarity
           r == Judged(sdk, d, t)
<1>1. /\ r.kind = "verdict" /\ r.threshold = t /\ r.similarity = score
      /\ r.match = (score >= t)
  BY DEF Judged
<1>2. QED BY <1>1 DEF Faithful

\* An exception is faithful when there is to be no verdict.
LEMMA FaultFaithful ==
  ASSUME NEW d, NEW t, NEW why, ~(OneEach(d) /\ InRange(t))
  PROVE  Faithful(d, t, Fault(why))
<1>1. Fault(why).kind # "verdict"
  BY DEF Fault
<1>2. QED BY <1>1 DEF Faithful

\* The tests of the Python, Java and Node SDKs leave exactly the documents
\* with one face on each side.
LEMMA ComparedFaithful ==
  ASSUME NEW sdk, NEW d, NEW t, InRange(t)
  PROVE  Faithful(d, t, Compared(sdk, d, t))
<1>1. CASE OneEach(d)
  <2>1. Compared(sdk, d, t) = Judged(sdk, d, t)
    BY <1>1, SomeTarget DEF Compared
  <2>2. QED BY <1>1, <2>1, JudgedFaithful
<1>2. CASE ~OneEach(d)
  <2>1. \/ Compared(sdk, d, t) = Fault("no face")
        \/ Compared(sdk, d, t) = Fault("validation")
    BY <1>2 DEF Compared
  <2>2. QED BY <1>2, <2>1, FaultFaithful
<1>3. QED BY <1>1, <1>2

\* The Go SDK refuses a threshold out of range as well, and here only.
LEMMA GoFaithful ==
  ASSUME NEW d, NEW t \in Int, d.result # Missing
  PROVE  Faithful(d, t, GoCompare(d, t))
<1>1. InRange(t) <=> t \in 0..MaxScore
  BY ScoreAssumption DEF InRange
<1>2. CASE OneEach(d) /\ t \in 0..MaxScore
  <2>1. GoCompare(d, t) = Judged("go", d, t)
    BY <1>2 DEF GoCompare
  <2>2. QED BY <1>1, <1>2, <2>1, JudgedFaithful
<1>3. CASE ~(OneEach(d) /\ t \in 0..MaxScore)
  <2>1. GoCompare(d, t) = Fault("validation")
    BY <1>3 DEF GoCompare
  <2>2. QED BY <1>1, <1>3, <2>1, FaultFaithful
<1>4. QED BY <1>2, <1>3

\* The view judges by its own threshold.
LEMMA WebFaithful ==
  ASSUME NEW d, d.result # Missing
  PROVE  Faithful(d, WebThreshold, WebCompare(d))
<1>1. InRange(WebThreshold)
  BY ScoreAssumption DEF InRange
<1>2. CASE OneEach(d)
  <2>1. WebCompare(d) = Judged("web", d, WebThreshold)
    BY <1>2 DEF WebCompare
  <2>2. QED BY <1>1, <1>2, <2>1, JudgedFaithful
<1>3. CASE ~OneEach(d)
  <2>1. WebCompare(d) = Fault("validation")
    BY <1>3 DEF WebCompare
  <2>2. QED BY <1>3, <2>1, FaultFaithful
<1>4. QED BY <1>2, <1>3

\* Together, for a client that Construct let through.
LEMMA CompareFaithful ==
  ASSUME NEW c, CheckedClient(c), NEW d, d.result # Missing
  PROVE  Faithful(d, c.threshold, Compare(c, d))
<1>1. CASE c.sdk = "python"
  <2>1. InRange(c.threshold) BY <1>1 DEF CheckedClient
  <2>2. Compare(c, d) = Compared("python", d, c.threshold)
    BY <1>1 DEF Compare, PythonCompare
  <2>3. QED BY <2>1, <2>2, ComparedFaithful
<1>2. CASE c.sdk = "java"
  <2>1. InRange(c.threshold) BY <1>2 DEF CheckedClient
  <2>2. Compare(c, d) = Compared("java", d, c.threshold)
    BY <1>2 DEF Compare, JavaCompare
  <2>3. QED BY <2>1, <2>2, ComparedFaithful
<1>3. CASE c.sdk = "node"
  <2>1. InRange(c.threshold) BY <1>3 DEF CheckedClient
  <2>2. Compare(c, d) = Compared("node", d, c.threshold)
    BY <1>3 DEF Compare, NodeCompare
  <2>3. QED BY <2>1, <2>2, ComparedFaithful
<1>4. CASE c.sdk = "go"
  <2>1. c.threshold \in Int BY DEF CheckedClient
  <2>2. Compare(c, d) = GoCompare(d, c.threshold) BY <1>4 DEF Compare
  <2>3. QED BY <2>1, <2>2, GoFaithful
<1>5. CASE c.sdk = "web"
  <2>1. c.threshold = WebThreshold BY <1>5 DEF CheckedClient
  <2>2. Compare(c, d) = WebCompare(d) BY <1>5 DEF Compare
  <2>3. QED BY <2>1, <2>2, WebFaithful
<1>6. QED BY <1>1, <1>2, <1>3, <1>4, <1>5 DEF CheckedClient, SdkNames



\* The shape of a result that comes of a document; only a call that is not
\* sent fails for its key.
Typed(sdk, r) ==
  /\ r.kind \in {"fault", "faces", "matches", "verdict", "feature"}
  /\ r.kind = "fault" => r.why \in Why \ {"authentication"}
  /\ r.kind = "faces" => \A i \in DOMAIN r.faces : r.faces[i] \in Scores
  /\ r.kind = "matches" =>
       \A i \in DOMAIN r.matches : /\ r.matches[i].similarity \in Scores
                                   /\ r.matches[i].match \in BOOLEAN
                                   /\ r.matches[i].confidence \in ConfidencesOf(sdk)
  /\ r.kind = "verdict" => /\ r.similarity \in Scores /\ r.threshold \in Scores
                           /\ \A i \in DOMAIN r.faces : r.faces[i] \in ConfidencesOf(sdk)
  /\ r.kind = "feature" => r.text \in Seq(0..64)

\* An SDK asked for the feature of a list of faces.
LEMMA EncodedRecovers ==
  ASSUME NEW sdk \in {"python", "go", "java", "node"}, NEW faces \in Seq(SeenFace)
  PROVE  Recovered(Encoded(sdk, faces), faces) /\ Typed(sdk, Encoded(sdk, faces))
<1> DEFINE words == Get(faces[1].embedding, <<>>)
           r == Encoded(sdk, faces)
<1>1. Len(faces) \in Nat
  BY LenProperties
<1>2. ASSUME NEW why \in {"no face", "validation", "no embedding"}, r = Fault(why),
             Len(faces) # 1 \/ words = <<>>
      PROVE  Recovered(r, faces) /\ Typed(sdk, r)
  <2>1. r.kind = "fault" /\ r.why \in Why \ {"authentication"}
    <3> HIDE DEF r
    <3>1. QED BY <1>2 DEF Fault, Why
  <2> HIDE DEF r
  <2>2. QED BY <1>2, <2>1 DEF Recovered, Typed, words
<1>3. CASE Len(faces) = 1
  <2>1. words \in Seq([1..4 -> 0..255])
    <3>1. faces[1] \in SeenFace
      BY <1>3, ElementOfSeq
    <3>2. faces[1].embedding \in Optional(Seq([1..4 -> 0..255]))
      BY <3>1 DEF SeenFace
    <3>3. <<>> \in Seq([1..4 -> 0..255])
      BY EmptySeq
    <3>4. QED BY <3>2, <3>3 DEF Get, Optional
  <2> HIDE DEF words
  <2>2. CASE words = <<>>
    <3>1. r = Fault("no embedding")
      BY <1>3, <2>2 DEF Encoded, words
    <3>2. QED BY <1>2, <2>2, <3>1
  <2>3. CASE words # <<>>
    <3> DEFINE text == Base64(FlattenSeq([i \in DOMAIN words |-> Bytes(sdk, words[i])]))
    <3>1. r = [kind |-> "feature", text |-> text]
      BY <1>3, <2>3 DEF Encoded, words
    <3>2. /\ text \in Seq(0..64)
          /\ Len(text) % 4 = 0 /\ \A k \in DOMAIN Digits(text) : Digits(text)[k] < 64
          /\ (Len(Digits(text)) * 6) \div 8 = 4 * Len(words)
          /\ \A i \in DOMAIN words, b \in 1..4 :
               DecodedByte(Digits(text), 4 * (i - 1) + b) = words[i][5 - b]
      BY <2>1, TextRecovers
    <3> HIDE DEF text, r
    <3>3. r.kind = "feature" /\ r.text = text
      BY <3>1
    <3>4. Typed(sdk, r)
      BY <3>2, <3>3 DEF Typed
    <3>5. Recovered(r, faces)
      BY <1>3, <2>3, <3>2, <3>3, Zenon DEF Recovered, words
    <3>6. QED BY <3>4, <3>5 DEF r
  <2>4. QED BY <2>2, <2>3
<1>4. CASE Len(faces) = 0
  <2>1. r = Fault("no face")
    BY <1>4 DEF Encoded
  <2>2. Len(faces) # 1
    BY <1>4
  <2>3. QED BY <1>2, <2>1, <2>2, Zenon
<1>5. CASE Len(faces) > 1
  <2>1. \A n \in Nat : n > 1 => n # 0 /\ n # 1
    OBVIOUS
  <2>2. Len(faces) # 0 /\ Len(faces) # 1
    BY <1>1, <1>5, <2>1, Zenon
  <2>3. r = Fault("validation")
    BY <1>5, <2>2 DEF Encoded
  <2>4. QED BY <1>2, <2>2, <2>3, Zenon
<1>6. Len(faces) = 0 \/ Len(faces) = 1 \/ Len(faces) > 1
  <2>1. \A n \in Nat : n = 0 \/ n = 1 \/ n > 1
    OBVIOUS
  <2>2. QED BY <1>1, <2>1, Zenon
<1>7. QED BY <1>3, <1>4, <1>5, <1>6

-----------------------------------------------------------------------------
(* The types of results                                                    *)

\* A detection shows the confidence of the box, face by face.
LEMMA DetectTyped ==
  ASSUME NEW c, c.sdk \in SdkNames, NEW d \in DetectDocument
  PROVE  Typed(c.sdk, Detect(c, d))
<1> DEFINE faces == Get(FaceList(d), <<>>)
           r == Detect(c, d)
<1>1. faces \in Seq(SeenFace)
  BY EmptySeq DEF FaceList, Get, DetectDocument, Optional
<1>2. \A i \in DOMAIN faces : Confidence(c.sdk, faces[i]) \in Scores
  <2> SUFFICES ASSUME NEW i \in DOMAIN faces PROVE Confidence(c.sdk, faces[i]) \in Scores
    OBVIOUS
  <2> HIDE DEF faces
  <2>1. faces[i] \in SeenFace
    BY <1>1, LenProperties, ElementOfSeq
  <2>2. QED BY <2>1, ConfidenceType DEF SeenFace
<1>3. r = Fault("invalid") \/ r = Detection(c.sdk, faces)
  BY DEF Detect, PythonDetect, GoDetect, JavaDetect, NodeDetect, WebDetect, Detected, Get, SdkNames
<1>4. Typed(c.sdk, Fault("invalid"))
  BY DEF Typed, Fault, Why
<1>5. Typed(c.sdk, Detection(c.sdk, faces))
  BY <1>2 DEF Typed, Detection
<1>6. QED BY <1>3, <1>4, <1>5

\* A detection keeps the confidences of the boxes, in their order.
LEMMA DetectKeeps ==
  ASSUME NEW c, c.sdk \in SdkNames, NEW d \in DetectDocument, d.result # Missing
  PROVE  /\ Detect(c, d).kind = "faces" /\ DOMAIN Detect(c, d).faces = DOMAIN d.result
         /\ \A i \in DOMAIN d.result : d.result[i].confidence = Missing =>
              Detect(c, d).faces[i] = Get(d.result[i].probability, 0)
<1>1. FaceList(d) = d.result /\ Get(FaceList(d), <<>>) = d.result
  BY DEF FaceList, Get
<1>2. Detect(c, d) = Detection(c.sdk, d.result)
  BY <1>1 DEF Detect, PythonDetect, GoDetect, JavaDetect, NodeDetect, WebDetect, Detected, SdkNames
<1>3. /\ Detection(c.sdk, d.result).kind = "faces"
      /\ Detection(c.sdk, d.result).faces = [i \in DOMAIN d.result |-> Confidence(c.sdk, d.result[i])]
  BY DEF Detection
<1>4. ASSUME NEW f, f.confidence = Missing
      PROVE  Confidence(c.sdk, f) = Get(f.probability, 0)
  <2>1. Get(f.confidence, 0) = 0
    BY <1>4 DEF Get
  <2>2. f.probability # Missing => Get(f.probability, 0) = f.probability
    BY DEF Get
  <2>3. Get(f.probability, 0) # 0 => f.probability # Missing
    BY DEF Get
  <2>4. QED BY <1>4, <2>1, <2>2, <2>3
       DEF Confidence, PythonConfidence, GoConfidence, JavaConfidence, NodeConfidence,
           WebConfidence, SdkNames, Get
<1>5. QED BY <1>2, <1>3, <1>4

\* The faces of a comparison with one on each side.
LEMMA PairType ==
  ASSUME NEW d \in VerifyDocument, d.result # Missing, OneEach(d)
  PROVE  /\ d.result[1].source \in SourceFace
         /\ d.result[1].face_matches[1] \in TargetFace
<1> DEFINE P == [source : SourceFace, face_matches : Optional(Seq(TargetFace))]
           list == d.result[1].face_matches
<1>1. d.result \in Seq(P) /\ Len(d.result) = 1
  BY DEF VerifyDocument, Optional, OneEach, Sources
<1>2. d.result[1] \in P
  <2> HIDE DEF P
  <2>1. QED BY <1>1, ElementOfSeq
<1>3. d.result[1].source \in SourceFace /\ list \in Optional(Seq(TargetFace))
  BY <1>2
<1>4. Len(Get(list, <<>>)) = 1
  BY DEF OneEach, Sources, Targets
<1>5. list \in Seq(TargetFace) /\ Len(list) = 1
  <2>1. Len(<<>>) # 1
    BY EmptySeq
  <2> HIDE DEF list
  <2>2. QED BY <1>3, <1>4, <2>1 DEF Get, Optional
<1>6. list[1] \in TargetFace
  <2> HIDE DEF list
  <2>1. 1 \in 1..Len(list)
    BY <1>5
  <2>2. QED BY <1>5, <2>1, ElementOfSeq
<1>7. QED BY <1>3, <1>6

\* A verdict of one face and one face has scores.
LEMMA JudgedTyped ==
  ASSUME NEW sdk \in SdkNames, NEW d \in VerifyDocument, d.result # Missing, OneEach(d),
         NEW t \in Int, InRange(t)
  PROVE  Typed(sdk, Judged(sdk, d, t))
<1> DEFINE source == d.result[1].source
           target == d.result[1].face_matches[1]
           r == Judged(sdk, d, t)
<1>1. source \in SourceFace /\ target \in TargetFace
  BY PairType
<1> HIDE DEF source, target
<1>2. Shown(sdk, source) \in ConfidencesOf(sdk) /\ Shown(sdk, target) \in ConfidencesOf(sdk)
  BY <1>1, ConfidenceType DEF SourceFace, TargetFace
<1>3. target.similarity \in Scores /\ t \in Scores
  BY <1>1, ScoreAssumption DEF TargetFace, Scores, InRange
<1>4. r = [kind |-> "verdict", similarity |-> target.similarity, threshold |-> t,
           match |-> target.similarity >= t, faces |-> <<Shown(sdk, source), Shown(sdk, target)>>]
  BY DEF Judged, source, target
<1> HIDE DEF r
<1>5. /\ r.kind = "verdict" /\ r.similarity \in Scores /\ r.threshold \in Scores
      /\ r.faces = <<Shown(sdk, source), Shown(sdk, target)>>
  BY <1>3, <1>4
<1>6. \A i \in DOMAIN r.faces : r.faces[i] \in ConfidencesOf(sdk)
  BY <1>2, <1>5
<1>7. QED BY <1>5, <1>6 DEF Typed, r

\* A comparison is a verdict with scores or one of the faults.
LEMMA CompareTyped ==
  ASSUME NEW c, c.sdk \in SdkNames, c.threshold \in Int, c.sdk # "go" => InRange(c.threshold),
         NEW d \in VerifyDocument
  PROVE  Typed(c.sdk, Compare(c, d))
<1>1. \A w \in Why \ {"authentication"} : Typed(c.sdk, Fault(w))
  BY DEF Typed, Fault
<1>2. {"validation", "invalid", "no face"} \subseteq Why \ {"authentication"}
  BY DEF Why
<1>3. ASSUME d.result # Missing, InRange(c.threshold) PROVE Typed(c.sdk, Compared(c.sdk, d, c.threshold))
  <2>1. CASE OneEach(d)
    <3>1. Compared(c.sdk, d, c.threshold) = Judged(c.sdk, d, c.threshold)
      BY <2>1, SomeTarget DEF Compared
    <3>2. QED BY <1>3, <2>1, <3>1, JudgedTyped
  <2>2. CASE ~OneEach(d)
    <3>1. \/ Compared(c.sdk, d, c.threshold) = Fault("no face")
          \/ Compared(c.sdk, d, c.threshold) = Fault("validation")
      BY <2>2 DEF Compared
    <3>2. QED BY <1>1, <1>2, <3>1
  <2>3. QED BY <2>1, <2>2
<1>4. CASE c.sdk = "python"
  <2>1. CASE d.result # Missing
    <3>1. Compare(c, d) = Compared(c.sdk, d, c.threshold)
      BY <1>4, <2>1 DEF Compare, PythonCompare
    <3>2. QED BY <1>3, <1>4, <2>1, <3>1
  <2>2. CASE d.result = Missing
    <3>1. Compare(c, d) = Get(d.verdict, Fault("invalid"))
      BY <1>4, <2>2 DEF Compare, PythonCompare
    <3>2. CASE d.verdict = Missing
      BY <1>1, <1>2, <3>1, <3>2 DEF Get
    <3>3. CASE d.verdict # Missing
      <4>1. Compare(c, d) \in Verdict
        BY <3>1, <3>3 DEF Get, VerifyDocument, Optional
      <4>2. ASSUME NEW r \in Verdict PROVE Typed(c.sdk, r)
        <5>1. /\ r.kind = "verdict" /\ r.similarity \in Scores /\ r.threshold \in Scores
              /\ r.faces \in Seq(Scores)
          BY DEF Verdict
        <5>2. \A i \in DOMAIN r.faces : r.faces[i] \in Scores
          BY <5>1, LenProperties, ElementOfSeq
        <5>3. QED BY <1>4, <5>1, <5>2 DEF Typed, ConfidencesOf
      <4>3. QED BY <4>1, <4>2
    <3>4. QED BY <3>2, <3>3
  <2>3. QED BY <2>1, <2>2
<1>5. CASE c.sdk = "java" \/ c.sdk = "node"
  <2>1. \/ Compare(c, d) = Fault("invalid")
        \/ d.result # Missing /\ Compare(c, d) = Compared(c.sdk, d, c.threshold)
    BY <1>5 DEF Compare, JavaCompare, NodeCompare
  <2>2. QED BY <1>1, <1>2, <1>3, <1>5, <2>1
<1>6. CASE c.sdk = "go"
  <2>1. InRange(c.threshold) <=> c.threshold \in 0..MaxScore
    BY ScoreAssumption DEF InRange
  <2>2. \/ Compare(c, d) = Fault("validation")
        \/ /\ d.result # Missing /\ OneEach(d) /\ c.threshold \in 0..MaxScore
           /\ Compare(c, d) = Judged("go", d, c.threshold)
    BY <1>6 DEF Compare, GoCompare
  <2>3. QED BY <1>1, <1>2, <1>6, <2>1, <2>2, JudgedTyped
<1>7. CASE c.sdk = "web"
  <2>1. WebThreshold \in Int /\ InRange(WebThreshold)
    BY ScoreAssumption DEF InRange
  <2>2. \/ Compare(c, d) = Fault("validation")
        \/ /\ d.result # Missing /\ OneEach(d)
           /\ Compare(c, d) = Judged("web", d, WebThreshold)
    BY <1>7 DEF Compare, WebCompare
  <2>3. QED BY <1>1, <1>2, <1>7, <2>1, <2>2, JudgedTyped
<1>8. QED BY <1>4, <1>5, <1>6, <1>7 DEF SdkNames

\* An extraction is a text of digits or one of the faults.
LEMMA ExtractTyped ==
  ASSUME NEW c, c.sdk \in {"python", "go", "java", "node"}, NEW d \in DetectDocument
  PROVE  Typed(c.sdk, Extract(c, d))
<1>1. Typed(c.sdk, Fault("invalid")) /\ Typed(c.sdk, Fault("validation"))
  BY DEF Typed, Fault, Why
<1>2. \/ Extract(c, d) = Fault("invalid")
      \/ Extract(c, d) = Fault("validation")
      \/ d.result # Missing /\ Extract(c, d) = Encoded(c.sdk, d.result)
      \/ d.faces # Missing /\ Extract(c, d) = Encoded(c.sdk, d.faces)
  BY DEF Extract, PythonFeature, GoFeature, JavaFeature, NodeFeature, FaceList, Get
<1>3. /\ d.result # Missing => d.result \in Seq(SeenFace)
      /\ d.faces # Missing => d.faces \in Seq(SeenFace)
  BY DEF DetectDocument, Optional
<1>4. QED BY <1>1, <1>2, <1>3, EncodedRecovers

\* Of a document with a result, the text gives the embedding back.
LEMMA ExtractRecovers ==
  ASSUME NEW c, c.sdk \in {"python", "go", "java", "node"}, NEW d \in DetectDocument,
         d.result # Missing
  PROVE  Recovered(Extract(c, d), d.result)
<1>1. d.result \in Seq(SeenFace) /\ Len(d.result) \in Nat
  BY LenProperties DEF DetectDocument, Optional
<1>2. CASE c.sdk = "go" /\ Len(d.result) # 1
  <2>1. Extract(c, d) = Fault("validation")
    BY <1>2 DEF Extract, GoFeature, FaceList, Get
  <2>2. Extract(c, d).kind = "fault"
    BY <2>1 DEF Fault
  <2>3. QED BY <1>2, <2>2 DEF Recovered
<1>3. CASE ~(c.sdk = "go" /\ Len(d.result) # 1)
  <2>1. Extract(c, d) = Encoded(c.sdk, d.result)
    BY <1>3 DEF Extract, PythonFeature, GoFeature, JavaFeature, NodeFeature, FaceList, Get
  <2>2. QED BY <1>1, <2>1, EncodedRecovers
<1>4. QED BY <1>2, <1>3

\* Matches stay typed however they are filtered and sorted; those of an old
\* document are typed as the backend sent them.
LEMMA FoundTyped ==
  ASSUME NEW sdk, NEW ms \in Seq(MatchOf(sdk)), NEW count
  PROVE  Typed(sdk, Found(ms, count)) /\ Typed(sdk, Found(Descending(ms), count))
<1>1. \A m \in MatchOf(sdk) : m.similarity \in Int
  BY ScoreAssumption DEF MatchOf, Scores
<1>2. Descending(ms) \in Seq(MatchOf(sdk))
  BY <1>1, DescendingCovers
<1>3. ASSUME NEW s \in Seq(MatchOf(sdk)) PROVE Typed(sdk, Found(s, count))
  <2>1. \A i \in DOMAIN s : s[i] \in MatchOf(sdk)
    BY LenProperties, ElementOfSeq
  <2>2. \A m \in MatchOf(sdk) : m.similarity \in Scores /\ m.match \in BOOLEAN /\ m.confidence \in ConfidencesOf(sdk)
    BY DEF MatchOf
  <2>3. Found(s, count).kind = "matches" /\ Found(s, count).matches = s
    BY DEF Found
  <2>4. QED BY <2>1, <2>2, <2>3 DEF Typed
<1>4. QED BY <1>2, <1>3

\* A search is a list of matches with scores or one of the faults.
LEMMA SearchTyped ==
  ASSUME NEW c, c.sdk \in SdkNames, NEW d \in SearchDocument,
         NEW t \in Int \cup {Missing}, t = Missing => c.sdk \in {"python", "java", "node"}
  PROVE  Typed(c.sdk, Search(c, d, t))
<1> DEFINE u == Get(t, 0)
           faces == Get(d.result, <<>>)
           M == MatchOf(c.sdk)
<1>1. u \in Int /\ (t # Missing => u = t)
  BY DEF Get
<1>2. faces \in Seq(KnownFace) /\ (d.result # Missing => faces = d.result)
  BY EmptySeq DEF Get, SearchDocument, Optional
<1>3. Typed(c.sdk, Fault("invalid"))
  BY DEF Typed, Fault, Why
<1>4. \A m \in M : m.similarity \in Int
  BY ScoreAssumption DEF MatchOf, Scores
<1> HIDE DEF u, faces, M
<1>5. ASSUME NEW ms \in Seq(M) PROVE AtLeast(u, ms) \in Seq(M)
  BY <1>1, <1>4, AtLeastCovers
<1>6. Candidates(c.sdk, faces) \in Seq(M) /\ Candidates(c.sdk, FilteredFaces(faces, u)) \in Seq(M)
  BY <1>1, <1>2, CandidatesShow, FaceByFace DEF M
<1>7. d.results # Missing /\ c.sdk # "web" => d.results \in Seq(M)
  <2>1. d.results # Missing => d.results \in Seq(KnownMatch)
    BY DEF SearchDocument, Optional
  <2>2. c.sdk # "web" => KnownMatch = M
    BY DEF KnownMatch, M, MatchOf, ConfidencesOf
  <2>3. QED BY <2>1, <2>2
<1>8. CASE c.sdk = "python"
  <2>1. \/ d.result # Missing
           /\ Search(c, d, t) = Found(Descending(AtLeast(u, Candidates("python", faces))), Len(d.result))
        \/ d.results # Missing /\ Search(c, d, t) = Found(d.results, d.face_count)
        \/ Search(c, d, t) = Fault("invalid")
    BY <1>2, <1>8, Zenon DEF Search, PythonSearch, u
  <2>2. QED BY <1>3, <1>5, <1>6, <1>7, <1>8, <2>1, FoundTyped DEF M
<1>9. CASE c.sdk = "java"
  <2>1. \/ Search(c, d, t) = Found(Descending(AtLeast(u, Candidates("java", faces))), Len(d.result))
        \/ Search(c, d, t) = Fault("invalid")
    BY <1>2, <1>9 DEF Search, JavaSearch, u
  <2>2. QED BY <1>3, <1>5, <1>6, <1>9, <2>1, FoundTyped DEF M
<1>10. CASE c.sdk = "node"
  <2>1. \/ Search(c, d, t) = Found(Descending(Candidates("node", FilteredFaces(faces, u))), Len(d.result))
        \/ Search(c, d, t) = Fault("invalid")
    BY <1>2, <1>10 DEF Search, NodeSearch, u
  <2>2. QED BY <1>3, <1>6, <1>10, <2>1, FoundTyped DEF M
<1>11. CASE c.sdk = "web"
  <2>1. Search(c, d, t) = Found(Descending(Candidates("web", FilteredFaces(faces, u))), Missing)
    <3>1. t = u
      BY <1>1, <1>11
    <3>2. QED BY <1>11, <3>1 DEF Search, WebSearch, faces
  <2>2. QED BY <1>6, <1>11, <2>1, FoundTyped DEF M
<1>12. CASE c.sdk = "go"
  <2> DEFINE all == IF d.result # Missing THEN Candidates("go", d.result) ELSE d.results
             kept == AtLeast(u, all)
             marked == [i \in DOMAIN kept |-> [kept[i] EXCEPT !.match = TRUE]]
             count == IF d.result # Missing THEN Len(d.result) ELSE d.face_count
  <2>1. t = u
    BY <1>1, <1>12
  <2>2. CASE d.result = Missing /\ d.results = Missing
    <3>1. Search(c, d, t) = Fault("invalid")
      BY <1>12, <2>2 DEF Search, GoSearch
    <3>2. QED BY <1>3, <3>1
  <2>3. CASE ~(d.result = Missing /\ d.results = Missing)
    <3>1. Search(c, d, t) = Found(Descending(marked), count)
      BY <1>12, <2>1, <2>3, Zenon DEF Search, GoSearch
    <3>2. all \in Seq(M)
      BY <1>2, <1>6, <1>7, <1>12, <2>3
    <3> HIDE DEF all
    <3>3. kept \in Seq(M)
      BY <1>5, <3>2
    <3> HIDE DEF kept
    <3>4. marked \in Seq(M)
      BY <3>3, MarkedShow DEF M
    <3> HIDE DEF marked, count
    <3>5. QED BY <3>1, <3>4, FoundTyped DEF M
  <2>4. QED BY <2>2, <2>3
<1>13. QED BY <1>8, <1>9, <1>10, <1>11, <1>12 DEF SdkNames


\* A document of every call, made a result by the client that asked.
Result(c, k, d) ==
  CASE k.op = "detect" -> Detect(c, d)
    [] k.op = "search" -> Search(c, d, k.threshold)
    [] k.op = "compare" -> Compare(c, d)
    [] k.op = "extract" -> Extract(c, d)

DocumentsOf(op) ==
  CASE op \in {"detect", "extract"} -> DetectDoc
    [] op = "search" -> SearchDoc
    [] op = "compare" -> VerifyDoc

\* What Ask has looked at, and the key it sends.
CheckedCall(c, k) ==
  /\ k.op \in Op /\ Offered(c.sdk, k.op)
  /\ k.threshold \in Int \cup {Missing} /\ ThresholdTaken(c.sdk, k.op, k.threshold)
  /\ k.key # None => /\ k.key = KeyFor(c, ServiceOf[k.op])
                     /\ KeyRequired(c) => k.key # ""

\* A call that was not sent has one of two exceptions, one that was sent has
\* what became of a document.
Answers(c, k, d, r) ==
  \/ /\ d = None
     /\ \/ r = None
        \/ r = Fault("validation")
        \/ r = Fault("authentication") /\ KeyFor(c, ServiceOf[k.op]) = ""
  \/ d \in DocumentsOf(k.op) /\ r = Result(c, k, d)

ResultInv ==
  /\ client # None => CheckedClient(client)
  /\ \/ call = None /\ answer = None
     \/ client # None /\ CheckedCall(client, call) /\ Answers(client, call, doc, answer)

-----------------------------------------------------------------------------
(* The invariant                                                           *)

\* Before there is a client.
LEMMA InitResults == Init => ResultInv
BY DEF Init, ResultInv

\* Setting up a client checks it.
LEMMA ConstructChecks ==
  ASSUME NEW sdk \in Sdk, NEW t \in Threshold \ {Missing}, NEW keys, NEW single,
         Constructible(sdk, t, keys, single)
  PROVE  CheckedClient([sdk |-> sdk, threshold |-> t, keys |-> keys, single |-> single])
<1>1. sdk \in SdkNames /\ t \in Int
  BY ResultsAssumption
<1>2. InRange(WebThreshold)
  BY ScoreAssumption DEF InRange
<1>3. /\ sdk # "go" => InRange(t)
      /\ sdk = "web" => t = WebThreshold
  <2>1. CASE sdk \in {"python", "node"}
    BY <2>1 DEF Constructible
  <2>2. CASE sdk = "java"
    BY <2>2 DEF Constructible
  <2>3. CASE sdk = "go"
    BY <2>3
  <2>4. CASE sdk = "web"
    BY <1>2, <2>4 DEF Constructible
  <2>5. QED BY <1>1, <2>1, <2>2, <2>3, <2>4 DEF SdkNames
<1>4. QED BY <1>1, <1>3 DEF CheckedClient

\* Asking checks the call, its arguments before its key.
LEMMA AskChecks ==
  ASSUME NEW op \in Op, NEW t \in Threshold \cup {Missing}, NEW limit,
         Offered(client.sdk, op), ThresholdTaken(client.sdk, op, t),
         NEW r, r = Asked(op, t, limit)
  PROVE  LET k == [op |-> op, threshold |-> t,
                   key |-> IF r = None THEN KeyFor(client, ServiceOf[op]) ELSE None]
         IN CheckedCall(client, k) /\ Answers(client, k, None, r)
<1> DEFINE key == KeyFor(client, ServiceOf[op])
           k == [op |-> op, threshold |-> t, key |-> IF r = None THEN key ELSE None]
<1>1. Fault("validation") # None /\ Fault("authentication") # None
  BY ResultsAssumption DEF Why
<1>2. \/ r = Fault("validation")
      \/ r = Fault("authentication") /\ key = ""
      \/ r = None /\ (KeyRequired(client) => key # "")
  BY DEF Asked
<1>3. k.op = op /\ k.threshold = t /\ k.key = IF r = None THEN key ELSE None
  OBVIOUS
<1>4. t \in Int \cup {Missing}
  BY ResultsAssumption
<1> HIDE DEF k
<1>5. Answers(client, k, None, r)
  BY <1>2, <1>3 DEF Answers
<1>6. k.key # None => k.key = key /\ (KeyRequired(client) => k.key # "")
  BY <1>1, <1>2, <1>3
<1>7. CheckedCall(client, k)
  BY <1>3, <1>4, <1>6 DEF CheckedCall
<1>8. QED BY <1>5, <1>7 DEF k

\* Every step keeps it.
LEMMA NextResults == ResultInv /\ [Next]_vars => ResultInv'
<1> SUFFICES ASSUME ResultInv, [Next]_vars PROVE ResultInv'
  OBVIOUS
<1>1. ASSUME NEW sdk \in Sdk, NEW t \in Threshold \ {Missing},
             NEW keys \in [Service -> Key], NEW single \in Single,
             Construct(sdk, t, keys, single)
      PROVE  ResultInv'
  <2>1. CheckedClient(client')
    BY <1>1, ConstructChecks DEF Construct
  <2>2. call = None /\ answer = None
    BY <1>1 DEF Construct, ResultInv
  <2>3. QED BY <1>1, <2>1, <2>2 DEF Construct, ResultInv
<1>2. ASSUME NEW op \in Op, NEW t \in Threshold \cup {Missing}, NEW limit \in Limit,
             Ask(op, t, limit)
      PROVE  ResultInv'
  <2>1. /\ client' = client /\ client # None /\ doc' = None
        /\ answer' = Asked(op, t, limit)
        /\ call' = [op |-> op, threshold |-> t,
                    key |-> IF answer' = None THEN KeyFor(client, ServiceOf[op]) ELSE None]
        /\ Offered(client.sdk, op) /\ ThresholdTaken(client.sdk, op, t)
    BY <1>2 DEF Ask
  <2>2. CheckedCall(client, call') /\ Answers(client, call', None, answer')
    BY <2>1, AskChecks
  <2>3. QED BY <2>1, <2>2 DEF ResultInv
<1>3. ASSUME NEW d, NEW result, Return(d, result), client # None, call # None,
             d \in DocumentsOf(call.op), result = Result(client, call, d)
      PROVE  ResultInv'
  <2>1. client' = client /\ call' = call /\ doc' = d /\ answer' = result
    BY <1>3 DEF Return
  <2>2. Answers(client, call, d, result)
    BY <1>3 DEF Answers
  <2>3. QED BY <1>3, <2>1, <2>2 DEF ResultInv
<1>4. ASSUME NEW d \in DetectDoc, TakeFaces(d) PROVE ResultInv'
  BY <1>3, <1>4 DEF TakeFaces, Waiting, DocumentsOf, Result
<1>5. ASSUME NEW d \in DetectDoc, TakeFeature(d) PROVE ResultInv'
  BY <1>3, <1>5 DEF TakeFeature, Waiting, DocumentsOf, Result
<1>6. ASSUME NEW d \in SearchDoc, TakeMatches(d) PROVE ResultInv'
  BY <1>3, <1>6 DEF TakeMatches, Waiting, DocumentsOf, Result
<1>7. ASSUME NEW d \in VerifyDoc, TakeVerdict(d) PROVE ResultInv'
  BY <1>3, <1>7 DEF TakeVerdict, Waiting, DocumentsOf, Result
<1>8. ASSUME NEW t \in Threshold, Slide(t) PROVE ResultInv'
  <2>1. /\ client' = client /\ client # None /\ doc' = None /\ answer' = None
        /\ client.sdk = "web" /\ call.op = "search" /\ call # None
        /\ call' = [op |-> "search", threshold |-> t, key |-> call.key]
    BY <1>8 DEF Slide, Waiting
  <2>2. t \in Int /\ t # Missing
    BY <1>8, ResultsAssumption, ScoreAssumption
  <2>3. /\ call'.op = call.op /\ call'.threshold = t /\ call'.key = call.key
    BY <2>1
  <2>4. CheckedClient(client) /\ CheckedCall(client, call)
    BY <2>1 DEF ResultInv
  <2>5. CheckedCall(client, call')
    BY <2>1, <2>2, <2>3, <2>4 DEF CheckedCall, ThresholdTaken
  <2>6. Answers(client, call', None, None)
    BY DEF Answers
  <2>7. QED BY <2>1, <2>4, <2>5, <2>6 DEF ResultInv
<1>9. CASE UNCHANGED vars
  BY <1>9 DEF vars, ResultInv
<1>10. QED BY <1>1, <1>2, <1>4, <1>5, <1>6, <1>7, <1>8, <1>9 DEF Next

-----------------------------------------------------------------------------
(* The properties                                                          *)

\* What a document is made into has the shape of a result.
LEMMA ResultTyped ==
  ASSUME NEW c, CheckedClient(c), NEW k, CheckedCall(c, k), NEW d \in DocumentsOf(k.op)
  PROVE  Typed(c.sdk, Result(c, k, d))
<1>1. /\ k.op \in {"detect", "extract"} => d \in DetectDocument
      /\ k.op = "search" => d \in SearchDocument
      /\ k.op = "compare" => d \in VerifyDocument
  BY DocumentsAssumption DEF DocumentsOf
<1>2. CASE k.op = "detect"
  <2>1. Result(c, k, d) = Detect(c, d)
    BY <1>2 DEF Result
  <2>2. QED BY <1>1, <1>2, <2>1, DetectTyped DEF CheckedClient
<1>3. CASE k.op = "search"
  <2>1. Result(c, k, d) = Search(c, d, k.threshold)
    BY <1>3 DEF Result
  <2>2. /\ k.threshold \in Int \cup {Missing}
        /\ k.threshold = Missing => c.sdk \in {"python", "java", "node"}
    BY <1>3 DEF CheckedCall, ThresholdTaken
  <2>3. QED BY <1>1, <1>3, <2>1, <2>2, SearchTyped DEF CheckedClient
<1>4. CASE k.op = "compare"
  <2>1. Result(c, k, d) = Compare(c, d)
    BY <1>4 DEF Result
  <2>2. QED BY <1>1, <1>4, <2>1, CompareTyped DEF CheckedClient
<1>5. CASE k.op = "extract"
  <2>1. Result(c, k, d) = Extract(c, d)
    BY <1>5 DEF Result
  <2>2. c.sdk \in {"python", "go", "java", "node"}
    BY <1>5 DEF CheckedCall, Offered, CheckedClient, SdkNames
  <2>3. QED BY <1>1, <1>5, <2>1, <2>2, ExtractTyped
<1>6. QED BY <1>2, <1>3, <1>4, <1>5 DEF CheckedCall, Op, ServiceOf

\* A call whose document came back.
LEMMA WhenAnswered ==
  ASSUME ResultInv, NEW op, Answered(op)
  PROVE  /\ CheckedClient(client) /\ CheckedCall(client, call) /\ call.op = op
         /\ doc \in DocumentsOf(op) /\ doc.result # Missing
         /\ answer = Result(client, call, doc)
BY DEF ResultInv, Answered, Answers

\* The invariant gives each of the properties.
LEMMA TypeImplied == ResultInv => TypeOK
<1> SUFFICES ASSUME ResultInv, answer # None PROVE TypeOK
  BY DEF TypeOK
<1>1. client # None /\ CheckedClient(client) /\ CheckedCall(client, call) /\ Answers(client, call, doc, answer)
  BY DEF ResultInv
<1>2. CASE answer = Fault("validation") \/ answer = Fault("authentication")
  <2>1. PICK why \in {"validation", "authentication"} : answer = Fault(why)
    BY <1>2
  <2>2. answer.kind = "fault" /\ answer.why = why
    BY <2>1 DEF Fault
  <2>3. QED BY <2>2 DEF TypeOK, Why
<1>3. CASE doc \in DocumentsOf(call.op) /\ answer = Result(client, call, doc)
  <2>1. Typed(client.sdk, answer)
    BY <1>1, <1>3, ResultTyped
  <2>2. Confidences = ConfidencesOf(client.sdk)
    BY DEF Confidences, ConfidencesOf
  <2>3. QED BY <2>1, <2>2 DEF Typed, TypeOK, IsMatch
<1>4. QED BY <1>1, <1>2, <1>3 DEF Answers

LEMMA SearchImplied == ResultInv => SearchRanked
<1> SUFFICES ASSUME ResultInv, Answered("search")
             PROVE  Ranked(answer, doc.result, Get(call.threshold, 0))
  BY DEF SearchRanked, Ranked, Reaching, ReachOf, SameSubject
<1>1. /\ CheckedClient(client) /\ CheckedCall(client, call) /\ call.op = "search"
      /\ doc \in SearchDocument /\ doc.result # Missing
      /\ answer = Search(client, doc, call.threshold)
  BY WhenAnswered, DocumentsAssumption DEF DocumentsOf, Result
<1>2. /\ call.threshold \in Int \cup {Missing}
      /\ call.threshold = Missing => client.sdk \in {"python", "java", "node"}
  BY <1>1 DEF CheckedCall, ThresholdTaken
<1>3. QED BY <1>1, <1>2, SearchRanks DEF CheckedClient

LEMMA VerdictImplied == ResultInv => OneToOne
<1> SUFFICES ASSUME ResultInv, Answered("compare")
             PROVE  Faithful(doc, client.threshold, answer)
  BY DEF OneToOne, Faithful
<1>1. CheckedClient(client) /\ call.op = "compare" /\ doc.result # Missing /\ answer = Compare(client, doc)
  BY WhenAnswered DEF Result
<1>2. QED BY <1>1, CompareFaithful

LEMMA FeatureImplied == ResultInv => FeatureDecodes
<1> SUFFICES ASSUME ResultInv, Answered("extract") PROVE Recovered(answer, doc.result)
  BY DEF FeatureDecodes, Recovered
<1>1. /\ CheckedClient(client) /\ CheckedCall(client, call) /\ call.op = "extract"
      /\ doc \in DetectDocument /\ doc.result # Missing
      /\ answer = Extract(client, doc)
  BY WhenAnswered, DocumentsAssumption DEF DocumentsOf, Result
<1>2. client.sdk \in {"python", "go", "java", "node"}
  BY <1>1 DEF CheckedCall, Offered, CheckedClient, SdkNames
<1>3. QED BY <1>1, <1>2, ExtractRecovers

LEMMA DetectImplied == ResultInv => ConfidenceKept
<1> SUFFICES ASSUME ResultInv, Answered("detect") PROVE ConfidenceKept
  BY DEF ConfidenceKept
<1>1. /\ CheckedClient(client) /\ doc \in DetectDocument /\ doc.result # Missing
      /\ answer = Detect(client, doc)
  BY WhenAnswered, DocumentsAssumption DEF DocumentsOf, Result
<1>2. QED BY <1>1, DetectKeeps DEF CheckedClient, ConfidenceKept

LEMMA KeyImplied == ResultInv => KeyOfService
<1> SUFFICES ASSUME ResultInv, client # None, client.sdk # "web", call # None PROVE KeyOfService
  BY DEF KeyOfService
<1> DEFINE own == client.keys[ServiceOf[call.op]]
           due == IF own = Missing THEN client.single ELSE own
<1>1. CheckedClient(client) /\ CheckedCall(client, call) /\ Answers(client, call, doc, answer)
  BY DEF ResultInv
<1>2. KeyFor(client, ServiceOf[call.op]) = due
  BY <1>1 DEF CheckedClient, SdkNames, KeyFor, PythonKey, GoKey, JavaKey, NodeKey, Get
<1>3. call.key # None => call.key = due /\ call.key # ""
  BY <1>1, <1>2 DEF CheckedCall, KeyRequired
<1>4. ASSUME answer = Fault("authentication") PROVE due = ""
  <2>1. Fault("authentication") # None /\ Fault("authentication") # Fault("validation")
    BY ResultsAssumption DEF Why, Fault
  <2>2. ~Typed(client.sdk, Fault("authentication"))
    BY DEF Typed, Fault
  <2>3. ~(doc \in DocumentsOf(call.op) /\ answer = Result(client, call, doc))
    BY <1>1, <1>4, <2>2, ResultTyped
  <2>4. QED BY <1>1, <1>2, <1>4, <2>1, <2>3 DEF Answers
<1>5. QED BY <1>3, <1>4 DEF KeyOfService

-----------------------------------------------------------------------------
\* All of it together.
LEMMA AlwaysResults == Spec => []ResultInv
BY InitResults, NextResults, PTL DEF Spec

\* Every result a call of any client returns or raises has the shape its
\* callers are told of, with scores between 0 and 1.
THEOREM TypeCorrect == Spec => []TypeOK
BY AlwaysResults, TypeImplied, PTL

\* A search of any client returns each subject of each face that reaches the
\* threshold exactly once, the best one first.
THEOREM SearchesRank == Spec => []SearchRanked
BY AlwaysResults, SearchImplied, PTL

\* A comparison of any client has a verdict exactly when the document shows
\* one face on each side and its own threshold lies between 0 and 1; the
\* verdict is that of the similarity in the document.
THEOREM VerdictsOneToOne == Spec => []OneToOne
BY AlwaysResults, VerdictImplied, PTL

\* The text of a feature, whichever SDK encoded it, decodes to the embedding
\* of the one face, for embeddings of every length.
THEOREM FeaturesDecode == Spec => []FeatureDecodes
BY AlwaysResults, FeatureImplied, PTL

\* The confidences a detection returns are those of the boxes, in order.
THEOREM ConfidencesKept == Spec => []ConfidenceKept
BY AlwaysResults, DetectImplied, PTL

\* An SDK sends the key of the called service or else the old one, never an
\* empty one, and raises an authentication error only when there is none.
THEOREM KeysOfServices == Spec => []KeyOfService
BY AlwaysResults, KeyImplied, PTL

=============================================================================
