---------------------------- MODULE RequestProofs ----------------------------
(***************************************************************************)
(* Proofs about Request, for any number of messages, headers, bodies and   *)
(* chunks, when the network does not cut inside a line or a chunk.         *)
(***************************************************************************)
EXTENDS Request, SequenceTheorems, FiniteSetTheorems, WellFoundedInduction, TLAPS

\* A nonempty set of numbers has a least element: inclusion of finite sets, such
\* as the numbers below each of them, is well-founded.
LEMMA LeastNumber ==
    ASSUME NEW T \in SUBSET Nat, T # {}
    PROVE  \E m \in T : \A n \in T : m <= n
  <1> DEFINE R == StrictSubsetOrdering(Nat)
             S == FiniteSubsetsOf(Nat)
             below == {0 .. n - 1 : n \in T}
  <1>1. IsWellFoundedOn(R, S)
    BY FS_StrictSubsetOrderingWellFounded
  <1>2. below \subseteq S /\ below # {}
    <2>1. ASSUME NEW n \in T
          PROVE  0 .. n - 1 \in S
      BY FS_Interval DEF FiniteSubsetsOf
    <2> QED BY <2>1
  <1>3. \E x \in below : \A y \in below : ~(<<y, x>> \in R)
    <2> HIDE DEF R, S, below
    <2> QED BY <1>1, <1>2, WFMin
  <1>4. PICK m \in T : \A n \in T : ~(<<0 .. n - 1, 0 .. m - 1>> \in R)
    BY <1>3
  <1>5. ASSUME NEW n \in T, ~(m <= n)
        PROVE  FALSE
    <2>1. /\ 0 .. n - 1 \in SUBSET Nat /\ 0 .. m - 1 \in SUBSET Nat
          /\ 0 .. n - 1 \subseteq 0 .. m - 1 /\ n \in 0 .. m - 1 /\ n \notin 0 .. n - 1
      BY <1>5
    <2> QED BY <1>4, <2>1 DEF StrictSubsetOrdering
  <1> QED BY <1>5

\* Induction, for what can be said as membership in a set.
LEMMA Induction ==
    ASSUME NEW T, 0 \in T, \A n \in Nat : n \in T => n + 1 \in T
    PROVE  Nat \subseteq T
  <1> SUFFICES ASSUME Nat \ T # {} PROVE FALSE
    OBVIOUS
  <1>1. PICK m \in Nat \ T : \A n \in Nat \ T : m <= n
    BY LeastNumber
  <1>2. m - 1 \in Nat /\ m - 1 \in T
    BY <1>1
  <1>3. (m - 1) + 1 \in T
    BY <1>2
  <1> QED BY <1>1, <1>3

\* Concatenation is associative.
LEMMA Associative == \A X : \A s, t, u \in Seq(X) : (s \o t) \o u = s \o (t \o u)
  BY ConcatAssociative

\* The same where \o is not expanded.
Join(s, t) == s \o t
LEMMA JoinAssociative ==
    \A X : \A s, t, u \in Seq(X) : Join(Join(s, t), u) = Join(s, Join(t, u))
  BY Associative DEF Join

-----------------------------------------------------------------------------
(* Flat, which is a fold: f is the function by which it is computed.       *)

Folding(f, n, q) ==
    f = [s \in SUBSET (1 .. n) |-> IF s = {} THEN <<>> ELSE f[s \ {Max(s)}] \o q[Max(s)]]

\* The greatest element of a set of numbers up to n.
LEMMA MaxOfSet ==
    ASSUME NEW n \in Nat, NEW s \in SUBSET (1 .. n), n \in s
    PROVE  Max(s) = n
  <1>1. \A x \in s : x \in Int /\ n >= x
    OBVIOUS
  <1>2. \E x \in s : \A y \in s : x >= y
    BY <1>1
  <1>3. Max(s) \in s /\ Max(s) >= n
    BY <1>2, Zenon DEF Max
  <1>4. Max(s) \in Int /\ n >= Max(s)
    BY <1>1, <1>3
  <1> QED BY <1>3, <1>4

\* There is such a function for every length.
LEMMA FoldingExists == \A q : \A n \in Nat : \E f : Folding(f, n, q)
  <1> TAKE q
  <1> DEFINE T == {n \in Nat : \E f : Folding(f, n, q)}
  <1>1. 0 \in T
    <2> DEFINE f == [s \in SUBSET (1 .. 0) |-> <<>>]
    <2>1. \A s \in SUBSET (1 .. 0) : s = {}
      OBVIOUS
    <2>2. Folding(f, 0, q)
      BY <2>1 DEF Folding
    <2> QED BY <2>2
  <1>2. ASSUME NEW n \in Nat, n \in T
        PROVE  n + 1 \in T
    <2>1. PICK f : Folding(f, n, q)
      BY <1>2
    <2> DEFINE g == [s \in SUBSET (1 .. n + 1) |->
                        IF n + 1 \in s THEN f[s \ {n + 1}] \o q[n + 1] ELSE f[s]]
    <2>2. ASSUME NEW s \in SUBSET (1 .. n + 1)
          PROVE  g[s] = IF s = {} THEN <<>> ELSE g[s \ {Max(s)}] \o q[Max(s)]
      <3>1. CASE n + 1 \in s
        <4>1. Max(s) = n + 1
          BY <3>1, MaxOfSet
        <4>2. s \ {n + 1} \in SUBSET (1 .. n + 1) /\ n + 1 \notin s \ {n + 1}
          OBVIOUS
        <4>3. g[s \ {n + 1}] = f[s \ {n + 1}]
          BY <4>2
        <4> QED BY <3>1, <4>1, <4>3
      <3>2. CASE n + 1 \notin s
        <4>1. \A x \in s : x \in 1 .. n
          BY <3>2
        <4>2. s \in SUBSET (1 .. n) /\ s \ {Max(s)} \in SUBSET (1 .. n)
          BY <4>1
        <4>3. g[s] = f[s] /\ g[s \ {Max(s)}] = f[s \ {Max(s)}]
          BY <3>2, <4>2
        <4>4. f[s] = IF s = {} THEN <<>> ELSE f[s \ {Max(s)}] \o q[Max(s)]
          BY <2>1, <4>2 DEF Folding
        <4> QED BY <4>3, <4>4
      <3> QED BY <3>1, <3>2
    <2>3. Folding(g, n + 1, q)
      BY <2>2 DEF Folding
    <2> QED BY <2>3
  <1> HIDE DEF T
  <1>3. Nat \subseteq T
    BY <1>1, <1>2, Induction
  <1> QED BY <1>3 DEF T

\* It begins with nothing and adds the elements one by one.
Grows(f, n, q) == \A k \in 0 .. n - 1 : f[1 .. k + 1] = f[1 .. k] \o q[k + 1]
LEMMA FoldingSteps ==
    \A n \in Nat : \A q, f : Folding(f, n, q) => f[1 .. 0] = <<>> /\ Grows(f, n, q)
  <1> SUFFICES ASSUME NEW n \in Nat, NEW q, NEW f, Folding(f, n, q)
               PROVE  f[1 .. 0] = <<>> /\ Grows(f, n, q)
    OBVIOUS
  <1>1. \A s \in SUBSET (1 .. n) : f[s] = IF s = {} THEN <<>> ELSE f[s \ {Max(s)}] \o q[Max(s)]
    BY DEF Folding
  <1>2. f[1 .. 0] = <<>>
    <2>1. 1 .. 0 = {} /\ {} \in SUBSET (1 .. n)
      OBVIOUS
    <2> QED BY <1>1, <2>1
  <1>3. ASSUME NEW k \in 0 .. n - 1
        PROVE  f[1 .. k + 1] = f[1 .. k] \o q[k + 1]
    <2>1. 1 .. k + 1 \in SUBSET (1 .. n) /\ k + 1 \in 1 .. k + 1 /\ k + 1 \in Nat
      OBVIOUS
    <2>2. Max(1 .. k + 1) = k + 1
      BY <2>1, MaxOfSet
    <2>3. (1 .. k + 1) \ {k + 1} = 1 .. k
      OBVIOUS
    <2> QED BY <1>1, <2>1, <2>2, <2>3
  <1> QED BY <1>2, <1>3 DEF Grows

\* The function Flat is computed by.
LEMMA FlatFolds ==
    ASSUME NEW n \in Nat, NEW q, DOMAIN q = 1 .. n
    PROVE  \E f : Folding(f, n, q) /\ Flat(q) = f[1 .. n]
  <1> DEFINE f == CHOOSE f : Folding(f, n, q)
  <1>1. Folding(f, n, q)
    BY FoldingExists
  <1>2. Flat(q) = f[1 .. n]
    BY DEF Flat, FoldLeft, MapThenFoldSet, Folding
  <1> QED BY <1>1, <1>2

\* Sequences that begin alike are folded alike.
LEMMA FoldingsAgree ==
    ASSUME NEW n \in Nat, NEW N \in Nat, n <= N, NEW q, NEW r, NEW f, NEW g,
           Folding(f, n, q), Folding(g, N, r),
           \A i \in 1 .. n : q[i] = r[i]
    PROVE  f[1 .. n] = g[1 .. n]
  <1> DEFINE T == {k \in Nat : k <= n => f[1 .. k] = g[1 .. k]}
  <1>1. 0 \in T
    BY FoldingSteps
  <1>2. ASSUME NEW k \in Nat, k \in T
        PROVE  k + 1 \in T
    <2>1. CASE k + 1 <= n
      <3>1. k \in 0 .. n - 1 /\ k \in 0 .. N - 1 /\ q[k + 1] = r[k + 1] /\ f[1 .. k] = g[1 .. k]
        BY <1>2, <2>1
      <3>2. f[1 .. k + 1] = f[1 .. k] \o q[k + 1]
        <4>1. Grows(f, n, q)
          BY FoldingSteps
        <4> QED BY <3>1, <4>1, Zenon DEF Grows
      <3>3. g[1 .. k + 1] = g[1 .. k] \o r[k + 1]
        <4>1. Grows(g, N, r)
          BY FoldingSteps
        <4> QED BY <3>1, <4>1, Zenon DEF Grows
      <3>4. f[1 .. k + 1] = g[1 .. k + 1]
        BY <3>1, <3>2, <3>3, Zenon
      <3>5. k + 1 \in Nat
        OBVIOUS
      <3> QED BY <3>4, <3>5, Zenon
    <2>2. CASE ~(k + 1 <= n)
      <3>1. k + 1 \in Nat
        OBVIOUS
      <3> QED BY <2>2, <3>1, Zenon
    <2> QED BY <2>1, <2>2
  <1> HIDE DEF T
  <1>3. Nat \subseteq T
    BY <1>1, <1>2, Induction
  <1> QED BY <1>3 DEF T

\* Nothing is folded to nothing.
LEMMA FlatEmpty == Flat(<<>>) = <<>>
  <1>1. DOMAIN <<>> = 1 .. 0 /\ 0 \in Nat
    OBVIOUS
  <1>2. PICK f : Folding(f, 0, <<>>) /\ Flat(<<>>) = f[1 .. 0]
    BY <1>1, FlatFolds
  <1>3. f[1 .. 0] = <<>>
    BY <1>1, <1>2, FoldingSteps
  <1> QED BY <1>2, <1>3

\* What parts are joined to has the elements of the parts.
LEMMA FlatIsSeq ==
    ASSUME NEW X, NEW q \in Seq(Seq(X))
    PROVE  Flat(q) \in Seq(X)
  <1> DEFINE n == Len(q)
  <1>1. n \in Nat /\ DOMAIN q = 1 .. n /\ \A i \in 1 .. n : q[i] \in Seq(X)
    BY LenProperties
  <1>2. PICK f : Folding(f, n, q) /\ Flat(q) = f[1 .. n]
    BY <1>1, FlatFolds
  <1> DEFINE T == {k \in Nat : k <= n => f[1 .. k] \in Seq(X)}
  <1> HIDE DEF n
  <1>3. 0 \in T
    <2>1. f[1 .. 0] = <<>>
      BY <1>1, <1>2, FoldingSteps
    <2>2. <<>> \in Seq(X) /\ 0 \in Nat
      OBVIOUS
    <2> QED BY <2>1, <2>2, Zenon
  <1>4. ASSUME NEW k \in Nat, k \in T
        PROVE  k + 1 \in T
    <2>1. CASE k + 1 <= n
      <3>1. f[1 .. k] \in Seq(X) /\ q[k + 1] \in Seq(X)
        BY <1>1, <1>4, <2>1
      <3>2. f[1 .. k + 1] = f[1 .. k] \o q[k + 1]
        <4>1. k \in 0 .. n - 1
          BY <1>1, <2>1
        <4>2. Grows(f, n, q)
          BY <1>1, <1>2, FoldingSteps
        <4> QED BY <4>1, <4>2, Zenon DEF Grows
      <3>3. f[1 .. k + 1] \in Seq(X)
        BY <3>1, <3>2, ConcatProperties
      <3> QED BY <3>3
    <2> QED BY <1>1, <2>1
  <1> HIDE DEF T
  <1>5. Nat \subseteq T
    BY <1>3, <1>4, Induction
  <1> QED BY <1>1, <1>2, <1>5 DEF T

\* The last part is added at the end.
LEMMA FlatAppend ==
    ASSUME NEW X, NEW q \in Seq(Seq(X)), NEW p \in Seq(X)
    PROVE  Flat(Append(q, p)) = Flat(q) \o p
  <1> DEFINE n == Len(q)
             r == Append(q, p)
  <1>1. n \in Nat /\ DOMAIN q = 1 .. n
    BY LenProperties
  <1>2. DOMAIN r = 1 .. n + 1 /\ r[n + 1] = p /\ \A i \in 1 .. n : r[i] = q[i]
    BY <1>1, AppendProperties, LenProperties
  <1> HIDE DEF n, r
  <1>3. PICK f : Folding(f, n, q) /\ Flat(q) = f[1 .. n]
    BY <1>1, FlatFolds
  <1>4. PICK g : Folding(g, n + 1, r) /\ Flat(r) = g[1 .. n + 1]
    <2>1. n + 1 \in Nat /\ DOMAIN r = 1 .. n + 1
      BY <1>1, <1>2
    <2> QED BY ONLY <2>1, FlatFolds
  <1>5. f[1 .. n] = g[1 .. n]
    BY <1>1, <1>2, <1>3, <1>4, FoldingsAgree
  <1>6. g[1 .. n + 1] = g[1 .. n] \o r[n + 1]
    <2>1. n \in 0 .. (n + 1) - 1 /\ n + 1 \in Nat
      BY <1>1
    <2>2. Grows(g, n + 1, r)
      BY <1>4, <2>1, FoldingSteps
    <2> QED BY <2>1, <2>2, Zenon DEF Grows
  <1> QED BY <1>2, <1>3, <1>4, <1>5, <1>6 DEF r

\* One part is itself.
LEMMA FlatOne ==
    ASSUME NEW X, NEW p \in Seq(X)
    PROVE  Flat(<<p>>) = p
  <1>1. <<>> \in Seq(Seq(X)) /\ Append(<<>>, p) = <<p>>
    OBVIOUS
  <1>2. Flat(<<p>>) = <<>> \o p
    BY <1>1, FlatAppend, FlatEmpty
  <1> QED BY <1>2, ConcatEmptySeq

\* Two lists of parts are joined one after the other.
LEMMA FlatConcat ==
    ASSUME NEW X, NEW q \in Seq(Seq(X)), NEW r \in Seq(Seq(X))
    PROVE  Flat(q \o r) = Flat(q) \o Flat(r)
  <1> DEFINE T == {n \in Nat : \A s \in Seq(Seq(X)) : Len(s) = n => Flat(q \o s) = Flat(q) \o Flat(s)}
  <1>1. 0 \in T
    <2> SUFFICES ASSUME NEW s \in Seq(Seq(X)), Len(s) = 0
                 PROVE  Flat(q \o s) = Flat(q) \o Flat(s)
      OBVIOUS
    <2>1. s = <<>>
      BY EmptySeq
    <2>2. q \o s = q
      BY <2>1, ConcatEmptySeq
    <2>3. Flat(q) \o <<>> = Flat(q)
      BY FlatIsSeq, ConcatEmptySeq
    <2> QED BY <2>1, <2>2, <2>3, FlatEmpty
  <1>2. ASSUME NEW n \in Nat, n \in T
        PROVE  n + 1 \in T
    <2> SUFFICES ASSUME NEW s \in Seq(Seq(X)), Len(s) = n + 1
                 PROVE  Flat(q \o s) = Flat(q) \o Flat(s)
      OBVIOUS
    <2>1. s # <<>>
      BY EmptySeq
    <2>2. PICK t \in Seq(Seq(X)), p \in Seq(X) : s = Append(t, p)
      BY <2>1, SequenceEmptyOrAppend
    <2>3. Len(t) = n
      BY <2>2, AppendProperties, LenProperties
    <2>4. Flat(q \o t) = Flat(q) \o Flat(t)
      BY <1>2, <2>3
    <2>5. s = t \o <<p>> /\ <<p>> \in Seq(Seq(X))
      BY <2>2, AppendIsConcat
    <2>6. q \o t \in Seq(Seq(X)) /\ q \o s = (q \o t) \o <<p>>
      <3>1. q \o t \in Seq(Seq(X))
        BY ConcatProperties
      <3> DEFINE last == <<p>>
      <3>2. last \in Seq(Seq(X))
        BY <2>5
      <3> HIDE DEF last
      <3>3. Join(Join(q, t), last) = Join(q, Join(t, last))
        BY <3>2, JoinAssociative
      <3> QED BY <2>5, <3>1, <3>3 DEF Join, last
    <2>7. (q \o t) \o <<p>> = Append(q \o t, p)
      BY <2>6, AppendIsConcat
    <2>8. Flat(q \o s) = Flat(q \o t) \o p
      BY <2>6, <2>7, FlatAppend
    <2>9. Flat(s) = Flat(t) \o p
      BY <2>2, FlatAppend
    <2>10. Flat(q) \in Seq(X) /\ Flat(t) \in Seq(X) /\ p \in Seq(X)
      BY FlatIsSeq
    <2>11. (Flat(q) \o Flat(t)) \o p = Flat(q) \o (Flat(t) \o p)
      <3> DEFINE a == Flat(q)
                 b == Flat(t)
      <3>1. a \in Seq(X) /\ b \in Seq(X) /\ p \in Seq(X)
        BY <2>10
      <3> HIDE DEF a, b
      <3>2. (a \o b) \o p = a \o (b \o p)
        <4>1. Join(Join(a, b), p) = Join(a, Join(b, p))
          BY ONLY <3>1, JoinAssociative
        <4> QED BY <4>1 DEF Join
      <3> QED BY <3>2 DEF a, b
    <2> QED BY <2>4, <2>8, <2>9, <2>11
  <1> HIDE DEF T
  <1>3. Nat \subseteq T
    BY <1>1, <1>2, Induction
  <1>4. Len(r) \in Nat
    BY LenProperties
  <1> QED BY <1>3, <1>4 DEF T

\* Flat of sequences of one element each.
LEMMA FlatSingles ==
    ASSUME NEW X, NEW s \in Seq(X)
    PROVE  Flat([i \in 1 .. Len(s) |-> <<s[i]>>]) = s
  <1> DEFINE T == {n \in Nat : \A t \in Seq(X) : Len(t) = n => Flat([i \in 1 .. n |-> <<t[i]>>]) = t}
  <1>1. 0 \in T
    <2> SUFFICES ASSUME NEW t \in Seq(X), Len(t) = 0
                 PROVE  Flat([i \in 1 .. 0 |-> <<t[i]>>]) = t
      OBVIOUS
    <2>1. t = <<>> /\ [i \in 1 .. 0 |-> <<t[i]>>] = <<>>
      BY EmptySeq
    <2> QED BY <2>1, FlatEmpty
  <1>2. ASSUME NEW n \in Nat, n \in T
        PROVE  n + 1 \in T
    <2> SUFFICES ASSUME NEW t \in Seq(X), Len(t) = n + 1
                 PROVE  Flat([i \in 1 .. n + 1 |-> <<t[i]>>]) = t
      OBVIOUS
    <2>1. PICK u \in Seq(X), e \in X : t = Append(u, e)
      <3>1. t # <<>>
        BY EmptySeq
      <3> QED BY <3>1, SequenceEmptyOrAppend
    <2>2. Len(u) = n /\ \A i \in 1 .. n : t[i] = u[i] /\ u[i] \in X
      BY <2>1, AppendProperties, LenProperties
    <2>3. t[n + 1] = e
      BY <2>1, <2>2, AppendProperties
    <2> DEFINE a == [i \in 1 .. n |-> <<u[i]>>]
               b == [i \in 1 .. n + 1 |-> <<t[i]>>]
    <2>4. a \in Seq(Seq(X)) /\ Len(a) = n /\ \A i \in 1 .. n : a[i] = <<u[i]>>
      <3>1. \A i \in 1 .. n : <<u[i]>> \in Seq(X)
        BY <2>2
      <3> QED BY <3>1
    <2>5. b \in Seq(Seq(X)) /\ Len(b) = n + 1 /\ b[n + 1] = <<e>>
          /\ \A i \in 1 .. n : b[i] = <<u[i]>>
      <3>1. \A i \in 1 .. n + 1 : t[i] \in X /\ <<t[i]>> \in Seq(X)
        BY <2>2, <2>3
      <3>2. n + 1 \in Nat /\ n + 1 \in 1 .. n + 1 /\ 1 .. n \subseteq 1 .. n + 1
        OBVIOUS
      <3>3. b \in Seq(Seq(X)) /\ Len(b) = n + 1
        BY <3>1, <3>2
      <3> QED BY <2>2, <2>3, <3>2, <3>3
    <2> HIDE DEF a, b
    <2>6. <<e>> \in Seq(X)
      OBVIOUS
    <2>7. b = Append(a, <<e>>)
      <3>1. /\ Append(a, <<e>>) \in Seq(Seq(X)) /\ Len(Append(a, <<e>>)) = n + 1
            /\ \A i \in 1 .. n : Append(a, <<e>>)[i] = a[i]
            /\ Append(a, <<e>>)[n + 1] = <<e>>
        BY <2>4, <2>6, AppendProperties
      <3>2. \A i \in 1 .. n + 1 : b[i] = Append(a, <<e>>)[i]
        <4> TAKE i \in 1 .. n + 1
        <4>1. i \in 1 .. n \/ i = n + 1
          OBVIOUS
        <4> QED BY <3>1, <2>4, <2>5, <4>1
      <3> QED BY <2>5, <3>1, <3>2, SeqEqual
    <2>8. Flat(a) = u
      BY <1>2, <2>2 DEF a
    <2>9. Flat(b) = u \o <<e>>
      BY <2>4, <2>6, <2>7, <2>8, FlatAppend
    <2> QED BY <2>1, <2>9, AppendIsConcat DEF b
  <1> HIDE DEF T
  <1>3. Nat \subseteq T
    BY <1>1, <1>2, Induction
  <1>4. Len(s) \in Nat
    BY LenProperties
  <1> QED BY <1>3, <1>4 DEF T
-----------------------------------------------------------------------------
(* Where the parser is in the stream.                                      *)

Part == Seq(Token)

\* The parts of the messages from the i-th on.
From(i) == Stream(SubSeq(msgs, i, Len(msgs)))

\* The message that is being read.
Number == Len(handled) + 1
Current == msgs[Number]
Later == From(Number + 1)

BodyParts(m) ==
    IF m.chunks # <<>> THEN Chunks(m.chunks) ELSE [i \in 1 .. m.body |-> Bytes(i - 1, 1)]

\* The parts of message m from the blank line, from behind its k-th header, from
\* behind its start line and from behind its k-th chunk on.
AtBlank(m, later) == <<Eol>> \o (BodyParts(m) \o later)
AtHeader(m, k, later) ==
    Lines(SubSeq(Headers(m), k + 1, Len(Headers(m)))) \o AtBlank(m, later)
AtMore(m, later) == <<Flat(Lines(m.more))>> \o AtHeader(m, 0, later)
AtChunk(m, k, later) == SubSeq(Chunks(m.chunks), k + 1, Len(m.chunks) + 2) \o later

\* b is what is left of a part, cur, and whole parts; what comes next is in w.
Cut(b, w, cur, rest) ==
    \E q \in Seq(Part) : b = cur \o Flat(q) /\ rest = q \o w

\* The headers of m of which the lines up to its k-th header have been read.
Seen(m, k) ==
    {Headers(m)[i].sort : i \in 1 .. k} \cup (IF m.more = <<>> THEN {} ELSE {"Extra"})
Fields(m, k) == [s \in Seen(m, k) |-> HeaderValue(m, s)]
AllFields(m) == Fields(m, Len(Headers(m)))

GoodMore(m) == m.more # <<>> => m.more[1].sort = "Extra"

\* The user's lines behind the k-th, and the value of the header after k of them.
MoreRest(m, k) == Flat(SubSeq(Lines(m.more), k + 1, Len(m.more)))
FoldedValue(m, k) == IF k = 1 THEN m.more[1].n ELSE 10 * m.more[1].n + m.more[k].n

-----------------------------------------------------------------------------
(* The inductive invariant.                                                *)

HeaderMap == UNION {[K -> Int] : K \in SUBSET Keys}

InRequest == [status : {"FIRSTLINE", "HEADERS", "BODY", "TRAILER"}, start : Starts \cup {"none"},
              headers : HeaderMap, ntoread : Int, body : Part]
Handed == [start : Starts \cup {"none"}, headers : HeaderMap, body : Part]

Types ==
    /\ TypeOK
    /\ buf \in Part /\ wire \in Seq(Part) /\ field \in Token
    /\ req \in InRequest /\ handled \in Seq(Handed)

\* The messages were sent by a client, or by a server.
Sent ==
    /\ msgs \in Seq(Messages) /\ msgs # <<>>
    /\ \A i \in DOMAIN msgs : msgs[i].start \in Responses <=> KindResponse

\* What has been handed over.
Done ==
    /\ Len(handled) <= Len(msgs)
    /\ \A i \in DOMAIN handled :
          ~Malformed(msgs[i]) /\ ~Endless(msgs[i]) /\ Matches(handled[i], msgs[i])

AtStart == Cut(buf, wire, <<>>, From(Number)) /\ pc \in {"idle", "arrived", "parse", "more"}

\* The start line of the current message has been read.
Started == Number <= Len(msgs) /\ Current.start \in StartLines /\ req.start = Current.start

InHeaders ==
    /\ Started /\ req.body = <<>>
    /\ pc \in {"idle", "arrived", "parse", "headers"}
    /\ \/ /\ Current.more # <<>> /\ req.headers = <<>>
          /\ pc = "headers" => field = NoField
          /\ Cut(buf, wire, <<>>, AtMore(Current, Later))
       \/ /\ pc = "headers" /\ GoodMore(Current) /\ field = Current.more[1]
          /\ \E k \in 1 .. Len(Current.more) - 1 :
                /\ req.headers = [s \in {"Extra"} |-> FoldedValue(Current, k)]
                /\ Cut(buf, wire, MoreRest(Current, k), AtHeader(Current, 0, Later))
       \/ /\ GoodMore(Current)
          /\ \E k \in 0 .. Len(Headers(Current)) :
                /\ req.headers = Fields(Current, k)
                /\ Cut(buf, wire, <<>>, AtHeader(Current, k, Later))

\* All headers of the current message have been read.
PastHeaders ==
    /\ Started /\ GoodMore(Current) /\ req.headers = AllFields(Current)
    /\ Current.start \notin Bodiless

\* The body after k chunks, each with its line end.
ChunkBytes(m, i) == Bytes(Before(m.chunks, i), m.chunks[i]) \o Eol
BodyOf(m, k) == Flat([i \in 1 .. k |-> ChunkBytes(m, i)])

\* k chunks have been read.
ChunksRead(k) ==
    /\ \A j \in 1 .. k : Current.chunks[j] > 0
    /\ req.body = BodyOf(Current, k)

InLength ==
    /\ Current.length # Absent /\ pc # "chunks" /\ req.body = <<>>
    /\ Cut(buf, wire, <<>>, BodyParts(Current) \o Later)

InChunk(k) ==
    \/ /\ pc = "chunks" => req.ntoread = -1
       /\ Cut(buf, wire, <<>>, AtChunk(Current, k, Later))
    \/ /\ pc = "chunks" /\ k < Len(Current.chunks)
       /\ req.ntoread = Current.chunks[k + 1] /\ req.ntoread > 0
       /\ Cut(buf, wire, Bytes(Before(Current.chunks, k + 1), req.ntoread) \o Eol,
              AtChunk(Current, k + 1, Later))

InBody ==
    /\ PastHeaders
    /\ pc \in {"idle", "arrived", "parse", "body", "chunks"}
    /\ \/ Endless(Current) /\ pc # "chunks"
       \/ Current.chunks = <<>> /\ InLength
       \/ /\ Current.chunks # <<>>
          /\ \E k \in 0 .. Len(Current.chunks) : ChunksRead(k) /\ InChunk(k)

InTrailer ==
    /\ PastHeaders /\ Current.chunks # <<>> /\ ChunksRead(Len(Current.chunks))
    /\ pc \in {"idle", "arrived", "parse", "headers"}
    /\ Cut(buf, wire, <<>>, <<Eol>> \o Later)

Reading ==
    /\ req.status = "FIRSTLINE" => AtStart
    /\ req.status = "HEADERS" => InHeaders
    /\ req.status = "BODY" => InBody
    /\ req.status = "TRAILER" => InTrailer

IInv ==
    /\ Types /\ Sent /\ Done /\ RejectsOnlyMalformed
    /\ IF failed = "no" THEN Reading ELSE pc = "idle"

-----------------------------------------------------------------------------
(* Sequences.                                                              *)

\* The least element of a set of numbers.
LEMMA MinOfSet ==
    ASSUME NEW s \in SUBSET Int, NEW n \in s, \A x \in s : n <= x
    PROVE  Min(s) = n
  <1>1. \E x \in s : \A y \in s : x <= y
    OBVIOUS
  <1>2. Min(s) \in s /\ Min(s) <= n
    BY <1>1, Zenon DEF Min
  <1>3. Min(s) \in Int /\ n <= Min(s)
    BY <1>2
  <1> QED BY <1>2, <1>3

\* SubSeq takes a concatenation apart.
LEMMA SplitConcat ==
    ASSUME NEW S, NEW a \in Seq(S), NEW b \in Seq(S)
    PROVE  /\ SubSeq(a \o b, 1, Len(a)) = a
           /\ SubSeq(a \o b, Len(a) + 1, Len(a \o b)) = b
  <1> DEFINE c == a \o b
  <1>1. /\ c \in Seq(S) /\ Len(c) = Len(a) + Len(b) /\ Len(a) \in Nat /\ Len(b) \in Nat
        /\ \A i \in 1 .. Len(a) : c[i] = a[i] /\ a[i] \in S
        /\ \A i \in 1 .. Len(b) : c[Len(a) + i] = b[i] /\ b[i] \in S
    BY ConcatProperties, LenProperties
  <1> HIDE DEF c
  <1>2. SubSeq(c, 1, Len(a)) = a
    <2> DEFINE d == SubSeq(c, 1, Len(a))
    <2>1. d \in Seq(S) /\ Len(d) = Len(a) /\ \A i \in 1 .. Len(a) : d[i] = c[i]
      BY <1>1, SubSeqProperties
    <2> HIDE DEF d
    <2>2. \A i \in 1 .. Len(d) : d[i] = a[i]
      BY <1>1, <2>1
    <2>3. d = a
      BY <2>1, <2>2, SeqEqual
    <2> QED BY <2>3 DEF d
  <1>3. SubSeq(c, Len(a) + 1, Len(c)) = b
    <2> DEFINE d == SubSeq(c, Len(a) + 1, Len(c))
    <2>1. d \in Seq(S) /\ Len(d) = Len(b) /\ \A i \in 1 .. Len(b) : d[i] = c[Len(a) + i]
      BY <1>1, SubSeqProperties
    <2> HIDE DEF d
    <2>2. \A i \in 1 .. Len(d) : d[i] = b[i]
      BY <1>1, <2>1
    <2>3. d = b
      BY <2>1, <2>2, SeqEqual
    <2> QED BY <2>3 DEF d
  <1> QED BY <1>2, <1>3 DEF c

\* The facts about Flat for parts of the stream.
LEMMA FlatParts ==
    /\ \A q \in Seq(Part) : Flat(q) \in Part
    /\ \A q \in Seq(Part) : \A p \in Part : Flat(Append(q, p)) = Flat(q) \o p
    /\ \A q, r \in Seq(Part) : Flat(q \o r) = Flat(q) \o Flat(r)
    /\ \A p \in Part : Flat(<<p>>) = p
    /\ Flat(<<>>) = <<>>
  BY FlatIsSeq, FlatAppend, FlatConcat, FlatOne, FlatEmpty DEF Part

\* Parts are joined in any order.
LEMMA PartsConcat ==
    /\ \A s, t \in Part : s \o t \in Part
    /\ \A s, t, u \in Part : (s \o t) \o u = s \o (t \o u)
    /\ \A s \in Part : s \o <<>> = s /\ <<>> \o s = s
    /\ <<>> \in Part
  BY ConcatProperties, ConcatEmptySeq, Associative DEF Part

\* A line end is two bytes.
LEMMA EolProperties ==
    /\ Eol \in Part /\ Len(Eol) = 2 /\ Eol[1] = Tok("cr", 0) /\ Eol[2] = Tok("lf", 0)
    /\ Eol[1].sort = "cr" /\ Eol[2].sort = "lf" /\ Eol # <<>>
  <1>1. Tok("cr", 0) \in Token /\ Tok("lf", 0) \in Token
    BY DEF Tok, Token, Sorts
  <1>2. Tok("cr", 0).sort = "cr" /\ Tok("lf", 0).sort = "lf"
    BY DEF Tok
  <1>3. /\ Eol \in Seq(Token) /\ Len(Eol) = 2
        /\ Eol[1] = Tok("cr", 0) /\ Eol[2] = Tok("lf", 0) /\ Eol # <<>>
    BY <1>1 DEF Eol
  <1> QED BY <1>2, <1>3 DEF Part

-----------------------------------------------------------------------------
(* What buffer::pop takes from the front of the buffer.                    *)

\* A line that is not empty.
LEMMA PopLine ==
    ASSUME NEW t \in Token, t.sort \notin {"cr", "lf"}, NEW r \in Part,
           buf = (<<t>> \o Eol) \o r
    PROVE  /\ LineEnd = 2 /\ Line = <<t>>
           /\ Pop => buf' = r
  <1> DEFINE a == <<t>> \o Eol
  <1>1. <<t>> \in Seq(Token) /\ Len(<<t>>) = 1 /\ <<t>>[1] = t
    OBVIOUS
  <1>2. /\ a \in Seq(Token) /\ Len(a) = 3
        /\ a[1] = t /\ a[2].sort = "cr" /\ a[3].sort = "lf"
    <2>1. Eol \in Seq(Token) /\ Len(Eol) = 2 /\ Eol[1].sort = "cr" /\ Eol[2].sort = "lf"
      BY EolProperties DEF Part
    <2> DEFINE u == <<t>>
    <2>2. u \in Seq(Token) /\ Len(u) = 1
      BY <1>1
    <2> HIDE DEF u
    <2>3. /\ u \o Eol \in Seq(Token) /\ Len(u \o Eol) = Len(u) + Len(Eol)
          /\ \A i \in 1 .. Len(u) + Len(Eol) :
                (u \o Eol)[i] = IF i <= Len(u) THEN u[i] ELSE Eol[i - Len(u)]
      BY <2>1, <2>2, ConcatProperties
    <2>4. /\ a \in Seq(Token) /\ Len(a) = 1 + 2
          /\ \A i \in 1 .. 3 : a[i] = IF i <= 1 THEN <<t>>[i] ELSE Eol[i - 1]
      BY <2>1, <2>2, <2>3 DEF u
    <2> HIDE DEF a
    <2>5. a[1] = <<t>>[1] /\ a[2] = Eol[1] /\ a[3] = Eol[2]
      BY <2>4
    <2> QED BY <1>1, <2>1, <2>4, <2>5
  <1> HIDE DEF a
  <1>3. /\ buf \in Seq(Token) /\ Len(buf) = 3 + Len(r) /\ Len(r) \in Nat
        /\ buf[1] = t /\ buf[2].sort = "cr" /\ buf[3].sort = "lf"
    BY <1>2, ConcatProperties, LenProperties DEF Part, a
  <1>4. LineEnd = 2
    <2> DEFINE I == {i \in 1 .. Len(buf) : buf[i].sort \in {"cr", "lf"}}
    <2>1. I \in SUBSET Int /\ 2 \in I /\ \A x \in I : 2 <= x
      BY <1>3
    <2>2. LineEnd = Min(I)
      BY <2>1 DEF LineEnd, SelectInSeq
    <2> HIDE DEF I
    <2> QED BY <2>1, <2>2, MinOfSet
  <1>5. Line = <<t>>
    <2>1. Line = SubSeq(buf, 1, 1)
      BY <1>4 DEF Line
    <2> DEFINE l == SubSeq(buf, 1, 1)
    <2>2. l \in Seq(Token) /\ Len(l) = 1 /\ l[1] = t
      BY <1>3, SubSeqProperties
    <2> HIDE DEF l
    <2>3. \A i \in 1 .. Len(l) : l[i] = <<t>>[i]
      BY <1>1, <2>2
    <2>4. l = <<t>>
      BY <1>1, <2>2, <2>3, SeqEqual
    <2> QED BY <2>1, <2>4 DEF l
  <1>6. EndWidth = 2
    BY <1>3, <1>4 DEF EndWidth
  <1>7. SubSeq(buf, 4, Len(buf)) = r
    <2>1. SubSeq(a \o r, Len(a) + 1, Len(a \o r)) = r
      BY <1>2, SplitConcat DEF Part
    <2> QED BY <1>2, <2>1 DEF a
  <1>8. LineEnd # 0 /\ LineEnd + EndWidth = 4
    BY <1>4, <1>6
  <1> QED BY <1>4, <1>5, <1>7, <1>8 DEF Pop

\* An empty line.
LEMMA PopBlank ==
    ASSUME NEW r \in Part, buf = Eol \o r
    PROVE  /\ LineEnd = 1
           /\ Pop => buf' = r
  <1>1. /\ buf \in Seq(Token) /\ Len(buf) = 2 + Len(r) /\ Len(r) \in Nat
        /\ buf[1].sort = "cr" /\ buf[2].sort = "lf"
    <2>1. Eol \in Seq(Token) /\ Len(Eol) = 2 /\ Eol[1].sort = "cr" /\ Eol[2].sort = "lf"
      BY EolProperties DEF Part
    <2>2. r \in Seq(Token) /\ Len(r) \in Nat
      BY LenProperties DEF Part
    <2>3. /\ buf \in Seq(Token) /\ Len(buf) = 2 + Len(r)
          /\ \A i \in 1 .. 2 + Len(r) : buf[i] = IF i <= 2 THEN Eol[i] ELSE r[i - 2]
      <3>1. /\ Eol \o r \in Seq(Token) /\ Len(Eol \o r) = Len(Eol) + Len(r)
            /\ \A i \in 1 .. Len(Eol) + Len(r) :
                  (Eol \o r)[i] = IF i <= Len(Eol) THEN Eol[i] ELSE r[i - Len(Eol)]
        BY <2>1, <2>2, ConcatProperties
      <3> QED BY <2>1, <3>1
    <2>4. buf[1] = Eol[1] /\ buf[2] = Eol[2]
      BY <2>2, <2>3
    <2> QED BY <2>1, <2>2, <2>3, <2>4
  <1>2. LineEnd = 1
    <2> DEFINE I == {i \in 1 .. Len(buf) : buf[i].sort \in {"cr", "lf"}}
    <2>1. I \in SUBSET Int /\ 1 \in I /\ \A x \in I : 1 <= x
      BY <1>1
    <2>2. LineEnd = Min(I)
      BY <2>1 DEF LineEnd, SelectInSeq
    <2> HIDE DEF I
    <2> QED BY <2>1, <2>2, MinOfSet
  <1>3. EndWidth = 2
    BY <1>1, <1>2 DEF EndWidth
  <1>4. SubSeq(buf, 3, Len(buf)) = r
    <2>1. SubSeq(Eol \o r, Len(Eol) + 1, Len(Eol \o r)) = r
      BY EolProperties, SplitConcat DEF Part
    <2> QED BY <2>1, EolProperties
  <1>5. LineEnd # 0 /\ LineEnd + EndWidth = 3
    BY <1>2, <1>3
  <1> QED BY <1>2, <1>4, <1>5 DEF Pop

\* Nothing.
LEMMA PopNothing == buf = <<>> => LineEnd = 0 /\ (Pop => buf' = buf)
  BY DEF LineEnd, SelectInSeq, Pop

-----------------------------------------------------------------------------
(* How the stream is taken apart at the reader's cut.                      *)

\* Another part arrives.
LEMMA CutDeliver ==
    ASSUME NEW b \in Part, NEW w \in Seq(Part), NEW cur \in Part, NEW rest,
           Cut(b, w, cur, rest), w # <<>>
    PROVE  Cut(b \o Head(w), Tail(w), cur, rest)
  <1>1. PICK q \in Seq(Part) : b = cur \o Flat(q) /\ rest = q \o w
    BY DEF Cut
  <1> DEFINE p == Head(w)
             v == Tail(w)
             r == Append(q, p)
  <1>2. p \in Part /\ v \in Seq(Part) /\ w = <<p>> \o v
    <2>1. p \in Part /\ v \in Seq(Part)
      BY HeadTailProperties
    <2>2. w = <<p>> \o v
      OBVIOUS
    <2> QED BY <2>1, <2>2
  <1> HIDE DEF p, v
  <1>3. r \in Seq(Part) /\ r = q \o <<p>> /\ <<p>> \in Seq(Part)
    BY <1>2, AppendProperties, AppendIsConcat
  <1>4. rest = r \o v
    BY <1>1, <1>2, <1>3, Associative
  <1>5. Flat(r) = Flat(q) \o p /\ Flat(q) \in Part
    BY <1>2, FlatParts
  <1>6. b \o p = cur \o Flat(r)
    <2> DEFINE F == Flat(q)
    <2>1. F \in Part /\ b = cur \o F /\ Flat(r) = F \o p
      BY <1>1, <1>5
    <2> HIDE DEF F, r
    <2>2. (cur \o F) \o p = cur \o (F \o p)
      <3>1. cur \in Seq(Token) /\ F \in Seq(Token) /\ p \in Seq(Token)
        BY <1>2, <2>1 DEF Part
      <3>2. Join(Join(cur, F), p) = Join(cur, Join(F, p))
        BY ONLY <3>1, JoinAssociative
      <3> QED BY <3>2 DEF Join
    <2> QED BY <2>1, <2>2
  <1> HIDE DEF r
  <1>7. Cut(b \o p, v, cur, rest)
    BY <1>3, <1>4, <1>6 DEF Cut
  <1> QED BY <1>7 DEF p, v

\* The reader takes the next part when it has come.
LEMMA CutTake ==
    ASSUME NEW b, NEW w \in Seq(Part), NEW p \in Part, NEW rest \in Seq(Part),
           Cut(b, w, <<>>, <<p>> \o rest), b # <<>>
    PROVE  Cut(b, w, p, rest)
  <1>1. PICK q \in Seq(Part) : b = <<>> \o Flat(q) /\ <<p>> \o rest = q \o w
    BY DEF Cut
  <1>2. Flat(q) \in Part /\ b = Flat(q)
    BY <1>1, FlatParts, PartsConcat
  <1>3. q # <<>>
    BY <1>2, FlatParts
  <1> DEFINE h == Head(q)
             r == Tail(q)
  <1>4. h \in Part /\ r \in Seq(Part) /\ q = <<h>> \o r
    <2>1. h \in Part /\ r \in Seq(Part)
      BY <1>3, HeadTailProperties
    <2>2. q = <<h>> \o r
      BY <1>3
    <2> QED BY <2>1, <2>2
  <1> HIDE DEF h, r
  <1>5. <<p>> \o rest = <<h>> \o (r \o w)
    <2>1. <<h>> \in Seq(Part)
      BY <1>4
    <2> DEFINE u == <<h>>
    <2>2. u \in Seq(Part) /\ q = u \o r
      BY <1>4, <2>1
    <2> HIDE DEF u
    <2>3. (u \o r) \o w = u \o (r \o w)
      <3>1. u \in Seq(Part) /\ r \in Seq(Part) /\ w \in Seq(Part)
        BY <1>4, <2>2
      <3>2. Join(Join(u, r), w) = Join(u, Join(r, w))
        BY ONLY <3>1, JoinAssociative
      <3> QED BY <3>2 DEF Join
    <2> QED BY <1>1, <2>2, <2>3 DEF u
  <1>6. p = h /\ rest = r \o w
    <2> DEFINE x == r \o w
    <2>1. x \in Seq(Part)
      BY <1>4, ConcatProperties
    <2> HIDE DEF x
    <2>2. <<p>> \in Seq(Part) /\ <<h>> \in Seq(Part) /\ Len(<<p>>) = 1 /\ Len(<<h>>) = 1
      BY <1>4
    <2>3. SubSeq(<<p>> \o rest, 1, 1) = <<p>> /\ SubSeq(<<h>> \o x, 1, 1) = <<h>>
      BY <2>1, <2>2, SplitConcat
    <2>4. /\ SubSeq(<<p>> \o rest, 2, Len(<<p>> \o rest)) = rest
          /\ SubSeq(<<h>> \o x, 2, Len(<<h>> \o x)) = x
      BY <2>1, <2>2, SplitConcat
    <2>5. <<p>> \o rest = <<h>> \o x
      BY <1>5 DEF x
    <2>6. <<p>> = <<h>> /\ rest = x
      BY <2>3, <2>4, <2>5
    <2> QED BY <2>6 DEF x
  <1>7. Flat(q) = p \o Flat(r)
    <2>1. <<h>> \in Seq(Part) /\ Flat(<<h>>) = h
      BY <1>4, FlatParts
    <2>2. Flat(<<h>> \o r) = Flat(<<h>>) \o Flat(r)
      BY <1>4, <2>1, FlatParts
    <2> QED BY <1>4, <1>6, <2>1, <2>2
  <1> QED BY <1>2, <1>4, <1>6, <1>7 DEF Cut

\* The reader takes the first bytes of a part.
LEMMA CutDrop ==
    ASSUME NEW b, NEW w, NEW a \in Part, NEW c \in Part, NEW rest,
           Cut(b, w, a \o c, rest)
    PROVE  \E t \in Part : b = a \o t /\ Cut(t, w, c, rest)
  <1>1. PICK q \in Seq(Part) : b = (a \o c) \o Flat(q) /\ rest = q \o w
    BY DEF Cut
  <1>2. Flat(q) \in Part
    BY FlatParts
  <1>3. c \o Flat(q) \in Part /\ b = a \o (c \o Flat(q))
    BY <1>1, <1>2, PartsConcat
  <1> QED BY <1>1, <1>3 DEF Cut

\* The line at the front of the part that is being read.
LEMMA NextLine ==
    ASSUME NEW t \in Token, t.sort \notin {"cr", "lf"}, NEW c \in Part, NEW rest,
           Cut(buf, wire, (<<t>> \o Eol) \o c, rest)
    PROVE  /\ LineEnd = 2 /\ Line = <<t>>
           /\ Pop => buf' \in Part /\ Cut(buf', wire, c, rest)
  <1>1. <<t>> \o Eol \in Part
    <2>1. <<t>> \in Part
      BY DEF Part
    <2> QED BY <2>1, EolProperties, PartsConcat
  <1>2. PICK r \in Part : buf = (<<t>> \o Eol) \o r /\ Cut(r, wire, c, rest)
    BY <1>1, CutDrop
  <1> QED BY <1>2, PopLine

\* The next part is a line.
LEMMA NextPartIsLine ==
    ASSUME NEW t \in Token, t.sort \notin {"cr", "lf"}, NEW rest \in Seq(Part),
           wire \in Seq(Part), buf # <<>>,
           Cut(buf, wire, <<>>, <<<<t>> \o Eol>> \o rest)
    PROVE  /\ LineEnd = 2 /\ Line = <<t>>
           /\ Pop => buf' \in Part /\ Cut(buf', wire, <<>>, rest)
  <1>1. <<t>> \o Eol \in Part
    <2>1. <<t>> \in Part
      BY DEF Part
    <2> QED BY <2>1, EolProperties, PartsConcat
  <1>2. Cut(buf, wire, <<t>> \o Eol, rest)
    BY <1>1, CutTake
  <1>3. (<<t>> \o Eol) \o <<>> = <<t>> \o Eol /\ <<>> \in Part
    BY <1>1, PartsConcat
  <1>4. Cut(buf, wire, (<<t>> \o Eol) \o <<>>, rest)
    BY <1>2, <1>3
  <1> QED BY <1>3, <1>4, NextLine

\* The next part is a blank line.
LEMMA NextPartIsBlank ==
    ASSUME NEW rest \in Seq(Part), wire \in Seq(Part), buf # <<>>,
           Cut(buf, wire, <<>>, <<Eol>> \o rest)
    PROVE  /\ LineEnd = 1
           /\ Pop => buf' \in Part /\ Cut(buf', wire, <<>>, rest)
  <1>1. Cut(buf, wire, Eol, rest)
    BY EolProperties, CutTake
  <1>2. Eol \o <<>> = Eol /\ <<>> \in Part /\ Eol \in Part
    BY EolProperties, PartsConcat
  <1>3. Cut(buf, wire, Eol \o <<>>, rest)
    BY <1>1, <1>2
  <1>4. PICK r \in Part : buf = Eol \o r /\ Cut(r, wire, <<>>, rest)
    BY <1>2, <1>3, CutDrop
  <1> QED BY <1>4, PopBlank

\* There is nothing left to come.
LEMMA CutEnd ==
    ASSUME NEW b, NEW w \in Seq(Part), Cut(b, w, <<>>, <<>>)
    PROVE  b = <<>>
  <1>1. PICK q \in Seq(Part) : b = <<>> \o Flat(q) /\ <<>> = q \o w
    BY DEF Cut
  <1>2. q = <<>>
    <2>1. q \o w = <<>>
      BY <1>1
    <2>2. Len(q \o w) = Len(q) + Len(w) /\ Len(q) \in Nat /\ Len(w) \in Nat
      BY ConcatProperties, LenProperties
    <2>3. Len(q) = 0
      BY <2>1, <2>2
    <2> QED BY <2>3, EmptySeq
  <1> QED BY <1>1, <1>2, FlatParts, PartsConcat

\* What has come and what is to come are the stream.
LEMMA CutIsStream ==
    ASSUME NEW b, NEW w \in Seq(Part), NEW rest \in Seq(Part), Cut(b, w, <<>>, rest)
    PROVE  b \o Flat(w) = Flat(rest)
  <1>1. PICK q \in Seq(Part) : b = <<>> \o Flat(q) /\ rest = q \o w
    BY DEF Cut
  <1>2. b = Flat(q)
    BY <1>1, FlatParts, PartsConcat
  <1>3. Flat(q \o w) = Flat(q) \o Flat(w)
    BY FlatParts, Zenon
  <1> QED BY <1>1, <1>2, <1>3, Zenon

-----------------------------------------------------------------------------
(* The lines of a message.                                                 *)

\* What is sent is a message.
LEMMA MessageFields ==
    \A m \in Messages :
        /\ Sendable(m) /\ m.start \in Starts /\ m.body \in Nat /\ m.length \in Int
        /\ m.chunks \in Seq(Int) /\ m.close \in BOOLEAN /\ m.more \in Part
  BY MessagesAssumption DEF Sendable, Message, Part

\* A token is a sort and a number.
LEMMA TokIsToken ==
    \A s \in Sorts : \A n \in Int : Tok(s, n) \in Token /\ Tok(s, n).sort = s /\ Tok(s, n).n = n
  BY DEF Tok, Token

\* a has each token of T once, and no two of a sort.
Lists(a, T) ==
    /\ a \in Part
    /\ \A i \in 1 .. Len(a) : a[i] \in T
    /\ \A t \in T : \E i \in 1 .. Len(a) : a[i] = t
    /\ \A i, j \in 1 .. Len(a) : a[i].sort = a[j].sort => i = j

\* The empty list.
LEMMA ListsNone == Lists(<<>>, {})
  BY PartsConcat DEF Lists

\* A list of one token.
LEMMA ListsOne == \A t \in Token : Lists(<<t>>, {t})
  BY DEF Lists, Part

\* Two lists are joined.
LEMMA ListsConcat ==
    ASSUME NEW a, NEW b, NEW T, NEW U, Lists(a, T), Lists(b, U),
           \A s \in T : \A t \in U : s.sort # t.sort
    PROVE  Lists(a \o b, T \cup U)
  <1> DEFINE c == a \o b
  <1>1. a \in Seq(Token) /\ b \in Seq(Token) /\ Len(a) \in Nat /\ Len(b) \in Nat
    BY LenProperties DEF Lists, Part
  <1>2. /\ c \in Seq(Token) /\ Len(c) = Len(a) + Len(b)
        /\ \A i \in 1 .. Len(a) : c[i] = a[i]
        /\ \A i \in 1 .. Len(b) : c[Len(a) + i] = b[i]
    BY <1>1, ConcatProperties
  <1> HIDE DEF c
  <1>3. \A i \in 1 .. Len(c) : i \in 1 .. Len(a) \/ i - Len(a) \in 1 .. Len(b)
    BY <1>1, <1>2
  <1>4. \A i \in 1 .. Len(c) :
            \/ i \in 1 .. Len(a) /\ c[i] = a[i] /\ c[i] \in T
            \/ i - Len(a) \in 1 .. Len(b) /\ c[i] = b[i - Len(a)] /\ c[i] \in U
    <2> SUFFICES ASSUME NEW i \in 1 .. Len(c), i \notin 1 .. Len(a)
                 PROVE  i - Len(a) \in 1 .. Len(b) /\ c[i] = b[i - Len(a)] /\ c[i] \in U
      BY <1>2 DEF Lists
    <2>1. i - Len(a) \in 1 .. Len(b) /\ Len(a) + (i - Len(a)) = i
      BY <1>1, <1>3
    <2> QED BY <2>1, <1>2 DEF Lists
  <1>5. \A t \in T \cup U : \E i \in 1 .. Len(c) : c[i] = t
    <2> SUFFICES ASSUME NEW t \in T \cup U PROVE \E i \in 1 .. Len(c) : c[i] = t
      OBVIOUS
    <2>1. CASE t \in T
      BY <2>1, <1>1, <1>2 DEF Lists
    <2>2. CASE t \in U
      <3>1. PICK i \in 1 .. Len(b) : b[i] = t
        BY <2>2 DEF Lists
      <3>2. Len(a) + i \in 1 .. Len(c)
        BY <1>1, <1>2
      <3> QED BY <3>1, <3>2, <1>2
    <2> QED BY <2>1, <2>2
  <1>6. ASSUME NEW i \in 1 .. Len(c), NEW j \in 1 .. Len(c), c[i].sort = c[j].sort
        PROVE  i = j
    <2>1. CASE i \in 1 .. Len(a) /\ c[i] = a[i] /\ j \in 1 .. Len(a) /\ c[j] = a[j]
      BY <2>1, <1>6 DEF Lists
    <2>2. CASE /\ i - Len(a) \in 1 .. Len(b) /\ c[i] = b[i - Len(a)]
               /\ j - Len(a) \in 1 .. Len(b) /\ c[j] = b[j - Len(a)]
      <3>1. i - Len(a) = j - Len(a)
        BY <2>2, <1>6 DEF Lists
      <3> QED BY <3>1, <1>1
    <2> QED BY <2>1, <2>2, <1>4, <1>6
  <1> QED BY <1>2, <1>4, <1>5, <1>6 DEF Lists, Part, c

OneIf(cond, t) == IF cond THEN {t} ELSE {}

\* The headers of m that the library writes.
HeaderSet(m) ==
    IF m.start \in Responses
    THEN ({Tok("Connection", 0)} \cup OneIf(m.length # Absent, Tok("Content-Length", m.length)))
           \cup {Tok("Other", 0)} \cup OneIf(m.chunks # <<>>, Tok("Transfer-Encoding", 1))
    ELSE (OneIf(m.close, Tok("Connection", 1))
           \cup OneIf(m.start = "POST" /\ m.length # Absent, Tok("Content-Length", m.length)))
           \cup {Tok("Other", 0)}

\* A header that is there under a condition.
LEMMA ListsIf == \A t \in Token : \A c \in BOOLEAN : Lists(If(c, <<t>>), OneIf(c, t))
  BY ListsOne, ListsNone DEF If, OneIf

\* The headers are those of HeaderSet, each once.
LEMMA HeadersList == \A m \in Messages : Lists(Headers(m), HeaderSet(m))
  <1> SUFFICES ASSUME NEW m \in Messages PROVE Lists(Headers(m), HeaderSet(m))
    OBVIOUS
  <1> DEFINE C0 == Tok("Connection", 0)
             C1 == Tok("Connection", 1)
             L == Tok("Content-Length", m.length)
             O == Tok("Other", 0)
             E == Tok("Transfer-Encoding", 1)
             hasL == m.length # Absent
             hasE == m.chunks # <<>>
             postL == m.start = "POST" /\ m.length # Absent
  <1>1. /\ C0 \in Token /\ C1 \in Token /\ L \in Token /\ O \in Token /\ E \in Token
        /\ C0.sort = "Connection" /\ C1.sort = "Connection" /\ L.sort = "Content-Length"
        /\ O.sort = "Other" /\ E.sort = "Transfer-Encoding"
    <2>1. m.length \in Int /\ {"Connection", "Content-Length", "Other", "Transfer-Encoding"} \subseteq Sorts
      BY MessageFields DEF Sorts, Keys
    <2> QED BY <2>1, TokIsToken
  <1>2. hasL \in BOOLEAN /\ hasE \in BOOLEAN /\ postL \in BOOLEAN /\ m.close \in BOOLEAN
    BY MessageFields
  <1>3. /\ Length(m) = If(hasL, <<L>>)
        /\ If(m.start = "POST", Length(m)) = If(postL, <<L>>)
    BY DEF Length, If
  <1> HIDE DEF C0, C1, L, O, E, hasL, hasE, postL
  <1>4. /\ Lists(<<C0>>, {C0}) /\ Lists(<<O>>, {O})
        /\ Lists(If(hasL, <<L>>), OneIf(hasL, L)) /\ Lists(If(postL, <<L>>), OneIf(postL, L))
        /\ Lists(If(hasE, <<E>>), OneIf(hasE, E)) /\ Lists(If(m.close, <<C1>>), OneIf(m.close, C1))
    BY <1>1, <1>2, ListsOne, ListsIf
  <1>5. CASE m.start \in Responses
    <2>1. Lists(<<C0>> \o If(hasL, <<L>>), {C0} \cup OneIf(hasL, L))
      BY <1>1, <1>4, ListsConcat DEF OneIf
    <2>2. Lists(<<C0>> \o If(hasL, <<L>>) \o <<O>>, {C0} \cup OneIf(hasL, L) \cup {O})
      <3>1. \A s \in {C0} \cup OneIf(hasL, L) : \A t \in {O} : s.sort # t.sort
        BY <1>1 DEF OneIf
      <3> QED BY ONLY <3>1, <2>1, <1>4, ListsConcat
    <2>3. Lists(<<C0>> \o If(hasL, <<L>>) \o <<O>> \o If(hasE, <<E>>),
                {C0} \cup OneIf(hasL, L) \cup {O} \cup OneIf(hasE, E))
      <3>1. \A s \in {C0} \cup OneIf(hasL, L) \cup {O} : \A t \in OneIf(hasE, E) : s.sort # t.sort
        BY <1>1 DEF OneIf
      <3> QED BY ONLY <3>1, <2>2, <1>4, ListsConcat
    <2> QED BY <1>5, <1>3, <2>3 DEF Headers, ResponseHeaders, HeaderSet, C0, C1, L, O, E, hasL, hasE
  <1>6. CASE m.start \notin Responses
    <2>1. Lists(If(m.close, <<C1>>) \o If(postL, <<L>>), OneIf(m.close, C1) \cup OneIf(postL, L))
      BY <1>1, <1>4, ListsConcat DEF OneIf
    <2>2. Lists(If(m.close, <<C1>>) \o If(postL, <<L>>) \o <<O>>, OneIf(m.close, C1) \cup OneIf(postL, L) \cup {O})
      <3>1. \A s \in OneIf(m.close, C1) \cup OneIf(postL, L) : \A t \in {O} : s.sort # t.sort
        BY <1>1 DEF OneIf
      <3> QED BY ONLY <3>1, <2>1, <1>4, ListsConcat
    <2> QED BY <1>6, <1>3, <2>2 DEF Headers, RequestHeaders, HeaderSet, C0, C1, L, O, E, postL
  <1> QED BY <1>5, <1>6

\* The headers have distinct keys that the user's lines do not have, and say how
\* long the body is.
LEMMA HeaderKinds ==
    ASSUME NEW m \in Messages
    PROVE  /\ Headers(m) \in Part
           /\ \A i \in 1 .. Len(Headers(m)) :
                 Headers(m)[i] \in Token /\ Headers(m)[i].sort \in Keys \ {"Extra"}
           /\ \A i, j \in 1 .. Len(Headers(m)) : Headers(m)[i].sort = Headers(m)[j].sort => i = j
           /\ \A i \in 1 .. Len(Headers(m)) :
                 /\ Headers(m)[i].sort = "Transfer-Encoding" => m.chunks # <<>> /\ Headers(m)[i].n = 1
                 /\ Headers(m)[i].sort = "Content-Length" => m.length # Absent /\ Headers(m)[i].n = m.length
           /\ m.chunks # <<>> => \E i \in 1 .. Len(Headers(m)) : Headers(m)[i].sort = "Transfer-Encoding"
           /\ m.length # Absent /\ m.start \in (Requests \cup Responses) \ Bodiless =>
                 \E i \in 1 .. Len(Headers(m)) : Headers(m)[i].sort = "Content-Length"
  <1> DEFINE h == Headers(m)
  <1>1. Lists(h, HeaderSet(m))
    BY HeadersList
  <1>2. m.length \in Int
    BY MessageFields
  <1> DEFINE C0 == Tok("Connection", 0)
             C1 == Tok("Connection", 1)
             L == Tok("Content-Length", m.length)
             O == Tok("Other", 0)
             E == Tok("Transfer-Encoding", 1)
  <1>3. /\ C0 \in Token /\ C1 \in Token /\ L \in Token /\ O \in Token /\ E \in Token
        /\ C0.sort = "Connection" /\ C1.sort = "Connection" /\ L.sort = "Content-Length"
        /\ O.sort = "Other" /\ E.sort = "Transfer-Encoding" /\ E.n = 1 /\ L.n = m.length
    <2>1. {"Connection", "Content-Length", "Other", "Transfer-Encoding"} \subseteq Sorts
      BY DEF Sorts, Keys
    <2> QED BY <2>1, <1>2, TokIsToken
  <1>4. /\ m.start \in Responses => HeaderSet(m) =
                {C0} \cup OneIf(m.length # Absent, L) \cup {O} \cup OneIf(m.chunks # <<>>, E)
        /\ m.start \notin Responses => HeaderSet(m) =
                OneIf(m.close, C1) \cup OneIf(m.start = "POST" /\ m.length # Absent, L) \cup {O}
    BY DEF HeaderSet
  <1> HIDE DEF C0, C1, L, O, E
  <1>5. \A t \in HeaderSet(m) :
            /\ t \in Token /\ t.sort \in Keys \ {"Extra"}
            /\ t.sort = "Transfer-Encoding" => m.chunks # <<>> /\ t.n = 1
            /\ t.sort = "Content-Length" => m.length # Absent /\ t.n = m.length
    BY <1>2, <1>3, <1>4 DEF OneIf, Keys
  <1>6. m.chunks # <<>> => \E t \in HeaderSet(m) : t.sort = "Transfer-Encoding"
    <2> SUFFICES ASSUME m.chunks # <<>> PROVE \E t \in HeaderSet(m) : t.sort = "Transfer-Encoding"
      OBVIOUS
    <2>1. m.start \in Responses
      BY MessageFields DEF Sendable
    <2> QED BY <2>1, <1>3, <1>4 DEF OneIf
  <1>7. m.length # Absent /\ m.start \in (Requests \cup Responses) \ Bodiless =>
            \E t \in HeaderSet(m) : t.sort = "Content-Length"
    <2>1. m.start \in Requests \ Bodiless => m.start = "POST"
      BY DEF Requests, Bodiless
    <2> QED BY <2>1, <1>3, <1>4 DEF OneIf
  <1> HIDE DEF h
  <1>8. /\ h \in Part
        /\ \A i \in 1 .. Len(h) : h[i] \in HeaderSet(m)
        /\ \A t \in HeaderSet(m) : \E i \in 1 .. Len(h) : h[i] = t
        /\ \A i, j \in 1 .. Len(h) : h[i].sort = h[j].sort => i = j
    BY <1>1 DEF Lists
  <1>9. /\ h \in Part
        /\ \A i \in 1 .. Len(h) : h[i] \in Token /\ h[i].sort \in Keys \ {"Extra"}
        /\ \A i, j \in 1 .. Len(h) : h[i].sort = h[j].sort => i = j
        /\ \A i \in 1 .. Len(h) :
              /\ h[i].sort = "Transfer-Encoding" => m.chunks # <<>> /\ h[i].n = 1
              /\ h[i].sort = "Content-Length" => m.length # Absent /\ h[i].n = m.length
        /\ m.chunks # <<>> => \E i \in 1 .. Len(h) : h[i].sort = "Transfer-Encoding"
        /\ m.length # Absent /\ m.start \in (Requests \cup Responses) \ Bodiless =>
              \E i \in 1 .. Len(h) : h[i].sort = "Content-Length"
    BY <1>5, <1>6, <1>7, <1>8
  <1> QED BY <1>9 DEF h

-----------------------------------------------------------------------------
(* The parts of a message.                                                 *)

\* Sequences of parts are joined in any order.
LEMMA StreamConcat ==
    /\ \A s, t \in Seq(Part) : s \o t \in Seq(Part)
    /\ \A s, t, u \in Seq(Part) : (s \o t) \o u = s \o (t \o u)
    /\ \A s \in Seq(Part) : s \o <<>> = s /\ <<>> \o s = s
    /\ \A p \in Part : <<p>> \in Seq(Part)
    /\ <<>> \in Seq(Part)
  <1>1. \A p \in Part : <<p>> \in Seq(Part)
    OBVIOUS
  <1>2. \A s, t \in Seq(Part) : s \o t \in Seq(Part)
    BY ConcatProperties
  <1>3. \A s, t, u \in Seq(Part) : (s \o t) \o u = s \o (t \o u)
    BY Associative
  <1>4. \A s \in Seq(Part) : s \o <<>> = s /\ <<>> \o s = s
    BY ConcatEmptySeq
  <1> QED BY <1>1, <1>2, <1>3, <1>4

\* The elements of a sequence behind one more.
LEMMA FirstOf ==
    ASSUME NEW X, NEW x \in X, NEW s \in Seq(X)
    PROVE  /\ <<x>> \o s \in Seq(X) /\ Len(<<x>> \o s) = 1 + Len(s)
           /\ (<<x>> \o s)[1] = x
           /\ \A i \in 1 .. Len(s) : (<<x>> \o s)[1 + i] = s[i]
  <1> DEFINE u == <<x>>
  <1>1. u \in Seq(X) /\ Len(u) = 1 /\ u[1] = x
    OBVIOUS
  <1> HIDE DEF u
  <1>2. /\ u \o s \in Seq(X) /\ Len(u \o s) = Len(u) + Len(s)
        /\ \A i \in 1 .. Len(u) : (u \o s)[i] = u[i]
        /\ \A i \in 1 .. Len(s) : (u \o s)[Len(u) + i] = s[i]
    <2>1. u \in Seq(X) /\ s \in Seq(X)
      BY <1>1
    <2>2. u \o s \in Seq(X) /\ Len(u \o s) = Len(u) + Len(s)
      BY <2>1, ConcatProperties
    <2>3. \A i \in 1 .. Len(u) : (u \o s)[i] = u[i]
      BY ONLY <2>1, ConcatProperties
    <2>4. \A i \in 1 .. Len(s) : (u \o s)[Len(u) + i] = s[i]
      BY ONLY <2>1, ConcatProperties
    <2> QED BY <2>2, <2>3, <2>4
  <1>3. /\ u \o s \in Seq(X) /\ Len(u \o s) = 1 + Len(s)
        /\ (u \o s)[1] = x
        /\ \A i \in 1 .. Len(s) : (u \o s)[1 + i] = s[i]
    BY <1>1, <1>2
  <1> QED BY <1>3 DEF u

\* The parts of two joined sequences of them.
LEMMA StreamElements ==
    \A s, t \in Seq(Part) :
        /\ s \o t \in Seq(Part) /\ Len(s \o t) = Len(s) + Len(t)
        /\ \A i \in 1 .. Len(s) : (s \o t)[i] = s[i]
        /\ \A i \in 1 .. Len(t) : (s \o t)[Len(s) + i] = t[i]
  BY ConcatProperties

\* The first of the last elements of a sequence.
LEMMA SubSeqFirst ==
    \A X : \A s \in Seq(X) : \A k, n \in Nat : k < n /\ n <= Len(s) =>
        SubSeq(s, k + 1, n) = <<s[k + 1]>> \o SubSeq(s, k + 2, n)
  <1> SUFFICES ASSUME NEW X, NEW s \in Seq(X), NEW k \in Nat, NEW n \in Nat, k < n, n <= Len(s)
               PROVE  SubSeq(s, k + 1, n) = <<s[k + 1]>> \o SubSeq(s, k + 2, n)
    OBVIOUS
  <1>1. k + 1 \in 1 .. Len(s) /\ n \in k + 1 .. Len(s) /\ (k + 1) + 1 = k + 2
    BY LenProperties
  <1>2. SubSeq(s, k + 1, n) = <<s[k + 1]>> \o SubSeq(s, (k + 1) + 1, n)
    BY <1>1, SubSeqRecursiveFirst
  <1> QED BY <1>1, <1>2

\* The end of a sequence, and the whole.
LEMMA SubSeqEnds ==
    \A X : \A s \in Seq(X) :
        /\ SubSeq(s, Len(s) + 1, Len(s)) = <<>>
        /\ SubSeq(s, 1, Len(s)) = s
  <1> SUFFICES ASSUME NEW X, NEW s \in Seq(X)
               PROVE  /\ SubSeq(s, Len(s) + 1, Len(s)) = <<>>
                      /\ SubSeq(s, 1, Len(s)) = s
    OBVIOUS
  <1>1. Len(s) \in Nat
    BY LenProperties
  <1>2. SubSeq(s, Len(s) + 1, Len(s)) = <<>>
    BY <1>1, SubSeqEmpty
  <1>3. SubSeq(s, 1, Len(s)) = s
    BY SubSeqFull
  <1> QED BY <1>2, <1>3

\* A line is a part.
LEMMA LineParts ==
    \A s \in Part :
        /\ Lines(s) \in Seq(Part) /\ Len(Lines(s)) = Len(s)
        /\ \A i \in 1 .. Len(s) : Lines(s)[i] = <<s[i]>> \o Eol
  <1> SUFFICES ASSUME NEW s \in Part
               PROVE  /\ Lines(s) \in Seq(Part) /\ Len(Lines(s)) = Len(s)
                      /\ \A i \in 1 .. Len(s) : Lines(s)[i] = <<s[i]>> \o Eol
    OBVIOUS
  <1>1. Len(s) \in Nat /\ DOMAIN s = 1 .. Len(s) /\ \A i \in 1 .. Len(s) : s[i] \in Token
    BY LenProperties, ElementOfSeq DEF Part
  <1>2. \A i \in 1 .. Len(s) : <<s[i]>> \o Eol \in Part
    <2> SUFFICES ASSUME NEW i \in 1 .. Len(s) PROVE <<s[i]>> \o Eol \in Part
      OBVIOUS
    <2>1. <<s[i]>> \in Part
      BY <1>1 DEF Part
    <2> QED BY <2>1, EolProperties, PartsConcat
  <1>3. Lines(s) = [i \in 1 .. Len(s) |-> <<s[i]>> \o Eol]
    BY <1>1 DEF Lines
  <1> DEFINE f(i) == <<s[i]>> \o Eol
             n == Len(s)
  <1>4. n \in Nat /\ (\A i \in 1 .. n : f(i) \in Part) /\ Lines(s) = [i \in 1 .. n |-> f(i)]
    BY <1>1, <1>2, <1>3
  <1> HIDE DEF f, n
  <1>5. Lines(s) \in Seq(Part) /\ Len(Lines(s)) = n /\ \A i \in 1 .. n : Lines(s)[i] = f(i)
    BY <1>4
  <1> QED BY <1>5 DEF f, n

\* The bytes of a body are a part.
LEMMA BytesParts ==
    \A a, n \in Int :
        /\ Bytes(a, n) \in Part /\ Len(Bytes(a, n)) = (IF n > 0 THEN n ELSE 0)
        /\ \A i \in 1 .. n : Bytes(a, n)[i] = Tok("byte", a + i)
  <1> SUFFICES ASSUME NEW a \in Int, NEW n \in Int
               PROVE  /\ Bytes(a, n) \in Part /\ Len(Bytes(a, n)) = (IF n > 0 THEN n ELSE 0)
                      /\ \A i \in 1 .. n : Bytes(a, n)[i] = Tok("byte", a + i)
    OBVIOUS
  <1>1. CASE n <= 0
    <2>1. Bytes(a, n) = <<>> /\ 1 .. n = {}
      BY <1>1 DEF Bytes, If
    <2> QED BY <2>1, <1>1, PartsConcat
  <1>2. CASE n > 0
    <2> DEFINE f(i) == Tok("byte", a + i)
    <2>1. \A i \in 1 .. n : f(i) \in Token
      <3>1. "byte" \in Sorts /\ \A i \in 1 .. n : a + i \in Int
        BY DEF Sorts
      <3> QED BY <3>1, TokIsToken
    <2>2. Bytes(a, n) = [i \in 1 .. n |-> f(i)]
      BY <1>2 DEF Bytes, If
    <2> HIDE DEF f
    <2>3. Bytes(a, n) \in Seq(Token) /\ Len(Bytes(a, n)) = n /\ \A i \in 1 .. n : Bytes(a, n)[i] = f(i)
      BY <1>2, <2>1, <2>2
    <2> QED BY <2>3, <1>2 DEF f, Part
  <1> QED BY <1>1, <1>2

\* The parts that are as long as the sizes.
LEMMA SizedParts ==
    ASSUME NEW sizes \in Seq(Int), NEW n \in 0 .. Len(sizes)
    PROVE  [j \in 1 .. n |-> Bytes(0, sizes[j])] \in Seq(Part)
  <1> DEFINE f(j) == Bytes(0, sizes[j])
  <1>1. n \in Nat /\ \A j \in 1 .. n : sizes[j] \in Int
    BY LenProperties
  <1>2. ASSUME NEW j \in 1 .. n PROVE f(j) \in Part
    <2>1. sizes[j] \in Int /\ 0 \in Int
      BY <1>1
    <2> QED BY <2>1, BytesParts
  <1> HIDE DEF f
  <1>3. [j \in 1 .. n |-> f(j)] \in Seq(Part)
    BY <1>1, <1>2
  <1> QED BY <1>3 DEF f

\* What is before a chunk has a length.
LEMMA BeforeIsNat ==
    \A sizes \in Seq(Int) : \A i \in 1 .. Len(sizes) + 1 : Before(sizes, i) \in Nat
  <1> SUFFICES ASSUME NEW sizes \in Seq(Int), NEW i \in 1 .. Len(sizes) + 1
               PROVE  Before(sizes, i) \in Nat
    OBVIOUS
  <1>1. Len(sizes) \in Nat
    BY LenProperties
  <1>2. i - 1 \in 0 .. Len(sizes)
    BY <1>1
  <1> DEFINE q == [j \in 1 .. i - 1 |-> Bytes(0, sizes[j])]
  <1>3. q \in Seq(Part)
    BY <1>2, SizedParts
  <1>4. Flat(q) \in Seq(Token)
    BY <1>3, FlatParts DEF Part
  <1> QED BY <1>4, LenProperties DEF Before

\* A chunk, from its size to its line end.
ChunkPart(sizes, i) ==
    (<<Tok("size", sizes[i])>> \o Eol) \o (Bytes(Before(sizes, i), sizes[i]) \o Eol)

\* The chunks, the empty chunk and the blank line behind it.
LEMMA ChunksParts ==
    ASSUME NEW sizes \in Seq(Int)
    PROVE  /\ Chunks(sizes) \in Seq(Part) /\ Len(Chunks(sizes)) = Len(sizes) + 2
           /\ \A i \in 1 .. Len(sizes) : ChunkPart(sizes, i) \in Part /\ Chunks(sizes)[i] = ChunkPart(sizes, i)
           /\ Chunks(sizes)[Len(sizes) + 1] = <<Tok("size", 0)>> \o Eol
           /\ Chunks(sizes)[Len(sizes) + 2] = Eol
  <1> DEFINE n == Len(sizes)
             f(i) == <<Tok("size", sizes[i])>> \o Eol \o Bytes(Before(sizes, i), sizes[i]) \o Eol
             a == [i \in DOMAIN sizes |-> f(i)]
             z == <<Tok("size", 0)>>
             e == <<Eol>>
  <1>1. n \in Nat /\ DOMAIN sizes = 1 .. n /\ \A i \in 1 .. n : sizes[i] \in Int
    BY LenProperties, ElementOfSeq
  <1>2. ASSUME NEW i \in 1 .. n PROVE f(i) = ChunkPart(sizes, i) /\ f(i) \in Part
    <2> DEFINE s == <<Tok("size", sizes[i])>>
               b == Bytes(Before(sizes, i), sizes[i])
    <2>1. s \in Part
      <3>1. "size" \in Sorts /\ sizes[i] \in Int
        BY <1>1 DEF Sorts
      <3>2. Tok("size", sizes[i]) \in Token
        BY <3>1, TokIsToken
      <3> QED BY <3>2 DEF Part
    <2>2. b \in Part
      <3>1. Before(sizes, i) \in Int
        BY <1>1, BeforeIsNat
      <3> QED BY <3>1, <1>1, BytesParts
    <2>3. f(i) = s \o Eol \o b \o Eol /\ ChunkPart(sizes, i) = (s \o Eol) \o (b \o Eol)
      BY DEF ChunkPart
    <2> HIDE DEF s, b, f
    <2>4. Eol \in Part /\ s \o Eol \in Part
      BY <2>1, EolProperties, PartsConcat
    <2>5. b \o Eol \in Part /\ (s \o Eol \o b) \o Eol = (s \o Eol) \o (b \o Eol)
      BY <2>2, <2>4, PartsConcat
    <2>6. (s \o Eol) \o (b \o Eol) \in Part
      BY <2>4, <2>5, PartsConcat
    <2> QED BY <2>3, <2>5, <2>6
  <1>3. a \in Seq(Part) /\ Len(a) = n /\ \A i \in 1 .. n : a[i] = f(i)
    <2>1. \A i \in 1 .. n : f(i) \in Part
      BY <1>2
    <2> HIDE DEF f
    <2> QED BY <2>1, <1>1
  <1>4. z \in Part /\ Len(z) = 1 /\ z[1] = Tok("size", 0)
    <2>1. "size" \in Sorts /\ 0 \in Int
      BY DEF Sorts
    <2>2. Tok("size", 0) \in Token
      BY <2>1, TokIsToken
    <2> QED BY <2>2 DEF Part
  <1>5. Lines(z) \in Seq(Part) /\ Len(Lines(z)) = 1 /\ Lines(z)[1] = <<Tok("size", 0)>> \o Eol
    <2> HIDE DEF z
    <2>1. /\ Lines(z) \in Seq(Part) /\ Len(Lines(z)) = Len(z)
          /\ \A i \in 1 .. Len(z) : Lines(z)[i] = <<z[i]>> \o Eol
      BY <1>4, LineParts
    <2>2. 1 \in 1 .. Len(z)
      BY <1>4
    <2>3. Lines(z)[1] = <<z[1]>> \o Eol
      BY <2>1, <2>2
    <2> QED BY <1>4, <2>1, <2>3
  <1>6. e \in Seq(Part) /\ Len(e) = 1 /\ e[1] = Eol
    BY EolProperties
  <1>7. Chunks(sizes) = (a \o Lines(z)) \o e
    BY DEF Chunks
  <1> HIDE DEF a, z, e, f
  <1> DEFINE l == Lines(z)
             c == a \o l
             d == c \o e
  <1>8. /\ c \in Seq(Part) /\ Len(c) = n + 1 /\ c[n + 1] = l[1]
        /\ \A i \in 1 .. n : c[i] = a[i]
    <2>1. /\ c \in Seq(Part) /\ Len(c) = Len(a) + Len(l)
          /\ \A i \in 1 .. Len(a) : c[i] = a[i]
          /\ \A i \in 1 .. Len(l) : c[Len(a) + i] = l[i]
      <3> HIDE DEF l
      <3>1. a \in Seq(Part) /\ l \in Seq(Part)
        BY <1>3, <1>5 DEF l
      <3> QED BY <3>1, StreamElements
    <2> HIDE DEF c, l
    <2> QED BY <2>1, <1>3, <1>5, <1>1 DEF l
  <1> HIDE DEF c
  <1>9. /\ d \in Seq(Part) /\ Len(d) = n + 2 /\ d[n + 2] = e[1]
        /\ \A i \in 1 .. n + 1 : d[i] = c[i]
    <2>1. /\ d \in Seq(Part) /\ Len(d) = Len(c) + Len(e)
          /\ \A i \in 1 .. Len(c) : d[i] = c[i]
          /\ \A i \in 1 .. Len(e) : d[Len(c) + i] = e[i]
      BY <1>8, <1>6, StreamElements
    <2> HIDE DEF d
    <2> QED BY <2>1, <1>8, <1>6, <1>1
  <1>10. Chunks(sizes) = d
    BY <1>7 DEF c
  <1> HIDE DEF d, l
  <1>11. Chunks(sizes) \in Seq(Part) /\ Len(Chunks(sizes)) = n + 2
    BY <1>10, <1>9
  <1>12. ASSUME NEW i \in 1 .. n PROVE Chunks(sizes)[i] = f(i)
    <2>1. i \in 1 .. n + 1
      BY <1>1
    <2> QED BY <2>1, <1>10, <1>9, <1>8, <1>3
  <1>13. Chunks(sizes)[n + 1] = Lines(z)[1] /\ Chunks(sizes)[n + 2] = e[1]
    <2>1. n + 1 \in 1 .. n + 1
      BY <1>1
    <2> QED BY <2>1, <1>10, <1>9, <1>8 DEF l
  <1> QED BY <1>11, <1>12, <1>13, <1>2, <1>5, <1>6

\* A body is in parts.
LEMMA BodyIsParts == \A m \in Messages : BodyParts(m) \in Seq(Part)
  <1> SUFFICES ASSUME NEW m \in Messages PROVE BodyParts(m) \in Seq(Part)
    OBVIOUS
  <1> DEFINE f(i) == Bytes(i - 1, 1)
  <1>1. m.chunks \in Seq(Int) /\ m.body \in Nat
    BY MessageFields
  <1>2. ASSUME NEW i \in 1 .. m.body PROVE f(i) \in Part
    <2>1. i - 1 \in Int /\ 1 \in Int
      OBVIOUS
    <2> QED BY <2>1, BytesParts
  <1>3. [i \in 1 .. m.body |-> f(i)] \in Seq(Part)
    <2> HIDE DEF f
    <2> QED BY <1>1, <1>2
  <1> QED BY <1>1, <1>3, ChunksParts DEF BodyParts

-----------------------------------------------------------------------------
(* The stream from a place in a message on.                                *)

\* A start line is a token, and no line end.
LEMMA StartIsToken ==
    \A m \in Messages : /\ Tok(m.start, 0) \in Token
                        /\ Tok(m.start, 0).sort = m.start /\ m.start \notin {"cr", "lf"}
  <1> SUFFICES ASSUME NEW m \in Messages
               PROVE  /\ Tok(m.start, 0) \in Token
                      /\ Tok(m.start, 0).sort = m.start /\ m.start \notin {"cr", "lf"}
    OBVIOUS
  <1>1. m.start \in Starts
    BY MessageFields
  <1>2. m.start \in Sorts
    BY <1>1 DEF Sorts
  <1>3. m.start \notin {"cr", "lf"}
    BY <1>1 DEF Starts, Requests, Responses
  <1> QED BY <1>2, <1>3, TokIsToken

\* Behind the headers of m are a blank line and the body.
LEMMA BlankStream ==
    ASSUME NEW m \in Messages, NEW later \in Seq(Part)
    PROVE  /\ BodyParts(m) \o later \in Seq(Part)
           /\ AtBlank(m, later) \in Seq(Part)
           /\ AtBlank(m, later) = <<Eol>> \o (BodyParts(m) \o later)
  <1>1. BodyParts(m) \o later \in Seq(Part) /\ <<Eol>> \in Seq(Part)
    BY BodyIsParts, StreamConcat, EolProperties
  <1> QED BY <1>1, StreamConcat DEF AtBlank

\* One header line after the other, up to the blank line.
LEMMA HeaderStream ==
    ASSUME NEW m \in Messages, NEW later \in Seq(Part)
    PROVE  /\ \A k \in 0 .. Len(Headers(m)) : AtHeader(m, k, later) \in Seq(Part)
           /\ AtHeader(m, Len(Headers(m)), later) = AtBlank(m, later)
           /\ \A k \in 0 .. Len(Headers(m)) - 1 :
                 AtHeader(m, k, later) = <<<<Headers(m)[k + 1]>> \o Eol>> \o AtHeader(m, k + 1, later)
  <1> DEFINE h == Headers(m)
             n == Len(h)
             B == AtBlank(m, later)
             s(k) == SubSeq(h, k + 1, n)
  <1>1. h \in Part /\ h \in Seq(Token) /\ n \in Nat /\ \A i \in 1 .. n : h[i] \in Token
    BY HeaderKinds, LenProperties, ElementOfSeq DEF Part
  <1>2. B \in Seq(Part)
    BY BlankStream
  <1>3. \A k \in 0 .. n : AtHeader(m, k, later) = Lines(s(k)) \o B
    BY DEF AtHeader
  <1> HIDE DEF h, n, B
  <1>4. ASSUME NEW k \in 0 .. n
        PROVE  s(k) \in Part /\ Lines(s(k)) \in Seq(Part) /\ Lines(s(k)) \o B \in Seq(Part)
    <2>1. \A i \in k + 1 .. n : h[i] \in Token
      BY <1>1
    <2>2. s(k) \in Seq(Token)
      BY <1>1, <2>1, SubSeqProperties
    <2>3. s(k) \in Part
      BY <2>2 DEF Part
    <2>4. Lines(s(k)) \in Seq(Part)
      BY <2>3, LineParts
    <2> QED BY <2>3, <2>4, <1>2, StreamConcat
  <1>5. Lines(s(n)) \o B = B
    <2>1. s(n) = <<>>
      BY <1>1, SubSeqEmpty
    <2>2. Lines(<<>>) = <<>>
      BY DEF Lines
    <2> QED BY <2>1, <2>2, <1>2, StreamConcat
  <1>6. ASSUME NEW k \in 0 .. n - 1
        PROVE  Lines(s(k)) \o B = <<<<h[k + 1]>> \o Eol>> \o (Lines(s(k + 1)) \o B)
    <2> DEFINE t == h[k + 1]
               l == <<t>> \o Eol
               u == <<l>>
               r == s(k + 1)
    <2>1. t \in Token /\ k \in 0 .. n /\ k + 1 \in 0 .. n /\ n = Len(h)
      BY <1>1 DEF n
    <2>2. s(k) = <<t>> \o r
      <3>1. k \in Nat /\ n \in Nat /\ k < n /\ n <= Len(h) /\ (k + 1) + 1 = k + 2
        BY <1>1, <2>1
      <3>2. SubSeq(h, k + 1, n) = <<h[k + 1]>> \o SubSeq(h, k + 2, n)
        BY <3>1, <1>1, SubSeqFirst
      <3> QED BY <3>1, <3>2
    <2>3. r \in Part /\ Lines(r) \in Seq(Part) /\ Lines(s(k)) \in Seq(Part) /\ s(k) \in Part
      BY <2>1, <1>4
    <2>4. <<t>> \in Part /\ Len(<<t>>) = 1 /\ <<t>>[1] = t
      BY <2>1 DEF Part
    <2>5. l \in Part
      BY <2>4, EolProperties, PartsConcat
    <2>6. u \in Seq(Part) /\ Len(u) = 1 /\ u[1] = l
      BY <2>5
    <2> HIDE DEF r, s, u
    <2>7. Lines(s(k)) = u \o Lines(r)
      <3> DEFINE a == Lines(s(k))
                 b == u \o Lines(r)
      <3>1. Len(s(k)) = 1 + Len(r) /\ Len(r) \in Nat /\ s(k)[1] = t /\ \A i \in 1 .. Len(r) : s(k)[1 + i] = r[i]
        <4> DEFINE v == <<t>>
        <4>1. /\ Len(v \o r) = Len(v) + Len(r)
              /\ \A i \in 1 .. Len(v) : (v \o r)[i] = v[i]
              /\ \A i \in 1 .. Len(r) : (v \o r)[Len(v) + i] = r[i]
              /\ Len(r) \in Nat
          <5>1. v \in Seq(Token) /\ r \in Seq(Token)
            BY <2>3, <2>4 DEF Part
          <5> HIDE DEF v
          <5> QED BY <5>1, ConcatProperties, LenProperties
        <4>2. Len(v) = 1 /\ v[1] = t /\ s(k) = v \o r
          BY <2>4, <2>2
        <4> HIDE DEF v
        <4> QED BY <4>1, <4>2
      <3>2. /\ a \in Seq(Part) /\ Len(a) = Len(s(k))
            /\ \A i \in 1 .. Len(s(k)) : a[i] = <<s(k)[i]>> \o Eol
        BY <2>3, LineParts
      <3>3. /\ Lines(r) \in Seq(Part) /\ Len(Lines(r)) = Len(r)
            /\ \A i \in 1 .. Len(r) : Lines(r)[i] = <<r[i]>> \o Eol
        BY <2>3, LineParts
      <3>4. /\ b \in Seq(Part) /\ Len(b) = Len(u) + Len(Lines(r))
            /\ \A i \in 1 .. Len(u) : b[i] = u[i]
            /\ \A i \in 1 .. Len(Lines(r)) : b[Len(u) + i] = Lines(r)[i]
        BY <2>6, <3>3, StreamElements
      <3> HIDE DEF a, b
      <3>5. Len(a) = Len(b)
        BY <3>1, <3>2, <3>3, <3>4, <2>6
      <3>6. ASSUME NEW i \in 1 .. Len(a) PROVE a[i] = b[i]
        <4>1. CASE i = 1
          <5>1. a[1] = l
            BY <3>1, <3>2
          <5>2. b[1] = l
            BY <3>4, <2>6
          <5> QED BY <4>1, <5>1, <5>2
        <4>2. CASE i # 1
          <5>1. i - 1 \in 1 .. Len(r) /\ 1 + (i - 1) = i
            BY <4>2, <3>1, <3>2
          <5>2. a[i] = <<r[i - 1]>> \o Eol
            BY <5>1, <3>1, <3>2
          <5>3. b[i] = <<r[i - 1]>> \o Eol
            BY <5>1, <3>3, <3>4, <2>6
          <5> QED BY <5>2, <5>3
        <4> QED BY <4>1, <4>2
      <3>7. a = b
        BY <3>2, <3>4, <3>5, <3>6, SeqEqual
      <3> QED BY <3>7 DEF a, b
    <2>8. (u \o Lines(r)) \o B = u \o (Lines(r) \o B)
      <3> DEFINE v == Lines(r)
      <3>1. v \in Seq(Part)
        BY <2>3
      <3> HIDE DEF v
      <3>2. (u \o v) \o B = u \o (v \o B)
        <4>1. u \in Seq(Part) /\ v \in Seq(Part) /\ B \in Seq(Part)
          BY <3>1, <2>6, <1>2
        <4>2. Join(Join(u, v), B) = Join(u, Join(v, B))
          BY ONLY <4>1, JoinAssociative
        <4> QED BY <4>2 DEF Join
      <3> QED BY <3>2 DEF v
    <2> QED BY <2>7, <2>8 DEF r, u
  <1>7. \A k \in 0 .. n - 1 : k \in 0 .. n /\ k + 1 \in 0 .. n
    BY <1>1
  <1>8. n \in 0 .. n
    BY <1>1
  <1> HIDE DEF s
  <1>9. /\ \A k \in 0 .. n : AtHeader(m, k, later) \in Seq(Part)
        /\ AtHeader(m, n, later) = B
        /\ \A k \in 0 .. n - 1 :
              AtHeader(m, k, later) = <<<<h[k + 1]>> \o Eol>> \o AtHeader(m, k + 1, later)
    BY <1>3, <1>4, <1>5, <1>6, <1>7, <1>8
  <1> QED BY <1>9 DEF B, h, n

\* The line that is the start, and what follows it.
LEMMA MessageStream ==
    ASSUME NEW m \in Messages, NEW later \in Seq(Part)
    PROVE  /\ Flat(Lines(m.more)) \in Part /\ AtMore(m, later) \in Seq(Part)
           /\ AtMore(m, later) = <<Flat(Lines(m.more))>> \o AtHeader(m, 0, later)
           /\ Parts(m) \in Seq(Part)
           /\ Parts(m) \o later = <<<<Tok(m.start, 0)>> \o Eol>> \o
                 (IF m.more # <<>> THEN AtMore(m, later) ELSE AtHeader(m, 0, later))
  <1> DEFINE p == Flat(Lines(m.more))
             M == If(m.more # <<>>, <<p>>)
             H == Lines(Headers(m))
             E == <<Eol>>
             B == BodyParts(m)
             S == <<<<Tok(m.start, 0)>> \o Eol>>
             A == AtHeader(m, 0, later)
  <1>1. p \in Part /\ <<p>> \in Seq(Part) /\ M \in Seq(Part)
    <2>1. m.more \in Part
      BY MessageFields
    <2>2. Lines(m.more) \in Seq(Part)
      BY <2>1, LineParts
    <2>3. p \in Part
      BY <2>2, FlatParts
    <2> HIDE DEF p
    <2> QED BY <2>3, StreamConcat DEF If
  <1>2. H \in Seq(Part) /\ E \in Seq(Part) /\ B \in Seq(Part)
    BY HeaderKinds, LineParts, EolProperties, StreamConcat, BodyIsParts
  <1>3. S \in Seq(Part) /\ Lines(<<Tok(m.start, 0)>>) = S
    <2> DEFINE t == Tok(m.start, 0)
               z == <<t>>
               l == z \o Eol
    <2>1. t \in Token
      BY StartIsToken
    <2> HIDE DEF t
    <2>2. z \in Part /\ Len(z) = 1 /\ z[1] = t
      BY <2>1 DEF Part
    <2> HIDE DEF z
    <2>3. l \in Part
      BY <2>2, EolProperties, PartsConcat
    <2>4. /\ Lines(z) \in Seq(Part) /\ Len(Lines(z)) = 1
          /\ \A i \in 1 .. Len(z) : Lines(z)[i] = <<z[i]>> \o Eol
      BY <2>2, LineParts
    <2>5. Lines(z)[1] = <<t>> \o Eol
      <3>1. 1 \in 1 .. Len(z)
        BY <2>2
      <3> QED BY <3>1, <2>2, <2>4
    <2>6. Lines(z)[1] = l
      BY <2>5 DEF z
    <2> HIDE DEF l
    <2>7. Lines(z) = <<l>>
      <3>1. <<l>> \in Seq(Part) /\ Len(<<l>>) = 1 /\ <<l>>[1] = l
        BY <2>3
      <3>2. \A i \in 1 .. Len(Lines(z)) : Lines(z)[i] = <<l>>[i]
        BY <3>1, <2>4, <2>6
      <3> QED BY ONLY <3>1, <3>2, <2>4, SeqEqual
    <2>8. <<l>> \in Seq(Part)
      BY <2>3
    <2> QED BY <2>7, <2>8 DEF l, z, t
  <1>4. A \in Seq(Part) /\ A = H \o (E \o (B \o later))
    <2> DEFINE n == Len(Headers(m))
    <2>1. Headers(m) \in Part /\ n \in Nat
      BY HeaderKinds, LenProperties DEF Part
    <2>2. 0 \in 0 .. n /\ 0 + 1 = 1
      BY <2>1
    <2>3. A \in Seq(Part)
      BY <2>2, HeaderStream
    <2>4. SubSeq(Headers(m), 0 + 1, n) = Headers(m)
      BY <2>1, <2>2, SubSeqEnds DEF Part
    <2> QED BY <2>3, <2>4 DEF AtHeader, AtBlank
  <1>5. Parts(m) = S \o M \o H \o E \o B
    BY <1>3 DEF Parts, BodyParts
  <1>6. AtMore(m, later) = <<p>> \o A
    BY DEF AtMore
  <1>7. IF m.more # <<>> THEN M = <<p>> ELSE M = <<>>
    BY DEF If
  <1> HIDE DEF p, M, H, E, B, S, A
  <1>8. AtMore(m, later) \in Seq(Part)
    BY <1>1, <1>4, <1>6, StreamConcat
  <1>9. S \o M \o H \o E \o B \in Seq(Part)
    <2>1. S \o M \in Seq(Part)
      BY ONLY <1>1, <1>3, StreamConcat
    <2>2. S \o M \o H \in Seq(Part)
      BY ONLY <2>1, <1>2, StreamConcat
    <2>3. S \o M \o H \o E \in Seq(Part)
      BY ONLY <2>2, <1>2, StreamConcat
    <2> QED BY ONLY <2>3, <1>2, StreamConcat
  <1>10. (S \o M \o H \o E \o B) \o later = S \o (M \o (H \o (E \o (B \o later))))
    <2>1. S \o M \in Seq(Part)
      BY ONLY <1>1, <1>3, StreamConcat
    <2>2. S \o M \o H \in Seq(Part)
      BY ONLY <2>1, <1>2, StreamConcat
    <2>3. S \o M \o H \o E \in Seq(Part)
      BY ONLY <2>2, <1>2, StreamConcat
    <2>4. B \o later \in Seq(Part)
      BY ONLY <1>2, later \in Seq(Part), StreamConcat
    <2>5. E \o (B \o later) \in Seq(Part)
      BY ONLY <2>4, <1>2, StreamConcat
    <2>6. H \o (E \o (B \o later)) \in Seq(Part)
      BY ONLY <2>5, <1>2, StreamConcat
    <2> DEFINE d == S \o M \o H \o E
               c == S \o M \o H
               b == S \o M
               x == B \o later
               y == E \o (B \o later)
               z == H \o (E \o (B \o later))
    <2>7. d \o B \o later = d \o x
      <3> HIDE DEF d
      <3>1. d \in Seq(Part) /\ B \in Seq(Part) /\ later \in Seq(Part)
        BY <2>3, <1>2 DEF d
      <3>2. Join(Join(d, B), later) = Join(d, Join(B, later))
        BY ONLY <3>1, JoinAssociative
      <3> QED BY <3>2 DEF Join
    <2>8. c \o E \o x = c \o y
      <3> HIDE DEF c, x
      <3>1. c \in Seq(Part) /\ E \in Seq(Part) /\ x \in Seq(Part)
        BY <2>2, <2>4, <1>2 DEF c, x
      <3>2. Join(Join(c, E), x) = Join(c, Join(E, x))
        BY ONLY <3>1, JoinAssociative
      <3> QED BY <3>2 DEF Join, x
    <2>9. b \o H \o y = b \o z
      <3> HIDE DEF b, y
      <3>1. b \in Seq(Part) /\ H \in Seq(Part) /\ y \in Seq(Part)
        BY <2>1, <2>5, <1>2 DEF b, y
      <3>2. Join(Join(b, H), y) = Join(b, Join(H, y))
        BY ONLY <3>1, JoinAssociative
      <3> QED BY <3>2 DEF Join, y
    <2>10. S \o M \o z = S \o (M \o z)
      <3> HIDE DEF z
      <3>1. S \in Seq(Part) /\ M \in Seq(Part) /\ z \in Seq(Part)
        BY <2>6, <1>1, <1>3 DEF z
      <3>2. Join(Join(S, M), z) = Join(S, Join(M, z))
        BY ONLY <3>1, JoinAssociative
      <3> QED BY <3>2 DEF Join
    <2>11. (S \o M \o H \o E \o B) \o later = d \o B \o later
      OBVIOUS
    <2>12. d \o x = c \o E \o x /\ c \o y = b \o H \o y /\ b \o z = S \o M \o z
      OBVIOUS
    <2> QED BY <2>7, <2>8, <2>9, <2>10, <2>11, <2>12
  <1>11. M \o A = IF m.more # <<>> THEN AtMore(m, later) ELSE A
    <2>1. CASE m.more # <<>>
      BY <2>1, <1>6, <1>7
    <2>2. CASE m.more = <<>>
      BY <2>2, <1>7, <1>4, StreamConcat
    <2> QED BY <2>1, <2>2
  <1>12. Parts(m) \o later = S \o (IF m.more # <<>> THEN AtMore(m, later) ELSE A)
    BY <1>4, <1>5, <1>10, <1>11
  <1> QED BY <1>1, <1>5, <1>6, <1>8, <1>9, <1>12 DEF p, S, A

\* One chunk after the other, the end of the chunks and the blank line.
LEMMA ChunkStream ==
    ASSUME NEW m \in Messages, NEW later \in Seq(Part), m.chunks # <<>>
    PROVE  /\ \A k \in 0 .. Len(m.chunks) : AtChunk(m, k, later) \in Seq(Part)
           /\ AtChunk(m, 0, later) = BodyParts(m) \o later
           /\ \A k \in 0 .. Len(m.chunks) - 1 :
                 AtChunk(m, k, later) = <<ChunkPart(m.chunks, k + 1)>> \o AtChunk(m, k + 1, later)
           /\ <<Eol>> \o later \in Seq(Part)
           /\ AtChunk(m, Len(m.chunks), later) =
                 <<<<Tok("size", 0)>> \o Eol>> \o (<<Eol>> \o later)
  <1> DEFINE n == Len(m.chunks)
             C == Chunks(m.chunks)
             s(k) == SubSeq(C, k + 1, n + 2)
  <1>1. m.chunks \in Seq(Int) /\ n \in Nat
    BY MessageFields, LenProperties
  <1>2. /\ C \in Seq(Part) /\ Len(C) = n + 2
        /\ \A i \in 1 .. n : ChunkPart(m.chunks, i) \in Part /\ C[i] = ChunkPart(m.chunks, i)
        /\ C[n + 1] = <<Tok("size", 0)>> \o Eol
        /\ C[n + 2] = Eol
    BY <1>1, ChunksParts
  <1>3. BodyParts(m) = C
    BY DEF BodyParts
  <1>4. \A k : AtChunk(m, k, later) = s(k) \o later
    BY DEF AtChunk
  <1> HIDE DEF C, n
  <1>5. ASSUME NEW k \in 0 .. n + 2 PROVE s(k) \in Seq(Part)
    <2>1. \A i \in k + 1 .. n + 2 : i \in 1 .. Len(C)
      BY <1>1, <1>2
    <2>2. \A i \in k + 1 .. n + 2 : C[i] \in Part
      BY <2>1, <1>2, ElementOfSeq
    <2>3. k + 1 \in Int /\ n + 2 \in Int
      BY <1>1
    <2> QED BY <2>2, <2>3, SubSeqProperties
  <1>6. ASSUME NEW k \in 0 .. n + 1
        PROVE  s(k) \o later = <<C[k + 1]>> \o (s(k + 1) \o later)
    <2>1. k \in Nat /\ n + 2 \in Nat /\ k < n + 2 /\ n + 2 <= Len(C) /\ (k + 1) + 1 = k + 2
          /\ k + 1 \in 0 .. n + 2 /\ k + 1 \in 1 .. Len(C)
      BY <1>1, <1>2
    <2>2. s(k) = <<C[k + 1]>> \o s(k + 1)
      <3>1. SubSeq(C, k + 1, n + 2) = <<C[k + 1]>> \o SubSeq(C, k + 2, n + 2)
        BY <1>2, <2>1, SubSeqFirst
      <3> QED BY <3>1, <2>1
    <2>3. s(k + 1) \in Seq(Part) /\ <<C[k + 1]>> \in Seq(Part)
      <3>1. C[k + 1] \in Part
        BY <1>2, <2>1, ElementOfSeq
      <3>2. s(k + 1) \in Seq(Part)
        BY <1>5, <2>1
      <3> QED BY <3>1, <3>2, StreamConcat
    <2> DEFINE u == <<C[k + 1]>>
               v == s(k + 1)
    <2> HIDE DEF u, v
    <2>4. u \in Seq(Part) /\ v \in Seq(Part)
      BY <2>3 DEF u, v
    <2>5. Join(Join(u, v), later) = Join(u, Join(v, later))
      BY ONLY <2>4, later \in Seq(Part), JoinAssociative
    <2>6. (u \o v) \o later = u \o (v \o later)
      BY ONLY <2>5 DEF Join
    <2> QED BY <2>2, <2>6 DEF u, v
  <1>7. s(n + 2) = <<>> /\ s(0) = C
    <2>1. (n + 2) + 1 \in Int /\ n + 2 \in Int /\ n + 2 < (n + 2) + 1 /\ 0 + 1 = 1
      BY <1>1
    <2>2. s(n + 2) = <<>>
      BY <2>1, SubSeqEmpty
    <2>3. SubSeq(C, 1, Len(C)) = C
      BY <1>2, SubSeqFull
    <2> QED BY <2>1, <2>2, <2>3, <1>2
  <1>8. \A k \in 0 .. n : s(k) \o later \in Seq(Part)
    <2> SUFFICES ASSUME NEW k \in 0 .. n PROVE s(k) \o later \in Seq(Part)
      OBVIOUS
    <2>1. k \in 0 .. n + 2
      BY <1>1
    <2>2. s(k) \in Seq(Part)
      BY <2>1, <1>5
    <2> QED BY <2>2, StreamConcat
  <1>9. s(n) \o later = <<<<Tok("size", 0)>> \o Eol>> \o (<<Eol>> \o later)
    <2>1. n \in 0 .. n + 1 /\ n + 1 \in 0 .. n + 1 /\ (n + 1) + 1 = n + 2
      BY <1>1
    <2>2. s(n) \o later = <<C[n + 1]>> \o (s(n + 1) \o later)
      BY <2>1, <1>6
    <2>3. s(n + 1) \o later = <<C[n + 2]>> \o (s(n + 2) \o later)
      <3>1. s(n + 1) \o later = <<C[(n + 1) + 1]>> \o (s((n + 1) + 1) \o later)
        BY <2>1, <1>6
      <3> QED BY <3>1, <2>1
    <2>4. s(n + 2) \o later = later
      BY <1>7, StreamConcat
    <2> HIDE DEF s
    <2> QED BY <2>2, <2>3, <2>4, <1>2
  <1>10. ASSUME NEW k \in 0 .. n - 1
         PROVE  s(k) \o later = <<ChunkPart(m.chunks, k + 1)>> \o (s(k + 1) \o later)
    <2>1. k \in 0 .. n + 1 /\ k + 1 \in 1 .. n
      BY <1>1
    <2> HIDE DEF s
    <2> QED BY <2>1, <1>6, <1>2
  <1>11. <<Eol>> \o later \in Seq(Part)
    BY EolProperties, StreamConcat
  <1> HIDE DEF s
  <1> QED BY <1>3, <1>4, <1>7, <1>8, <1>9, <1>10, <1>11 DEF n

\* One message after the other.
LEMMA FromSteps ==
    ASSUME msgs \in Seq(Messages)
    PROVE  /\ \A i \in 1 .. Len(msgs) + 1 : From(i) \in Seq(Part)
           /\ \A i \in 1 .. Len(msgs) : From(i) = Parts(msgs[i]) \o From(i + 1)
           /\ From(Len(msgs) + 1) = <<>>
  <1> DEFINE n == Len(msgs)
             s(i) == SubSeq(msgs, i, n)
             P(ms) == [j \in DOMAIN ms |-> Parts(ms[j])]
  <1>1. n \in Nat /\ \A i \in 1 .. n : msgs[i] \in Messages
    BY LenProperties, ElementOfSeq
  <1>2. \A m \in Messages : Parts(m) \in Seq(Part)
    BY MessageStream, StreamConcat
  <1>3. ASSUME NEW i \in 1 .. n + 1
        PROVE  s(i) \in Seq(Messages)
    <2>1. i \in Int /\ n \in Int /\ \A j \in i .. n : msgs[j] \in Messages
      BY <1>1
    <2> QED BY <2>1, SubSeqProperties
  <1>4. ASSUME NEW ms \in Seq(Messages)
        PROVE  P(ms) \in Seq(Seq(Part)) /\ Len(P(ms)) = Len(ms) /\ \A j \in 1 .. Len(ms) : P(ms)[j] = Parts(ms[j])
    <2> DEFINE k == Len(ms)
               f(j) == Parts(ms[j])
    <2>1. k \in Nat /\ DOMAIN ms = 1 .. k /\ \A j \in 1 .. k : ms[j] \in Messages
      BY LenProperties, ElementOfSeq
    <2>2. \A j \in 1 .. k : f(j) \in Seq(Part)
      BY <2>1, <1>2
    <2>3. P(ms) = [j \in 1 .. k |-> f(j)]
      BY <2>1
    <2> DEFINE Q == Seq(Part)
    <2> HIDE DEF k, f, P, Q
    <2>4. P(ms) \in Seq(Q) /\ Len(P(ms)) = k /\ \A j \in 1 .. k : P(ms)[j] = f(j)
      BY <2>1, <2>2, <2>3 DEF Q
    <2> QED BY <2>4 DEF Q, k, f
  <1>5. \A i : From(i) = Flat(P(s(i)))
    BY DEF From, Stream
  <1>6. ASSUME NEW i \in 1 .. n PROVE P(s(i)) = <<Parts(msgs[i])>> \o P(s(i + 1))
    <2> DEFINE m == msgs[i]
               r == s(i + 1)
               p == Parts(m)
               a == P(s(i))
               b == <<p>> \o P(r)
               Q == Seq(Part)
    <2>1. i \in 1 .. n + 1 /\ i + 1 \in 1 .. n + 1 /\ m \in Messages
      BY <1>1
    <2>2. r \in Seq(Messages) /\ s(i) \in Seq(Messages)
      BY <2>1, <1>3
    <2>3. s(i) = <<m>> \o r
      BY <1>1, SubSeqRecursiveFirst
    <2>4. /\ Len(s(i)) = 1 + Len(r) /\ Len(r) \in Nat /\ s(i)[1] = m
          /\ \A j \in 1 .. Len(r) : s(i)[1 + j] = r[j]
      <3> HIDE DEF r, s, m
      <3>1. Len(r) \in Nat
        BY <2>2, LenProperties
      <3>2. /\ Len(<<m>> \o r) = 1 + Len(r) /\ (<<m>> \o r)[1] = m
            /\ \A j \in 1 .. Len(r) : (<<m>> \o r)[1 + j] = r[j]
        BY <2>1, <2>2, FirstOf
      <3> QED BY <3>1, <3>2, <2>3
    <2> HIDE DEF r, s
    <2>5. /\ a \in Seq(Q) /\ Len(a) = Len(s(i))
          /\ \A j \in 1 .. Len(s(i)) : a[j] = Parts(s(i)[j])
      BY <2>2, <1>4
    <2>6. /\ P(r) \in Seq(Q) /\ Len(P(r)) = Len(r)
          /\ \A j \in 1 .. Len(r) : P(r)[j] = Parts(r[j])
      BY <2>2, <1>4
    <2>7. p \in Q
      BY <2>1, <1>2
    <2> HIDE DEF P, Q, p, a
    <2>8. /\ b \in Seq(Q) /\ Len(b) = 1 + Len(r) /\ b[1] = p
          /\ \A j \in 1 .. Len(r) : b[1 + j] = P(r)[j]
      <3> DEFINE pr == P(r)
      <3> HIDE DEF pr
      <3>1. pr \in Seq(Q) /\ Len(pr) = Len(r)
        BY <2>6 DEF pr
      <3>2. /\ <<p>> \o pr \in Seq(Q) /\ Len(<<p>> \o pr) = 1 + Len(pr) /\ (<<p>> \o pr)[1] = p
            /\ \A j \in 1 .. Len(pr) : (<<p>> \o pr)[1 + j] = pr[j]
        BY <3>1, <2>7, FirstOf
      <3>3. b = <<p>> \o pr
        BY DEF pr
      <3> HIDE DEF b
      <3>4. /\ b \in Seq(Q) /\ Len(b) = 1 + Len(r) /\ b[1] = p
            /\ \A j \in 1 .. Len(r) : b[1 + j] = pr[j]
        BY <3>1, <3>2, <3>3
      <3> QED BY <3>4 DEF pr
    <2> HIDE DEF b
    <2>9. ASSUME NEW j \in 1 .. Len(a) PROVE a[j] = b[j]
      <3>1. CASE j = 1
        <4>1. 1 \in 1 .. Len(s(i))
          BY <2>4
        <4>2. a[1] = p
          BY <4>1, <2>4, <2>5 DEF p
        <4> QED BY <3>1, <4>2, <2>8
      <3>2. CASE j # 1
        <4>1. j - 1 \in 1 .. Len(r) /\ 1 + (j - 1) = j /\ j \in 1 .. Len(s(i))
          BY <3>2, <2>4, <2>5
        <4>2. a[j] = Parts(r[j - 1])
          BY <4>1, <2>4, <2>5
        <4>3. b[j] = Parts(r[j - 1])
          BY <4>1, <2>6, <2>8
        <4> QED BY <4>2, <4>3
      <3> QED BY <3>1, <3>2
    <2>10. Len(a) = Len(b)
      BY <2>4, <2>5, <2>8
    <2>11. a = b
      BY <2>5, <2>8, <2>9, <2>10, SeqEqual
    <2> QED BY <2>11 DEF a, b, p, r, s
  <1>7. P(s(n + 1)) = <<>>
    <2>1. n + 1 \in Int /\ n \in Int /\ n < n + 1
      BY <1>1
    <2>2. s(n + 1) = <<>>
      BY <2>1, SubSeqEmpty
    <2>3. P(<<>>) = <<>>
      OBVIOUS
    <2> QED BY <2>2, <2>3
  <1>8. \A i \in 1 .. n + 1 : P(s(i)) \in Seq(Seq(Part))
    BY <1>3, <1>4
  <1> HIDE DEF P, s
  <1>9. \A i \in 1 .. n + 1 : From(i) \in Seq(Part)
    BY <1>5, <1>8, FlatIsSeq
  <1>10. ASSUME NEW i \in 1 .. n PROVE From(i) = Parts(msgs[i]) \o From(i + 1)
    <2> DEFINE p == Parts(msgs[i])
               r == P(s(i + 1))
               Q == Seq(Part)
    <2>1. i \in 1 .. n + 1 /\ i + 1 \in 1 .. n + 1 /\ p \in Q
      BY <1>1, <1>2
    <2>2. r \in Seq(Q)
      BY <1>8, <2>1
    <2>3. P(s(i)) = <<p>> \o r
      BY <1>6
    <2> HIDE DEF p, r
    <2>4. <<p>> \in Seq(Q)
      <3> HIDE DEF Q
      <3> QED BY <2>1
    <2>5. Flat(<<p>> \o r) = Flat(<<p>>) \o Flat(r)
      BY <2>2, <2>4, FlatConcat
    <2>6. Flat(<<p>>) = p
      BY <2>1, FlatOne
    <2> QED BY <1>5, <2>3, <2>5, <2>6 DEF p, r
  <1>11. From(n + 1) = <<>>
    BY <1>5, <1>7, FlatEmpty
  <1> QED BY <1>9, <1>10, <1>11 DEF n

\* The lines that the user has added.
LEMMA MoreLines ==
    ASSUME NEW m \in Messages
    PROVE  /\ Len(m.more) \in Nat /\ m.more \in Seq(Token) /\ (m.more # <<>> => Len(m.more) > 0)
           /\ m.more # <<>> => m.more[1].sort \in {"Extra", "folded", "colonless"}
           /\ \A i \in 1 .. Len(m.more) : m.more[i] \in Token /\ (i > 1 => m.more[i].sort = "folded")
           /\ MoreRest(m, 0) = Flat(Lines(m.more))
           /\ MoreRest(m, Len(m.more)) = <<>>
           /\ \A k \in 0 .. Len(m.more) : MoreRest(m, k) \in Part
           /\ \A k \in 0 .. Len(m.more) - 1 :
                 MoreRest(m, k) = (<<m.more[k + 1]>> \o Eol) \o MoreRest(m, k + 1)
  <1> DEFINE s == m.more
             n == Len(s)
             L == Lines(s)
             l(i) == <<s[i]>> \o Eol
             T(k) == SubSeq(L, k + 1, n)
  <1>1. s \in Part /\ s \in Seq(Token) /\ n \in Nat /\ DOMAIN s = 1 .. n /\ (s # <<>> => n > 0)
    <2>1. s \in Part /\ s \in Seq(Token)
      BY MessageFields DEF Part
    <2>2. n \in Nat /\ DOMAIN s = 1 .. n
      BY <2>1, LenProperties
    <2>3. s # <<>> => n # 0
      BY <2>1, EmptySeq
    <2> QED BY <2>1, <2>2, <2>3
  <1>2. /\ s # <<>> => s[1].sort \in {"Extra", "folded", "colonless"}
        /\ \A i \in DOMAIN s : i > 1 => s[i].sort = "folded"
    BY MessageFields DEF Sendable
  <1>3. \A i \in 1 .. n : s[i] \in Token /\ (i > 1 => s[i].sort = "folded")
    BY <1>1, <1>2, ElementOfSeq
  <1>4. L \in Seq(Part) /\ Len(L) = n /\ \A i \in 1 .. n : L[i] = l(i)
    BY <1>1, LineParts
  <1>5. \A k : MoreRest(m, k) = Flat(T(k))
    BY DEF MoreRest
  <1> HIDE DEF s, L, l
  <1>6. T(0) = L /\ T(n) = <<>>
    BY <1>1, <1>4, SubSeqEnds
  <1>7. ASSUME NEW k \in 0 .. n PROVE T(k) \in Seq(Part)
    <2>1. \A i \in k + 1 .. n : i \in 1 .. n /\ L[i] \in Part
      BY <1>1, <1>4, ElementOfSeq
    <2> QED BY <2>1, <1>1, SubSeqProperties
  <1>8. ASSUME NEW k \in 0 .. n - 1 PROVE T(k) = <<l(k + 1)>> \o T(k + 1)
    <2>1. k + 1 \in 1 .. n /\ L[k + 1] = l(k + 1)
      BY <1>1, <1>4
    <2>2. k \in Nat /\ k < n /\ n <= Len(L) /\ k + 2 = (k + 1) + 1
      BY <1>1, <1>4
    <2>3. SubSeq(L, k + 1, n) = <<L[k + 1]>> \o SubSeq(L, k + 2, n)
      BY <2>2, <1>1, <1>4, SubSeqFirst
    <2> QED BY <2>1, <2>2, <2>3
  <1>9. \A k \in 0 .. n : MoreRest(m, k) \in Part
    <2> HIDE DEF T
    <2> QED BY <1>5, <1>7, FlatParts
  <1>10. ASSUME NEW k \in 0 .. n - 1 PROVE MoreRest(m, k) = l(k + 1) \o MoreRest(m, k + 1)
    <2> DEFINE p == l(k + 1)
               t == T(k + 1)
    <2>1. k + 1 \in 0 .. n /\ k + 1 \in 1 .. n
      BY <1>1
    <2>2. p \in Part /\ t \in Seq(Part)
      BY <2>1, <1>4, <1>7, ElementOfSeq
    <2>3. MoreRest(m, k) = Flat(<<p>> \o t) /\ MoreRest(m, k + 1) = Flat(t)
      BY <1>5, <1>8
    <2> HIDE DEF p, t
    <2>4. <<p>> \in Seq(Part)
      BY <2>2
    <2>5. Flat(<<p>> \o t) = Flat(<<p>>) \o Flat(t) /\ Flat(<<p>>) = p
      BY <2>2, <2>4, FlatParts
    <2> QED BY <2>3, <2>5 DEF p
  <1>11. MoreRest(m, 0) = Flat(L) /\ MoreRest(m, n) = <<>>
    <2> HIDE DEF T
    <2> QED BY <1>5, <1>6, FlatEmpty
  <1> QED BY <1>1, <1>2, <1>3, <1>9, <1>10, <1>11 DEF s, L, l, n

-----------------------------------------------------------------------------
(* The headers of a message, as the receiver keeps them.                   *)

\* The index of the first of a sort.
IndexOf(s, k) == SelectInSeq(s, LAMBDA t : t.sort = k)

\* It is where no other of that sort is before.
LEMMA FirstOfSort ==
    ASSUME NEW s, NEW k, NEW i \in 1 .. Len(s), Len(s) \in Nat, s[i].sort = k,
           \A j \in 1 .. i - 1 : s[j].sort # k
    PROVE  IndexOf(s, k) = i
  <1> DEFINE I == {j \in 1 .. Len(s) : s[j].sort = k}
  <1>1. I \in SUBSET Int /\ i \in I
    OBVIOUS
  <1>2. \A j \in I : i <= j
    <2> SUFFICES ASSUME NEW j \in 1 .. Len(s), s[j].sort = k, ~ (i <= j) PROVE FALSE
      OBVIOUS
    <2>1. j \in 1 .. i - 1
      OBVIOUS
    <2> QED BY <2>1
  <1>3. Min(I) = i
    <2> HIDE DEF I
    <2> QED BY <1>1, <1>2, MinOfSet
  <1>4. IndexOf(s, k) = IF I # {} THEN Min(I) ELSE 0
    BY Zenon DEF IndexOf, SelectInSeq
  <1> QED BY <1>1, <1>3, <1>4

\* All header lines of m.
AllLines(m) == m.more \o Headers(m)

\* Where its lines are.
LEMMA AllLinesElements ==
    ASSUME NEW m \in Messages
    PROVE  /\ Len(m.more) \in Nat /\ Len(Headers(m)) \in Nat
           /\ Len(AllLines(m)) = Len(m.more) + Len(Headers(m))
           /\ \A i \in 1 .. Len(m.more) : AllLines(m)[i] = m.more[i]
           /\ \A i \in 1 .. Len(Headers(m)) : AllLines(m)[Len(m.more) + i] = Headers(m)[i]
  <1> DEFINE a == m.more
             b == Headers(m)
             c == a \o b
  <1>1. a \in Seq(Token) /\ b \in Seq(Token)
    BY MessageFields, HeaderKinds DEF Part
  <1> HIDE DEF a, b
  <1>2. Len(a) \in Nat /\ Len(b) \in Nat
    BY <1>1, LenProperties
  <1>3. c \in Seq(Token) /\ Len(c) = Len(a) + Len(b)
    BY <1>1, ConcatProperties
  <1>4. \A i \in 1 .. Len(a) : c[i] = a[i]
    BY <1>1, ConcatProperties
  <1>5. \A i \in 1 .. Len(b) : c[Len(a) + i] = b[i]
    BY <1>1, ConcatProperties
  <1>6. AllLines(m) = c
    BY DEF AllLines, a, b, c
  <1> HIDE DEF c
  <1> QED BY <1>2, <1>3, <1>4, <1>5, <1>6 DEF a, b

\* The values of the headers, and of the user's with the last line folded behind it.
LEMMA HeaderValues ==
    ASSUME NEW m \in Messages, GoodMore(m)
    PROVE  /\ \A i \in 1 .. Len(Headers(m)) : HeaderValue(m, Headers(m)[i].sort) = Headers(m)[i].n
           /\ m.more # <<>> => HeaderValue(m, "Extra") = FoldedValue(m, Len(m.more))
  <1> DEFINE s == AllLines(m)
             a == m.more
             b == Headers(m)
             I(k) == IndexOf(s, k)
  <1>1. /\ Len(a) \in Nat /\ Len(b) \in Nat /\ Len(s) = Len(a) + Len(b) /\ Len(s) \in Nat
        /\ \A i \in 1 .. Len(a) : s[i] = a[i]
        /\ \A i \in 1 .. Len(b) : s[Len(a) + i] = b[i]
    BY AllLinesElements
  <1>2. \A k : HeaderValue(m, k) = IF k = "Extra" /\ Len(a) > 1
                                   THEN 10 * a[1].n + a[Len(a)].n ELSE s[I(k)].n
    BY DEF HeaderValue, AllLines, IndexOf, Last
  <1>3. \A i \in 1 .. Len(b) : b[i].sort \in Keys \ {"Extra"}
    BY HeaderKinds
  <1>4. \A i, j \in 1 .. Len(b) : b[i].sort = b[j].sort => i = j
    BY HeaderKinds
  <1>5. /\ a # <<>> => a[1].sort = "Extra" /\ Len(a) > 0
        /\ \A i \in 1 .. Len(a) : i > 1 => a[i].sort = "folded"
    BY MoreLines DEF GoodMore
  <1>6. a = <<>> => Len(a) = 0
    OBVIOUS
  <1>7. \A k \in Keys \ {"Extra"} : k # "Extra" /\ k # "folded"
    BY DEF Keys
  <1>8. FoldedValue(m, Len(a)) = IF Len(a) = 1 THEN a[1].n ELSE 10 * a[1].n + a[Len(a)].n
    BY DEF FoldedValue
  <1> HIDE DEF s, a, b
  <1>9. ASSUME NEW k, NEW i \in 1 .. Len(s), s[i].sort = k, \A j \in 1 .. i - 1 : s[j].sort # k
         PROVE  I(k) = i
    BY <1>1, <1>9, FirstOfSort
  <1> HIDE DEF I
  <1>10. ASSUME NEW i \in 1 .. Len(b) PROVE HeaderValue(m, b[i].sort) = b[i].n
    <2> DEFINE k == b[i].sort
               p == Len(a) + i
    <2>1. p \in 1 .. Len(s) /\ s[p] = b[i] /\ s[p].sort = k
      BY <1>1
    <2>2. k # "Extra" /\ k # "folded"
      BY <1>3, <1>7
    <2>3. \A j \in 1 .. p - 1 : s[j].sort # k
      <3> SUFFICES ASSUME NEW j \in 1 .. p - 1 PROVE s[j].sort # k
        OBVIOUS
      <3>1. CASE j \in 1 .. Len(a)
        <4>1. s[j] = a[j] /\ a # <<>>
          BY <3>1, <1>1, <1>6
        <4>2. a[j].sort \in {"Extra", "folded"}
          BY <3>1, <4>1, <1>1, <1>5
        <4> QED BY <4>1, <4>2, <2>2
      <3>2. CASE j \notin 1 .. Len(a)
        <4>1. j - Len(a) \in 1 .. Len(b) /\ Len(a) + (j - Len(a)) = j /\ j - Len(a) # i
          BY <3>2, <1>1
        <4>2. s[j] = b[j - Len(a)]
          BY <4>1, <1>1
        <4> QED BY <4>1, <4>2, <1>4
      <3> QED BY <3>1, <3>2
    <2>4. I(k) = p
      <3> HIDE DEF k, p
      <3> QED BY <2>1, <2>3, <1>9
    <2> HIDE DEF p
    <2> QED BY <1>2, <2>1, <2>2, <2>4
  <1>11. ASSUME a # <<>> PROVE HeaderValue(m, "Extra") = FoldedValue(m, Len(a))
    <2>1. 1 \in 1 .. Len(a) /\ 1 \in 1 .. Len(s) /\ s[1] = a[1] /\ a[1].sort = "Extra"
      BY <1>1, <1>5, <1>11
    <2>2. I("Extra") = 1
      <3>1. \A j \in 1 .. 1 - 1 : s[j].sort # "Extra"
        OBVIOUS
      <3> QED BY <2>1, <3>1, <1>9
    <2>3. CASE Len(a) = 1
      BY <1>2, <1>8, <2>1, <2>2, <2>3
    <2>4. CASE Len(a) > 1
      BY <1>1, <1>2, <1>8, <2>4
    <2>5. Len(a) = 1 \/ Len(a) > 1
      <3>1. \A x \in Nat : x > 0 => x = 1 \/ x > 1
        OBVIOUS
      <3> QED BY <3>1, <1>1, <1>5, <1>11, Zenon
    <2> QED BY <2>3, <2>4, <2>5
  <1> QED BY <1>10, <1>11 DEF a, b

\* What has been read of the headers, line by line.
LEMMA FieldsSteps ==
    ASSUME NEW m \in Messages, GoodMore(m)
    PROVE  /\ m.more = <<>> => Fields(m, 0) = <<>>
           /\ m.more # <<>> => Fields(m, 0) = [s \in {"Extra"} |-> HeaderValue(m, "Extra")]
           /\ \A k \in 0 .. Len(Headers(m)) - 1 :
                 Fields(m, k + 1) =
                    [s \in {Headers(m)[k + 1].sort} \cup DOMAIN Fields(m, k) |->
                        IF s = Headers(m)[k + 1].sort THEN Headers(m)[k + 1].n ELSE Fields(m, k)[s]]
           /\ AllFields(m) = [k \in HeaderKeys(m) |-> HeaderValue(m, k)]
  <1> DEFINE b == Headers(m)
             n == Len(b)
             E == IF m.more = <<>> THEN {} ELSE {"Extra"}
  <1>1. n \in Nat /\ \A i \in 1 .. n : b[i].sort \in Keys /\ HeaderValue(m, b[i].sort) = b[i].n
    BY HeaderKinds, HeaderValues, LenProperties DEF Part
  <1>2. \A k : Seen(m, k) = {b[i].sort : i \in 1 .. k} \cup E
    BY DEF Seen
  <1>3. \A k : Fields(m, k) = [s \in Seen(m, k) |-> HeaderValue(m, s)]
    BY DEF Fields
  <1>4. Seen(m, 0) = E
    BY <1>2
  <1>5. m.more = <<>> => Fields(m, 0) = <<>>
    <2>1. m.more = <<>> => Fields(m, 0) = [s \in {} |-> HeaderValue(m, s)]
      BY <1>3, <1>4
    <2>2. [s \in {} |-> HeaderValue(m, s)] = <<>>
      OBVIOUS
    <2> QED BY <2>1, <2>2
  <1>6. m.more # <<>> => Fields(m, 0) = [s \in {"Extra"} |-> HeaderValue(m, "Extra")]
    <2>1. m.more # <<>> => Seen(m, 0) = {"Extra"}
      BY <1>4
    <2> QED BY <2>1, <1>3
  <1>7. ASSUME NEW k \in 0 .. n - 1
        PROVE  Fields(m, k + 1) =
                    [s \in {b[k + 1].sort} \cup DOMAIN Fields(m, k) |->
                        IF s = b[k + 1].sort THEN b[k + 1].n ELSE Fields(m, k)[s]]
    <2>1. 1 .. k + 1 = (1 .. k) \cup {k + 1} /\ k + 1 \in 1 .. n
      BY <1>1
    <2>2. Seen(m, k + 1) = {b[k + 1].sort} \cup Seen(m, k)
      <3> HIDE DEF E, b
      <3> QED BY <2>1, <1>2
    <2>3. DOMAIN Fields(m, k) = Seen(m, k) /\ \A s \in Seen(m, k) : Fields(m, k)[s] = HeaderValue(m, s)
      BY <1>3
    <2>4. HeaderValue(m, b[k + 1].sort) = b[k + 1].n
      BY <2>1, <1>1
    <2> HIDE DEF b
    <2> QED BY <1>3, <2>2, <2>3, <2>4
  <1>8. Seen(m, n) = HeaderKeys(m)
    <2> DEFINE a == m.more
               c == a \o b
    <2>1. a \in Seq(Token) /\ b \in Seq(Token) /\ Len(a) \in Nat
      BY MessageFields, HeaderKinds, LenProperties DEF Part
    <2>2. /\ a # <<>> => a[1].sort = "Extra" /\ Len(a) > 0
          /\ \A i \in 1 .. Len(a) : i > 1 => a[i].sort = "folded"
      BY MoreLines DEF GoodMore
    <2>3. a = <<>> => Len(a) = 0
      OBVIOUS
    <2>4. E = IF a = <<>> THEN {} ELSE {"Extra"}
      OBVIOUS
    <2> HIDE DEF a, b, E
    <2>5. c \in Seq(Token) /\ Len(c) = Len(a) + Len(b)
      BY <2>1, ConcatProperties
    <2>6. \A i \in 1 .. Len(a) : c[i] = a[i]
      BY <2>1, ConcatProperties
    <2>7. \A i \in 1 .. Len(b) : c[Len(a) + i] = b[i]
      BY <2>1, ConcatProperties
    <2>8. HeaderKeys(m) = {c[i].sort : i \in 1 .. Len(c)} \cap Keys
      <3> HIDE DEF c
      <3>1. DOMAIN c = 1 .. Len(c)
        BY <2>5, LenProperties
      <3>2. HeaderKeys(m) = {t.sort : t \in ToSet(c)} \cap Keys
        BY DEF HeaderKeys, a, b, c
      <3> QED BY <3>1, <3>2 DEF ToSet
    <2> HIDE DEF c
    <2>9. "Extra" \in Keys /\ "folded" \notin Keys
      BY DEF Keys
    <2>10. ASSUME NEW x \in Seen(m, n) PROVE x \in HeaderKeys(m)
      <3>1. CASE x \in E
        <4>1. a # <<>> /\ x = "Extra"
          BY <3>1, <2>4
        <4>2. 1 \in 1 .. Len(a) /\ 1 \in 1 .. Len(c) /\ c[1].sort = "Extra"
          BY <4>1, <2>1, <2>2, <2>5, <2>6, <1>1
        <4> QED BY <4>1, <4>2, <2>8, <2>9
      <3>2. CASE x \notin E
        <4>1. PICK i \in 1 .. n : x = b[i].sort
          BY <3>2, <1>2
        <4>2. Len(a) + i \in 1 .. Len(c) /\ c[Len(a) + i].sort = x
          BY <4>1, <2>1, <2>5, <2>7, <1>1
        <4>3. x \in Keys
          BY <4>1, <1>1
        <4> QED BY <4>2, <4>3, <2>8
      <3> QED BY <3>1, <3>2
    <2>11. ASSUME NEW x \in HeaderKeys(m) PROVE x \in Seen(m, n)
      <3>1. PICK i \in 1 .. Len(c) : x = c[i].sort /\ x \in Keys
        BY <2>8
      <3>2. CASE i \in 1 .. Len(a)
        <4>1. a # <<>> /\ c[i] = a[i] /\ (i = 1 \/ i > 1)
          BY <3>2, <2>1, <2>3, <2>6
        <4>2. x = "Extra"
          BY <4>1, <3>1, <3>2, <2>2, <2>9
        <4> QED BY <4>1, <4>2, <2>4, <1>2
      <3>3. CASE i \notin 1 .. Len(a)
        <4>1. i - Len(a) \in 1 .. n /\ Len(a) + (i - Len(a)) = i
          BY <3>3, <2>1, <2>5, <1>1
        <4>2. x = b[i - Len(a)].sort
          BY <4>1, <3>1, <2>7
        <4> QED BY <4>1, <4>2, <1>2
      <3> QED BY <3>2, <3>3
    <2> QED BY <2>10, <2>11
  <1>9. AllFields(m) = [k \in HeaderKeys(m) |-> HeaderValue(m, k)]
    BY <1>3, <1>8 DEF AllFields
  <1> QED BY <1>5, <1>6, <1>7, <1>9

\* The headers that have been read are a map from keys to numbers.
LEMMA FieldsAreMaps ==
    ASSUME NEW m \in Messages, GoodMore(m), NEW k \in 0 .. Len(Headers(m))
    PROVE  Fields(m, k) \in HeaderMap
  <1> DEFINE b == Headers(m)
  <1>1. \A i \in 1 .. Len(b) : b[i] \in Token /\ b[i].sort \in Keys /\ HeaderValue(m, b[i].sort) = b[i].n
    BY HeaderKinds, HeaderValues
  <1>2. Len(b) \in Nat
    BY HeaderKinds, LenProperties DEF Part
  <1>3. \A t \in Token : t.n \in Int
    BY DEF Token
  <1>4. m.more # <<>> => HeaderValue(m, "Extra") \in Int
    <2> SUFFICES ASSUME m.more # <<>> PROVE HeaderValue(m, "Extra") \in Int
      OBVIOUS
    <2>1. Len(m.more) \in Nat /\ Len(m.more) > 0
      BY MoreLines
    <2>2. 1 \in 1 .. Len(m.more) /\ Len(m.more) \in 1 .. Len(m.more)
      BY <2>1
    <2>3. m.more[1].n \in Int /\ m.more[Len(m.more)].n \in Int
      BY <2>2, MoreLines, <1>3
    <2>4. HeaderValue(m, "Extra") = FoldedValue(m, Len(m.more))
      BY HeaderValues
    <2> QED BY <2>3, <2>4 DEF FoldedValue
  <1> HIDE DEF b
  <1>5. ASSUME NEW s \in Seen(m, k) PROVE s \in Keys /\ HeaderValue(m, s) \in Int
    <2>1. CASE m.more # <<>> /\ s = "Extra"
      BY <2>1, <1>4 DEF Keys
    <2>2. CASE \E i \in 1 .. k : s = b[i].sort
      <3>1. PICK i \in 1 .. k : s = b[i].sort
        BY <2>2
      <3>2. i \in 1 .. Len(b)
        BY <1>2 DEF b
      <3> QED BY <3>1, <3>2, <1>1, <1>3
    <2> QED BY <2>1, <2>2 DEF Seen, b
  <1> DEFINE K == Seen(m, k)
  <1>6. K \in SUBSET Keys
    BY <1>5
  <1>7. Fields(m, k) = [s \in K |-> HeaderValue(m, s)]
    BY DEF Fields
  <1>8. \A s \in K : HeaderValue(m, s) \in Int
    BY <1>5
  <1> HIDE DEF K
  <1>9. Fields(m, k) \in [K -> Int]
    BY <1>7, <1>8
  <1> QED BY <1>6, <1>9 DEF HeaderMap

\* What the headers say of the body.
LEMMA BodyHeaders ==
    ASSUME NEW m \in Messages, GoodMore(m), m.start \in (Requests \cup Responses) \ Bodiless
    PROVE  /\ "Transfer-Encoding" \in DOMAIN AllFields(m) <=> m.chunks # <<>>
           /\ m.chunks # <<>> => AllFields(m)["Transfer-Encoding"] = 1
           /\ "Content-Length" \in DOMAIN AllFields(m) <=> m.length # Absent
           /\ m.length # Absent => AllFields(m)["Content-Length"] = m.length
  <1> DEFINE b == Headers(m)
             K == Seen(m, Len(b))
  <1>1. K = {b[i].sort : i \in 1 .. Len(b)} \cup (IF m.more = <<>> THEN {} ELSE {"Extra"})
    BY DEF Seen
  <1>2. AllFields(m) = [s \in K |-> HeaderValue(m, s)]
    BY DEF AllFields, Fields
  <1>3. \A i \in 1 .. Len(b) :
           /\ HeaderValue(m, b[i].sort) = b[i].n
           /\ b[i].sort = "Transfer-Encoding" => m.chunks # <<>> /\ b[i].n = 1
           /\ b[i].sort = "Content-Length" => m.length # Absent /\ b[i].n = m.length
    BY HeaderKinds, HeaderValues
  <1>4. /\ m.chunks # <<>> => \E i \in 1 .. Len(b) : b[i].sort = "Transfer-Encoding"
        /\ m.length # Absent => \E i \in 1 .. Len(b) : b[i].sort = "Content-Length"
    BY HeaderKinds
  <1> HIDE DEF b, K
  <1>5. "Transfer-Encoding" \in K <=> m.chunks # <<>>
    BY <1>1, <1>3, <1>4
  <1>6. "Content-Length" \in K <=> m.length # Absent
    BY <1>1, <1>3, <1>4
  <1>7. m.chunks # <<>> => HeaderValue(m, "Transfer-Encoding") = 1
    BY <1>3, <1>4
  <1>8. m.length # Absent => HeaderValue(m, "Content-Length") = m.length
    BY <1>3, <1>4
  <1> QED BY <1>2, <1>5, <1>6, <1>7, <1>8

-----------------------------------------------------------------------------
(* The bytes of a body.                                                    *)

\* The body grows by a chunk, and with all chunks it is what is kept of the message.
LEMMA BodySteps ==
    ASSUME NEW m \in Messages
    PROVE  /\ BodyOf(m, 0) = <<>>
           /\ \A k \in 0 .. Len(m.chunks) - 1 : BodyOf(m, k + 1) = BodyOf(m, k) \o ChunkBytes(m, k + 1)
           /\ m.chunks # <<>> => BodyKept(m) = BodyOf(m, Len(m.chunks))
           /\ m.chunks = <<>> => BodyKept(m) = Bytes(0, m.body)
           /\ Bytes(0, 0) = <<>>
  <1> DEFINE n == Len(m.chunks)
             f(i) == ChunkBytes(m, i)
             q(k) == [i \in 1 .. k |-> f(i)]
  <1>1. m.chunks \in Seq(Int) /\ n \in Nat /\ DOMAIN m.chunks = 1 .. n
    BY MessageFields, LenProperties
  <1>2. ASSUME NEW i \in 1 .. n PROVE f(i) \in Part
    <2>1. m.chunks[i] \in Int /\ i \in 1 .. n + 1
      BY <1>1, ElementOfSeq
    <2>2. Before(m.chunks, i) \in Int
      BY <2>1, <1>1, BeforeIsNat
    <2> QED BY <2>1, <2>2, BytesParts, EolProperties, PartsConcat DEF ChunkBytes
  <1>3. \A k : BodyOf(m, k) = Flat(q(k))
    BY DEF BodyOf
  <1>4. BodyOf(m, 0) = <<>>
    <2>1. q(0) = <<>>
      OBVIOUS
    <2> HIDE DEF q
    <2> QED BY <2>1, <1>3, FlatEmpty
  <1> HIDE DEF f
  <1>5. ASSUME NEW k \in 0 .. n PROVE q(k) \in Seq(Part) /\ Len(q(k)) = k /\ \A i \in 1 .. k : q(k)[i] = f(i)
    <2>1. \A i \in 1 .. k : f(i) \in Part
      BY <1>1, <1>2
    <2> QED BY <2>1
  <1>6. ASSUME NEW k \in 0 .. n - 1 PROVE BodyOf(m, k + 1) = BodyOf(m, k) \o f(k + 1)
    <2> DEFINE a == q(k)
               b == q(k + 1)
               p == f(k + 1)
               c == Append(a, p)
    <2>1. k \in 0 .. n /\ k + 1 \in 0 .. n /\ k + 1 \in 1 .. n /\ k \in Nat
      BY <1>1
    <2>2. a \in Seq(Part) /\ Len(a) = k /\ \A i \in 1 .. k : a[i] = f(i)
      BY <2>1, <1>5
    <2>3. b \in Seq(Part) /\ Len(b) = k + 1 /\ \A i \in 1 .. k + 1 : b[i] = f(i)
      BY <2>1, <1>5
    <2>4. p \in Part
      BY <2>1, <1>2
    <2> HIDE DEF a, b, p, q
    <2>5. c \in Seq(Part) /\ Len(c) = k + 1 /\ c[k + 1] = p /\ \A i \in 1 .. k : c[i] = a[i]
      BY <2>2, <2>4, AppendProperties
    <2> HIDE DEF c
    <2>6. ASSUME NEW i \in 1 .. k + 1 PROVE b[i] = c[i]
      <3>1. CASE i = k + 1
        BY <3>1, <2>1, <2>3, <2>5 DEF p
      <3>2. CASE i # k + 1
        <4>1. i \in 1 .. k
          BY <3>2, <2>1
        <4> QED BY <4>1, <2>2, <2>3, <2>5
      <3> QED BY <3>1, <3>2
    <2>7. b = c
      BY <2>3, <2>5, <2>6, SeqEqual
    <2>8. Flat(c) = Flat(a) \o p
      BY <2>2, <2>4, FlatParts DEF c
    <2> QED BY <2>7, <2>8, <1>3 DEF a, b, p
  <1>7. m.chunks # <<>> => BodyKept(m) = BodyOf(m, n)
    BY <1>1 DEF BodyKept, BodyOf, ChunkBytes
  <1>8. m.chunks = <<>> => BodyKept(m) = Bytes(0, m.body)
    BY DEF BodyKept
  <1>9. Bytes(0, 0) = <<>>
    BY DEF Bytes, If
  <1> QED BY <1>4, <1>6, <1>7, <1>8, <1>9 DEF f

\* A body that arrives byte by byte and is there, or is not yet.
LEMMA BodyArrives ==
    ASSUME NEW n \in Nat, NEW later \in Seq(Part), NEW b, NEW w \in Seq(Part),
           Cut(b, w, <<>>, [i \in 1 .. n |-> Bytes(i - 1, 1)] \o later),
           Len(b) >= n
    PROVE  /\ SubSeq(b, 1, n) = Bytes(0, n)
           /\ SubSeq(b, n + 1, Len(b)) \in Part
           /\ Cut(SubSeq(b, n + 1, Len(b)), w, <<>>, later)
  <1> DEFINE f(i) == Bytes(i - 1, 1)
             B == [i \in 1 .. n |-> f(i)]
             s == Bytes(0, n)
  <1>1. PICK q \in Seq(Part) : b = <<>> \o Flat(q) /\ B \o later = q \o w
    BY DEF Cut
  <1>2. b = Flat(q) /\ Flat(q) \in Part
    BY <1>1, FlatParts, PartsConcat
  <1>3. s \in Part /\ s \in Seq(Token) /\ Len(s) = n /\ \A i \in 1 .. n : s[i] = Tok("byte", 0 + i)
    <2>1. n \in Int /\ 0 \in Int /\ (IF n > 0 THEN n ELSE 0) = n
      OBVIOUS
    <2>2. /\ s \in Part /\ Len(s) = (IF n > 0 THEN n ELSE 0)
          /\ \A i \in 1 .. n : s[i] = Tok("byte", 0 + i)
      BY <2>1, BytesParts
    <2> QED BY <2>1, <2>2 DEF Part
  <1>4. \A i \in 1 .. n : f(i) = <<s[i]>> /\ f(i) \in Part
    <2> SUFFICES ASSUME NEW i \in 1 .. n PROVE f(i) = <<s[i]>> /\ f(i) \in Part
      OBVIOUS
    <2>1. i - 1 \in Int /\ 1 \in Int /\ (IF 1 > 0 THEN 1 ELSE 0) = 1 /\ 1 \in 1 .. 1 /\ (i - 1) + 1 = i /\ 0 + i = i
      OBVIOUS
    <2>2. /\ f(i) \in Part /\ Len(f(i)) = (IF 1 > 0 THEN 1 ELSE 0)
          /\ \A j \in 1 .. 1 : f(i)[j] = Tok("byte", (i - 1) + j)
      BY <2>1, BytesParts
    <2>3. f(i)[1] = Tok("byte", i) /\ s[i] = Tok("byte", i)
      BY <2>1, <2>2, <1>3
    <2> HIDE DEF f
    <2>4. f(i) \in Seq(Token) /\ Len(f(i)) = 1 /\ f(i)[1] = s[i]
      BY <2>1, <2>2, <2>3 DEF Part
    <2>5. f(i) = <<s[i]>>
      BY <2>4
    <2> QED BY <2>2, <2>5
  <1>5. B = [i \in 1 .. n |-> <<s[i]>>] /\ B \in Seq(Part) /\ Len(B) = n
    <2> HIDE DEF f, s
    <2> QED BY <1>4
  <1>6. \A i \in 1 .. n : B[i] = <<s[i]>>
    BY <1>5
  <1> HIDE DEF B, s, f
  <1>7. Len(q) \in Nat /\ \A i \in 1 .. Len(q) : i <= n => q[i] = B[i]
    <2> DEFINE c == q \o w
               d == B \o later
    <2>1. \A i \in 1 .. Len(q) : c[i] = q[i]
      BY <1>1, StreamElements
    <2>2. \A i \in 1 .. Len(B) : d[i] = B[i]
      BY <1>5, StreamElements
    <2>3. c = d
      BY <1>1
    <2> HIDE DEF c, d
    <2>4. Len(q) \in Nat
      BY <1>1, LenProperties
    <2> QED BY <2>1, <2>2, <2>3, <2>4, <1>5
  <1>8. Len(q) >= n
    <2> SUFFICES ASSUME Len(q) < n PROVE FALSE
      BY <1>7
    <2> DEFINE k == Len(q)
               t == SubSeq(s, 1, k)
    <2>1. k \in Nat /\ k < n /\ \A i \in 1 .. k : i \in 1 .. n /\ s[i] \in Token
      BY <1>3, <1>7, ElementOfSeq
    <2>2. t \in Seq(Token) /\ Len(t) = (IF 1 <= k THEN k - 1 + 1 ELSE 0) /\ \A i \in 1 .. k - 1 + 1 : t[i] = s[1 + i - 1]
      BY <2>1, SubSeqProperties
    <2> HIDE DEF k, t
    <2>3. Len(t) = k /\ \A i \in 1 .. k : t[i] = s[i]
      BY <2>1, <2>2
    <2>4. \A i \in 1 .. k : q[i] = <<t[i]>>
      BY <2>1, <2>3, <1>6, <1>7 DEF k
    <2>5. q = [i \in 1 .. Len(t) |-> <<t[i]>>]
      <3>1. DOMAIN q = 1 .. k /\ q = [i \in DOMAIN q |-> q[i]]
        BY <1>1, LenProperties DEF k
      <3> QED BY <3>1, <2>3, <2>4
    <2>6. Flat(q) = t
      BY <2>2, <2>5, FlatSingles
    <2> QED BY <2>1, <2>3, <2>6, <1>2
  <1> DEFINE a == SubSeq(q, 1, n)
             r == SubSeq(q, n + 1, Len(q))
  <1>9. q = a \o r /\ r \in Seq(Part)
    <2>1. 1 \in 1 .. Len(q) + 1 /\ n \in 1 - 1 .. Len(q) /\ Len(q) \in n .. Len(q)
      BY <1>7, <1>8
    <2>2. SubSeq(q, 1, n) \o SubSeq(q, n + 1, Len(q)) = SubSeq(q, 1, Len(q))
      BY <2>1, <1>1, ConcatAdjacentSubSeq
    <2>3. SubSeq(q, 1, Len(q)) = q
      BY <1>1, SubSeqFull
    <2>4. \A i \in n + 1 .. Len(q) : i \in 1 .. Len(q)
      BY <1>7
    <2>5. r \in Seq(Part)
      BY <2>4, <1>1, <1>7, ElementOfSeq, SubSeqProperties
    <2> QED BY <2>2, <2>3, <2>5
  <1>10. a = B
    <2>1. \A i \in 1 .. n : i \in 1 .. Len(q) /\ q[i] \in Part
      BY <1>1, <1>7, <1>8, ElementOfSeq
    <2>2. a \in Seq(Part) /\ Len(a) = (IF 1 <= n THEN n - 1 + 1 ELSE 0) /\ \A i \in 1 .. n - 1 + 1 : a[i] = q[1 + i - 1]
      BY <2>1, SubSeqProperties
    <2> HIDE DEF a
    <2>3. Len(a) = n /\ \A i \in 1 .. n : a[i] = q[i]
      BY <2>2
    <2>4. \A i \in 1 .. Len(a) : a[i] = B[i]
      BY <2>1, <2>3, <1>7
    <2> QED BY <2>2, <2>3, <2>4, <1>5, SeqEqual
  <1> HIDE DEF a, r
  <1>11. Flat(B) = s
    BY <1>3, <1>5, FlatSingles
  <1>12. b = s \o Flat(r) /\ Flat(r) \in Part
    <2>1. B \in Seq(Part) /\ r \in Seq(Part) /\ q = B \o r
      BY <1>5, <1>9, <1>10
    <2>2. Flat(B \o r) = Flat(B) \o Flat(r)
      BY ONLY <2>1, FlatParts
    <2>3. Flat(r) \in Part
      BY ONLY <2>1, FlatParts
    <2> QED BY <2>1, <2>2, <2>3, <1>2, <1>11
  <1>13. later = r \o w
    <2> DEFINE x == r \o w
    <2>1. x \in Seq(Part)
      BY <1>9, StreamConcat
    <2>2. (B \o r) \o w = B \o x
      <3>1. B \in Seq(Part) /\ r \in Seq(Part) /\ w \in Seq(Part)
        BY <1>5, <1>9
      <3> HIDE DEF B, r
      <3>2. Join(Join(B, r), w) = Join(B, Join(r, w))
        BY ONLY <3>1, JoinAssociative
      <3>3. (B \o r) \o w = B \o (r \o w)
        BY <3>2 DEF Join
      <3> QED BY <3>3 DEF x
    <2> HIDE DEF x
    <2>3. B \o later = B \o x
      BY <2>2, <1>1, <1>9, <1>10
    <2>4. SubSeq(B \o later, Len(B) + 1, Len(B \o later)) = later
      BY <1>5, SplitConcat
    <2>5. SubSeq(B \o x, Len(B) + 1, Len(B \o x)) = x
      BY <2>1, <1>5, SplitConcat
    <2> QED BY <2>3, <2>4, <2>5 DEF x
  <1> DEFINE y == Flat(r)
  <1>14. y \in Seq(Token)
    BY <1>12 DEF Part
  <1> HIDE DEF y
  <1>15. SubSeq(s \o y, 1, Len(s)) = s /\ SubSeq(s \o y, Len(s) + 1, Len(s \o y)) = y
    BY <1>3, <1>14, SplitConcat
  <1>16. b = s \o y
    BY <1>12 DEF y
  <1>17. SubSeq(b, 1, n) = s /\ SubSeq(b, n + 1, Len(b)) = y
    BY <1>3, <1>15, <1>16
  <1>18. Cut(y, w, <<>>, later)
    <2>1. y = <<>> \o Flat(r)
      BY <1>12, PartsConcat DEF y
    <2> QED BY <2>1, <1>9, <1>13 DEF Cut
  <1>19. y \in Part
    BY <1>14 DEF Part
  <1> QED BY <1>17, <1>18, <1>19 DEF s

-----------------------------------------------------------------------------
(* The initial states, and what the steps have in common.                  *)

\* The first of the parts that are read is the first that is sent.
LEMMA CutStart == \A w \in Seq(Part) : Cut(<<>>, w, <<>>, w)
  <1> SUFFICES ASSUME NEW w \in Seq(Part) PROVE Cut(<<>>, w, <<>>, w)
    OBVIOUS
  <1> DEFINE q == <<>>
  <1>1. q \in Seq(Part) /\ Flat(q) = <<>> /\ w = q \o w /\ <<>> = <<>> \o <<>>
    BY FlatEmpty, StreamConcat, PartsConcat
  <1> HIDE DEF q
  <1>2. \E p \in Seq(Part) : <<>> = <<>> \o Flat(p) /\ w = p \o w
    BY <1>1
  <1> QED BY <1>2 DEF Cut

\* A request that has not been started has its type.
LEMMA NewRequestType ==
    /\ NewRequest \in InRequest /\ NewRequest.status = "FIRSTLINE" /\ NewRequest.ntoread = 0
    /\ NewRequest.headers = <<>> /\ NewRequest.body = <<>>
  <1>1. <<>> \in [{} -> Int] /\ {} \in SUBSET Keys
    OBVIOUS
  <1>2. <<>> \in HeaderMap
    BY <1>1 DEF HeaderMap
  <1>3. <<>> \in Part
    BY PartsConcat
  <1> QED BY <1>2, <1>3 DEF NewRequest, InRequest

\* The empty line that is no field has its type.
LEMMA NoFieldType == NoField \in Token /\ NoField.sort = "none"
  <1>1. "none" \in Sorts /\ 0 \in Int
    BY DEF Sorts
  <1> QED BY <1>1, TokIsToken DEF NoField

\* A bounded sequence is a sequence.
LEMMA BoundedSequences == \A ms \in BoundedSeq(Messages, MaxMessages) : ms \in Seq(Messages)
  <1> SUFFICES ASSUME NEW ms \in BoundedSeq(Messages, MaxMessages) PROVE ms \in Seq(Messages)
    OBVIOUS
  <1>1. PICK n \in 0 .. MaxMessages : ms \in [1 .. n -> Messages]
    BY Zenon DEF BoundedSeq, SeqOf
  <1>2. n \in Nat
    BY MaxMessagesAssumption
  <1> QED BY <1>1, <1>2

\* The invariant holds at the start when the network cuts between lines.
LEMMA InitIInv == ASSUME ~Split PROVE Init => IInv
  <1> SUFFICES ASSUME Init PROVE IInv
    OBVIOUS
  <1>1. msgs \in Seq(Messages) /\ msgs # <<>>
    BY BoundedSequences DEF Init
  <1>2. Sent
    BY <1>1 DEF Sent, Init, KindResponse
  <1>3. /\ handled = <<>> /\ buf = <<>> /\ req = NewRequest /\ field = NoField /\ pc = "idle"
        /\ failed = "no"
    BY DEF Init
  <1>4. Number = 1
    BY <1>3 DEF Number
  <1>5. wire = From(Number) /\ From(Number) \in Seq(Part)
    <2>1. From(1) \in Seq(Part)
      <3>1. 1 \in 1 .. Len(msgs) + 1
        BY <1>1, LenProperties
      <3> QED BY <3>1, <1>1, FromSteps
    <2>2. SubSeq(msgs, 1, Len(msgs)) = msgs
      BY <1>1, SubSeqFull
    <2>3. wire = Stream(msgs)
      BY DEF Init, Wire
    <2> QED BY <1>4, <2>1, <2>2, <2>3 DEF From
  <1>6. Types
    <2>1. buf \in Part /\ handled \in Seq(Handed)
      BY <1>3, PartsConcat
    <2>2. TypeOK
      <3>1. req.status = "FIRSTLINE" /\ req.ntoread = 0 /\ field.sort = "none"
        BY <1>3, NoFieldType, NewRequestType, Zenon
      <3>2. /\ pc \in {"idle", "arrived", "parse", "more", "headers", "body", "chunks"}
            /\ failed \in {"no", "CORRUPTED", "thrown"}
        BY <1>3
      <3>3. req.status \in {"FIRSTLINE", "HEADERS", "BODY", "TRAILER"} /\ req.ntoread \in Int
        BY <3>1
      <3>4. field.sort \in Keys \cup {"none"} /\ req = NewRequest
        BY <3>1, <1>3
      <3> QED BY <3>2, <3>3, <3>4, Zenon DEF TypeOK
    <2> QED BY <2>1, <2>2, <1>3, <1>5, NoFieldType, NewRequestType DEF Types
  <1>7. Done
    BY <1>1, <1>3, LenProperties DEF Done
  <1>8. Reading
    <2>1. AtStart
      BY <1>3, <1>5, CutStart DEF AtStart
    <2> QED BY <2>1, <1>3, NewRequestType DEF Reading
  <1> QED BY <1>2, <1>3, <1>6, <1>7, <1>8 DEF IInv, RejectsOnlyMalformed

\* The message that is being read and what comes behind it.
LEMMA CurrentStream ==
    ASSUME Sent, Number \in 1 .. Len(msgs)
    PROVE  /\ Current \in Messages /\ Later \in Seq(Part)
           /\ From(Number) = Parts(Current) \o Later
           /\ Current.start \in Responses <=> KindResponse
  <1>1. msgs \in Seq(Messages) /\ Len(msgs) \in Nat
    BY LenProperties DEF Sent
  <1>2. Current \in Messages
    BY <1>1, ElementOfSeq DEF Current
  <1>3. Number + 1 \in 1 .. Len(msgs) + 1
    BY <1>1
  <1>4. Later \in Seq(Part)
    BY <1>1, <1>3, FromSteps DEF Later
  <1>5. From(Number) = Parts(Current) \o Later
    BY <1>1, FromSteps DEF Later, Current
  <1>6. DOMAIN msgs = 1 .. Len(msgs)
    BY <1>1, LenProperties
  <1> QED BY <1>2, <1>4, <1>5, <1>6 DEF Sent, Current

\* Behind the last message there is nothing.
LEMMA NumberIsNat ==
    ASSUME Sent, Types, Done
    PROVE  /\ Len(handled) \in Nat /\ Len(msgs) \in Nat /\ Number \in 1 .. Len(msgs) + 1
           /\ Number <= Len(msgs) => Number \in 1 .. Len(msgs)
           /\ Number = Len(msgs) + 1 => From(Number) = <<>>
  <1>1. Len(handled) \in Nat /\ Len(msgs) \in Nat /\ Len(handled) <= Len(msgs)
    BY LenProperties DEF Sent, Types, Done
  <1>2. Number = Len(handled) + 1
    BY DEF Number
  <1>3. From(Len(msgs) + 1) = <<>>
    BY FromSteps DEF Sent
  <1> QED BY <1>1, <1>2, <1>3

\* What a step leaves alone that neither sends nor hands over.
LEMMA Frame ==
    ASSUME Sent, Done, UNCHANGED <<msgs, handled>>
    PROVE  /\ Sent' /\ Done' /\ Number' = Number /\ Current' = Current /\ Later' = Later
           /\ KindResponse' = KindResponse /\ StartLines' = StartLines
           /\ From(Number)' = From(Number)
  <1>1. Sent'
    BY DEF Sent, KindResponse
  <1>2. Done'
    BY DEF Done
  <1>3. /\ Number' = Number /\ Current' = Current /\ Later' = Later
        /\ KindResponse' = KindResponse /\ StartLines' = StartLines
        /\ From(Number)' = From(Number)
    BY DEF Number, Current, Later, From, KindResponse, StartLines
  <1> QED BY <1>1, <1>2, <1>3

-----------------------------------------------------------------------------
(* The steps that take nothing from the buffer.                            *)

\* More arrives.
LEMMA DeliverIInv == ASSUME IInv, Deliver PROVE IInv'
  <1>1. /\ Types /\ Sent /\ Done /\ Reading /\ failed = "no" /\ wire # <<>>
        /\ pc \in {"idle", "arrived"} /\ pc' = "arrived" /\ buf' = buf \o Head(wire) /\ wire' = Tail(wire)
        /\ UNCHANGED <<msgs, req, field, handled, failed>>
    BY DEF IInv, Deliver
  <1>2. /\ Sent' /\ Done' /\ Number' = Number /\ Current' = Current /\ Later' = Later
        /\ StartLines' = StartLines /\ From(Number)' = From(Number)
    BY <1>1, Frame
  <1>3. wire \in Seq(Part) /\ buf \in Part
    BY <1>1 DEF Types
  <1>4. wire' \in Seq(Part) /\ buf' \in Part
    <2>1. Head(wire) \in Part /\ Tail(wire) \in Seq(Part)
      BY <1>1, <1>3, HeadTailProperties
    <2> QED BY <2>1, <1>1, <1>3, PartsConcat
  <1>5. Types'
    BY <1>1, <1>4 DEF Types, TypeOK
  <1>6. ASSUME NEW cur \in Part, NEW rest, Cut(buf, wire, cur, rest)
        PROVE  Cut(buf', wire', cur, rest)
    BY <1>1, <1>3, <1>6, CutDeliver
  <1>7. \A rest : Cut(buf, wire, <<>>, rest) => Cut(buf', wire', <<>>, rest)
    BY <1>6, PartsConcat
  <1>8. AtStart => AtStart'
    BY <1>1, <1>2, <1>7 DEF AtStart
  <1>9. InHeaders => InHeaders'
    <2> SUFFICES ASSUME InHeaders PROVE InHeaders'
      OBVIOUS
    <2>1. Started' /\ req'.body = <<>>
      BY <1>1, <1>2 DEF InHeaders, Started
    <2>2. CASE Current.more # <<>> /\ req.headers = <<>> /\ Cut(buf, wire, <<>>, AtMore(Current, Later))
      BY <2>1, <2>2, <1>1, <1>2, <1>7 DEF InHeaders
    <2>3. CASE /\ GoodMore(Current)
               /\ \E k \in 0 .. Len(Headers(Current)) :
                     /\ req.headers = Fields(Current, k)
                     /\ Cut(buf, wire, <<>>, AtHeader(Current, k, Later))
      BY <2>1, <2>3, <1>1, <1>2, <1>7 DEF InHeaders
    <2> QED BY <2>2, <2>3, <1>1 DEF InHeaders
  <1>10. InBody => InBody'
    <2> SUFFICES ASSUME InBody PROVE InBody'
      OBVIOUS
    <2>1. PastHeaders'
      BY <1>1, <1>2 DEF InBody, PastHeaders, Started
    <2>2. CASE Endless(Current)
      BY <2>1, <2>2, <1>1, <1>2 DEF InBody
    <2>3. CASE Current.chunks = <<>> /\ InLength
      <3>1. InLength'
        BY <2>3, <1>1, <1>2, <1>7 DEF InLength
      <3> QED BY <2>1, <2>3, <3>1, <1>1, <1>2 DEF InBody
    <2>4. ASSUME Current.chunks # <<>>,
                 NEW k \in 0 .. Len(Current.chunks), ChunksRead(k), InChunk(k)
          PROVE  InBody'
      <3>1. ChunksRead(k)'
        BY <2>4, <1>1, <1>2 DEF ChunksRead
      <3>2. InChunk(k)'
        BY <2>4, <1>1, <1>2, <1>7 DEF InChunk
      <3> QED BY <2>1, <2>4, <3>1, <3>2, <1>1, <1>2 DEF InBody
    <2> QED BY <2>2, <2>3, <2>4 DEF InBody
  <1>11. InTrailer => InTrailer'
    BY <1>1, <1>2, <1>7 DEF InTrailer, PastHeaders, Started, ChunksRead
  <1>12. Reading'
    BY <1>1, <1>8, <1>9, <1>10, <1>11 DEF Reading
  <1> QED BY <1>1, <1>2, <1>5, <1>12 DEF IInv, RejectsOnlyMalformed

\* Steps that change only where the parser is, or the length still to read.
LEMMA StillReading ==
    ASSUME IInv, failed = "no", UNCHANGED <<msgs, wire, buf, handled, failed>>,
           field' \in Token, field'.sort \in Keys \cup {"none"},
           pc' \in {"idle", "arrived", "parse", "more", "headers", "body", "chunks"},
           req' \in InRequest, req'.status # "FIRSTLINE" \/ req' = NewRequest,
           Reading'
    PROVE  IInv'
  <1>1. Types /\ Sent /\ Done
    BY DEF IInv
  <1>2. Sent' /\ Done'
    BY <1>1, Frame
  <1>3. req'.status \in {"FIRSTLINE", "HEADERS", "BODY", "TRAILER"} /\ req'.ntoread \in Int
    BY DEF InRequest
  <1>4. Types'
    BY <1>1, <1>3 DEF Types, TypeOK
  <1> QED BY <1>2, <1>4 DEF IInv, RejectsOnlyMalformed

\* The reader calls parse.
LEMMA CallIInv == ASSUME IInv, Call PROVE IInv'
  <1>1. /\ Types /\ Sent /\ Done
        /\ pc = "arrived" /\ pc' = "parse" /\ UNCHANGED <<msgs, wire, buf, req, field, handled, failed>>
    BY DEF IInv, Call
  <1>2. failed = "no" /\ Reading
    BY <1>1 DEF IInv
  <1>3. /\ Number' = Number /\ Current' = Current /\ Later' = Later
        /\ StartLines' = StartLines /\ From(Number)' = From(Number)
    BY <1>1, Frame
  <1>4. AtStart => AtStart'
    BY <1>1, <1>3 DEF AtStart
  <1>5. InHeaders => InHeaders'
    BY <1>1, <1>3 DEF InHeaders, Started
  <1>6. InBody => InBody'
    BY <1>1, <1>3 DEF InBody, PastHeaders, Started, InLength, InChunk, ChunksRead
  <1>7. InTrailer => InTrailer'
    BY <1>1, <1>3 DEF InTrailer, PastHeaders, Started, ChunksRead
  <1>8. Reading'
    BY <1>1, <1>2, <1>4, <1>5, <1>6, <1>7 DEF Reading
  <1> QED BY <1>1, <1>2, <1>8 DEF IInv, RejectsOnlyMalformed, Types, TypeOK, Sent, Done, KindResponse

\* The reader goes on when there is more in the buffer.
LEMMA MoreIInv == ASSUME IInv, More PROVE IInv'
  <1>1. /\ Types /\ Sent /\ Done
        /\ pc = "more" /\ pc' \in {"idle", "parse"} /\ UNCHANGED <<msgs, wire, buf, req, field, handled, failed>>
    BY DEF IInv, More, AfterRequest
  <1>2. failed = "no" /\ Reading
    BY <1>1 DEF IInv
  <1>3. Number' = Number /\ From(Number)' = From(Number)
    BY <1>1, Frame
  <1>4. req.status = "FIRSTLINE"
    BY <1>1, <1>2 DEF Reading, InHeaders, InBody, InTrailer, Types, TypeOK
  <1>5. AtStart'
    BY <1>1, <1>2, <1>3, <1>4 DEF AtStart, Reading
  <1>6. Reading'
    BY <1>1, <1>4, <1>5 DEF Reading
  <1> QED BY <1>1, <1>2, <1>6 DEF IInv, RejectsOnlyMalformed, Types, TypeOK, Sent, Done, KindResponse

\* parse continues in the headers or in the body.
LEMMA ResumeIInv == ASSUME IInv, Resume PROVE IInv'
  <1>1. /\ Types /\ Sent /\ Done
        /\ pc = "parse" /\ pc' = (IF req.status = "BODY" THEN "body" ELSE "headers") /\ field' = NoField
        /\ req.status # "FIRSTLINE" /\ UNCHANGED <<msgs, wire, buf, req, handled, failed>>
    BY DEF IInv, Resume
  <1>2. failed = "no" /\ Reading
    BY <1>1 DEF IInv
  <1>3. /\ Number' = Number /\ Current' = Current /\ Later' = Later
        /\ StartLines' = StartLines
    BY <1>1, Frame
  <1>4. req.status = "HEADERS" => InHeaders'
    BY <1>1, <1>2, <1>3 DEF InHeaders, Started, Reading
  <1>5. req.status = "BODY" => InBody'
    BY <1>1, <1>2, <1>3 DEF InBody, PastHeaders, Started, InLength, InChunk, ChunksRead, Reading
  <1>6. req.status = "TRAILER" => InTrailer'
    BY <1>1, <1>2, <1>3 DEF InTrailer, PastHeaders, Started, ChunksRead, Reading
  <1>7. Reading'
    BY <1>1, <1>4, <1>5, <1>6 DEF Reading
  <1>8. /\ req' \in InRequest /\ req'.status # "FIRSTLINE"
        /\ pc' \in {"idle", "arrived", "parse", "more", "headers", "body", "chunks"}
    BY <1>1 DEF Types
  <1> QED BY <1>1, <1>2, <1>7, <1>8, NoFieldType, StillReading

\* The data of the headers, or of the chunks, have come to their end.
LEMMA WaitIInv == ASSUME IInv, HeadersWait \/ ChunkWait PROVE IInv'
  <1>1. /\ Types /\ Sent /\ Done /\ pc \in {"headers", "chunks"} /\ pc' = "idle"
        /\ UNCHANGED <<msgs, wire, buf, req, field, handled, failed>>
        /\ buf # <<>> => pc = "chunks" /\ Len(buf) < req.ntoread
    BY DEF IInv, HeadersWait, ChunkWait, NeedMore
  <1>2. failed = "no" /\ Reading
    BY <1>1 DEF IInv
  <1>3. /\ Number' = Number /\ Current' = Current /\ Later' = Later
        /\ StartLines' = StartLines
    BY <1>1, Frame
  <1>4. req.status # "FIRSTLINE"
    BY <1>1, <1>2 DEF Reading, AtStart
  <1>5. ASSUME NEW a \in Part, a # <<>>, NEW rest, Cut(buf, wire, a, rest)
        PROVE  buf # <<>> /\ Len(a) <= Len(buf)
    <2>1. PICK q \in Seq(Part) : buf = a \o Flat(q)
      BY <1>5 DEF Cut
    <2>2. Flat(q) \in Seq(Token) /\ a \in Seq(Token)
      BY <2>1, FlatParts DEF Part
    <2>3. Len(buf) = Len(a) + Len(Flat(q)) /\ Len(Flat(q)) \in Nat /\ Len(a) \in Nat
      BY <2>1, <2>2, ConcatProperties, LenProperties
    <2>4. Len(a) # 0
      BY <2>2, <1>5, EmptySeq
    <2> QED BY <2>3, <2>4
  <1>6. req.status = "HEADERS" => InHeaders'
    <2> SUFFICES ASSUME req.status = "HEADERS" PROVE InHeaders'
      OBVIOUS
    <2>1. InHeaders /\ pc = "headers" /\ buf = <<>>
      BY <1>1, <1>2 DEF Reading, InHeaders
    <2>2. ASSUME NEW k \in 1 .. Len(Current.more) - 1, field = Current.more[1],
                 Cut(buf, wire, MoreRest(Current, k), AtHeader(Current, 0, Later))
          PROVE  FALSE
      <3> DEFINE t == Current.more[k + 1]
                 x == MoreRest(Current, k + 1)
      <3>1. Number \in 1 .. Len(msgs)
        BY <1>1, <2>1, NumberIsNat DEF InHeaders, Started
      <3>2. Current \in Messages
        BY <3>1, <1>1, CurrentStream
      <3>3. /\ Len(Current.more) \in Nat /\ k \in 0 .. Len(Current.more) - 1
            /\ k + 1 \in 1 .. Len(Current.more) /\ k + 1 \in 0 .. Len(Current.more)
        BY <3>2, MoreLines
      <3>4. t \in Token /\ x \in Part /\ MoreRest(Current, k) = (<<t>> \o Eol) \o x
        BY <3>2, <3>3, MoreLines
      <3> HIDE DEF t, x
      <3>5. Eol \in Seq(Token)
        BY EolProperties DEF Part
      <3>6. <<t>> \o Eol \in Seq(Token) /\ Len(<<t>> \o Eol) = 1 + Len(Eol)
        BY <3>4, <3>5, FirstOf
      <3> DEFINE y == <<t>> \o Eol
      <3>7. y \in Part /\ y # <<>> /\ Cut(buf, wire, y \o x, AtHeader(Current, 0, Later))
        BY <3>4, <3>6, <2>2, EolProperties DEF Part
      <3> HIDE DEF y
      <3>8. Len(y \o x) = Len(y) + Len(x) /\ y \o x \in Part /\ Len(y) \in Nat /\ Len(x) \in Nat
        BY <3>4, <3>7, ConcatProperties, LenProperties DEF Part
      <3>9. Len(y) # 0
        BY <3>7, EmptySeq DEF Part
      <3>10. y \o x # <<>>
        BY <3>8, <3>9
      <3> QED BY <3>7, <3>8, <3>10, <2>1, <1>5
    <2> QED BY <2>1, <2>2, <1>1, <1>3 DEF InHeaders, Started
  <1>7. req.status = "BODY" => InBody'
    <2> SUFFICES ASSUME req.status = "BODY" PROVE InBody'
      OBVIOUS
    <2>1. InBody /\ pc = "chunks"
      BY <1>1, <1>2 DEF Reading, InBody
    <2>2. PastHeaders' /\ Current.chunks # <<>>
      BY <2>1, <1>1, <1>3 DEF InBody, PastHeaders, Started, InLength
    <2>3. PICK k \in 0 .. Len(Current.chunks) : ChunksRead(k) /\ InChunk(k)
      BY <2>1, <2>2 DEF InBody
    <2>4. Cut(buf, wire, <<>>, AtChunk(Current, k, Later))
      <3> SUFFICES ASSUME req.ntoread > 0,
                          Cut(buf, wire, Bytes(Before(Current.chunks, k + 1), req.ntoread) \o Eol,
                              AtChunk(Current, k + 1, Later)),
                          k < Len(Current.chunks)
                   PROVE  FALSE
        BY <2>3 DEF InChunk
      <3> DEFINE s == Bytes(Before(Current.chunks, k + 1), req.ntoread)
      <3>1. Number \in 1 .. Len(msgs)
        BY <1>1, <2>1, NumberIsNat DEF InBody, PastHeaders, Started
      <3>2. Current.chunks \in Seq(Int)
        BY <3>1, <1>1, CurrentStream, MessageFields
      <3>3. Len(Current.chunks) \in Nat
        BY <3>2, LenProperties
      <3>4. Before(Current.chunks, k + 1) \in Int
        <4>1. k + 1 \in 1 .. Len(Current.chunks) + 1
          BY <3>3
        <4> QED BY <4>1, <3>2, BeforeIsNat
      <3>5. req.ntoread \in Int
        BY <1>1 DEF Types, TypeOK
      <3>6. s \in Part /\ Len(s) = req.ntoread
        BY <3>4, <3>5, BytesParts
      <3> HIDE DEF s
      <3>7. s \o Eol \in Part /\ Len(s \o Eol) = req.ntoread + 2
        <4>1. s \in Seq(Token) /\ Eol \in Seq(Token) /\ Len(Eol) = 2
          BY <3>6, EolProperties DEF Part
        <4>2. s \o Eol \in Seq(Token) /\ Len(s \o Eol) = Len(s) + Len(Eol)
          BY <4>1, ConcatProperties
        <4> QED BY <4>1, <4>2, <3>6 DEF Part
      <3>8. s \o Eol # <<>>
        BY <3>5, <3>7
      <3>9. buf # <<>> /\ Len(s \o Eol) <= Len(buf)
        BY <3>7, <3>8, <1>5 DEF s
      <3>10. Len(buf) \in Nat
        BY <1>1, LenProperties DEF Types, Part
      <3> QED BY <3>5, <3>7, <3>9, <3>10, <1>1
    <2>5. InChunk(k)' /\ ChunksRead(k)'
      BY <2>3, <2>4, <1>1, <1>3 DEF InChunk, ChunksRead
    <2> QED BY <2>2, <2>5, <1>1, <1>3 DEF InBody
  <1>8. req.status = "TRAILER" => InTrailer'
    BY <1>1, <1>2, <1>3 DEF InTrailer, PastHeaders, Started, ChunksRead, Reading
  <1>9. Reading'
    BY <1>1, <1>4, <1>6, <1>7, <1>8 DEF Reading
  <1> QED BY <1>1, <1>2, <1>9 DEF IInv, RejectsOnlyMalformed, Types, TypeOK, Sent, Done, KindResponse

-----------------------------------------------------------------------------
(* The steps that end a line, a message or everything.                     *)

\* A request is handed over, and the next is not started.
LEMMA AllReadIInv ==
    ASSUME IInv, failed = "no", UNCHANGED <<msgs, wire, field, failed>>, NEW body \in Part,
           handled' = Append(handled, [start |-> req.start, headers |-> req.headers, body |-> body]),
           req' = NewRequest, pc' = "more", buf' \in Part,
           Started, Cut(buf', wire, <<>>, Later), GoodMore(Current),
           ~Malformed(Current), ~Endless(Current), req.headers = AllFields(Current),
           body = BodyKept(Current)
    PROVE  IInv'
  <1> DEFINE h == [start |-> req.start, headers |-> req.headers, body |-> body]
             n == Len(handled)
  <1>1. Types /\ Sent /\ Done
    BY DEF IInv
  <1>2. /\ n \in Nat /\ Len(msgs) \in Nat /\ Number \in 1 .. Len(msgs) /\ Number = n + 1
        /\ n + 1 <= Len(msgs)
    BY <1>1, NumberIsNat DEF Started, Number
  <1>3. Current \in Messages /\ Current = msgs[n + 1]
    BY <1>1, <1>2, CurrentStream DEF Current
  <1>4. h \in Handed
    <2>1. req \in InRequest
      BY <1>1 DEF Types
    <2> QED BY <2>1 DEF Handed, InRequest
  <1>5. h.start = req.start /\ h.headers = req.headers /\ h.body = body
    OBVIOUS
  <1>6. handled \in Seq(Handed) /\ handled' = Append(handled, h)
    BY <1>1 DEF Types
  <1> HIDE DEF h
  <1>7. /\ handled' \in Seq(Handed) /\ Len(handled') = n + 1 /\ handled'[n + 1] = h
        /\ \A i \in 1 .. n : handled'[i] = handled[i]
    BY <1>4, <1>6, AppendProperties
  <1>8. Matches(h, Current)
    <2>1. AllFields(Current) = [k \in HeaderKeys(Current) |-> HeaderValue(Current, k)]
      BY <1>3, FieldsSteps
    <2>2. req.start = Current.start
      BY DEF Started
    <2> QED BY <2>1, <2>2, <1>5 DEF Matches
  <1>9. Done'
    <2>1. Len(handled') <= Len(msgs')
      BY <1>2, <1>7
    <2>2. DOMAIN handled' = 1 .. n + 1 /\ DOMAIN handled = 1 .. n
      BY <1>6, <1>7, LenProperties
    <2>3. ASSUME NEW i \in 1 .. n + 1
          PROVE  ~Malformed(msgs[i]) /\ ~Endless(msgs[i]) /\ Matches(handled'[i], msgs[i])
      <3>1. CASE i = n + 1
        BY <3>1, <1>3, <1>7, <1>8
      <3>2. CASE i # n + 1
        <4>1. i \in 1 .. n
          BY <3>2, <1>2
        <4>2. ~Malformed(msgs[i]) /\ ~Endless(msgs[i]) /\ Matches(handled[i], msgs[i])
          BY <4>1, <2>2, <1>1 DEF Done
        <4> QED BY <4>1, <4>2, <1>7
      <3> QED BY <3>1, <3>2
    <2> QED BY <2>1, <2>2, <2>3 DEF Done
  <1>10. Sent'
    BY <1>1 DEF Sent, KindResponse
  <1>11. Types'
    <2>1. /\ req'.status = "FIRSTLINE" /\ req'.ntoread = 0 /\ req' \in InRequest
      BY NewRequestType
    <2>2. TypeOK'
      <3>1. field' \in Token /\ field'.sort \in Keys \cup {"none"} /\ failed' = "no"
        BY <1>1 DEF Types, TypeOK
      <3> QED BY <2>1, <3>1 DEF TypeOK
    <2> QED BY <2>1, <2>2, <1>1, <1>7 DEF Types
  <1>12. Reading'
    <2>1. Number' = Number + 1
      BY <1>2, <1>7 DEF Number
    <2>2. From(Number)' = Later
      BY <2>1 DEF From, Later
    <2>3. AtStart'
      BY <2>2 DEF AtStart
    <2> QED BY <2>3, NewRequestType DEF Reading
  <1> QED BY <1>9, <1>10, <1>11, <1>12 DEF IInv, RejectsOnlyMalformed

\* parse gives up.
LEMMA RejectIInv ==
    ASSUME IInv, failed = "no", UNCHANGED <<msgs, wire, field, handled>>, pc' = "idle",
           failed' \in {"CORRUPTED", "thrown"}, buf' \in Part,
           req' \in InRequest, req'.status # "FIRSTLINE" \/ req' = NewRequest,
           Number <= Len(msgs), Malformed(Current),
           failed' = "thrown" => NaN \in {Current.length} \cup ToSet(Current.chunks)
    PROVE  IInv'
  <1>1. Types /\ Sent /\ Done
    BY DEF IInv
  <1>2. Sent' /\ Done'
    BY <1>1, Frame
  <1>3. req'.status \in {"FIRSTLINE", "HEADERS", "BODY", "TRAILER"} /\ req'.ntoread \in Int
    BY DEF InRequest
  <1>4. Types'
    BY <1>1, <1>3 DEF Types, TypeOK
  <1>5. Len(handled) < Len(msgs) /\ Current = msgs[Len(handled) + 1]
    <2>1. Len(handled) \in Nat /\ Len(msgs) \in Nat
      BY <1>1, NumberIsNat
    <2> QED BY <2>1 DEF Number, Current
  <1>6. RejectsOnlyMalformed'
    BY <1>5 DEF RejectsOnlyMalformed
  <1> QED BY <1>2, <1>4, <1>6 DEF IInv

\* A line has been taken, and more of the message is read.
LEMMA LineIInv ==
    ASSUME IInv, failed = "no", UNCHANGED <<msgs, wire, handled, failed>>, buf' \in Part,
           field' \in Token, field'.sort \in Keys \cup {"none"},
           pc' \in {"idle", "arrived", "parse", "more", "headers", "body", "chunks"},
           req' \in InRequest, req'.status # "FIRSTLINE", Reading'
    PROVE  IInv'
  <1>1. Types /\ Sent /\ Done
    BY DEF IInv
  <1>2. Sent' /\ Done'
    BY <1>1, Frame
  <1>3. req'.status \in {"FIRSTLINE", "HEADERS", "BODY", "TRAILER"} /\ req'.ntoread \in Int
    BY DEF InRequest
  <1>4. Types'
    BY <1>1, <1>3 DEF Types, TypeOK
  <1> QED BY <1>2, <1>4 DEF IInv, RejectsOnlyMalformed

\* The start line.
LEMMA FirstLineIInv == ASSUME IInv, FirstLine PROVE IInv'
  <1>1. /\ Types /\ Sent /\ Done /\ pc = "parse" /\ req.status = "FIRSTLINE" /\ Pop
        /\ UNCHANGED <<msgs, wire>>
    BY DEF IInv, FirstLine
  <1>2. failed = "no" /\ Reading /\ AtStart /\ req = NewRequest
    BY <1>1 DEF IInv, Reading, Types, TypeOK
  <1>3. buf \in Part /\ wire \in Seq(Part) /\ Cut(buf, wire, <<>>, From(Number))
    BY <1>1, <1>2 DEF Types, AtStart
  <1>4. CASE buf = <<>>
    <2>1. LineEnd = 0 /\ buf' = buf
      BY <1>1, <1>4, PopNothing
    <2>2. UNCHANGED <<msgs, wire, buf, req, field, handled, failed>> /\ pc' = "idle"
      BY <2>1, <1>1 DEF FirstLine, NeedMore
    <2>3. From(Number)' = From(Number)
      BY <2>2, <1>1, Frame
    <2>4. Reading'
      BY <2>2, <2>3, <1>1, <1>2 DEF Reading, AtStart
    <2> QED BY <2>2, <2>4, <1>1, <1>2 DEF IInv, RejectsOnlyMalformed, Types, TypeOK, Sent, Done, KindResponse
  <1>5. CASE buf # <<>>
    <2> DEFINE m == Current
               t == Tok(m.start, 0)
               rest == IF m.more # <<>> THEN AtMore(m, Later) ELSE AtHeader(m, 0, Later)
    <2>1. Number \in 1 .. Len(msgs) /\ Number <= Len(msgs)
      <3>1. Number # Len(msgs) + 1
        BY <1>1, <1>3, <1>5, NumberIsNat, CutEnd
      <3> QED BY <3>1, <1>1, NumberIsNat
    <2>2. /\ m \in Messages /\ Later \in Seq(Part) /\ From(Number) = Parts(m) \o Later
          /\ m.start \in Responses <=> KindResponse
      BY <2>1, <1>1, CurrentStream
    <2>3. From(Number) = <<<<t>> \o Eol>> \o rest
      BY <2>2, MessageStream
    <2>4. rest \in Seq(Part)
      <3>1. AtMore(m, Later) \in Seq(Part)
        BY <2>2, MessageStream
      <3>2. AtHeader(m, 0, Later) \in Seq(Part)
        <4>1. Len(Headers(m)) \in Nat
          BY <2>2, HeaderKinds, LenProperties DEF Part
        <4>2. 0 \in 0 .. Len(Headers(m))
          BY <4>1
        <4> QED BY <4>2, <2>2, HeaderStream
      <3> QED BY <3>1, <3>2
    <2>5. t \in Token /\ t.sort = m.start /\ t.sort \notin {"cr", "lf"}
      BY <2>2, StartIsToken
    <2> HIDE DEF rest, t
    <2>6. /\ LineEnd = 2 /\ Line = <<t>>
          /\ Pop => buf' \in Part /\ Cut(buf', wire, <<>>, rest)
      <3>1. Cut(buf, wire, <<>>, <<<<t>> \o Eol>> \o rest)
        BY <1>3, <2>3
      <3> QED BY <3>1, <2>4, <2>5, <1>3, <1>5, NextPartIsLine
    <2>7. buf' \in Part /\ Cut(buf', wire, <<>>, rest)
      BY <2>6, <1>1
    <2>8. \A s : Line = <<Tok(s, 0)>> <=> s = m.start
      <3>1. \A s : <<t>> = <<Tok(s, 0)>> <=> t = Tok(s, 0)
        OBVIOUS
      <3> QED BY <3>1, <2>6 DEF t, Tok
    <2>9. CASE m.start \in StartLines
      <3>1. /\ req' = [req EXCEPT !.status = "HEADERS", !.start = m.start]
            /\ pc' = "headers" /\ field' = NoField /\ UNCHANGED <<handled, failed>>
        <4>1. LineEnd \notin {0, 1}
          BY <2>6
        <4>2. \/ \E s \in StartLines :
                    /\ Line = <<Tok(s, 0)>> /\ req' = [req EXCEPT !.status = "HEADERS", !.start = s]
                    /\ pc' = "headers" /\ field' = NoField /\ UNCHANGED <<handled, failed>>
              \/ \A s \in StartLines : Line # <<Tok(s, 0)>>
          BY <4>1, Zenon DEF FirstLine
        <4> QED BY <4>2, <2>8, <2>9
      <3>2. /\ req' \in InRequest /\ req'.status = "HEADERS" /\ req'.start = m.start
            /\ req'.headers = <<>> /\ req'.body = <<>>
        <4>1. m.start \in Starts
          BY <2>2, MessageFields
        <4>2. req \in InRequest /\ req.headers = <<>> /\ req.body = <<>>
          BY <1>2, NewRequestType
        <4> QED BY <4>1, <4>2, <3>1 DEF InRequest
      <3>3. /\ Number' = Number /\ Current' = Current /\ Later' = Later
            /\ StartLines' = StartLines
        BY <3>1, <1>1, Frame
      <3>4. Started'
        BY <3>2, <3>3, <2>1, <2>9, <1>1 DEF Started
      <3>5. InHeaders'
        <4>1. CASE m.more # <<>>
          <5>1. Cut(buf', wire, <<>>, AtMore(m, Later))
            BY <4>1, <2>7 DEF rest
          <5> QED BY <4>1, <5>1, <3>1, <3>2, <3>3, <3>4, <1>1 DEF InHeaders
        <4>2. CASE m.more = <<>>
          <5>1. Cut(buf', wire, <<>>, AtHeader(m, 0, Later))
            BY <4>2, <2>7 DEF rest
          <5>2. GoodMore(m)
            BY <4>2 DEF GoodMore
          <5>3. req'.headers = Fields(m, 0)
            BY <4>2, <5>2, <2>2, <3>2, FieldsSteps
          <5>4. 0 \in 0 .. Len(Headers(m))
            BY <2>2, HeaderKinds, LenProperties DEF Part
          <5> QED BY <5>1, <5>2, <5>3, <5>4, <3>1, <3>2, <3>3, <3>4, <1>1 DEF InHeaders
        <4> QED BY <4>1, <4>2
      <3>6. Reading'
        BY <3>2, <3>5 DEF Reading
      <3> QED BY <3>1, <3>2, <3>6, <2>7, <1>1, <1>2, NoFieldType, LineIInv
    <2>10. CASE m.start \notin StartLines
      <3>1. /\ failed' = "CORRUPTED" /\ pc' = "idle" /\ UNCHANGED <<handled, req, field>>
        <4>1. LineEnd \notin {0, 1}
          BY <2>6
        <4>2. \/ \E s \in StartLines : Line = <<Tok(s, 0)>>
              \/ Corrupted /\ UNCHANGED <<req, field>>
          BY <4>1, Zenon DEF FirstLine
        <4> QED BY <4>2, <2>8, <2>10 DEF Corrupted
      <3>2. m.start \notin Requests \cup Responses
        BY <2>2, <2>10 DEF StartLines
      <3>3. Malformed(m)
        BY <3>2 DEF Malformed
      <3>4. req' \in InRequest /\ req' = NewRequest
        BY <3>1, <1>2, NewRequestType
      <3> QED BY <3>1, <3>3, <3>4, <2>1, <2>7, <1>1, <1>2, RejectIInv
    <2> QED BY <2>9, <2>10
  <1> QED BY <1>4, <1>5

-----------------------------------------------------------------------------
(* The lines of the headers.                                               *)

\* The next line is the user's, a line folded behind it, a header, the blank
\* line behind the headers, or the one behind the chunks.
AtMoreLine ==
    /\ req.status = "HEADERS" /\ Current.more # <<>> /\ req.headers = <<>> /\ field = NoField
    /\ LineEnd = 2 /\ Line = <<Current.more[1]>>
    /\ Pop => /\ buf' \in Part
              /\ Cut(buf', wire, MoreRest(Current, 1), AtHeader(Current, 0, Later))
AtFoldedLine(k) ==
    /\ req.status = "HEADERS" /\ GoodMore(Current) /\ field = Current.more[1]
    /\ req.headers = [s \in {"Extra"} |-> FoldedValue(Current, k)]
    /\ LineEnd = 2 /\ Line = <<Current.more[k + 1]>>
    /\ Pop => buf' \in Part /\ Cut(buf', wire, MoreRest(Current, k + 1), AtHeader(Current, 0, Later))
AtHeaderLine(k) ==
    /\ req.status = "HEADERS" /\ GoodMore(Current) /\ req.headers = Fields(Current, k)
    /\ LineEnd = 2 /\ Line = <<Headers(Current)[k + 1]>>
    /\ Pop => buf' \in Part /\ Cut(buf', wire, <<>>, AtHeader(Current, k + 1, Later))
AtBlankLine ==
    /\ req.status = "HEADERS" /\ GoodMore(Current) /\ req.headers = AllFields(Current)
    /\ LineEnd = 1
    /\ Pop => buf' \in Part /\ Cut(buf', wire, <<>>, BodyParts(Current) \o Later)
AtTrailerLine ==
    /\ req.status = "TRAILER" /\ InTrailer
    /\ LineEnd = 1
    /\ Pop => buf' \in Part /\ Cut(buf', wire, <<>>, Later)

\* One of them is next.
LEMMA NextHeaderLine ==
    ASSUME IInv, pc = "headers", buf # <<>>
    PROVE  /\ failed = "no" /\ Started /\ Number \in 1 .. Len(msgs)
           /\ Current \in Messages /\ Later \in Seq(Part)
           /\ req.status = "HEADERS" => req.body = <<>>
           /\ \/ AtMoreLine \/ AtBlankLine \/ AtTrailerLine
              \/ \E k \in 1 .. Len(Current.more) - 1 : AtFoldedLine(k)
              \/ \E k \in 0 .. Len(Headers(Current)) - 1 : AtHeaderLine(k)
  <1>1. Types /\ Sent /\ Done /\ Reading /\ failed = "no"
    BY DEF IInv
  <1>2. buf \in Part /\ wire \in Seq(Part)
    BY <1>1 DEF Types
  <1>3. \/ req.status = "HEADERS" /\ InHeaders
        \/ req.status = "TRAILER" /\ InTrailer
    <2>1. req.status \in {"FIRSTLINE", "HEADERS", "BODY", "TRAILER"}
      BY <1>1 DEF Types, TypeOK
    <2>2. ~ AtStart /\ ~ InBody
      BY DEF AtStart, InBody
    <2> QED BY <2>1, <2>2, <1>1 DEF Reading
  <1>4. Started
    BY <1>3 DEF InHeaders, InTrailer, PastHeaders
  <1>5. Number \in 1 .. Len(msgs)
    BY <1>1, <1>4, NumberIsNat DEF Started
  <1>6. Current \in Messages /\ Later \in Seq(Part)
    BY <1>1, <1>5, CurrentStream
  <1> DEFINE m == Current
             n == Len(Headers(m))
  <1>7. n \in Nat
    BY <1>6, HeaderKinds, LenProperties DEF Part
  <1>8. AtHeader(m, 0, Later) \in Seq(Part)
    <2>1. 0 \in 0 .. n
      BY <1>7
    <2> QED BY <2>1, <1>6, HeaderStream
  <1>9. CASE req.status = "TRAILER" /\ InTrailer
    <2>1. Cut(buf, wire, <<>>, <<Eol>> \o Later)
      BY <1>9 DEF InTrailer
    <2>2. AtTrailerLine
      BY <2>1, <1>2, <1>6, <1>9, NextPartIsBlank DEF AtTrailerLine
    <2> QED BY <2>2, <1>1, <1>4, <1>5, <1>6, <1>9
  <1>10. CASE /\ req.status = "HEADERS" /\ m.more # <<>> /\ req.headers = <<>>
              /\ field = NoField /\ Cut(buf, wire, <<>>, AtMore(m, Later))
    <2> DEFINE p == Flat(Lines(m.more))
               c == MoreRest(m, 1)
               t == m.more[1]
    <2>1. p \in Part /\ AtMore(m, Later) = <<p>> \o AtHeader(m, 0, Later)
      BY <1>6, MessageStream
    <2>2. Cut(buf, wire, p, AtHeader(m, 0, Later))
      <3> HIDE DEF p
      <3> QED BY <2>1, <1>2, <1>8, <1>10, CutTake
    <2>3. t \in Token /\ t.sort \in {"Extra", "folded", "colonless"} /\ c \in Part /\ p = (<<t>> \o Eol) \o c
      <3>1. Len(m.more) \in Nat /\ Len(m.more) > 0
        BY <1>6, <1>10, MoreLines
      <3>2. 0 \in 0 .. Len(m.more) - 1 /\ 0 + 1 = 1 /\ 1 \in 1 .. Len(m.more) /\ 1 \in 0 .. Len(m.more)
        BY <3>1
      <3>3. MoreRest(m, 0) = (<<m.more[0 + 1]>> \o Eol) \o MoreRest(m, 0 + 1) /\ MoreRest(m, 0) = p
        BY <3>2, <1>6, MoreLines
      <3> QED BY <3>2, <3>3, <1>6, <1>10, MoreLines
    <2>4. t.sort \notin {"cr", "lf"}
      BY <2>3
    <2> HIDE DEF p, c, t
    <2>5. LineEnd = 2 /\ Line = <<t>> /\ (Pop => buf' \in Part /\ Cut(buf', wire, c, AtHeader(m, 0, Later)))
      <3>1. Cut(buf, wire, (<<t>> \o Eol) \o c, AtHeader(m, 0, Later))
        BY <2>2, <2>3
      <3> QED BY <3>1, <2>3, <2>4, NextLine
    <2>6. AtMoreLine
      BY <2>5, <1>10 DEF AtMoreLine, t, c
    <2> QED BY <2>6, <1>1, <1>3, <1>4, <1>5, <1>6, <1>10 DEF InHeaders
  <1>11. ASSUME req.status = "HEADERS", GoodMore(m), field = m.more[1], NEW k \in 1 .. Len(m.more) - 1,
                req.headers = [s \in {"Extra"} |-> FoldedValue(m, k)],
                Cut(buf, wire, MoreRest(m, k), AtHeader(m, 0, Later))
         PROVE  AtFoldedLine(k)
    <2> DEFINE t == m.more[k + 1]
               c == MoreRest(m, k + 1)
    <2>1. /\ Len(m.more) \in Nat /\ k \in 0 .. Len(m.more) - 1 /\ k + 1 > 1
          /\ k + 1 \in 1 .. Len(m.more) /\ k + 1 \in 0 .. Len(m.more)
      BY <1>6, MoreLines
    <2>2. t \in Token /\ t.sort = "folded" /\ c \in Part /\ MoreRest(m, k) = (<<t>> \o Eol) \o c
      BY <2>1, <1>6, MoreLines
    <2>3. t.sort \notin {"cr", "lf"}
      BY <2>2
    <2> HIDE DEF t, c
    <2>4. Cut(buf, wire, (<<t>> \o Eol) \o c, AtHeader(m, 0, Later))
      BY <2>2, <1>11
    <2>5. LineEnd = 2 /\ Line = <<t>> /\ (Pop => buf' \in Part /\ Cut(buf', wire, c, AtHeader(m, 0, Later)))
      BY <2>2, <2>3, <2>4, NextLine
    <2> QED BY <2>5, <1>11 DEF AtFoldedLine, t, c
  <1>12. CASE /\ req.status = "HEADERS" /\ GoodMore(m)
              /\ \E k \in 0 .. n :
                    /\ req.headers = Fields(m, k)
                    /\ Cut(buf, wire, <<>>, AtHeader(m, k, Later))
    <2>1. PICK k \in 0 .. n : req.headers = Fields(m, k) /\ Cut(buf, wire, <<>>, AtHeader(m, k, Later))
      BY <1>12
    <2>2. CASE k = n
      <3>1. Cut(buf, wire, <<>>, <<Eol>> \o (BodyParts(m) \o Later)) /\ BodyParts(m) \o Later \in Seq(Part)
        BY <2>1, <2>2, <1>6, HeaderStream, BlankStream
      <3> DEFINE rest == BodyParts(m) \o Later
      <3> HIDE DEF rest
      <3>2. Cut(buf, wire, <<>>, <<Eol>> \o rest) /\ rest \in Seq(Part)
        BY <3>1 DEF rest
      <3>3. LineEnd = 1 /\ (Pop => buf' \in Part /\ Cut(buf', wire, <<>>, rest))
        BY <3>2, <1>2, NextPartIsBlank
      <3>4. AtBlankLine
        BY <3>3, <2>1, <2>2, <1>12 DEF AtBlankLine, AllFields, rest
      <3> QED BY <3>4, <1>1, <1>3, <1>4, <1>5, <1>6, <1>12 DEF InHeaders
    <2>3. CASE k # n
      <3> DEFINE t == Headers(m)[k + 1]
                 rest == AtHeader(m, k + 1, Later)
      <3>1. k \in 0 .. n - 1 /\ k + 1 \in 0 .. n /\ k + 1 \in 1 .. n
        BY <2>3, <1>7
      <3>2. AtHeader(m, k, Later) = <<<<t>> \o Eol>> \o rest /\ rest \in Seq(Part)
        BY <3>1, <1>6, HeaderStream
      <3>3. t \in Token /\ t.sort \in Keys \ {"Extra"}
        BY <3>1, <1>6, HeaderKinds
      <3>4. t.sort \notin {"cr", "lf"}
        BY <3>3 DEF Keys
      <3> HIDE DEF t, rest
      <3>5. Cut(buf, wire, <<>>, <<<<t>> \o Eol>> \o rest)
        BY <3>2, <2>1
      <3>6. LineEnd = 2 /\ Line = <<t>> /\ (Pop => buf' \in Part /\ Cut(buf', wire, <<>>, rest))
        BY <3>2, <3>3, <3>4, <3>5, <1>2, NextPartIsLine
      <3>7. AtHeaderLine(k)
        BY <3>6, <2>1, <1>12 DEF AtHeaderLine, t, rest
      <3> QED BY <3>1, <3>7, <1>1, <1>3, <1>4, <1>5, <1>6, <1>12 DEF InHeaders
    <2> QED BY <2>2, <2>3
  <1>13. CASE req.status = "HEADERS" /\ InHeaders
    <2>1. req.body = <<>>
      BY <1>13 DEF InHeaders
    <2>2. ASSUME GoodMore(m), field = m.more[1],
                 \E k \in 1 .. Len(m.more) - 1 :
                    /\ req.headers = [s \in {"Extra"} |-> FoldedValue(m, k)]
                    /\ Cut(buf, wire, MoreRest(m, k), AtHeader(m, 0, Later))
          PROVE  \E k \in 1 .. Len(m.more) - 1 : AtFoldedLine(k)
      BY <2>2, <1>11, <1>13
    <2> QED BY <2>1, <2>2, <1>1, <1>4, <1>5, <1>6, <1>10, <1>12, <1>13 DEF InHeaders
  <1> QED BY <1>3, <1>9, <1>13

\* The requests and responses are those that parse takes.
LEMMA StartLinesKnown == \A s \in StartLines : s \in Requests \cup Responses
  BY DEF StartLines

\* A message of which all headers are good and no chunk is negative is not malformed.
LEMMA NotMalformed ==
    ASSUME NEW m \in Messages, m.start \in Requests \cup Responses, GoodMore(m),
           m.start \in Bodiless \/ ~ (m.length < 0) \/ m.length = Absent,
           \A i \in DOMAIN m.chunks : ~ (m.chunks[i] < 0)
    PROVE  ~Malformed(m)
  BY DEF Malformed, GoodMore

\* The bodies that parse has when it returns at the end of the headers.
LEMMA NoBody ==
    ASSUME NEW m \in Messages, m.chunks = <<>>, m.body = 0
    PROVE  BodyKept(m) = <<>> /\ BodyParts(m) = <<>>
  <1>1. BodyParts(m) = <<>>
    BY DEF BodyParts
  <1> QED BY <1>1, BodySteps

\* The end of the headers, or of the lines behind the chunks.
LEMMA HeadersEndIInv == ASSUME IInv, HeadersEnd PROVE IInv'
  <1>1. /\ pc = "headers" /\ buf # <<>> /\ LineEnd \in {0, 1} /\ Pop /\ UNCHANGED <<msgs, wire, field>>
    BY DEF HeadersEnd
  <1>2. \/ /\ req.start \in Bodiless \/ req.status = "TRAILER"
           /\ AllRead(req.body)
        \/ /\ req.start \notin Bodiless /\ req.status = "HEADERS"
           /\ req' = [req EXCEPT !.status = "BODY"]
           /\ pc' = "body"
           /\ UNCHANGED <<handled, failed>>
    BY DEF HeadersEnd
  <1> DEFINE m == Current
  <1>3. /\ failed = "no" /\ Started /\ Number \in 1 .. Len(msgs) /\ m \in Messages /\ Later \in Seq(Part)
        /\ req.status = "HEADERS" => req.body = <<>>
    BY <1>1, NextHeaderLine
  <1>4. AtBlankLine \/ AtTrailerLine
    <2>1. LineEnd # 2
      BY <1>1
    <2>2. \/ AtMoreLine \/ AtBlankLine \/ AtTrailerLine
          \/ \E k \in 1 .. Len(m.more) - 1 : AtFoldedLine(k)
          \/ \E k \in 0 .. Len(Headers(m)) - 1 : AtHeaderLine(k)
      BY <1>1, NextHeaderLine
    <2> QED BY <2>1, <2>2 DEF AtMoreLine, AtFoldedLine, AtHeaderLine
  <1>5. req.start = m.start /\ m.start \in Requests \cup Responses /\ Types /\ Sent /\ Done
    BY <1>3, StartLinesKnown DEF Started, IInv
  <1>6. req \in InRequest /\ req.body \in Part
    BY <1>5 DEF Types, InRequest
  <1>7. m.body \in Nat /\ m.chunks \in Seq(Int) /\ m.length \in Int /\ Sendable(m)
    BY <1>3, MessageFields
  <1>8. CASE AtTrailerLine
    <2>1. AllRead(req.body) /\ InTrailer /\ buf' \in Part /\ Cut(buf', wire, <<>>, Later)
      BY <1>1, <1>2, <1>8 DEF AtTrailerLine
    <2>2. m.chunks # <<>> /\ ChunksRead(Len(m.chunks)) /\ PastHeaders
      BY <2>1 DEF InTrailer
    <2>3. ~Endless(m)
      BY <2>2 DEF Endless
    <2>4. m.body = 0 /\ (~ (m.length < 0) \/ m.length = Absent)
      BY <2>2, <1>7 DEF Sendable
    <2>5. \A i \in DOMAIN m.chunks : ~ (m.chunks[i] < 0)
      <3>1. DOMAIN m.chunks = 1 .. Len(m.chunks) /\ \A i \in 1 .. Len(m.chunks) : m.chunks[i] \in Int
        BY <1>7, LenProperties, ElementOfSeq
      <3>2. \A i \in 1 .. Len(m.chunks) : m.chunks[i] > 0
        BY <2>2 DEF ChunksRead
      <3> QED BY <3>1, <3>2
    <2>6. ~Malformed(m)
      BY <2>2, <2>4, <2>5, <1>3, <1>5, NotMalformed DEF PastHeaders
    <2>7. req.body = BodyKept(m)
      BY <2>2, <1>3, BodySteps DEF ChunksRead
    <2> QED BY <2>1, <2>2, <2>3, <2>6, <2>7, <1>1, <1>3, <1>6, AllReadIInv DEF AllRead, NextRequest, PastHeaders
  <1>9. CASE AtBlankLine
    <2>1. /\ req.status = "HEADERS" /\ GoodMore(m) /\ req.headers = AllFields(m) /\ req.body = <<>>
          /\ buf' \in Part /\ Cut(buf', wire, <<>>, BodyParts(m) \o Later)
      BY <1>1, <1>3, <1>9 DEF AtBlankLine
    <2>2. CASE m.start \in Bodiless
      <3>1. AllRead(req.body)
        BY <2>1, <2>2, <1>2, <1>5
      <3>2. m.body = 0 /\ m.chunks = <<>>
        BY <2>2, <1>7 DEF Sendable
      <3>3. Cut(buf', wire, <<>>, Later)
        BY <2>1, <3>2, <1>3, NoBody, StreamConcat
      <3>4. req.body = BodyKept(m)
        BY <2>1, <3>2, <1>3, NoBody
      <3>5. ~Endless(m)
        BY <2>2 DEF Endless
      <3>6. ~Malformed(m)
        BY <2>1, <2>2, <3>2, <1>3, <1>5, NotMalformed
      <3> QED BY <2>1, <3>1, <3>3, <3>4, <3>5, <3>6, <1>1, <1>3, <1>6, AllReadIInv DEF AllRead, NextRequest
    <2>3. CASE m.start \notin Bodiless
      <3>1. /\ req' = [req EXCEPT !.status = "BODY"] /\ pc' = "body" /\ UNCHANGED <<handled, failed>>
        BY <2>1, <2>3, <1>2, <1>5
      <3>2. /\ req' \in InRequest /\ req'.status = "BODY" /\ req'.start = req.start
            /\ req'.headers = req.headers /\ req'.body = <<>>
        BY <3>1, <2>1, <1>6 DEF InRequest
      <3>3. /\ Number' = Number /\ Current' = Current /\ Later' = Later
            /\ StartLines' = StartLines
        BY <3>1, <1>1, <1>5, Frame
      <3>4. PastHeaders'
        BY <3>2, <3>3, <2>1, <2>3, <1>1, <1>3 DEF PastHeaders, Started
      <3>5. ASSUME m.chunks = <<>> /\ m.length = Absent PROVE InBody'
        BY <3>1, <3>3, <3>4, <3>5, <2>3 DEF InBody, Endless
      <3>6. ASSUME m.chunks = <<>> /\ m.length # Absent PROVE InBody'
        <4>1. InLength'
          BY <3>1, <3>2, <3>3, <3>6, <2>1, <1>1 DEF InLength
        <4> QED BY <3>1, <3>3, <3>4, <3>6, <4>1 DEF InBody
      <3>7. ASSUME m.chunks # <<>> PROVE InBody'
        <4>1. Cut(buf', wire, <<>>, AtChunk(m, 0, Later))
          BY <2>1, <3>7, <1>3, ChunkStream
        <4>2. InChunk(0)'
          BY <4>1, <3>1, <3>3, <1>1 DEF InChunk
        <4>3. ChunksRead(0)'
          <5>1. req'.body = BodyOf(m, 0)
            BY <3>2, <1>3, BodySteps
          <5> QED BY <5>1, <3>3 DEF ChunksRead
        <4>4. 0 \in 0 .. Len(m.chunks)
          BY <1>7, LenProperties
        <4> QED BY <3>1, <3>3, <3>4, <3>7, <4>2, <4>3, <4>4 DEF InBody
      <3>8. Reading'
        BY <3>2, <3>5, <3>6, <3>7 DEF Reading
      <3>9. field \in Token /\ field.sort \in Keys \cup {"none"}
        BY <1>5 DEF Types, TypeOK
      <3> QED BY <3>1, <3>2, <3>8, <3>9, <2>1, <1>1, <1>3, LineIInv
    <2> QED BY <2>2, <2>3
  <1> QED BY <1>4, <1>8, <1>9

\* A header is put in the map.
LEMMA HeaderIInv == ASSUME IInv, Header PROVE IInv'
  <1>1. /\ pc = "headers" /\ LineEnd > 1 /\ IsHeader /\ Pop
        /\ req' = Put(Line[1].sort, Line[1].n) /\ field' = Line[1]
        /\ UNCHANGED <<msgs, wire, pc, handled, failed>>
    BY DEF Header
  <1> DEFINE m == Current
             n == Len(Headers(m))
             t == Line[1]
  <1>2. buf # <<>>
    BY <1>1, PopNothing
  <1>3. /\ failed = "no" /\ Started /\ Number \in 1 .. Len(msgs) /\ m \in Messages /\ Later \in Seq(Part)
        /\ req.status = "HEADERS" => req.body = <<>>
    BY <1>1, <1>2, NextHeaderLine
  <1>4. /\ Types /\ Sent /\ Done
    BY DEF IInv
  <1>5. /\ Number' = Number /\ Current' = Current /\ Later' = Later /\ StartLines' = StartLines
    BY <1>1, <1>4, Frame
  <1>6. n \in Nat
    BY <1>3, HeaderKinds, LenProperties DEF Part
  <1>7. \A u : <<u>>[1] = u /\ Len(<<u>>) = 1
    OBVIOUS
  <1>8. t.sort \in Keys
    BY <1>1 DEF IsHeader
  <1>9. req \in InRequest
    BY <1>4 DEF Types
  <1>10. /\ req'.status = req.status /\ req'.start = req.start /\ req'.body = req.body
         /\ req'.headers = [k \in {t.sort} \cup DOMAIN req.headers |->
                               IF k = t.sort THEN t.n ELSE req.headers[k]]
    BY <1>1, <1>9 DEF Put, InRequest
  <1>11. ASSUME req'.headers \in HeaderMap PROVE req' \in InRequest
    BY <1>1, <1>9, <1>11 DEF Put, InRequest
  <1>12. Started'
    BY <1>1, <1>3, <1>5, <1>10 DEF Started
  <1>13. ASSUME req.status = "HEADERS", InHeaders', t \in Token,
                buf' \in Part, req'.headers \in HeaderMap
         PROVE  IInv'
    <2>1. Reading'
      BY <1>10, <1>13 DEF Reading
    <2> QED BY <2>1, <1>1, <1>3, <1>8, <1>10, <1>11, <1>13, LineIInv
  <1>14. CASE AtMoreLine
    <2>1. /\ req.status = "HEADERS" /\ m.more # <<>> /\ req.headers = <<>> /\ t = m.more[1]
          /\ buf' \in Part
          /\ Cut(buf', wire, MoreRest(m, 1), AtHeader(m, 0, Later))
      BY <1>1, <1>7, <1>14 DEF AtMoreLine
    <2>2. /\ t \in Token /\ t.sort = "Extra" /\ Len(m.more) \in Nat /\ Len(m.more) > 0
      <3>1. Len(m.more) \in Nat /\ Len(m.more) > 0 /\ t.sort \in {"Extra", "folded", "colonless"}
        BY <2>1, <1>3, MoreLines
      <3>2. 1 \in 1 .. Len(m.more)
        BY <3>1
      <3>3. t \in Token
        BY <3>2, <2>1, <1>3, MoreLines
      <3> QED BY <3>1, <3>3, <1>8 DEF Keys
    <2>3. GoodMore(m)
      BY <2>1, <2>2 DEF GoodMore
    <2>4. req'.headers = [k \in {"Extra"} |-> t.n]
      <3>1. DOMAIN req.headers = {}
        BY <2>1
      <3> QED BY <3>1, <2>2, <1>10
    <2>5. req'.headers \in HeaderMap
      <3>1. t.n \in Int /\ {"Extra"} \in SUBSET Keys
        BY <2>2 DEF Token, Keys
      <3>2. [k \in {"Extra"} |-> t.n] \in [{"Extra"} -> Int]
        BY <3>1
      <3> QED BY <3>1, <3>2, <2>4 DEF HeaderMap
    <2>6. InHeaders'
      <3>1. CASE Len(m.more) = 1
        <4>1. req'.headers = Fields(m, 0)
          <5>1. HeaderValue(m, "Extra") = t.n
            BY <2>1, <2>3, <3>1, <1>3, HeaderValues DEF FoldedValue
          <5> QED BY <5>1, <2>1, <2>3, <2>4, <1>3, FieldsSteps
        <4>2. 0 \in 0 .. n
          BY <1>6
        <4>3. Cut(buf', wire, <<>>, AtHeader(m, 0, Later))
          BY <2>1, <3>1, <1>3, MoreLines
        <4> QED BY <4>1, <4>2, <4>3, <2>1, <2>3, <1>1, <1>3, <1>5, <1>10, <1>12 DEF InHeaders
      <3>2. CASE Len(m.more) > 1
        <4>1. 1 \in 1 .. Len(m.more) - 1
          BY <2>2, <3>2
        <4>2. field' = m.more[1] /\ req'.headers = [s \in {"Extra"} |-> FoldedValue(m, 1)]
          BY <2>1, <2>4, <1>1 DEF FoldedValue
        <4> QED BY <4>1, <4>2, <2>1, <2>3, <1>1, <1>3, <1>5, <1>10, <1>12 DEF InHeaders
      <3>3. Len(m.more) = 1 \/ Len(m.more) > 1
        <4>1. \A x \in Nat : x > 0 => x = 1 \/ x > 1
          OBVIOUS
        <4> QED BY <4>1, <2>2, Zenon
      <3> QED BY <3>1, <3>2, <3>3
    <2> QED BY <2>1, <2>2, <2>5, <2>6, <1>13
  <1>15. ASSUME NEW k \in 1 .. Len(m.more) - 1, AtFoldedLine(k) PROVE FALSE
    <2>1. t = m.more[k + 1]
      BY <1>7, <1>15 DEF AtFoldedLine
    <2>2. k + 1 \in 1 .. Len(m.more) /\ k + 1 > 1
      BY <1>3, MoreLines
    <2>3. t.sort = "folded"
      BY <2>1, <2>2, <1>3, MoreLines
    <2> QED BY <2>3, <1>8 DEF Keys
  <1>16. CASE AtBlankLine \/ AtTrailerLine
    BY <1>1, <1>16 DEF AtBlankLine, AtTrailerLine
  <1>17. ASSUME NEW k \in 0 .. n - 1, AtHeaderLine(k) PROVE IInv'
    <2>1. /\ req.status = "HEADERS" /\ GoodMore(m) /\ req.headers = Fields(m, k) /\ t = Headers(m)[k + 1]
          /\ buf' \in Part /\ Cut(buf', wire, <<>>, AtHeader(m, k + 1, Later))
      BY <1>1, <1>7, <1>17 DEF AtHeaderLine
    <2>2. k + 1 \in 1 .. n /\ k + 1 \in 0 .. n
      BY <1>6
    <2>3. t \in Token
      BY <2>1, <2>2, <1>3, HeaderKinds
    <2>4. req'.headers = Fields(m, k + 1)
      <3> DEFINE u == Headers(m)[k + 1]
      <3>1. Fields(m, k + 1) = [s \in {u.sort} \cup DOMAIN Fields(m, k) |->
                                   IF s = u.sort THEN u.n ELSE Fields(m, k)[s]]
        BY <2>1, <1>3, FieldsSteps
      <3>2. t = u /\ req.headers = Fields(m, k)
        BY <2>1
      <3> HIDE DEF t, u
      <3> QED BY <3>1, <3>2, <1>10
    <2>5. req'.headers \in HeaderMap
      BY <2>1, <2>2, <2>4, <1>3, FieldsAreMaps
    <2>6. InHeaders'
      BY <2>1, <2>2, <2>4, <1>1, <1>3, <1>5, <1>10, <1>12 DEF InHeaders
    <2> QED BY <2>1, <2>3, <2>5, <2>6, <1>13
  <1> QED BY <1>1, <1>2, <1>14, <1>15, <1>16, <1>17, NextHeaderLine

\* A line that is folded behind a header.
LEMMA FoldedHeaderIInv == ASSUME IInv, FoldedHeader PROVE IInv'
  <1>1. /\ pc = "headers" /\ LineEnd > 1 /\ IsFolded /\ Pop /\ UNCHANGED <<msgs, wire, field>>
    BY DEF FoldedHeader
  <1>2. \/ /\ field # NoField
           /\ req' = Put(field.sort, 10 * field.n + Line[1].n)
           /\ UNCHANGED <<pc, handled, failed>>
        \/ /\ field = NoField
           /\ Corrupted
           /\ UNCHANGED req
    BY DEF FoldedHeader
  <1> DEFINE m == Current
             n == Len(Headers(m))
             t == Line[1]
  <1>3. buf # <<>>
    BY <1>1, PopNothing
  <1>4. /\ failed = "no" /\ Started /\ Number \in 1 .. Len(msgs) /\ m \in Messages /\ Later \in Seq(Part)
        /\ req.status = "HEADERS" => req.body = <<>>
    BY <1>1, <1>3, NextHeaderLine
  <1>5. /\ Types /\ Sent /\ Done
    BY DEF IInv
  <1>6. n \in Nat
    BY <1>4, HeaderKinds, LenProperties DEF Part
  <1>7. \A u : <<u>>[1] = u
    OBVIOUS
  <1>8. t.sort = "folded" /\ req \in InRequest
    BY <1>1, <1>5 DEF IsFolded, Types
  <1>9. CASE AtMoreLine
    <2>1. /\ req.status = "HEADERS" /\ m.more # <<>> /\ field = NoField /\ t = m.more[1]
          /\ buf' \in Part
      BY <1>1, <1>7, <1>9 DEF AtMoreLine
    <2>2. Malformed(m)
      BY <2>1, <1>8 DEF Malformed
    <2>3. failed' = "CORRUPTED" /\ pc' = "idle" /\ UNCHANGED <<req, handled>>
      BY <2>1, <1>2 DEF Corrupted
    <2>4. Number <= Len(msgs)
      BY <1>4 DEF Started
    <2> QED BY <2>1, <2>2, <2>3, <2>4, <1>1, <1>4, <1>8, RejectIInv
  <1>10. ASSUME NEW k \in 1 .. Len(m.more) - 1, AtFoldedLine(k) PROVE IInv'
    <2> DEFINE v == FoldedValue(m, k + 1)
    <2>1. /\ req.status = "HEADERS" /\ GoodMore(m) /\ field = m.more[1]
          /\ req.headers = [s \in {"Extra"} |-> FoldedValue(m, k)] /\ t = m.more[k + 1]
          /\ buf' \in Part /\ Cut(buf', wire, MoreRest(m, k + 1), AtHeader(m, 0, Later))
      BY <1>1, <1>7, <1>10 DEF AtFoldedLine
    <2>2. /\ Len(m.more) \in Nat /\ k \in Nat /\ k + 1 \in 1 .. Len(m.more) /\ k + 1 > 1 /\ 1 \in 1 .. Len(m.more)
          /\ m.more # <<>>
      <3>1. Len(m.more) \in Nat
        BY <1>4, MoreLines
      <3>2. m.more # <<>>
        <4>1. Len(m.more) # 0
          BY <3>1
        <4> QED BY <4>1
      <3> QED BY <3>1, <3>2
    <2>3. field.sort = "Extra" /\ field \in Token /\ t \in Token
      BY <2>1, <2>2, <1>4, MoreLines DEF GoodMore
    <2>4. v = 10 * field.n + t.n /\ v \in Int
      <3>1. k + 1 # 1
        BY <2>2
      <3>2. field.n \in Int /\ t.n \in Int
        BY <2>3 DEF Token
      <3> QED BY <3>1, <3>2, <2>1 DEF FoldedValue
    <2> HIDE DEF v
    <2>5. /\ req' = Put("Extra", v)
          /\ UNCHANGED <<pc, handled, failed>>
      BY <2>3, <2>4, <1>2, NoFieldType
    <2>6. /\ req'.status = req.status /\ req'.start = req.start /\ req'.body = req.body
          /\ req'.headers = [s \in {"Extra"} \cup DOMAIN req.headers |->
                               IF s = "Extra" THEN v ELSE req.headers[s]]
      BY <2>5, <1>8 DEF Put, InRequest
    <2>7. req'.headers = [s \in {"Extra"} |-> v]
      <3>1. DOMAIN req.headers = {"Extra"}
        BY <2>1
      <3> QED BY <3>1, <2>6
    <2>8. req' \in InRequest
      <3>1. {"Extra"} \in SUBSET Keys
        BY DEF Keys
      <3>2. [s \in {"Extra"} |-> v] \in [{"Extra"} -> Int]
        BY <2>4
      <3>3. req'.headers \in HeaderMap
        BY <3>1, <3>2, <2>7 DEF HeaderMap
      <3> QED BY <3>3, <2>5, <1>8 DEF Put, InRequest
    <2>9. /\ Number' = Number /\ Current' = Current /\ Later' = Later /\ StartLines' = StartLines
      BY <2>5, <1>1, <1>5, Frame
    <2>10. Started'
      BY <2>6, <2>9, <1>1, <1>4 DEF Started
    <2>11. InHeaders'
      <3>1. CASE k + 1 = Len(m.more)
        <4>1. req'.headers = Fields(m, 0)
          <5>1. HeaderValue(m, "Extra") = v
            BY <3>1, <2>1, <2>2, <1>4, HeaderValues DEF v
          <5> QED BY <5>1, <2>1, <2>2, <2>7, <1>4, FieldsSteps
        <4>2. 0 \in 0 .. n /\ Cut(buf', wire, <<>>, AtHeader(m, 0, Later))
          BY <3>1, <2>1, <1>4, <1>6, MoreLines
        <4> QED BY <4>1, <4>2, <2>1, <2>5, <2>6, <2>9, <2>10, <1>1, <1>4 DEF InHeaders
      <3>2. CASE k + 1 # Len(m.more)
        <4>1. k + 1 \in 1 .. Len(m.more) - 1
          BY <3>2, <2>2
        <4>2. /\ req'.headers = [s \in {"Extra"} |-> FoldedValue(m, k + 1)] /\ field' = m.more[1]
              /\ Cut(buf', wire, MoreRest(m, k + 1), AtHeader(m, 0, Later))
          BY <2>1, <2>7, <1>1 DEF v
        <4> QED BY <4>1, <4>2, <2>1, <2>5, <2>6, <2>9, <2>10, <1>1, <1>4 DEF InHeaders
      <3> QED BY <3>1, <3>2
    <2>12. Reading'
      BY <2>1, <2>6, <2>11 DEF Reading
    <2>13. field.sort \in Keys \cup {"none"} /\ pc' = "headers"
      BY <2>5, <1>1, <1>5 DEF Types, TypeOK
    <2> QED BY <2>1, <2>3, <2>5, <2>6, <2>8, <2>12, <2>13, <1>1, <1>4, LineIInv
  <1>11. CASE AtBlankLine \/ AtTrailerLine
    BY <1>1, <1>11 DEF AtBlankLine, AtTrailerLine
  <1>12. ASSUME NEW k \in 0 .. n - 1, AtHeaderLine(k) PROVE FALSE
    <2>1. k + 1 \in 1 .. n /\ t = Headers(m)[k + 1]
      BY <1>6, <1>7, <1>12 DEF AtHeaderLine
    <2>2. t.sort \in Keys
      BY <2>1, <1>4, HeaderKinds
    <2> QED BY <2>2, <1>8 DEF Keys
  <1> QED BY <1>1, <1>3, <1>9, <1>10, <1>11, <1>12, NextHeaderLine

\* A line that is no header.
LEMMA BadHeaderIInv == ASSUME IInv, BadHeader PROVE IInv'
  <1>1. /\ pc = "headers" /\ LineEnd > 1 /\ ~IsHeader /\ ~IsFolded /\ Pop /\ Corrupted
        /\ UNCHANGED <<msgs, wire, req, field>>
    BY DEF BadHeader
  <1> DEFINE m == Current
             n == Len(Headers(m))
             t == Line[1]
  <1>2. buf # <<>>
    BY <1>1, PopNothing
  <1>3. /\ failed = "no" /\ Started /\ Number \in 1 .. Len(msgs) /\ m \in Messages /\ Later \in Seq(Part)
    BY <1>1, <1>2, NextHeaderLine
  <1>4. n \in Nat
    BY <1>3, HeaderKinds, LenProperties DEF Part
  <1>5. \A u : <<u>>[1] = u /\ Len(<<u>>) = 1
    OBVIOUS
  <1>6. t.sort # "folded" /\ (Len(Line) = 1 => t.sort \notin Keys)
    BY <1>1 DEF IsFolded, IsHeader
  <1>7. CASE AtMoreLine
    <2>1. /\ req.status = "HEADERS" /\ m.more # <<>> /\ t = m.more[1] /\ Len(Line) = 1
          /\ buf' \in Part
      BY <1>1, <1>5, <1>7 DEF AtMoreLine
    <2>2. t.sort # "Extra"
      BY <2>1, <1>6 DEF Keys
    <2>3. Malformed(m)
      BY <2>1, <2>2 DEF Malformed
    <2>4. failed' = "CORRUPTED" /\ pc' = "idle" /\ UNCHANGED <<req, handled>>
      BY <1>1 DEF Corrupted
    <2>5. Number <= Len(msgs) /\ req \in InRequest
      BY <1>3 DEF Started, IInv, Types
    <2> QED BY <2>1, <2>3, <2>4, <2>5, <1>1, <1>3, RejectIInv
  <1>8. ASSUME NEW k \in 1 .. Len(m.more) - 1, AtFoldedLine(k) PROVE FALSE
    <2>1. t = m.more[k + 1]
      BY <1>5, <1>8 DEF AtFoldedLine
    <2>2. k + 1 \in 1 .. Len(m.more) /\ k + 1 > 1
      BY <1>3, MoreLines
    <2> QED BY <2>1, <2>2, <1>3, <1>6, MoreLines
  <1>9. CASE AtBlankLine \/ AtTrailerLine
    BY <1>1, <1>9 DEF AtBlankLine, AtTrailerLine
  <1>10. ASSUME NEW k \in 0 .. n - 1, AtHeaderLine(k) PROVE FALSE
    <2>1. k + 1 \in 1 .. n /\ t = Headers(m)[k + 1] /\ Len(Line) = 1
      BY <1>4, <1>5, <1>10 DEF AtHeaderLine
    <2>2. t.sort \in Keys
      BY <2>1, <1>3, HeaderKinds
    <2> QED BY <2>1, <2>2, <1>6
  <1> QED BY <1>1, <1>2, <1>7, <1>8, <1>9, <1>10, NextHeaderLine

-----------------------------------------------------------------------------
(* The body.                                                               *)

\* What is known in a body.
LEMMA BodyStarted ==
    ASSUME IInv, req.status = "BODY", failed = "no"
    PROVE  /\ Types /\ Sent /\ Done /\ InBody /\ PastHeaders /\ Started
           /\ Number \in 1 .. Len(msgs) /\ Number <= Len(msgs)
           /\ Current \in Messages /\ Later \in Seq(Part)
           /\ Current.start \in (Requests \cup Responses) \ Bodiless
           /\ GoodMore(Current) /\ req.headers = AllFields(Current) /\ req \in InRequest
           /\ buf \in Part /\ wire \in Seq(Part)
  <1>1. Types /\ Sent /\ Done /\ InBody
    BY DEF IInv, Reading
  <1>2. PastHeaders /\ Started /\ Current.start \notin Bodiless
    BY <1>1 DEF InBody, PastHeaders
  <1>3. Number \in 1 .. Len(msgs) /\ Number <= Len(msgs)
    BY <1>1, <1>2, NumberIsNat DEF Started
  <1>4. Current \in Messages /\ Later \in Seq(Part)
    BY <1>1, <1>3, CurrentStream
  <1>5. Current.start \in Requests \cup Responses
    BY <1>2, StartLinesKnown DEF Started
  <1> QED BY <1>1, <1>2, <1>3, <1>4, <1>5 DEF PastHeaders, Types

\* The body is read in its status.
LEMMA InBodyStatus ==
    ASSUME IInv, pc \in {"body", "chunks"}
    PROVE  req.status = "BODY" /\ failed = "no"
  <1>1. failed = "no" /\ Reading /\ req.status \in {"FIRSTLINE", "HEADERS", "BODY", "TRAILER"}
    BY DEF IInv, Types, TypeOK
  <1> QED BY <1>1 DEF Reading, AtStart, InHeaders, InTrailer

\* How the body is to be read is what the message says.
LEMMA BodyKinds ==
    ASSUME IInv, pc = "body"
    PROVE  /\ Chunked <=> Current.chunks # <<>>
           /\ HasLength <=> Current.length # Absent
           /\ HasLength => BodyLen = Current.length
           /\ Current.length \in Int /\ Current.body \in Nat /\ Sendable(Current)
  <1>1. req.status = "BODY" /\ failed = "no"
    BY InBodyStatus
  <1>2. /\ Current \in Messages /\ GoodMore(Current) /\ req.headers = AllFields(Current)
        /\ Current.start \in (Requests \cup Responses) \ Bodiless
    BY <1>1, BodyStarted
  <1> QED BY <1>2, BodyHeaders, MessageFields DEF Chunked, HasLength, BodyLen

\* The chunks begin, or go on.
LEMMA BodyChunkedIInv == ASSUME IInv, BodyChunked PROVE IInv'
  <1>1. /\ pc = "body" /\ Chunked /\ req' = [req EXCEPT !.ntoread = -1] /\ pc' = "chunks"
        /\ UNCHANGED <<msgs, wire, buf, field, handled, failed>>
    BY DEF BodyChunked
  <1>2. req.status = "BODY" /\ failed = "no"
    BY <1>1, InBodyStatus
  <1>3. /\ Types /\ Sent /\ Done /\ InBody /\ PastHeaders /\ Started /\ req \in InRequest
    BY <1>2, BodyStarted
  <1>4. Current.chunks # <<>>
    BY <1>1, BodyKinds
  <1>5. PICK k \in 0 .. Len(Current.chunks) : ChunksRead(k) /\ InChunk(k)
    BY <1>3, <1>4 DEF InBody, Endless
  <1>6. /\ req' \in InRequest /\ req'.status = "BODY" /\ req'.start = req.start
        /\ req'.headers = req.headers /\ req'.body = req.body /\ req'.ntoread = -1
    BY <1>1, <1>2, <1>3 DEF InRequest
  <1>7. /\ Number' = Number /\ Current' = Current /\ Later' = Later /\ StartLines' = StartLines
    BY <1>1, <1>3, Frame
  <1>8. PastHeaders'
    BY <1>1, <1>3, <1>6, <1>7 DEF PastHeaders, Started
  <1>9. InChunk(k)'
    BY <1>1, <1>5, <1>6, <1>7 DEF InChunk
  <1>10. ChunksRead(k)'
    BY <1>5, <1>6, <1>7 DEF ChunksRead
  <1>11. InBody'
    BY <1>1, <1>4, <1>5, <1>7, <1>8, <1>9, <1>10 DEF InBody
  <1>12. Reading'
    BY <1>6, <1>11 DEF Reading
  <1>13. field \in Token /\ field.sort \in Keys \cup {"none"}
    BY <1>3 DEF Types, TypeOK
  <1> QED BY <1>1, <1>2, <1>6, <1>12, <1>13, StillReading

\* A body without an end.
LEMMA BodyUntilCloseIInv == ASSUME IInv, BodyUntilClose PROVE IInv'
  <1>1. /\ pc = "body" /\ ~Chunked /\ ~HasLength
        /\ req' = [req EXCEPT !.ntoread = -1, !.body = @ \o buf] /\ buf' = <<>> /\ pc' = "idle"
        /\ UNCHANGED <<msgs, wire, field, handled, failed>>
    BY DEF BodyUntilClose, NeedMore
  <1>2. req.status = "BODY" /\ failed = "no"
    BY <1>1, InBodyStatus
  <1>3. /\ Types /\ Sent /\ Done /\ PastHeaders /\ Started /\ req \in InRequest /\ buf \in Part
        /\ Current.start \notin Bodiless
    BY <1>2, BodyStarted
  <1>4. Endless(Current)
    BY <1>1, <1>3, BodyKinds DEF Endless
  <1>5. req.body \o buf \in Part /\ buf' \in Part
    BY <1>1, <1>3, PartsConcat DEF InRequest
  <1>6. /\ req' \in InRequest /\ req'.status = "BODY" /\ req'.start = req.start
        /\ req'.headers = req.headers
    <2> DEFINE b == req.body \o buf
    <2>1. b \in Part /\ req' = [req EXCEPT !.ntoread = -1, !.body = b]
      BY <1>1, <1>5
    <2> HIDE DEF b
    <2> DEFINE r == [req EXCEPT !.ntoread = -1]
    <2>2. r \in InRequest /\ r.status = "BODY" /\ r.start = req.start /\ r.headers = req.headers
      BY <1>2, <1>3 DEF InRequest
    <2>3. req' = [r EXCEPT !.body = b]
      BY <2>1, <1>3 DEF InRequest
    <2> HIDE DEF r
    <2> QED BY <2>1, <2>2, <2>3 DEF InRequest
  <1>7. /\ Number' = Number /\ Current' = Current /\ Later' = Later /\ StartLines' = StartLines
    BY <1>1, <1>3, Frame
  <1>8. PastHeaders'
    BY <1>1, <1>3, <1>6, <1>7 DEF PastHeaders, Started
  <1>9. InBody'
    BY <1>1, <1>4, <1>7, <1>8 DEF InBody
  <1>10. Reading'
    BY <1>6, <1>9 DEF Reading
  <1>11. field \in Token /\ field.sort \in Keys \cup {"none"}
    BY <1>3 DEF Types, TypeOK
  <1> QED BY <1>1, <1>2, <1>5, <1>6, <1>10, <1>11, LineIInv

\* A length that is none.
LEMMA BodyBadIInv == ASSUME IInv, BodyBad PROVE IInv'
  <1>1. /\ pc = "body" /\ ~Chunked /\ HasLength /\ BodyLen < 0
        /\ IF BodyLen = NaN THEN Throw ELSE Corrupted
        /\ req' = [req EXCEPT !.ntoread = BodyLen]
        /\ UNCHANGED <<msgs, wire, buf, field>>
    BY DEF BodyBad
  <1>2. req.status = "BODY" /\ failed = "no"
    BY <1>1, InBodyStatus
  <1>3. /\ req \in InRequest /\ buf \in Part /\ Current.start \notin Bodiless /\ Number <= Len(msgs)
    BY <1>2, BodyStarted
  <1>4. BodyLen = Current.length /\ Current.length # Absent /\ Current.length \in Int
    BY <1>1, BodyKinds
  <1>5. Malformed(Current)
    BY <1>1, <1>3, <1>4 DEF Malformed
  <1>6. req' \in InRequest /\ req'.status = "BODY"
    BY <1>1, <1>2, <1>3, <1>4 DEF InRequest
  <1>7. /\ pc' = "idle" /\ failed' \in {"CORRUPTED", "thrown"} /\ UNCHANGED handled
        /\ failed' = "thrown" => BodyLen = NaN
    BY <1>1 DEF Throw, Corrupted
  <1> QED BY <1>1, <1>2, <1>3, <1>4, <1>5, <1>6, <1>7, RejectIInv

\* A body of a known length is there, or is waited for.
LEMMA BodyLengthIInv == ASSUME IInv, BodyLength PROVE IInv'
  <1>1. /\ pc = "body" /\ ~Chunked /\ HasLength /\ BodyLen >= 0 /\ UNCHANGED <<msgs, wire, field>>
        /\ \/ /\ Len(buf) >= BodyLen
              /\ buf' = Behind(BodyLen)
              /\ AllRead(req.body \o SubSeq(buf, 1, BodyLen))
           \/ /\ Len(buf) < BodyLen
              /\ req' = [req EXCEPT !.ntoread = BodyLen]
              /\ NeedMore
              /\ UNCHANGED buf
    BY DEF BodyLength
  <1> DEFINE m == Current
  <1>2. req.status = "BODY" /\ failed = "no"
    BY <1>1, InBodyStatus
  <1>3. /\ Types /\ Sent /\ Done /\ InBody /\ PastHeaders /\ Started /\ req \in InRequest
        /\ buf \in Part /\ wire \in Seq(Part) /\ m \in Messages /\ Later \in Seq(Part)
        /\ m.start \in (Requests \cup Responses) \ Bodiless /\ GoodMore(m) /\ req.headers = AllFields(m)
    BY <1>2, BodyStarted
  <1>4. /\ m.chunks = <<>> /\ m.length # Absent /\ BodyLen = m.length /\ m.length \in Int /\ m.body \in Nat
        /\ Sendable(m)
    BY <1>1, BodyKinds
  <1>5. m.length = m.body /\ ~ (m.length < 0)
    BY <1>1, <1>3, <1>4 DEF Sendable
  <1>6. InLength
    BY <1>3, <1>4 DEF InBody, Endless
  <1>7. req.body = <<>> /\ Cut(buf, wire, <<>>, BodyParts(m) \o Later)
    BY <1>6 DEF InLength
  <1>8. CASE Len(buf) >= BodyLen
    <2>1. Len(buf) \in Nat /\ ~ (Len(buf) < BodyLen)
      BY <1>3, <1>4, <1>8, LenProperties DEF Part
    <2>2. buf' = SubSeq(buf, m.body + 1, Len(buf)) /\ AllRead(req.body \o SubSeq(buf, 1, m.body))
      BY <2>1, <1>1, <1>4, <1>5 DEF Behind
    <2>3. BodyParts(m) = [i \in 1 .. m.body |-> Bytes(i - 1, 1)]
      BY <1>4 DEF BodyParts
    <2> DEFINE n == m.body
    <2>4. n \in Nat /\ Len(buf) >= n /\ Cut(buf, wire, <<>>, [i \in 1 .. n |-> Bytes(i - 1, 1)] \o Later)
      BY <2>3, <1>4, <1>5, <1>7, <1>8
    <2> HIDE DEF n
    <2>5. /\ SubSeq(buf, 1, n) = Bytes(0, n)
          /\ SubSeq(buf, n + 1, Len(buf)) \in Part
          /\ Cut(SubSeq(buf, n + 1, Len(buf)), wire, <<>>, Later)
      BY <2>4, <1>3, BodyArrives
    <2> DEFINE body == Bytes(0, m.body)
    <2>6. body \in Part
      <3>1. 0 \in Int /\ m.body \in Int
        BY <1>4
      <3> QED BY <3>1, BytesParts
    <2>7. req.body \o SubSeq(buf, 1, m.body) = body
      BY <2>5, <2>6, <1>7, PartsConcat DEF n
    <2>8. AllRead(body) /\ buf' \in Part /\ Cut(buf', wire, <<>>, Later)
      BY <2>2, <2>5, <2>7 DEF n
    <2>9. body = BodyKept(m)
      BY <1>3, <1>4, BodySteps
    <2>10. ~Endless(m)
      BY <1>4 DEF Endless
    <2>11. ~Malformed(m)
      BY <1>3, <1>4, <1>5, NotMalformed
    <2> HIDE DEF body
    <2> QED BY <2>6, <2>8, <2>9, <2>10, <2>11, <1>1, <1>2, <1>3, AllReadIInv DEF AllRead, NextRequest
  <1>9. CASE ~ (Len(buf) >= BodyLen)
    <2>1. req' = [req EXCEPT !.ntoread = BodyLen] /\ UNCHANGED <<msgs, wire, buf, field, handled, failed>>
          /\ pc' = "idle"
      BY <1>1, <1>9 DEF NeedMore
    <2>2. /\ req' \in InRequest /\ req'.status = "BODY" /\ req'.start = req.start
          /\ req'.headers = req.headers /\ req'.body = req.body
      BY <2>1, <1>2, <1>3, <1>4 DEF InRequest
    <2>3. /\ Number' = Number /\ Current' = Current /\ Later' = Later /\ StartLines' = StartLines
      BY <2>1, <1>3, Frame
    <2>4. PastHeaders'
      BY <2>1, <2>2, <2>3, <1>3 DEF PastHeaders, Started
    <2>5. InLength'
      BY <2>1, <2>2, <2>3, <1>4, <1>7 DEF InLength
    <2>6. InBody'
      BY <2>1, <2>3, <2>4, <2>5, <1>4 DEF InBody
    <2>7. Reading'
      BY <2>2, <2>6 DEF Reading
    <2>8. field \in Token /\ field.sort \in Keys \cup {"none"}
      BY <1>3 DEF Types, TypeOK
    <2> QED BY <2>1, <2>2, <2>7, <2>8, <1>2, StillReading
  <1> QED BY <1>8, <1>9

-----------------------------------------------------------------------------
(* The chunks.                                                             *)

\* What is known between two chunks, and in one.
LEMMA InChunks ==
    ASSUME IInv, pc = "chunks"
    PROVE  /\ req.status = "BODY" /\ failed = "no" /\ Types /\ Sent /\ Done /\ PastHeaders
           /\ Number <= Len(msgs) /\ Current \in Messages /\ Later \in Seq(Part)
           /\ buf \in Part /\ wire \in Seq(Part) /\ req \in InRequest
           /\ Current.chunks # <<>> /\ Current.chunks \in Seq(Int) /\ Sendable(Current)
           /\ \E k \in 0 .. Len(Current.chunks) : ChunksRead(k) /\ InChunk(k)
  <1>1. req.status = "BODY" /\ failed = "no"
    BY InBodyStatus
  <1>2. /\ Types /\ Sent /\ Done /\ PastHeaders /\ InBody
        /\ Number <= Len(msgs) /\ Current \in Messages /\ Later \in Seq(Part)
        /\ buf \in Part /\ wire \in Seq(Part) /\ req \in InRequest
    BY <1>1, BodyStarted
  <1>3. Current.chunks \in Seq(Int) /\ Sendable(Current)
    BY <1>2, MessageFields
  <1>4. Current.chunks # <<>> /\ \E k \in 0 .. Len(Current.chunks) : ChunksRead(k) /\ InChunk(k)
    BY <1>2 DEF InBody, InLength
  <1> QED BY <1>1, <1>2, <1>3, <1>4

\* The number that is to be read is another.
LEMMA ToReadType == \A r \in InRequest : \A n \in Int : [r EXCEPT !.ntoread = n] \in InRequest
  BY DEF InRequest

\* The size of a chunk, or the end of the chunks.
LEMMA ChunkSizeIInv == ASSUME IInv, ChunkSize PROVE IInv'
  <1>1. pc = "chunks" /\ buf # <<>> /\ req.ntoread < 0 /\ Pop /\ UNCHANGED <<msgs, wire>>
    BY DEF ChunkSize
  <1>2. IsNumber =>
          \/ /\ Line[1].n > 0
             /\ req' = [req EXCEPT !.ntoread = Line[1].n]
             /\ UNCHANGED <<pc, field, handled, failed>>
          \/ /\ Line[1].n = 0
             /\ req' = [req EXCEPT !.ntoread = 0, !.status = "TRAILER"]
             /\ pc' = "headers" /\ field' = NoField /\ UNCHANGED <<handled, failed>>
          \/ /\ Line[1].n < 0
             /\ req' = [req EXCEPT !.ntoread = Line[1].n]
             /\ Corrupted /\ UNCHANGED field
    BY Zenon DEF ChunkSize
  <1>3. ~IsNumber => Throw /\ UNCHANGED <<req, field>>
    BY Zenon DEF ChunkSize
  <1> DEFINE m == Current
  <1>4. /\ req.status = "BODY" /\ failed = "no" /\ Types /\ Sent /\ Done /\ PastHeaders
        /\ Number <= Len(msgs) /\ m \in Messages /\ Later \in Seq(Part)
        /\ buf \in Part /\ wire \in Seq(Part) /\ req \in InRequest
        /\ m.chunks # <<>> /\ m.chunks \in Seq(Int) /\ Sendable(m)
    BY <1>1, InChunks
  <1>5. PICK k \in 0 .. Len(m.chunks) : ChunksRead(k) /\ InChunk(k)
    BY <1>1, InChunks
  <1>6. Cut(buf, wire, <<>>, AtChunk(m, k, Later))
    <2>1. ~ (req.ntoread > 0)
      BY <1>1, <1>4 DEF InRequest
    <2> QED BY <2>1, <1>5 DEF InChunk
  <1>7. Len(m.chunks) \in Nat /\ \A i \in 1 .. Len(m.chunks) : m.chunks[i] \in Int
    BY <1>4, LenProperties, ElementOfSeq
  <1>8. field \in Token /\ field.sort \in Keys \cup {"none"}
    BY <1>4 DEF Types, TypeOK
  <1>9. CASE k # Len(m.chunks)
    <2> DEFINE n == m.chunks[k + 1]
               t == Tok("size", n)
               c == Bytes(Before(m.chunks, k + 1), n) \o Eol
               rest == AtChunk(m, k + 1, Later)
               p == (<<t>> \o Eol) \o c
    <2>1. k + 1 \in 1 .. Len(m.chunks) /\ k \in 0 .. Len(m.chunks) - 1 /\ k < Len(m.chunks) /\ k + 1 \in 0 .. Len(m.chunks)
      BY <1>7, <1>9
    <2>2. n \in Int
      BY <2>1, <1>7
    <2>3. n # 0
      <3>1. DOMAIN m.chunks = 1 .. Len(m.chunks)
        BY <1>4, LenProperties
      <3> QED BY <3>1, <2>1, <1>4 DEF Sendable
    <2>4. p \in Part /\ AtChunk(m, k, Later) = <<p>> \o rest /\ rest \in Seq(Part)
      <3>1. p = ChunkPart(m.chunks, k + 1)
        BY DEF ChunkPart
      <3>2. p \in Part
        BY <3>1, <2>1, <1>4, ChunksParts
      <3>3. AtChunk(m, k, Later) = <<ChunkPart(m.chunks, k + 1)>> \o rest
        BY <2>1, <1>4, ChunkStream
      <3>4. rest \in Seq(Part)
        BY <2>1, <1>4, ChunkStream
      <3> HIDE DEF p, rest
      <3> QED BY <3>1, <3>2, <3>3, <3>4
    <2>5. t \in Token /\ t.sort = "size" /\ t.n = n
      <3>1. "size" \in Sorts
        BY DEF Sorts
      <3> QED BY <3>1, <2>2, TokIsToken
    <2>6. c \in Part
      <3>1. Before(m.chunks, k + 1) \in Int
        <4>1. k + 1 \in 1 .. Len(m.chunks) + 1
          BY <2>1, <1>7
        <4> QED BY <4>1, <1>4, BeforeIsNat
      <3> QED BY <3>1, <2>2, BytesParts, EolProperties, PartsConcat
    <2>7. LineEnd = 2 /\ Line = <<t>> /\ buf' \in Part /\ Cut(buf', wire, c, rest)
      <3> HIDE DEF t, c, rest
      <3>1. Cut(buf, wire, <<>>, <<p>> \o rest)
        BY <2>4, <1>6
      <3>2. Cut(buf, wire, p, rest)
        <4> HIDE DEF p
        <4> QED BY <3>1, <2>4, <1>1, <1>4, CutTake
      <3>3. t.sort \notin {"cr", "lf"}
        BY <2>5
      <3> QED BY <3>2, <3>3, <2>5, <2>6, <1>1, NextLine
    <2>8. LineEnd > 1 /\ Line[1].sort = "size" /\ Line[1].n = n
      <3> HIDE DEF t
      <3> QED BY <2>5, <2>7
    <2>9. n < 0 => Malformed(m)
      <3>1. DOMAIN m.chunks = 1 .. Len(m.chunks)
        BY <1>4, LenProperties
      <3> QED BY <3>1, <2>1 DEF Malformed
    <2>10. CASE n = NaN
      <3>1. ~IsNumber
        BY <2>8, <2>10 DEF IsNumber
      <3>2. pc' = "idle" /\ failed' = "thrown" /\ UNCHANGED <<handled, req, field>>
        BY <3>1, <1>3 DEF Throw
      <3>3. NaN \in ToSet(m.chunks)
        <4>1. DOMAIN m.chunks = 1 .. Len(m.chunks)
          BY <1>4, LenProperties
        <4> QED BY <4>1, <2>1, <2>10 DEF ToSet
      <3>4. Malformed(m)
        BY <2>9, <2>10 DEF NaN
      <3> QED BY <3>2, <3>3, <3>4, <2>7, <1>1, <1>4, RejectIInv
    <2>11. CASE n # NaN /\ n < 0
      <3>1. IsNumber /\ ~ (n > 0)
        BY <2>2, <2>8, <2>11 DEF IsNumber
      <3>2. /\ req' = [req EXCEPT !.ntoread = n] /\ pc' = "idle" /\ failed' = "CORRUPTED"
            /\ UNCHANGED <<handled, field>>
        BY <3>1, <2>3, <2>8, <1>2 DEF Corrupted
      <3>3. req' \in InRequest /\ req'.status = "BODY"
        BY <3>2, <2>2, <1>4 DEF InRequest
      <3> QED BY <3>2, <3>3, <2>7, <2>9, <2>11, <1>1, <1>4, RejectIInv
    <2>12. CASE n > 0
      <3>1. IsNumber /\ ~ (n < 0)
        BY <2>2, <2>8, <2>12 DEF IsNumber, NaN
      <3>2. /\ req' = [req EXCEPT !.ntoread = n] /\ UNCHANGED <<pc, field, handled, failed>>
        BY <3>1, <2>3, <2>8, <1>2
      <3>3. /\ req' \in InRequest /\ req'.status = "BODY" /\ req'.start = req.start
            /\ req'.headers = req.headers /\ req'.body = req.body /\ req'.ntoread = n
        BY <3>2, <2>2, <1>4 DEF InRequest
      <3>4. /\ Number' = Number /\ m' = m /\ Later' = Later /\ StartLines' = StartLines
        BY <3>2, <1>1, <1>4, Frame
      <3>5. PastHeaders'
        BY <3>3, <3>4, <1>1, <1>4 DEF PastHeaders, Started
      <3>6. InChunk(k)'
        BY <3>2, <3>3, <3>4, <2>1, <2>7, <2>12, <1>1 DEF InChunk
      <3>7. ChunksRead(k)'
        BY <3>3, <3>4, <1>5 DEF ChunksRead
      <3>8. InBody'
        BY <3>2, <3>4, <3>5, <3>6, <3>7, <1>1, <1>4, <1>5 DEF InBody
      <3>9. Reading'
        BY <3>3, <3>8 DEF Reading
      <3> QED BY <3>2, <3>3, <3>9, <2>7, <1>1, <1>4, <1>8, LineIInv
    <2> QED BY <2>2, <2>3, <2>10, <2>11, <2>12 DEF NaN
  <1>10. CASE k = Len(m.chunks)
    <2> DEFINE t == Tok("size", 0)
               rest == <<Eol>> \o Later
    <2>1. t \in Token /\ t.sort = "size" /\ t.n = 0
      <3>1. "size" \in Sorts
        BY DEF Sorts
      <3> QED BY <3>1, TokIsToken
    <2>2. AtChunk(m, k, Later) = <<<<t>> \o Eol>> \o rest /\ rest \in Seq(Part)
      BY <1>4, <1>10, ChunkStream
    <2> HIDE DEF t, rest
    <2>3. LineEnd = 2 /\ Line = <<t>> /\ buf' \in Part /\ Cut(buf', wire, <<>>, rest)
      <3>1. t.sort \notin {"cr", "lf"}
        BY <2>1
      <3>2. Cut(buf, wire, <<>>, <<<<t>> \o Eol>> \o rest)
        BY <2>2, <1>6
      <3> QED BY <3>1, <3>2, <2>1, <2>2, <1>1, <1>4, NextPartIsLine
    <2>4. LineEnd > 1 /\ Line[1].sort = "size" /\ Line[1].n = 0
      BY <2>1, <2>3
    <2>5. IsNumber
      BY <2>4 DEF IsNumber, NaN
    <2>6. /\ req' = [req EXCEPT !.ntoread = 0, !.status = "TRAILER"]
          /\ pc' = "headers" /\ field' = NoField /\ UNCHANGED <<handled, failed>>
      BY <2>4, <2>5, <1>2
    <2>7. /\ req' \in InRequest /\ req'.status = "TRAILER" /\ req'.start = req.start
          /\ req'.headers = req.headers /\ req'.body = req.body
      <3> DEFINE r == [req EXCEPT !.ntoread = 0]
      <3>1. r \in InRequest
        <4>1. req \in InRequest /\ 0 \in Int
          BY <1>4
        <4> QED BY <4>1, ToReadType
      <3>2. r.start = req.start /\ r.headers = req.headers /\ r.body = req.body
        BY <1>4 DEF InRequest
      <3>3. req' = [r EXCEPT !.status = "TRAILER"]
        BY <2>6, <1>4 DEF InRequest
      <3> HIDE DEF r
      <3> QED BY <3>1, <3>3, <3>2 DEF InRequest
    <2>8. /\ Number' = Number /\ m' = m /\ Later' = Later /\ StartLines' = StartLines
      BY <2>6, <1>1, <1>4, Frame
    <2>9. PastHeaders'
      BY <2>7, <2>8, <1>1, <1>4 DEF PastHeaders, Started
    <2>10. ChunksRead(Len(m.chunks))'
      BY <2>7, <2>8, <1>5, <1>10 DEF ChunksRead
    <2>11. InTrailer'
      BY <2>3, <2>6, <2>8, <2>9, <2>10, <1>1, <1>4 DEF InTrailer, rest
    <2>12. Reading'
      BY <2>7, <2>11 DEF Reading
    <2> QED BY <2>3, <2>6, <2>7, <2>12, <1>1, <1>4, NoFieldType, LineIInv
  <1> QED BY <1>9, <1>10

\* The data of a chunk and its line end.
LEMMA ChunkDataIInv == ASSUME IInv, ChunkData PROVE IInv'
  <1>1. /\ pc = "chunks" /\ buf # <<>> /\ req.ntoread >= 0
        /\ req' = [req EXCEPT !.ntoread = -1, !.body = @ \o SubSeq(buf, 1, ChunkEnd)]
        /\ buf' = SubSeq(buf, ChunkEnd + 1, Len(buf))
        /\ UNCHANGED <<msgs, wire, field, pc, handled, failed>>
    BY DEF ChunkData
  <1> DEFINE m == Current
  <1>2. /\ req.status = "BODY" /\ failed = "no" /\ Types /\ Sent /\ Done /\ PastHeaders
        /\ Number <= Len(msgs) /\ m \in Messages /\ Later \in Seq(Part)
        /\ buf \in Part /\ wire \in Seq(Part) /\ req \in InRequest
        /\ m.chunks # <<>> /\ m.chunks \in Seq(Int)
    BY <1>1, InChunks
  <1>3. PICK k \in 0 .. Len(m.chunks) : ChunksRead(k) /\ InChunk(k)
    BY <1>1, InChunks
  <1> DEFINE n == req.ntoread
             a == Before(m.chunks, k + 1)
             data == Bytes(a, n)
             chunk == data \o Eol
             rest == AtChunk(m, k + 1, Later)
  <1>4. k < Len(m.chunks) /\ n = m.chunks[k + 1] /\ n > 0 /\ Cut(buf, wire, chunk, rest)
    BY <1>1, <1>3 DEF InChunk
  <1>5. /\ n \in Int /\ n # -1 /\ req.body \in Part
        /\ Len(m.chunks) \in Nat /\ k + 1 \in 1 .. Len(m.chunks) /\ k + 1 \in 0 .. Len(m.chunks)
    <2>1. n \in Int /\ req.body \in Part
      BY <1>2 DEF InRequest
    <2>2. Len(m.chunks) \in Nat
      BY <1>2, LenProperties
    <2> HIDE DEF n
    <2> QED BY <2>1, <2>2, <1>4
  <1>6. a \in Nat
    <2>1. k + 1 \in 1 .. Len(m.chunks) + 1
      BY <1>5
    <2> QED BY <2>1, <1>2, BeforeIsNat
  <1>7. data \in Part /\ Len(data) = n
    <2>1. a \in Int
      BY <1>6
    <2> HIDE DEF a
    <2> QED BY <2>1, <1>4, <1>5, BytesParts
  <1> HIDE DEF data
  <1>8. chunk = ChunkBytes(m, k + 1)
    BY <1>4 DEF ChunkBytes, data
  <1>9. chunk \in Part /\ Len(chunk) = n + 2
    <2>1. data \in Seq(Token) /\ Eol \in Seq(Token) /\ Len(Eol) = 2
      BY <1>7, EolProperties DEF Part
    <2>2. chunk \in Seq(Token) /\ Len(chunk) = Len(data) + Len(Eol)
      BY <2>1, ConcatProperties
    <2> QED BY <2>1, <2>2, <1>7 DEF Part
  <1>10. PICK t \in Part : buf = chunk \o t /\ Cut(t, wire, <<>>, rest)
    <2> HIDE DEF chunk, rest
    <2>1. chunk \o <<>> = chunk /\ <<>> \in Part
      BY <1>9, PartsConcat
    <2>2. Cut(buf, wire, chunk \o <<>>, rest)
      BY <2>1, <1>4
    <2> QED BY <2>1, <2>2, <1>9, CutDrop
  <1>11. ChunkEnd = n + 2 /\ SubSeq(buf, 1, ChunkEnd) = chunk /\ buf' = t
    <2> HIDE DEF chunk
    <2>1. chunk \in Seq(Token) /\ t \in Seq(Token)
      BY <1>9, <1>10 DEF Part
    <2>2. Len(buf) = Len(chunk) + Len(t) /\ Len(t) \in Nat
      BY <2>1, <1>10, ConcatProperties, LenProperties
    <2>3. ChunkEnd = n + 2
      BY <2>2, <1>5, <1>9 DEF ChunkEnd
    <2>4. SubSeq(chunk \o t, 1, Len(chunk)) = chunk /\ SubSeq(chunk \o t, Len(chunk) + 1, Len(chunk \o t)) = t
      BY <2>1, SplitConcat
    <2> QED BY <2>3, <2>4, <1>1, <1>9, <1>10
  <1> DEFINE body == req.body \o chunk
  <1>12. body \in Part
    <2> HIDE DEF chunk
    <2> QED BY <1>5, <1>9, PartsConcat
  <1>13. body = BodyOf(m, k + 1)
    <2>1. req.body = BodyOf(m, k)
      BY <1>3 DEF ChunksRead
    <2>2. k \in 0 .. Len(m.chunks) - 1
      BY <1>4, <1>5
    <2>3. BodyOf(m, k + 1) = BodyOf(m, k) \o ChunkBytes(m, k + 1)
      BY <2>2, <1>2, BodySteps
    <2> HIDE DEF chunk
    <2> QED BY <2>1, <2>3, <1>8
  <1> HIDE DEF body
  <1>14. /\ req' \in InRequest /\ req'.status = "BODY" /\ req'.start = req.start
         /\ req'.headers = req.headers /\ req'.body = body /\ req'.ntoread = -1
    <2> DEFINE r == [req EXCEPT !.ntoread = -1]
    <2>1. r \in InRequest
      <3>1. -1 \in Int
        OBVIOUS
      <3> QED BY <3>1, <1>2, ToReadType
    <2>2. r.status = "BODY" /\ r.start = req.start /\ r.headers = req.headers /\ r.ntoread = -1
      BY <1>2 DEF InRequest
    <2>3. req' = [r EXCEPT !.body = body]
      BY <1>1, <1>2, <1>11 DEF InRequest, body
    <2> HIDE DEF r
    <2> QED BY <2>1, <2>3, <2>2, <1>12 DEF InRequest
  <1>15. /\ Number' = Number /\ m' = m /\ Later' = Later /\ StartLines' = StartLines
    BY <1>1, <1>2, Frame
  <1>16. PastHeaders'
    BY <1>1, <1>2, <1>14, <1>15 DEF PastHeaders, Started
  <1>17. InChunk(k + 1)'
    BY <1>1, <1>10, <1>11, <1>14, <1>15 DEF InChunk
  <1>18. ChunksRead(k + 1)'
    <2>1. \A j \in 1 .. k + 1 : m.chunks[j] > 0
      <3>1. \A j \in 1 .. k : m.chunks[j] > 0
        BY <1>3 DEF ChunksRead
      <3>2. \A j \in 1 .. k + 1 : j \in 1 .. k \/ j = k + 1
        BY <1>5
      <3> QED BY <3>1, <3>2, <1>4
    <2> QED BY <2>1, <1>13, <1>14, <1>15 DEF ChunksRead
  <1>19. InBody'
    BY <1>1, <1>2, <1>5, <1>15, <1>16, <1>17, <1>18 DEF InBody
  <1>20. Reading'
    BY <1>14, <1>19 DEF Reading
  <1>21. field \in Token /\ field.sort \in Keys \cup {"none"}
    BY <1>2 DEF Types, TypeOK
  <1> QED BY <1>1, <1>2, <1>10, <1>11, <1>14, <1>20, <1>21, LineIInv

-----------------------------------------------------------------------------
(* The theorems.                                                           *)

\* IInv is inductive.
LEMMA NextIInv == IInv /\ [Next]_vars => IInv'
  <1> SUFFICES ASSUME IInv, [Next]_vars
               PROVE  IInv'
    OBVIOUS
  <1>1. CASE Deliver \/ Call \/ More \/ Resume \/ FirstLine
    BY <1>1, DeliverIInv, CallIInv, MoreIInv, ResumeIInv, FirstLineIInv
  <1>2. CASE ParseHeaders
    BY <1>2, WaitIInv, HeadersEndIInv, HeaderIInv, FoldedHeaderIInv, BadHeaderIInv DEF ParseHeaders
  <1>3. CASE ParseBody
    BY <1>3, WaitIInv, BodyChunkedIInv, BodyUntilCloseIInv, BodyBadIInv, BodyLengthIInv,
       ChunkSizeIInv, ChunkDataIInv DEF ParseBody
  <1>4. CASE UNCHANGED vars
    <2>1. Sent /\ Done /\ UNCHANGED <<msgs, wire, buf, req, field, pc, handled, failed>>
      BY <1>4 DEF IInv, vars
    <2>2. /\ Sent' /\ Done' /\ Number' = Number /\ Current' = Current /\ Later' = Later
          /\ StartLines' = StartLines /\ From(Number)' = From(Number)
      BY <2>1, Frame
    <2>3. Types' /\ RejectsOnlyMalformed'
      BY <2>1 DEF IInv, Types, TypeOK, RejectsOnlyMalformed
    <2>4. (AtStart => AtStart') /\ (InHeaders => InHeaders')
      BY <2>1, <2>2 DEF AtStart, InHeaders, Started
    <2>5. PastHeaders => PastHeaders'
      BY <2>1, <2>2 DEF PastHeaders, Started
    <2>6. (InBody => InBody') /\ (InTrailer => InTrailer')
      BY <2>1, <2>2, <2>5 DEF InBody, InLength, InChunk, ChunksRead, InTrailer
    <2>7. Reading => Reading'
      BY <2>1, <2>4, <2>6 DEF Reading
    <2> QED BY <2>1, <2>2, <2>3, <2>7 DEF IInv
  <1> QED BY <1>1, <1>2, <1>3, <1>4 DEF Next, Parse

\* IInv holds in every state that parse can be in.
LEMMA Invariance == ASSUME ~Split PROVE Spec => []IInv
  <1>1. Init => IInv
    BY InitIInv
  <1> QED BY <1>1, NextIInv, PTL DEF Spec

\* What can be read is a beginning of what was sent, up to the first message
\* that has no end or is malformed.
LEMMA ReadableIsFirst ==
    ASSUME msgs \in Seq(Messages), NEW n \in Nat, n <= Len(msgs),
           \A i \in 1 .. n : ~Malformed(msgs[i]) /\ ~Endless(msgs[i])
    PROVE  /\ n <= Len(Readable)
           /\ \A i \in 1 .. n : Readable[i] = msgs[i]
  <1> DEFINE I == {i \in 1 .. Len(msgs) : Malformed(msgs[i]) \/ Endless(msgs[i])}
             i == SelectInSeq(msgs, LAMBDA m : Malformed(m) \/ Endless(m))
  <1>1. Len(msgs) \in Nat
    BY LenProperties
  <1>2. i = IF I # {} THEN Min(I) ELSE 0
    BY DEF SelectInSeq
  <1>3. Readable = IF i = 0 THEN msgs ELSE SubSeq(msgs, 1, i - 1)
    BY DEF Readable
  <1>4. CASE I = {}
    <2>1. Readable = msgs
      BY <1>2, <1>3, <1>4
    <2> QED BY <2>1
  <1>5. CASE I # {}
    <2>1. I \in SUBSET Nat
      OBVIOUS
    <2> HIDE DEF i
    <2>2. PICK j \in I : \A x \in I : j <= x
      <3> HIDE DEF I
      <3> QED BY <2>1, <1>5, LeastNumber
    <2>3. Min(I) = j
      <3>1. I \in SUBSET Int
        OBVIOUS
      <3> HIDE DEF I
      <3> QED BY <3>1, <2>2, MinOfSet
    <2>4. i = j
      BY <2>3, <1>2, <1>5
    <2>5. j \in 1 .. Len(msgs) /\ j \notin 1 .. n
      BY <2>2
    <2>6. Readable = SubSeq(msgs, 1, j - 1)
      <3> HIDE DEF I
      <3> QED BY <2>4, <2>5, <1>1, <1>3
    <2>7. j - 1 \in 0 .. Len(msgs) /\ n <= j - 1
      BY <2>5, <1>1
    <2>8. Len(Readable) = j - 1 /\ \A x \in 1 .. j - 1 : Readable[x] = msgs[x]
      BY <2>6, <2>7, <1>1, SubSeqProperties
    <2> QED BY <2>7, <2>8, <1>1
  <1> QED BY <1>4, <1>5

\* parse gives up only at a malformed message, behind all that it has handed
\* over, whatever was sent and however much of it arrives at once.
THEOREM OnlyMalformedRejected == ASSUME ~Split PROVE Spec => []RejectsOnlyMalformed
  BY Invariance, PTL DEF IInv

\* Between two messages the buffer and what is still to come are the messages
\* not yet handed over, and nothing of the last request is kept.
THEOREM AlwaysAligned == ASSUME ~Split PROVE Spec => []Aligned
  <1>1. IInv => Aligned
    <2> SUFFICES ASSUME IInv PROVE Aligned
      OBVIOUS
    <2>1. TypeOK /\ Types /\ Sent /\ Done
      BY DEF IInv, Types
    <2>2. ASSUME req.status = "FIRSTLINE", failed = "no"
          PROVE  buf \o Flat(wire) = Flat(From(Number))
      <3>1. Cut(buf, wire, <<>>, From(Number)) /\ wire \in Seq(Part)
        BY <2>1, <2>2 DEF IInv, Reading, AtStart, Types
      <3>2. From(Number) \in Seq(Part)
        BY <2>1, NumberIsNat, FromSteps DEF Sent
      <3> QED BY <3>1, <3>2, CutIsStream
    <2> QED BY <2>1, <2>2 DEF Aligned, From, Number
  <1> QED BY <1>1, Invariance, PTL

\* What parse hands over is what the sender wrote, message by message, with
\* every header and every byte of every body, the CR LF behind each chunk and
\* the loss of all continuations of a header but the last included.
THEOREM AllHandledWereSent == ASSUME ~Split PROVE Spec => []HandledIsSent
  <1>1. IInv => HandledIsSent
    <2> SUFFICES ASSUME IInv PROVE HandledIsSent
      OBVIOUS
    <2>1. Types /\ Sent /\ Done
      BY DEF IInv
    <2> DEFINE n == Len(handled)
    <2>2. n \in Nat /\ DOMAIN handled = 1 .. n /\ msgs \in Seq(Messages)
      BY <2>1, LenProperties DEF Types, Sent
    <2>3. /\ n <= Len(msgs)
          /\ \A i \in 1 .. n : ~Malformed(msgs[i]) /\ ~Endless(msgs[i]) /\ Matches(handled[i], msgs[i])
      BY <2>1, <2>2 DEF Done
    <2>4. n <= Len(Readable) /\ \A i \in 1 .. n : Readable[i] = msgs[i]
      <3> HIDE DEF n
      <3> QED BY <2>2, <2>3, ReadableIsFirst
    <2> QED BY <2>2, <2>3, <2>4 DEF HandledIsSent
  <1> QED BY <1>1, Invariance, PTL

=============================================================================
