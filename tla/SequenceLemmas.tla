---------------------------- MODULE SequenceLemmas ----------------------------
(*****************************************************************************)
(* What is needed of sequences: what the channels of the daemon do to those  *)
(* that model them (a send appends, a receive takes the first), and what is  *)
(* concatenated or flattened of others, which are the texts that the parsers *)
(* read. What the library defines by recursion is unfolded by                *)
(* NatSetInduction.                                                          *)
(*****************************************************************************)
EXTENDS Integers, SequencesExt, FiniteSetTheorems, SequenceTheorems, TLAPS

(* The elements of a sequence that is extended.                              *)
LEMMA AppendElements ==
  ASSUME NEW S, NEW s \in Seq(S), NEW x \in S
  PROVE  /\ Append(s, x) \in Seq(S) /\ Len(s) \in Nat /\ Len(Append(s, x)) = Len(s) + 1
         /\ DOMAIN s = 1..Len(s) /\ DOMAIN Append(s, x) = 1..Len(s) + 1
         /\ \A i \in 1..Len(s) : Append(s, x)[i] = s[i]
         /\ Append(s, x)[Len(s) + 1] = x
         /\ {Append(s, x)[i] : i \in DOMAIN Append(s, x)} = {s[i] : i \in DOMAIN s} \cup {x}
<1>1. /\ Append(s, x) \in Seq(S) /\ Len(s) \in Nat
      /\ DOMAIN s = 1..Len(s) /\ DOMAIN Append(s, x) = 1..Len(s) + 1
      /\ Len(Append(s, x)) = Len(s) + 1
      /\ \A i \in 1..Len(s) : Append(s, x)[i] = s[i]
      /\ Append(s, x)[Len(s) + 1] = x
  OBVIOUS
<1>2. 1..Len(s) + 1 = 1..Len(s) \cup {Len(s) + 1}
  BY <1>1
<1> QED BY <1>1, <1>2

(* And those of a sequence whose first is taken.                             *)
LEMMA TailElements ==
  ASSUME NEW S, NEW s \in Seq(S), s # <<>>
  PROVE  /\ Tail(s) \in Seq(S) /\ Len(s) \in Nat \ {0} /\ Len(Tail(s)) = Len(s) - 1
         /\ DOMAIN s = 1..Len(s) /\ DOMAIN Tail(s) = 1..Len(s) - 1
         /\ \A i \in 1..Len(s) - 1 : Tail(s)[i] = s[i + 1]
         /\ \A i \in 1..Len(s) : s[i] \in S
         /\ Head(s) = s[1]
<1>1. Tail(s) \in Seq(S) /\ Len(s) \in Nat \ {0} /\ Len(Tail(s)) = Len(s) - 1
  OBVIOUS
<1>2. DOMAIN s = 1..Len(s) /\ DOMAIN Tail(s) = 1..Len(s) - 1
  BY <1>1
<1>3. \A i \in 1..Len(s) - 1 : Tail(s)[i] = s[i + 1]
  BY <1>1
<1> QED BY <1>1, <1>2, <1>3
-----------------------------------------------------------------------------
(* Numbers                                                                   *)

(* Induction over the natural numbers, as a fact about a set.                *)
LEMMA NatSetInduction ==
  ASSUME NEW S, 0 \in S, \A n \in Nat : n \in S => n + 1 \in S
  PROVE  Nat \subseteq S
<1> SUFFICES ASSUME Nat \ S # {} PROVE FALSE
  OBVIOUS
<1>1. PICK m \in Nat \ S : \A k \in Nat \ S : <<k, m>> \notin OpToRel(<, Nat)
  BY WFMin, NatLessThanWellFounded, Zenon
<1>2. \A k \in Nat \ S : ~(k < m)
  BY <1>1, Zenon DEF OpToRel
<1>3. m # 0 /\ m - 1 \in Nat
  OBVIOUS
<1>4. m - 1 \in S
  BY <1>2, <1>3
<1> QED BY <1>3, <1>4

(* A set of natural numbers has a least element.                             *)
LEMMA LeastIn ==
  ASSUME NEW S \in SUBSET Nat, S # {} PROVE Min(S) \in S
<1>1. PICK m \in S : \A k \in S : <<k, m>> \notin OpToRel(<, Nat)
  BY WFMin, NatLessThanWellFounded, Zenon
<1>2. \A k \in S : ~(k < m)
  BY <1>1, Zenon DEF OpToRel
<1>3. \A k \in S : m <= k
  BY <1>2
<1> QED BY <1>3 DEF Min

(* And one of numbers up to n a greatest.                                    *)
LEMMA GreatestIn ==
  ASSUME NEW n \in Nat, NEW S \in SUBSET (1..n), S # {}
  PROVE  Max(S) \in S
<1> DEFINE T == {n - i : i \in S}
<1>1. T \in SUBSET Nat /\ T # {}
  <2>1. \A i \in S : i \in Nat /\ n - i \in Nat
    OBVIOUS
  <2>2. \A t \in T : t \in Nat
    BY <2>1
  <2>3. PICK i : i \in S
    OBVIOUS
  <2>4. n - i \in T
    BY <2>3
  <2> HIDE DEF T
  <2> QED BY <2>2, <2>4
<1>2. PICK m \in T : \A k \in T : <<k, m>> \notin OpToRel(<, Nat)
  <2> HIDE DEF T
  <2> QED BY <1>1, WFMin, NatLessThanWellFounded, Zenon
<1>3. \A k \in T : ~(k < m)
  BY <1>1, <1>2, Zenon DEF OpToRel
<1>4. PICK x \in S : m = n - x
  OBVIOUS
<1>5. \A y \in S : x >= y
  <2> TAKE y \in S
  <2>1. n - y \in T
    OBVIOUS
  <2>2. n - x = m
    BY <1>4
  <2> HIDE DEF T
  <2>3. x \in Nat /\ y \in Nat
    OBVIOUS
  <2>4. ~(n - y < n - x)
    BY <1>3, <2>1, <2>2
  <2> QED BY <2>3, <2>4
<1> QED BY <1>5 DEF Max

(* A number between the values of an increasing function is between two that *)
(* follow each other.                                                        *)
LEMMA FieldAround ==
  ASSUME NEW n \in Nat, NEW e \in [0..n -> Nat], NEW a \in 0..n, NEW m \in Nat,
         e[a] <= m, m < e[n]
  PROVE  \E k \in a + 1..n : e[k - 1] <= m /\ m < e[k]
<1> DEFINE S == {j \in Nat : a + j <= n /\ m < e[a + j] =>
                   \E k \in a + 1..n : e[k - 1] <= m /\ m < e[k]}
<1>1. 0 \in S
  BY SMT
<1>2. ASSUME NEW j \in Nat, j \in S PROVE j + 1 \in S
  <2> SUFFICES ASSUME a + (j + 1) <= n, m < e[a + (j + 1)]
               PROVE  \E k \in a + 1..n : e[k - 1] <= m /\ m < e[k]
    OBVIOUS
  <2>1. CASE m < e[a + j]
    BY <1>2, <2>1
  <2>2. CASE e[a + j] <= m
    <3>1. a + (j + 1) \in a + 1..n /\ (a + (j + 1)) - 1 = a + j
      OBVIOUS
    <3> QED BY <2>2, <3>1
  <2>3. a + j \in 0..n
    OBVIOUS
  <2> QED BY <2>1, <2>2, <2>3
<1> HIDE DEF S
<1>3. Nat \subseteq S
  BY <1>1, <1>2, NatSetInduction
<1>4. n - a \in S /\ a + (n - a) = n
  BY <1>3
<1> QED BY <1>4 DEF S
-----------------------------------------------------------------------------
(* Sequences and their parts                                                 *)

(* A function on 1..n is a sequence of n elements.                           *)
LEMMA SeqOfLength ==
  ASSUME NEW S, NEW n \in Nat, NEW f \in [1..n -> S] PROVE f \in Seq(S) /\ Len(f) = n
OBVIOUS

(* A sequence of bounded length is a sequence.                               *)
LEMMA BoundedIsSeq ==
  ASSUME NEW S, NEW n, NEW s \in BoundedSeq(S, n) PROVE s \in Seq(S)
BY DEF BoundedSeq, SeqOf

(* Sequences that agree from m to n have the same part there.                *)
LEMMA SubSeqSame ==
  ASSUME NEW P, NEW s \in Seq(P), NEW t \in Seq(P), NEW m \in Nat, NEW n \in Int,
         \A i \in m..n : i \in 1..Len(s) /\ i \in 1..Len(t) /\ s[i] = t[i]
  PROVE  SubSeq(s, m, n) = SubSeq(t, m, n)
<1>1. \A i \in m..n : s[i] \in P /\ t[i] \in P
  BY ElementOfSeq
<1>2. /\ SubSeq(s, m, n) \in Seq(P) /\ Len(SubSeq(s, m, n)) = (IF m <= n THEN n - m + 1 ELSE 0)
      /\ \A i \in 1..n - m + 1 : SubSeq(s, m, n)[i] = s[m + i - 1]
  BY <1>1, SubSeqProperties
<1>3. /\ SubSeq(t, m, n) \in Seq(P) /\ Len(SubSeq(t, m, n)) = (IF m <= n THEN n - m + 1 ELSE 0)
      /\ \A i \in 1..n - m + 1 : SubSeq(t, m, n)[i] = t[m + i - 1]
  BY <1>1, SubSeqProperties
<1>4. \A i \in 1..Len(SubSeq(s, m, n)) : SubSeq(s, m, n)[i] = SubSeq(t, m, n)[i]
  <2> TAKE i \in 1..Len(SubSeq(s, m, n))
  <2>1. i \in 1..n - m + 1 /\ m + i - 1 \in m..n
    BY <1>2
  <2> QED BY <1>2, <1>3, <2>1
<1> QED BY <1>2, <1>3, <1>4, SeqEqual

(* The part of a text behind its first b pieces, up to the m-th.             *)
LEMMA PartElements ==
  ASSUME NEW P, NEW text \in Seq(P), NEW b \in Nat, NEW m \in Nat, b <= m, m <= Len(text)
  PROVE  /\ SubSeq(text, b + 1, m) \in Seq(P) /\ Len(SubSeq(text, b + 1, m)) = m - b
         /\ \A i \in 1..m - b : SubSeq(text, b + 1, m)[i] = text[b + i]
<1>1. PICK x : x = b + 1
  OBVIOUS
<1>2. x \in Int /\ m \in Int /\ \A i \in x..m : text[i] \in P
  BY <1>1, ElementOfSeq
<1>3. /\ SubSeq(text, x, m) \in Seq(P)
      /\ Len(SubSeq(text, x, m)) = (IF x <= m THEN m - x + 1 ELSE 0)
      /\ \A i \in 1..m - x + 1 : SubSeq(text, x, m)[i] = text[x + i - 1]
  BY <1>2, SubSeqProperties
<1>4. m - x + 1 = m - b /\ \A i \in 1..m - b : x + i - 1 = b + i
  BY <1>1
<1>5. Len(SubSeq(text, x, m)) = m - b
  BY <1>1, <1>3
<1> QED BY <1>1, <1>3, <1>4, <1>5

(* An element before a sequence.                                             *)
LEMMA ConcatTuple ==
  ASSUME NEW S, NEW x \in S, NEW s \in Seq(S)
  PROVE  /\ <<x>> \o s \in Seq(S) /\ Len(<<x>> \o s) = Len(s) + 1
         /\ (<<x>> \o s)[1] = x
         /\ \A i \in 1..Len(s) : (<<x>> \o s)[i + 1] = s[i]
OBVIOUS

(* A second element after a first one.                                       *)
LEMMA AppendOne ==
  ASSUME NEW X, NEW a \in X, NEW b \in X
  PROVE  /\ <<a>> \in Seq(X) /\ <<a>> # <<>> /\ Append(<<a>>, b) = <<a, b>>
         /\ <<a>> \o <<b>> = <<a, b>>
<1>1. <<a>> \in Seq(X) /\ <<a>> # <<>> /\ Append(<<a>>, b) = <<a, b>>
  <2>1. PICK s, p, q : s = <<a>> /\ p = <<a, b>> /\ q = Append(s, b)
    OBVIOUS
  <2>2. s \in Seq(X) /\ Len(s) = 1 /\ s[1] = a /\ s # <<>>
    BY <2>1
  <2>3. p \in Seq(X) /\ Len(p) = 2 /\ p[1] = a /\ p[2] = b
    BY <2>1
  <2>4. q \in Seq(X) /\ Len(q) = 2 /\ q[1] = a /\ q[2] = b
    BY <2>1, <2>2, AppendProperties
  <2>5. \A i \in 1..2 : q[i] = p[i]
    <3>1. \A i \in 1..2 : i = 1 \/ i = 2
      OBVIOUS
    <3> QED BY <2>3, <2>4, <3>1
  <2>6. q = p
    BY <2>3, <2>4, <2>5, SeqEqual
  <2> QED BY <2>1, <2>2, <2>6, Zenon
<1>2. Append(<<a>>, b) = <<a>> \o <<b>>
  BY <1>1, AppendIsConcat
<1> QED BY <1>1, <1>2, Zenon

\* Two sequences one after the other.
TwoParts(x, s, t) ==
  /\ Len(x) = Len(s) + Len(t)
  /\ \A i \in 1..Len(s) : x[i] = s[i]
  /\ \A i \in 1..Len(t) : x[Len(s) + i] = t[i]

(* A concatenation has the elements of the first, then those of the second.  *)
LEMMA ConcatParts ==
  ASSUME NEW A, NEW s \in Seq(A), NEW t \in Seq(A)
  PROVE  /\ s \o t \in Seq(A) /\ Len(s \o t) \in Nat /\ Len(s) \in Nat /\ Len(t) \in Nat
         /\ TwoParts(s \o t, s, t)
<1>1. PICK x : x = s \o t
  OBVIOUS
<1>2. /\ x \in Seq(A) /\ Len(x) = Len(s) + Len(t) /\ Len(s) \in Nat /\ Len(t) \in Nat
      /\ \A i \in 1..Len(s) + Len(t) : x[i] = IF i <= Len(s) THEN s[i] ELSE t[i - Len(s)]
  BY <1>1, ConcatProperties
<1>3. \A i \in 1..Len(s) : x[i] = s[i]
  BY <1>2
<1>4. \A i \in 1..Len(t) : x[Len(s) + i] = t[i]
  BY <1>2
<1> QED BY <1>1, <1>2, <1>3, <1>4 DEF TwoParts

\* Six sequences one after the other.
SixParts(x, h, b, v, m, g, z) ==
  /\ Len(x) = Len(h) + Len(b) + Len(v) + Len(m) + Len(g) + Len(z)
  /\ \A i \in 1..Len(h) : x[i] = h[i]
  /\ \A i \in 1..Len(b) : x[Len(h) + i] = b[i]
  /\ \A i \in 1..Len(v) : x[Len(h) + Len(b) + i] = v[i]
  /\ \A i \in 1..Len(m) : x[Len(h) + Len(b) + Len(v) + i] = m[i]
  /\ \A i \in 1..Len(g) : x[Len(h) + Len(b) + Len(v) + Len(m) + i] = g[i]
  /\ \A i \in 1..Len(z) : x[Len(h) + Len(b) + Len(v) + Len(m) + Len(g) + i] = z[i]

(* What is concatenated of six sequences has their elements, in this order.  *)
LEMMA ConcatSix ==
  ASSUME NEW A, NEW h \in Seq(A), NEW b \in Seq(A), NEW v \in Seq(A), NEW m \in Seq(A),
         NEW g \in Seq(A), NEW z \in Seq(A)
  PROVE  /\ h \o b \o v \o m \o g \o z \in Seq(A)
         /\ SixParts(h \o b \o v \o m \o g \o z, h, b, v, m, g, z)
<1>1. PICK x2, x3, x4, x5, x6 :
        x2 = h \o b /\ x3 = x2 \o v /\ x4 = x3 \o m /\ x5 = x4 \o g /\ x6 = x5 \o z
  OBVIOUS
<1>2. x2 \in Seq(A) /\ TwoParts(x2, h, b) /\ Len(h) \in Nat /\ Len(b) \in Nat
  BY <1>1, ConcatParts
<1>3. x3 \in Seq(A) /\ TwoParts(x3, x2, v) /\ Len(v) \in Nat
  BY <1>1, <1>2, ConcatParts
<1>4. x4 \in Seq(A) /\ TwoParts(x4, x3, m) /\ Len(m) \in Nat
  BY <1>1, <1>3, ConcatParts
<1>5. x5 \in Seq(A) /\ TwoParts(x5, x4, g) /\ Len(g) \in Nat
  BY <1>1, <1>4, ConcatParts
<1>6. x6 \in Seq(A) /\ TwoParts(x6, x5, z) /\ Len(z) \in Nat
  BY <1>1, <1>5, ConcatParts
<1>7. /\ Len(x2) = Len(h) + Len(b) /\ Len(x3) = Len(x2) + Len(v)
      /\ Len(x4) = Len(x3) + Len(m) /\ Len(x5) = Len(x4) + Len(g) /\ Len(x6) = Len(x5) + Len(z)
  BY <1>2, <1>3, <1>4, <1>5, <1>6 DEF TwoParts
<1>8. /\ \A i \in 1..Len(x5) : x6[i] = x5[i]
      /\ \A i \in 1..Len(x4) : x6[i] = x4[i]
      /\ \A i \in 1..Len(x3) : x6[i] = x3[i]
      /\ \A i \in 1..Len(x2) : x6[i] = x2[i]
  <2>1. \A i \in 1..Len(x5) : x6[i] = x5[i]
    BY <1>6 DEF TwoParts
  <2>2. \A i \in 1..Len(x4) : i \in 1..Len(x5) /\ x5[i] = x4[i]
    BY <1>2, <1>3, <1>4, <1>5, <1>7 DEF TwoParts
  <2>3. \A i \in 1..Len(x3) : i \in 1..Len(x4) /\ x4[i] = x3[i]
    BY <1>2, <1>3, <1>4, <1>7 DEF TwoParts
  <2>4. \A i \in 1..Len(x2) : i \in 1..Len(x3) /\ x3[i] = x2[i]
    BY <1>2, <1>3, <1>7 DEF TwoParts
  <2> QED BY <2>1, <2>2, <2>3, <2>4, Zenon
<1>9. \A i \in 1..Len(h) : x6[i] = h[i]
  BY <1>2, <1>7, <1>8 DEF TwoParts
<1>10. \A i \in 1..Len(b) : x6[Len(h) + i] = b[i]
  BY <1>2, <1>7, <1>8 DEF TwoParts
<1>11. \A i \in 1..Len(v) : x6[Len(x2) + i] = v[i]
  BY <1>2, <1>3, <1>7, <1>8 DEF TwoParts
<1>12. \A i \in 1..Len(m) : x6[Len(x3) + i] = m[i]
  BY <1>3, <1>4, <1>7, <1>8, SMTT(30) DEF TwoParts
<1>13. \A i \in 1..Len(g) : x6[Len(x4) + i] = g[i]
  BY <1>4, <1>5, <1>7, <1>8, SMTT(30) DEF TwoParts
<1>14. \A i \in 1..Len(z) : x6[Len(x5) + i] = z[i]
  BY <1>6 DEF TwoParts
<1>15. SixParts(x6, h, b, v, m, g, z)
  BY <1>7, <1>9, <1>10, <1>11, <1>12, <1>13, <1>14 DEF SixParts
<1> QED BY <1>1, <1>6, <1>15

\* The elements of a sequence are those of G.
Lists(lines, G) ==
  /\ lines \in Seq(G)
  /\ \A x \in G : \E i \in 1..Len(lines) : lines[i] = x

(* No element.                                                               *)
LEMMA ListsNothing == Lists(<<>>, {})
BY DEF Lists

(* One element.                                                              *)
LEMMA ListsOne ==
  ASSUME NEW x PROVE Lists(<<x>>, {x})
<1>1. PICK s : s = <<x>>
  OBVIOUS
<1>2. s \in Seq({x}) /\ Len(s) = 1 /\ s[1] = x
  BY <1>1
<1>3. \E i \in 1..Len(s) : s[i] = x
  BY <1>2
<1> QED BY <1>1, <1>2, <1>3 DEF Lists

(* Those of two sequences, one after the other.                              *)
LEMMA ListsBoth ==
  ASSUME NEW s, NEW G, Lists(s, G), NEW t, NEW H, Lists(t, H)
  PROVE  Lists(s \o t, G \cup H)
<1>1. PICK u : u = s \o t
  OBVIOUS
<1>2. s \in Seq(G \cup H) /\ t \in Seq(G \cup H)
  <2>1. s \in Seq(G) /\ t \in Seq(H)
    BY DEF Lists
  <2> QED BY <2>1, SeqMonotonic
<1>3. u \in Seq(G \cup H) /\ TwoParts(u, s, t) /\ Len(s) \in Nat /\ Len(t) \in Nat
  BY <1>1, <1>2, ConcatParts
<1>4. /\ Len(u) = Len(s) + Len(t)
      /\ \A i \in 1..Len(s) : u[i] = s[i] /\ i \in 1..Len(u)
      /\ \A i \in 1..Len(t) : u[Len(s) + i] = t[i] /\ Len(s) + i \in 1..Len(u)
  BY <1>3 DEF TwoParts
<1>5. ASSUME NEW x \in G PROVE \E i \in 1..Len(u) : u[i] = x
  <2>1. PICK i \in 1..Len(s) : s[i] = x
    BY <1>5 DEF Lists
  <2> QED BY <1>4, <2>1
<1>6. ASSUME NEW x \in H PROVE \E i \in 1..Len(u) : u[i] = x
  <2>1. PICK i \in 1..Len(t) : t[i] = x
    BY <1>6 DEF Lists
  <2> QED BY <1>4, <2>1
<1>7. \A x \in G \cup H : \E i \in 1..Len(u) : u[i] = x
  BY <1>5, <1>6
<1> QED BY <1>1, <1>3, <1>7 DEF Lists
-----------------------------------------------------------------------------
(* Sequences that are flattened                                              *)

\* f is the function by which the library defines FlattenSeq, up to n.
IsFlattening(f, seqs, n) ==
  f = [i \in 1..n |-> IF i = 1 THEN seqs[i] ELSE f[i - 1] \o seqs[i]]

(* What that function is at a place.                                         *)
LEMMA FlatteningAt ==
  ASSUME NEW seqs, NEW n, NEW f, IsFlattening(f, seqs, n)
  PROVE  \A i \in 1..n : f[i] = IF i = 1 THEN seqs[i] ELSE f[i - 1] \o seqs[i]
<1> DEFINE g == [i \in 1..n |-> IF i = 1 THEN seqs[i] ELSE f[i - 1] \o seqs[i]]
<1>1. f = g
  BY Zenon DEF IsFlattening
<1>2. \A i \in 1..n : g[i] = IF i = 1 THEN seqs[i] ELSE f[i - 1] \o seqs[i]
  OBVIOUS
<1> HIDE DEF g
<1> QED BY <1>1, <1>2

(* There is such a function, however many sequences there are.               *)
LEMMA FlatteningExists ==
  ASSUME NEW seqs PROVE \A n \in Nat : \E f : IsFlattening(f, seqs, n)
<1> DEFINE S == {n \in Nat : \E f : IsFlattening(f, seqs, n)}
<1>1. 0 \in S
  <2>1. IsFlattening(<<>>, seqs, 0)
    BY DEF IsFlattening
  <2> QED BY <2>1
<1>2. ASSUME NEW n \in Nat, n \in S PROVE n + 1 \in S
  <2>1. PICK f : IsFlattening(f, seqs, n)
    BY <1>2
  <2> DEFINE g == [i \in 1..n + 1 |-> IF i = 1 THEN seqs[i] ELSE f[i - 1] \o seqs[i]]
  <2>2. \A i \in 1..n : g[i] = f[i]
    BY <2>1, FlatteningAt
  <2> HIDE DEF g
  <2>3. \A i \in 1..n + 1 : i # 1 => g[i - 1] = f[i - 1]
    BY <2>2
  <2> USE DEF g
  <2> HIDE DEF g
  <2>4. IsFlattening(g, seqs, n + 1)
    BY <2>3 DEF IsFlattening, g
  <2> QED BY <2>4
<1> HIDE DEF S
<1>3. Nat \subseteq S
  BY <1>1, <1>2, NatSetInduction
<1> QED BY <1>3 DEF S

(* And only one: a longer one agrees with it.                                *)
LEMMA FlatteningUnique ==
  ASSUME NEW seqs, NEW m \in Nat, NEW n \in Nat, m <= n, NEW f, NEW g,
         IsFlattening(f, seqs, m), IsFlattening(g, seqs, n)
  PROVE  \A i \in 1..m : f[i] = g[i]
<1> DEFINE S == {k \in Nat : k \in 1..m => f[k] = g[k]}
<1>1. 0 \in S
  OBVIOUS
<1>2. ASSUME NEW k \in Nat, k \in S PROVE k + 1 \in S
  <2>1. \A i \in 1..m : /\ f[i] = IF i = 1 THEN seqs[i] ELSE f[i - 1] \o seqs[i]
                        /\ g[i] = IF i = 1 THEN seqs[i] ELSE g[i - 1] \o seqs[i]
    BY FlatteningAt
  <2> QED BY <1>2, <2>1
<1> HIDE DEF S
<1>3. Nat \subseteq S
  BY <1>1, <1>2, NatSetInduction
<1> QED BY <1>3 DEF S

(* FlattenSeq is the last value of such a function.                          *)
LEMMA FlattenSeqIs ==
  ASSUME NEW seqs, Len(seqs) \in Nat \ {0}
  PROVE  \E f : IsFlattening(f, seqs, Len(seqs)) /\ FlattenSeq(seqs) = f[Len(seqs)]
<1> DEFINE f == CHOOSE f : IsFlattening(f, seqs, Len(seqs))
<1>1. IsFlattening(f, seqs, Len(seqs))
  BY FlatteningExists
<1>2. FlattenSeq(seqs) = f[Len(seqs)]
  BY DEF FlattenSeq, IsFlattening
<1> HIDE DEF f
<1> QED BY <1>1, <1>2

(* Flattening one sequence gives it back.                                    *)
LEMMA FlattenOne ==
  ASSUME NEW s PROVE FlattenSeq(<<s>>) = s
<1> DEFINE seqs == <<s>>
<1>0. Len(seqs) = 1 /\ seqs[1] = s
  OBVIOUS
<1> HIDE DEF seqs
<1>1. PICK f : IsFlattening(f, seqs, Len(seqs)) /\ FlattenSeq(seqs) = f[Len(seqs)]
  <2>1. Len(seqs) \in Nat \ {0}
    BY <1>0
  <2> QED BY <2>1, FlattenSeqIs
<1>2. f[1] = s
  BY <1>0, <1>1, FlatteningAt
<1> QED BY <1>1, <1>2 DEF seqs

(* One more sequence comes after what was flattened.                         *)
LEMMA FlattenAppend ==
  ASSUME NEW S, NEW seqs \in Seq(S), seqs # <<>>, NEW s \in S
  PROVE  FlattenSeq(Append(seqs, s)) = FlattenSeq(seqs) \o s
<1> DEFINE longer == Append(seqs, s)
           n == Len(seqs)
<1>1. /\ n \in Nat \ {0} /\ Len(longer) = n + 1 /\ longer[n + 1] = s
      /\ \A i \in 1..n : longer[i] = seqs[i]
  OBVIOUS
<1> HIDE DEF longer, n
<1>2. PICK f : IsFlattening(f, seqs, n) /\ FlattenSeq(seqs) = f[n]
  BY <1>1, FlattenSeqIs DEF n
<1>3. PICK g : IsFlattening(g, longer, n + 1) /\ FlattenSeq(longer) = g[n + 1]
  BY <1>1, FlattenSeqIs
<1>4. g[n + 1] = g[n] \o s
  <2>1. n + 1 \in 1..n + 1 /\ n + 1 # 1 /\ (n + 1) - 1 = n
    BY <1>1
  <2>2. \A i \in 1..n + 1 : g[i] = IF i = 1 THEN longer[i] ELSE g[i - 1] \o longer[i]
    BY <1>3, FlatteningAt
  <2> QED BY <1>1, <2>1, <2>2
<1> DEFINE h == [i \in 1..n |-> g[i]]
<1>5. IsFlattening(h, seqs, n)
  <2>1. \A i \in 1..n : g[i] = IF i = 1 THEN seqs[i] ELSE g[i - 1] \o seqs[i]
    BY <1>1, <1>3, FlatteningAt
  <2>2. \A i \in 1..n : i # 1 => h[i - 1] = g[i - 1]
    BY <1>1
  <2>3. h = [i \in 1..n |-> IF i = 1 THEN seqs[i] ELSE g[i - 1] \o seqs[i]]
    BY <2>1
  <2> HIDE DEF h
  <2>4. h = [i \in 1..n |-> IF i = 1 THEN seqs[i] ELSE h[i - 1] \o seqs[i]]
    BY <2>2, <2>3
  <2> QED BY <2>4, Zenon DEF IsFlattening
<1>6. f[n] = h[n]
  BY <1>1, <1>2, <1>5, FlatteningUnique
<1>7. f[n] = g[n]
  BY <1>1, <1>6
<1> QED BY <1>2, <1>3, <1>4, <1>7 DEF longer

\* A sequence as the sequence of its parts of one element.
Singles(s) == [i \in DOMAIN s |-> <<s[i]>>]

(* One element more is one part more.                                        *)
LEMMA SinglesAppend ==
  ASSUME NEW X, NEW s \in Seq(X), NEW x \in X
  PROVE  /\ Singles(s) \in Seq(Seq(X)) /\ Len(Singles(s)) = Len(s)
         /\ Singles(Append(s, x)) = Append(Singles(s), <<x>>)
<1>1. PICK n, Y, t, one, u, v, w :
        /\ n = Len(s) /\ Y = Seq(X) /\ t = Append(s, x) /\ one = <<x>>
        /\ u = Singles(s) /\ v = Singles(t) /\ w = Append(u, one)
  OBVIOUS
<1>2. /\ n \in Nat /\ DOMAIN s = 1..n /\ DOMAIN t = 1..n + 1 /\ Len(t) = n + 1
      /\ \A i \in 1..n : t[i] = s[i] /\ s[i] \in X
      /\ t[n + 1] = x
  BY <1>1
<1>3. \A y \in X : <<y>> \in Y
  BY <1>1
<1>4. /\ DOMAIN u = 1..n /\ \A i \in 1..n : u[i] = <<s[i]>>
      /\ DOMAIN v = 1..n + 1 /\ \A i \in 1..n + 1 : v[i] = <<t[i]>>
  BY <1>1, <1>2 DEF Singles
<1>5. u \in Seq(Y) /\ Len(u) = n
  <2>1. \A i \in 1..n : u[i] \in Y
    BY <1>2, <1>3, <1>4
  <2>2. u = [i \in DOMAIN u |-> u[i]]
    BY <1>1 DEF Singles
  <2>3. u \in [1..n -> Y]
    BY <1>4, <2>1, <2>2
  <2> QED BY <1>2, <2>3, SeqOfLength
<1>6. /\ w \in Seq(Y) /\ Len(w) = n + 1 /\ w[n + 1] = one
      /\ \A i \in 1..n : w[i] = u[i]
  <2>1. one \in Y
    BY <1>1, <1>3
  <2> QED BY <1>1, <1>5, <2>1, AppendProperties
<1>7. \A i \in 1..n + 1 : v[i] = w[i] /\ v[i] \in Y
  <2> TAKE i \in 1..n + 1
  <2>1. i \in 1..n \/ i = n + 1
    BY <1>2
  <2>2. v[n + 1] = one /\ one \in Y
    BY <1>1, <1>2, <1>3, <1>4
  <2>3. \A j \in 1..n : j \in 1..n + 1
    BY <1>2
  <2> QED BY <1>2, <1>3, <1>4, <1>6, <2>1, <2>2, <2>3, Zenon
<1>8. v \in Seq(Y) /\ Len(v) = n + 1
  <2>1. v = [i \in DOMAIN v |-> v[i]]
    BY <1>1 DEF Singles
  <2>2. v \in [1..n + 1 -> Y]
    BY <1>4, <1>7, <2>1
  <2>3. n + 1 \in Nat
    BY <1>2
  <2> QED BY <2>2, <2>3, SeqOfLength
<1>9. v = w
  BY <1>6, <1>7, <1>8, SeqEqual
<1> QED BY <1>1, <1>5, <1>9

(* Flattening these gives the sequence back.                                 *)
LEMMA FlattenSingles ==
  ASSUME NEW X, NEW s \in Seq(X) PROVE FlattenSeq(Singles(s)) = s
<1> DEFINE S == {n \in Nat : \A t \in Seq(X) : Len(t) = n => FlattenSeq(Singles(t)) = t}
<1>1. 0 \in S
  <2> SUFFICES ASSUME NEW t \in Seq(X), Len(t) = 0 PROVE FlattenSeq(Singles(t)) = t
    OBVIOUS
  <2>1. t = <<>>
    BY EmptySeq
  <2>2. Singles(<<>>) = <<>>
    BY DEF Singles
  <2>3. FlattenSeq(<<>>) = <<>>
    BY DEF FlattenSeq
  <2> QED BY <2>1, <2>2, <2>3, Zenon
<1>2. ASSUME NEW n \in Nat, n \in S PROVE n + 1 \in S
  <2> SUFFICES ASSUME NEW t \in Seq(X), Len(t) = n + 1 PROVE FlattenSeq(Singles(t)) = t
    <3>1. n + 1 \in Nat
      OBVIOUS
    <3> QED BY <3>1, Zenon
  <2>1. PICK u \in Seq(X), x \in X : t = Append(u, x)
    <3>1. t # <<>>
      OBVIOUS
    <3> QED BY <3>1, SequenceEmptyOrAppend, Zenon
  <2>2. Len(u) = n
    BY <2>1
  <2>3. FlattenSeq(Singles(u)) = u
    BY <1>2, <2>2
  <2>4. PICK v, one : v = Singles(u) /\ one = <<x>>
    OBVIOUS
  <2>5. v \in Seq(Seq(X)) /\ Len(v) = n /\ Singles(t) = Append(v, one)
    BY <2>1, <2>2, <2>4, SinglesAppend
  <2>6. one \in Seq(X) /\ t = u \o one
    BY <2>1, <2>4, AppendIsConcat
  <2>7. CASE u = <<>>
    <3>1. v = <<>>
      BY <2>2, <2>5, <2>7
    <3>2. Append(v, one) = <<one>>
      BY <3>1
    <3>3. <<>> \o one = one
      BY <2>6, ConcatEmptySeq
    <3> QED BY <2>5, <2>6, <2>7, <3>2, <3>3, FlattenOne
  <2>8. CASE u # <<>>
    <3>1. v # <<>>
      BY <2>2, <2>5, <2>8
    <3>2. FlattenSeq(Append(v, one)) = FlattenSeq(v) \o one
      BY <2>5, <2>6, <3>1, FlattenAppend
    <3> QED BY <2>3, <2>4, <2>5, <2>6, <3>2, Zenon
  <2> QED BY <2>7, <2>8
<1> HIDE DEF S
<1>3. Nat \subseteq S
  BY <1>1, <1>2, NatSetInduction
<1>4. Len(s) \in Nat
  OBVIOUS
<1> QED BY <1>3, <1>4 DEF S

(* What is flattened of sequences over a set is a sequence over it.          *)
LEMMA FlattenElements ==
  ASSUME NEW A, NEW seqs \in Seq(Seq(A)) PROVE FlattenSeq(seqs) \in Seq(A)
<1>1. PICK n, X : n = Len(seqs) /\ X = Seq(A)
  OBVIOUS
<1>2. n \in Nat /\ \A i \in 1..n : seqs[i] \in X
  BY <1>1, ElementOfSeq
<1>3. CASE n = 0
  <2>1. seqs = <<>>
    BY <1>1, <1>3, EmptySeq
  <2>2. FlattenSeq(seqs) = <<>>
    BY <1>1, <1>3, <2>1 DEF FlattenSeq
  <2> QED BY <2>2
<1>4. CASE n # 0
  <2>1. PICK f : IsFlattening(f, seqs, n) /\ FlattenSeq(seqs) = f[n]
    <3>1. Len(seqs) \in Nat \ {0}
      BY <1>1, <1>2, <1>4
    <3> QED BY <1>1, <3>1, FlattenSeqIs
  <2>2. \A i \in 1..n : f[i] = IF i = 1 THEN seqs[i] ELSE f[i - 1] \o seqs[i]
    BY <2>1, FlatteningAt
  <2>3. \A s \in X, t \in X : s \o t \in X
    BY <1>1, ConcatProperties
  <2> DEFINE S == {i \in Nat : i + 1 \in 1..n => f[i + 1] \in X}
  <2>4. 0 \in S
    <3>1. 0 \in Nat /\ 0 + 1 = 1
      OBVIOUS
    <3>2. 1 \in 1..n
      BY <1>2, <1>4
    <3>3. f[1] = seqs[1] /\ seqs[1] \in X
      BY <1>2, <2>2, <3>2
    <3> QED BY <3>1, <3>3
  <2>5. ASSUME NEW i \in Nat, i \in S PROVE i + 1 \in S
    <3> SUFFICES ASSUME (i + 1) + 1 \in 1..n PROVE f[(i + 1) + 1] \in X
      OBVIOUS
    <3>1. PICK j, k : j = i + 1 /\ k = j + 1
      OBVIOUS
    <3>2. j \in 1..n /\ k \in 1..n /\ k # 1 /\ k - 1 = j
      BY <1>2, <3>1
    <3>3. f[j] \in X /\ seqs[k] \in X /\ f[k] = f[j] \o seqs[k]
      BY <1>2, <2>2, <2>5, <3>1, <3>2
    <3> QED BY <2>3, <3>1, <3>3
  <2> HIDE DEF S
  <2>6. Nat \subseteq S
    BY <2>4, <2>5, NatSetInduction
  <2>7. n - 1 \in S /\ (n - 1) + 1 = n /\ n \in 1..n
    BY <1>2, <1>4, <2>6
  <2>8. f[n] \in X
    BY <2>7 DEF S
  <2> QED BY <1>1, <2>1, <2>8
<1> QED BY <1>3, <1>4
-----------------------------------------------------------------------------
(* Texts of lines                                                            *)

\* line is the part of text that begins after b.
LineAt(text, b, line) ==
  /\ b \in Nat /\ b + Len(line) <= Len(text)
  /\ \A j \in 1..Len(line) : text[b + j] = line[j]

\* Where the n lines of a text are: o[k] is the end of line k.
IsText(text, lines, n, o) ==
  /\ o \in [0..n -> Nat] /\ o[0] = 0 /\ o[n] = Len(text)
  /\ \A k \in 1..n : o[k] = o[k - 1] + Len(lines[k]) /\ LineAt(text, o[k - 1], lines[k])

(* A line of a text is one of every longer text.                             *)
LEMMA LineStays ==
  ASSUME NEW w, NEW u, NEW t, NEW b, NEW line, LineAt(w, b, line), TwoParts(u, w, t),
         Len(w) \in Nat, Len(t) \in Nat, Len(line) \in Nat
  PROVE  LineAt(u, b, line)
<1>1. /\ b \in Nat /\ b + Len(line) <= Len(w) /\ \A j \in 1..Len(line) : w[b + j] = line[j]
  BY DEF LineAt
<1>2. Len(u) = Len(w) + Len(t) /\ \A j \in 1..Len(w) : u[j] = w[j]
  BY DEF TwoParts
<1>3. \A j \in 1..Len(line) : b + j \in 1..Len(w)
  BY <1>1
<1>4. \A j \in 1..Len(line) : u[b + j] = line[j]
  BY <1>1, <1>2, <1>3
<1> QED BY <1>1, <1>2, <1>4 DEF LineAt

(* Lines that are flattened are a text, and each has its place in it.        *)
LEMMA LinesOfText ==
  ASSUME NEW A, NEW lines \in Seq(Seq(A)), lines # <<>>
  PROVE  /\ FlattenSeq(lines) \in Seq(A)
         /\ \E o : IsText(FlattenSeq(lines), lines, Len(lines), o)
<1>1. PICK n, X : n = Len(lines) /\ X = Seq(A)
  OBVIOUS
<1>2. n \in Nat \ {0} /\ \A k \in 1..n : lines[k] \in X
  BY <1>1, ElementOfSeq, EmptySeq
<1>3. PICK f : IsFlattening(f, lines, n) /\ FlattenSeq(lines) = f[n]
  <2>1. Len(lines) \in Nat \ {0}
    BY <1>1, <1>2
  <2> QED BY <1>1, <2>1, FlattenSeqIs
<1>4. \A k \in 1..n : f[k] = IF k = 1 THEN lines[k] ELSE f[k - 1] \o lines[k]
  BY <1>3, FlatteningAt
<1>5. \A s \in X, t \in X : /\ s \o t \in X /\ Len(s) \in Nat /\ Len(t) \in Nat
                            /\ TwoParts(s \o t, s, t)
  BY <1>1, ConcatParts
<1> DEFINE Upto(k, o) == /\ o \in [0..k -> Nat] /\ o[0] = 0 /\ o[k] = Len(f[k]) /\ f[k] \in X
                         /\ \A j \in 1..k : /\ o[j] = o[j - 1] + Len(lines[j])
                                            /\ LineAt(f[k], o[j - 1], lines[j])
           S == {i \in Nat : i + 1 \in 1..n => \E o : Upto(i + 1, o)}
<1>6. 0 \in S
  <2>1. PICK s : s = lines[1]
    OBVIOUS
  <2>2. 1 \in 1..n /\ f[1] = s /\ s \in X /\ Len(s) \in Nat
    BY <1>2, <1>4, <1>5, <2>1
  <2>3. PICK o : o = [j \in 0..1 |-> IF j = 0 THEN 0 ELSE Len(s)]
    OBVIOUS
  <2>4. o \in [0..1 -> Nat] /\ o[0] = 0 /\ o[1] = Len(s)
    BY <2>2, <2>3
  <2>5. LineAt(s, 0, s)
    BY <2>2 DEF LineAt
  <2>6. \A j \in 1..1 : j = 1 /\ j - 1 = 0
    OBVIOUS
  <2>7. Upto(1, o)
    <3>1. o[1] = 0 + Len(s)
      BY <2>2, <2>4
    <3> QED BY <2>1, <2>2, <2>4, <2>5, <2>6, <3>1, Zenon
  <2>8. 0 \in Nat /\ 0 + 1 = 1
    OBVIOUS
  <2> HIDE DEF Upto
  <2> QED BY <2>7, <2>8
<1>7. ASSUME NEW i \in Nat, i \in S PROVE i + 1 \in S
  <2> HIDE DEF Upto
  <2> SUFFICES ASSUME (i + 1) + 1 \in 1..n PROVE \E o : Upto((i + 1) + 1, o)
    OBVIOUS
  <2> USE DEF Upto
  <2>1. PICK k, m : k = i + 1 /\ m = k + 1
    OBVIOUS
  <2>2. k \in 1..n /\ m \in 1..n /\ m # 1 /\ m - 1 = k /\ k \in Nat /\ k # 0
    BY <1>2, <2>1
  <2>3. PICK p : Upto(k, p)
    BY <1>7, <2>1, <2>2
  <2>4. PICK line : line = lines[m]
    OBVIOUS
  <2>5. /\ line \in X /\ f[k] \in X /\ f[m] = f[k] \o line /\ f[m] \in X
        /\ TwoParts(f[m], f[k], line) /\ Len(line) \in Nat /\ Len(f[k]) \in Nat
    BY <1>2, <1>4, <1>5, <2>2, <2>3, <2>4
  <2>6. PICK o : o = [j \in 0..m |-> IF j = m THEN p[k] + Len(line) ELSE p[j]]
    OBVIOUS
  <2>7. /\ p \in [0..k -> Nat] /\ p[0] = 0 /\ p[k] = Len(f[k])
        /\ \A j \in 1..k : /\ p[j] = p[j - 1] + Len(lines[j])
                           /\ LineAt(f[k], p[j - 1], lines[j])
    BY <2>3
  <2>8. \A j \in 0..m : o[j] = IF j = m THEN p[k] + Len(line) ELSE p[j]
    BY <2>6
  <2>9. \A j \in 0..k : o[j] = p[j]
    BY <2>1, <2>2, <2>8
  <2>10. o[m] = p[k] + Len(line)
    BY <2>2, <2>8
  <2>11. o \in [0..m -> Nat] /\ o[0] = 0
    <3>1. p[k] \in Nat
      BY <2>5, <2>7
    <3>2. \A j \in 0..m : j = m \/ j \in 0..k
      BY <2>1, <2>2
    <3>3. \A j \in 0..m : o[j] \in Nat
      <4> TAKE j \in 0..m
      <4>1. CASE j = m
        <5>1. o[j] = p[k] + Len(line)
          BY <2>10, <4>1
        <5> QED BY <2>5, <3>1, <5>1
      <4>2. CASE j # m
        BY <2>7, <2>9, <3>2, <4>2
      <4> QED BY <4>1, <4>2
    <3>4. 0 \in 0..k
      BY <2>2
    <3> QED BY <2>6, <2>7, <2>8, <2>9, <3>3, <3>4
  <2>12. /\ Len(f[m]) = Len(f[k]) + Len(line)
         /\ \A j \in 1..Len(f[k]) : f[m][j] = f[k][j]
         /\ \A j \in 1..Len(line) : f[m][Len(f[k]) + j] = line[j]
    BY <2>5 DEF TwoParts
  <2>13. ASSUME NEW j \in 1..m
         PROVE  o[j] = o[j - 1] + Len(lines[j]) /\ LineAt(f[m], o[j - 1], lines[j])
    <3>1. CASE j = m
      <4>1. o[j - 1] = p[k] /\ lines[j] = line
        BY <2>2, <2>4, <2>9, <3>1
      <4>2. LineAt(f[m], p[k], line)
        BY <2>5, <2>7, <2>12 DEF LineAt
      <4> QED BY <2>10, <3>1, <4>1, <4>2
    <3>2. CASE j # m
      <4>1. j \in 1..k /\ j \in 0..k /\ j - 1 \in 0..k
        BY <2>1, <2>2, <3>2
      <4>2. PICK b, s : b = p[j - 1] /\ s = lines[j]
        OBVIOUS
      <4>3. s \in X /\ Len(s) \in Nat
        <5>1. j \in 1..n
          <6>1. m <= n /\ k < m /\ j <= k /\ j \in Nat /\ 1 <= j
            BY <1>2, <2>1, <2>2, <4>1
          <6> QED BY <1>2, <2>2, <6>1
        <5> QED BY <1>2, <1>5, <4>2, <5>1
      <4>4. LineAt(f[k], b, s)
        BY <2>7, <4>1, <4>2
      <4>5. LineAt(f[m], b, s)
        BY <2>5, <4>3, <4>4, LineStays
      <4> QED BY <2>7, <2>9, <4>1, <4>2, <4>5
    <3> QED BY <3>1, <3>2
  <2>14. o[m] = Len(f[m])
    BY <2>7, <2>10, <2>12
  <2>15. Upto(m, o)
    BY <2>5, <2>11, <2>13, <2>14
  <2> HIDE DEF Upto
  <2> QED BY <2>1, <2>15
<1> HIDE DEF S
<1>8. Nat \subseteq S
  BY <1>6, <1>7, NatSetInduction
<1>9. \E o : Upto(n, o)
  <2>1. n - 1 \in S /\ (n - 1) + 1 = n /\ n \in 1..n
    BY <1>2, <1>8
  <2> HIDE DEF Upto
  <2> QED BY <2>1 DEF S
<1>10. PICK o : Upto(n, o)
  BY <1>9
<1>11. IsText(f[n], lines, n, o) /\ f[n] \in X
  BY <1>10, Zenon DEF IsText
<1> QED BY <1>1, <1>3, <1>11

(* Every place of a text, up to the end of a line, is in one of its lines.   *)
LEMMA PlaceInLine ==
  ASSUME NEW text, NEW lines, NEW n \in Nat, NEW o, IsText(text, lines, n, o),
         \A k \in 1..n : Len(lines[k]) \in Nat,
         NEW c \in 0..n, NEW i \in 1..o[c]
  PROVE  \E k \in 1..c : \E j \in 1..Len(lines[k]) : i = o[k - 1] + j
<1>1. /\ o \in [0..n -> Nat] /\ o[0] = 0
      /\ \A k \in 1..n : o[k] = o[k - 1] + Len(lines[k])
  BY DEF IsText
<1> DEFINE p == [k \in 0..c |-> o[k]]
<1>2. /\ p \in [0..c -> Nat] /\ c \in Nat /\ 0 \in 0..c /\ i - 1 \in Nat
      /\ p[0] <= i - 1 /\ i - 1 < p[c] /\ \A k \in 0..c : p[k] = o[k]
  BY <1>1
<1> HIDE DEF p
<1>3. PICK k \in 0 + 1..c : p[k - 1] <= i - 1 /\ i - 1 < p[k]
  <2>1. PICK m, z : m = i - 1 /\ z = 0
    OBVIOUS
  <2>2. \E k \in z + 1..c : p[k - 1] <= m /\ m < p[k]
    BY <1>2, <2>1, FieldAround
  <2> QED BY <2>1, <2>2
<1>4. k \in 1..c /\ k \in 1..n /\ k - 1 \in 0..c /\ k \in 0..c
  BY <1>2
<1>5. PICK b, j, e : b = o[k - 1] /\ e = o[k] /\ j = i - b
  OBVIOUS
<1>6. b <= i - 1 /\ i - 1 < e /\ e = b + Len(lines[k]) /\ b \in Nat /\ Len(lines[k]) \in Nat
  BY <1>1, <1>2, <1>3, <1>4, <1>5
<1>7. j \in 1..Len(lines[k]) /\ i = b + j
  BY <1>5, <1>6, SMTT(30)
<1> QED BY <1>4, <1>5, <1>7
=============================================================================
